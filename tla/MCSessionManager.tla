-------------------------- MODULE MCSessionManager --------------------------
(* Small instances of SessionManager for TLC.                              *)
EXTENDS SessionManager, TLC

CONSTANT v1

\* Both workers serve one listener.
OneListener == [w \in Workers |-> v1]

\* Sound for safety when all workers serve one listener.
Symmetry == Permutations(SessionIDs) \cup Permutations(Workers)

\* v1 relies on the default timeout, any other server has its own.
Overrides == [v \in Servers |-> IF v = v1 THEN 0 ELSE 2]
=============================================================================
