--------------------------- MODULE MCOutboundCache ---------------------------
(* Small instances of OutboundCache for TLC.                               *)
EXTENDS OutboundCache, TLC

\* Dialers and instances are interchangeable.
Perms == Permutations(Dialers) \cup Permutations(Insts)
=============================================================================
