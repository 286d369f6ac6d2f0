---------------------------- MODULE SessionLife ----------------------------
(***************************************************************************)
(* What the session manager promises to the rest of the proxy, with no     *)
(* goroutine in sight: a client address has at most one live session, a    *)
(* session is opened once, leaves once, possibly together with others, and *)
(* is finished (handed to OnSessionEnd) exactly once after it has left.    *)
(***************************************************************************)
EXTENDS Integers

CONSTANTS Addrs, SessionIDs, None

VARIABLES
    live,      \* [Addrs -> SessionIDs \cup {None}]
    leaving,   \* sessions that have left and are not finished
    finished   \* [SessionIDs -> Nat]: times a session was finished

vars == <<live, leaving, finished>>

Init ==
    /\ live = [a \in Addrs |-> None]
    /\ leaving = {}
    /\ finished = [s \in SessionIDs |-> 0]

Fresh(s) ==
    (\A a \in Addrs : live[a] # s) /\ s \notin leaving /\ finished[s] = 0

Open(a, s) ==
    /\ live[a] = None
    /\ Fresh(s)
    /\ live' = [live EXCEPT ![a] = s]
    /\ UNCHANGED <<leaving, finished>>

Leave(out) ==
    /\ out \subseteq {live[a] : a \in Addrs} \ {None}
    /\ live' = [a \in Addrs |-> IF live[a] \in out THEN None ELSE live[a]]
    /\ leaving' = leaving \cup out
    /\ UNCHANGED finished

Finish(s) ==
    /\ s \in leaving
    /\ leaving' = leaving \ {s}
    /\ finished' = [finished EXCEPT ![s] = @ + 1]
    /\ UNCHANGED live

Next ==
    \/ \E a \in Addrs, s \in SessionIDs : Open(a, s)
    \/ \E out \in SUBSET SessionIDs : Leave(out)
    \/ \E s \in SessionIDs : Finish(s)

Spec == Init /\ [][Next]_vars
=============================================================================
