------------------------ MODULE MCSessionPersistence ------------------------
(* Small instances of SessionPersistence for TLC.                          *)
EXTENDS SessionPersistence, TLC

CONSTANTS s1, s2, s3, s4, p1

\* s1 and s2 belong to one player, s3 was never identified, s4 only by UUID.
Names == (s1 :> p1) @@ (s2 :> p1) @@ (s3 :> Nobody) @@ (s4 :> Nobody)

SomeUUIDs == Sessions \cap {s1, s4}

\* The longest session started first and may end last.
Starts == (s1 :> 1) @@ (s2 :> 2) @@ (s3 :> 3) @@ (s4 :> 4)

NamesIn == [s \in Sessions |-> Names[s]]

StartsIn == [s \in Sessions |-> Starts[s]]
=============================================================================
