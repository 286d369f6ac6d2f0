--------------------------- MODULE MCNodeSelection ---------------------------
(* A small instance of NodeSelection for TLC.                              *)
EXTENDS NodeSelection

CONSTANT n1

\* A node list with "direct" in it.
WithDirect == <<n1, Direct>>
=============================================================================
