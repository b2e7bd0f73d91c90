--------------------------- MODULE MCContainment ---------------------------
(* An instance of Containment for TLC. *)
EXTENDS Containment

CONSTANT shell

OneTool == {shell}
NoAgent == {}
ShortAndLong == {0, 1, 3}
=============================================================================
