------------------------------ MODULE MCSignIn ------------------------------
(* Instances of SignIn for TLC. *)
EXTENDS SignIn

CONSTANTS ann, s1, v1, v2

OneEmail == {ann}
OneStart == {s1}
OneVisit == {v1}
TwoVisits == {v1, v2}
=============================================================================
