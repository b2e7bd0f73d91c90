----------------------------- MODULE MCApproval -----------------------------
(* Instances of Approval for TLC. *)
EXTENDS Approval

CONSTANTS c1, r1, r2, r3

OneCall == {c1}
ThreeResolvers == {r1, r2, r3}

\* 0 is a legal PHASEONE_APPROVAL_TIMEOUT_MS; unequal values meet a policy
\* reloaded between the two reads of the timeout.
ShortAndLong == {0, 1, 2}
=============================================================================
