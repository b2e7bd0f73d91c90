----------------------------- MODULE MCResponse -----------------------------
(* An instance of Response for TLC.  A tick is the least of the periods in   *)
(* play.                                                                     *)
EXTENDS Response, TLC

CONSTANTS e1, e2, e3, k1, k2, w1, soft, hard, burst, single, t1, t2

\* The worker: two requests to run a cycle, one to process an event, and three
\* events; e1 concerns both playbooks, matching throws on e2.
ThreeEvents == {e1, e2, e3}
OnePoison == {e2}
TwoCycles == {k1, k2}
OneProcessor == {w1}
SomeConcerns == (e1 :> {soft, hard}) @@ (e2 :> {}) @@ (e3 :> {soft})

\* soft contains, hard hardens at once and then asks a person.
SoftAndHard == <<soft, hard>>
SomeActions == (soft :> <<"contain">>) @@ (hard :> <<"harden", "ask">>)

\* The matcher: two requests that overlap, and events of two kinds; "plain" meets
\* the conditions of single only, "rule" those of both.
Both == {burst, single}
TwoTasks == {t1, t2}
BothKinds == {"plain", "rule"}
AllMatches == [p \in Both |-> IF p = single THEN {"plain", "rule"} ELSE {"rule"}]

\* burst counts two events within two ticks, cools down for two ticks and may
\* run three times; single needs one event, has no cooldown and may run once.
\* The windows of both are longer than the recorder's.
BothCooldown == [p \in Both |-> IF p = single THEN 0 ELSE 2]
BothMax == [p \in Both |-> IF p = single THEN 1 ELSE 3]
BothWindow == [p \in Both |-> 2]
BothThreshold == [p \in Both |-> IF p = single THEN 1 ELSE 2]
FreshOrLate == {0, 1, 3}
=============================================================================
