------------------------------- MODULE MCAdmin -------------------------------
(* An instance of Admin for TLC: two agents on the lists of the policy; one  *)
(* canary of two markers, the gateway and the command line; a rule that      *)
(* counts, one that counts distinct values and one that averages; two        *)
(* organisations; three calls of one session and the one exports are         *)
(* recorded under.                                                           *)
EXTENDS Admin

CONSTANTS a1, a2, base, edited, gateway, cli, m1, m2, canary, s1, s2, o1, o2,
          root, owner, c1, c2, c3

TwoAgents == {a1, a2}

Lists(quarantined) == [l \in TrustLists |-> IF l = "quarantined" THEN quarantined ELSE {}]
Text0(flaw, tag, quarantined) == [flaw |-> flaw, tag |-> tag, lists |-> Lists(quarantined)]

Base == Text0("none", base, {})
SomeTexts == {Base, Text0("none", edited, {}), Text0("none", edited, {a1}),
              Text0("syntax", edited, {}), Text0("key", edited, {a1})}

TwoProcesses == {gateway, cli}
TwoMarkers == {m1, m2}
OneCanary == [m \in TwoMarkers |-> canary]

\* Rules, the last as the shipped ones that aggregate.
Aggregation(type, field, groupBy, threshold, comparison) ==
  [type |-> type, field |-> field, groupBy |-> groupBy, threshold |-> threshold,
   comparison |-> comparison]
OfType(type) == {{[op |-> "in", field |-> "event_type", value |-> 0, values |-> {type}]}}

SomeRules ==
  { [id |-> "brute_force", enabled |-> TRUE, selections |-> OfType("auth"), window |-> 4,
     aggregation |-> Aggregation("count", Undefined, {"session_id"}, 3, "gte")],
    [id |-> "many_scores", enabled |-> TRUE,
     selections |-> {{[op |-> "field_gte", field |-> "score", value |-> 1, values |-> {}]}},
     window |-> 2, aggregation |-> Aggregation("distinct_count", "score", {}, 2, "gte")],
    [id |-> "score_on_average", enabled |-> TRUE, selections |-> {}, window |-> 8,
     aggregation |-> Aggregation("avg", "score", {"session_id"}, 1, "gt")],
    [id |-> "high_score", enabled |-> TRUE,
     selections |-> {{[op |-> "field_gt", field |-> "score", value |-> 1, values |-> {}]}},
     window |-> 0, aggregation |-> Undefined] }

SomeContexts ==
  { [event_type |-> "auth", session_id |-> s1],
    [event_type |-> "chat", session_id |-> s1, score |-> 1],
    [event_type |-> "auth", session_id |-> s2, score |-> 2] }

TwoOrgs == {o1, o2}
Roots == {root}
Owners == [o \in TwoOrgs |-> IF o = o1 THEN {owner} ELSE {}]
TwoEmails == {root, owner}

ThreeCalls == {c1, c2, c3}
TwoSessions == {s1, s2}

Kind(kinds, sessions) == [kind : kinds, session : sessions]
Resolving == [kind : {"resolve"}, session : {s1}, approval : {c1}]

\* A queued call, the resolution of its approval or another event of the
\* session, and an export or another event.
SomeInputs ==
  [c \in ThreeCalls |->
     CASE c = c1 -> Kind({"queue"}, {s1})
       [] c = c2 -> Resolving
       [] c = c3 -> Kind({"event"}, {s1}) \cup Kind({"export"}, {s2}) \cup Resolving]

SomeRequests ==
  [by : {"cli"}, days : {-1, NaN}, execute : BOOLEAN, dryFlag : {FALSE}, pruneApprovals : BOOLEAN]
    \cup [by : {"api"}, days : {0}, execute : {FALSE}, dryFlag : BOOLEAN, pruneApprovals : {TRUE}]
=============================================================================
