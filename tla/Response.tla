------------------------------ MODULE Response ------------------------------
(***************************************************************************)
(* How the gatekeeper responds to events: the worker that queues them and  *)
(* carries out playbooks, and the matcher that decides which playbooks an  *)
(* event triggers.  The worker takes any decision of the matcher's, so the *)
(* two share no state here, and each property speaks of one of them: a     *)
(* behaviour follows the one it begins with.                               *)
(***************************************************************************)
EXTENDS Gatekeeper, Matcher

VARIABLE part

responseVars == <<vars, matcherVars, part>>

ResponseInit == Init /\ MatcherInit /\ part \in {"worker", "matcher"}

ResponseNext ==
  /\ \/ part = "worker"  /\ Next        /\ UNCHANGED matcherVars
     \/ part = "matcher" /\ MatcherNext /\ UNCHANGED vars
  /\ UNCHANGED part

\* Nothing is under way in the part that a behaviour does not follow.
ResponseSpec ==
  /\ ResponseInit /\ [][ResponseNext]_responseVars
  /\ WorkerFairness /\ MatcherFairness
=============================================================================
