--------------------------------- MODULE Caps ---------------------------------
(***************************************************************************)
(* The caps on the actions of the gatekeeper (shared/src/gatekeeper.ts):   *)
(* a window, a cooldown per action, a limit of pending approvals and a     *)
(* circuit breaker.  Checking and recording are two calls; checking throws *)
(* away what has left the window and trips the breaker, also for the route *)
(* rate-cap-check, which calls itself a dry run.                           *)
(***************************************************************************)
EXTENDS Naturals, FiniteSets

CONSTANTS
  Limited, Actors,     \* actions and agents
  AnyAgent,            \* a check without an agent
  MaxActions, CapWindow, Cooldown, MaxPending, Threshold, BreakerCooldown,
  LastMoment,          \* bound: the last tick of the clock
  MaxRecorded          \* bound: actions kept at once

\* As shipped: a second, a minute and five.  With a shorter cooldown of the breaker
\* it trips again on the same actions, and a longer one of an action outlives the
\* memory of it.
ASSUME CapAssumption ==
  /\ {MaxActions, CapWindow, Cooldown, Threshold, BreakerCooldown} \subseteq Nat \ {0}
  /\ Cooldown <= CapWindow /\ CapWindow <= BreakerCooldown

VARIABLES
  moment,        \* Date.now()
  taken,         \* rateCapState.actions: each with its time, and its place in that tick
  breakerUntil,  \* circuit_breaker_until, 0 when it is not tripped
  pending,       \* pending_approvals
  told           \* history: a refusal that named a time, NotTold when something was
                 \* recorded since

capVars == <<moment, taken, breakerUntil, pending, told>>

NotTold == [reason |-> "none", action |-> "none", agent |-> AnyAgent, again |-> 0]

CapInit ==
  /\ moment = 0 /\ taken = {} /\ breakerUntil = 0 /\ pending = 0
  /\ told = NotTold

\* A slip the runs must notice: an action at the edge of the window stays.
KeptToEdge == {t \in taken : t.at + CapWindow >= moment}

\* The actions still in the window.
Kept == {t \in taken : t.at + CapWindow > moment}

\* The times of those that a check of the action by the agent compares with.
Same(action, agent) ==
  {t.at : t \in {u \in Kept : u.action = action /\ agent \in {AnyAgent, u.agent}}}

Tripped == moment < breakerUntil

\* The answer of checkRateCap: allowed, or the first reason against it.
Verdict(action, agent) ==
  IF Tripped THEN "breaker"
  ELSE IF Cardinality(Kept) >= MaxActions THEN "window"
  ELSE IF \E t \in Same(action, agent) : moment < t + Cooldown THEN "cooldown"
  ELSE IF action = "require_approval" /\ pending >= MaxPending THEN "pending"
  ELSE IF Cardinality(Kept) >= Threshold THEN "breaker" ELSE "allowed"

Earliest(times) == CHOOSE t \in times : \A u \in times : t <= u
Latest(times) == CHOOSE t \in times : \A u \in times : u <= t

\* When a refusal for a reason says to come back: now + retry_after_ms.
RetryAt(reason, action, agent) ==
  CASE reason = "breaker"  -> IF Tripped THEN breakerUntil ELSE moment + BreakerCooldown
    [] reason = "window"   -> Earliest({t.at : t \in Kept}) + CapWindow
    [] reason = "cooldown" -> Latest(Same(action, agent)) + Cooldown

\* Callers kept to their answers: no more recorded than the cap, and nothing
\* since the breaker tripped.
Orderly ==
  /\ Cardinality(Kept) <= MaxActions
  /\ Tripped => \A t \in taken : t.at + BreakerCooldown <= breakerUntil

CheckRateCap(action, agent) ==
  LET reason == Verdict(action, agent) IN
  /\ taken' = IF Tripped THEN taken ELSE Kept
  /\ breakerUntil' = IF reason = "breaker" THEN RetryAt(reason, action, agent) ELSE 0
  /\ \/ told' = told
     \/ /\ reason \in {"breaker", "window", "cooldown"} /\ Orderly
        /\ told' = [reason |-> reason, action |-> action, agent |-> agent,
                    again |-> RetryAt(reason, action, agent)]
  /\ UNCHANGED <<moment, pending>>

\* Whoever carries an action out records it, checked or not.
RecordAction(action, agent) ==
  /\ Cardinality(taken) < MaxRecorded
  /\ taken' = taken \cup {[at |-> moment, nth |-> Cardinality({t \in taken : t.at = moment}),
                           action |-> action, agent |-> agent]}
  /\ pending' = IF action = "require_approval" THEN pending + 1 ELSE pending
  /\ told' = NotTold
  /\ UNCHANGED <<moment, breakerUntil>>

ReleaseApproval ==
  /\ pending > 0
  /\ pending' = pending - 1
  /\ UNCHANGED <<moment, taken, breakerUntil, told>>

TimeGoesBy ==
  /\ moment < LastMoment
  /\ moment' = moment + 1
  /\ UNCHANGED <<taken, breakerUntil, pending, told>>

CapNext ==
  \/ TimeGoesBy \/ ReleaseApproval
  \/ \E action \in Limited, agent \in Actors \cup {AnyAgent} :
       CheckRateCap(action, agent) \/ RecordAction(action, agent)

-----------------------------------------------------------------------------
\* The time a refusal names is the right one (checkRateCap, retry_after_ms): as
\* long as nothing more is recorded, the action is refused before it, and not for
\* that reason any more from it on, whatever other checks clean up or trip in
\* between.  Not so when callers recorded more than they were allowed.
RetryTimesAreExact ==
  told # NotTold =>
    /\ moment < told.again => Verdict(told.action, told.agent) # "allowed"
    /\ moment >= told.again => Verdict(told.action, told.agent) # told.reason
=============================================================================
