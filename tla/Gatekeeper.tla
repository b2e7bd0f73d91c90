----------------------------- MODULE Gatekeeper -----------------------------
(***************************************************************************)
(* The gatekeeper worker inside the gateway: events are queued or sent for *)
(* immediate processing, a cycle drains the queue, every event runs the    *)
(* playbooks it matches action by action, and harden actions wait for a    *)
(* person.  All state is memory of one event loop: what lies between two   *)
(* awaits is one step.  Whether a playbook matches an event that meets its *)
(* conditions is the business of module Matcher; here it may or may not.   *)
(* Audit entries and the lists of recent actions, which nothing reads      *)
(* back, are left out.                                                     *)
(***************************************************************************)
EXTENDS Naturals, Sequences, Functions

CONSTANTS
  Events,      \* events, each submitted once
  Poison,      \* events on which matching throws (a pattern that is no RegExp)
  Cycles,      \* requests to run a cycle that may be under way at once
  Processors,  \* requests to process an event that may be under way at once
  Books,       \* the playbooks, each once, in the order of loadPlaybooks
  Actions,     \* Actions[p]: what p does, in order; see Tiers
  Concerns,    \* Concerns[e]: the playbooks whose conditions e meets
  QueueMax,    \* 1000 in queueEvent
  Patience     \* confirmation_timeout_ms, in ticks

\* observe: alert, audit, notify; contain: a runtime override; harden: a canary
\* rotation or a reload of the rules with requires_confirmation false; ask: one
\* that requires confirmation, as it does unless the playbook says otherwise.
Tiers == {"observe", "contain", "harden", "ask"}
Playbooks == Range(Books)
Workers == Cycles \cup Processors

ASSUME GatekeeperAssumption ==
  /\ Poison \subseteq Events
  /\ Cycles \cap Processors = {}
  /\ Books \in Seq(Playbooks) /\ \A i, j \in DOMAIN Books : Books[i] = Books[j] => i = j
  /\ Actions \in [Playbooks -> Seq(Tiers) \ {<<>>}]    \* validatePlaybook
  /\ Concerns \in [Events -> SUBSET Playbooks]
  /\ QueueMax \in Nat \ {0}
  /\ Patience \in Nat \ {0}

VARIABLES
  dryRun,           \* a knob of POST /gatekeeper/config; the other one, enabled,
                    \* is read by no step and left out
  queue,            \* eventQueue
  isRunning,        \* isRunning
  job,              \* job[w]: how far request w has come
  pending,          \* pendingConfirmations
  fresh,            \* the events not submitted yet
  accepted,         \* history: the events queued, in order
  taken,            \* history: the events cycles took up, in order
  lost,             \* history: the events dropped by a full queue or a failed cycle
  effects,          \* history: the actions that took effect without a confirmation
  rotated,          \* history: how often each confirmed action was carried out
  verdicts,         \* history: the answers people gave on each confirmation
  wentLive          \* history: whether live processing was ever asked for

trace == <<accepted, taken, lost>>
people == <<rotated, verdicts>>
vars == <<dryRun, queue, isRunning, job, pending, fresh, trace, effects, people, wentLive>>

\* The n-th action of playbook p on event e.
Ids == UNION {Events \X {p} \X DOMAIN Actions[p] : p \in Playbooks}

\* at: the await; opt: dry_run of the request; dry: the flag the event is
\* processed under; todo: the matched playbooks left; step: actions done of the
\* first of them; rest: the drained events not taken up yet.
Idle == [at |-> "idle", opt |-> "none", ev |-> <<>>, dry |-> TRUE,
         todo |-> {}, step |-> 0, rest |-> <<>>]

Init ==
  /\ dryRun = TRUE /\ isRunning = FALSE
  /\ queue = <<>>
  /\ job = [w \in Workers |-> Idle]
  /\ pending = {}
  /\ fresh = Events /\ lost = {}
  /\ accepted = <<>> /\ taken = <<>>
  /\ effects = {}
  /\ rotated = [i \in Ids |-> 0]
  /\ verdicts = [i \in Ids |-> {}]
  /\ wentLive = FALSE

-----------------------------------------------------------------------------
(* Knobs and queue.                                                        *)

\* POST /gatekeeper/config; work in flight is not told.
Configure ==
  /\ dryRun' \in BOOLEAN
  /\ wentLive' = (wentLive \/ ~dryRun')
  /\ UNCHANGED <<queue, isRunning, job, pending, fresh, trace, effects, people>>

\* queueEvent: when the queue is over its limit the oldest event goes.
Enqueue(e) ==
  /\ e \in fresh
  /\ fresh' = fresh \ {e}
  /\ accepted' = Append(accepted, e)
  /\ IF Len(queue) = QueueMax
     THEN queue' = Append(Tail(queue), e) /\ lost' = lost \cup {Head(queue)}
     ELSE queue' = Append(queue, e) /\ UNCHANGED lost
  /\ UNCHANGED <<dryRun, isRunning, job, pending, taken, effects, people, wentLive>>

-----------------------------------------------------------------------------
(* processEvent and runGatekeeperCycle.                                    *)

AskedFor(opt) == wentLive' = (wentLive \/ opt = "live")

DryFor(opt) == IF opt = "none" THEN dryRun ELSE opt = "dry"

\* The job of a request that turns to event e: the flag is read and the
\* playbooks m are matched at once; with none matched the event is done with.
Began(j, e, m) ==
  [j EXCEPT !.ev = <<e>>, !.dry = DryFor(j.opt), !.todo = m, !.step = 0,
            !.at = IF m = {} THEN "take" ELSE "act"]

\* POST /gatekeeper/process; the knob "enabled" is not consulted.
Process(w, opt) ==
  /\ job[w] = Idle
  /\ \E e \in fresh :
       /\ fresh' = fresh \ {e}
       /\ \/ /\ e \notin Poison
             /\ \E m \in SUBSET Concerns[e] :
                  job' = [job EXCEPT ![w] = Began([Idle EXCEPT !.opt = opt], e, m)]
          \/ e \in Poison /\ UNCHANGED job
  /\ AskedFor(opt)
  /\ UNCHANGED <<dryRun, queue, isRunning, pending, trace, effects, people>>

\* A process request whose event is done with answers.
Answer(w) ==
  /\ job[w].at = "take"
  /\ job' = [job EXCEPT ![w] = Idle]
  /\ UNCHANGED <<dryRun, queue, isRunning, pending, fresh, trace, effects, people, wentLive>>

\* cleanupExpiredConfirmations: expires_at > now stays.
CleanedUp == {c \in pending : c.left > 1}

EndCycle(k) ==
  /\ job' = [job EXCEPT ![k] = Idle]
  /\ isRunning' = FALSE
  /\ pending' = CleanedUp
  /\ UNCHANGED <<taken, lost>>

TakeUp(k, j, e, rest) ==
  /\ e \notin Poison
  /\ \E m \in SUBSET Concerns[e] :
       job' = [job EXCEPT ![k] = Began([j EXCEPT !.rest = rest], e, m)]
  /\ taken' = Append(taken, e)
  /\ isRunning' = TRUE
  /\ UNCHANGED <<pending, lost>>

\* A slip the runs must notice: without "finally" a throw leaves isRunning set.
FailCycleRunning(k, e, rest) ==
  /\ e \in Poison
  /\ job' = [job EXCEPT ![k] = Idle]
  /\ taken' = Append(taken, e)
  /\ lost' = lost \cup Range(rest)
  /\ isRunning' = TRUE
  /\ UNCHANGED pending

\* Matching throws: the cycle ends, and the events drained with e are lost.
FailCycle(k, e, rest) ==
  /\ e \in Poison
  /\ job' = [job EXCEPT ![k] = Idle]
  /\ taken' = Append(taken, e)
  /\ lost' = lost \cup Range(rest)
  /\ isRunning' = FALSE
  /\ UNCHANGED pending

\* Cycle k turns to what is left of the drained events.
GoOn(k, j, s) ==
  \/ s = <<>> /\ EndCycle(k)
  \/ s # <<>> /\ TakeUp(k, j, Head(s), Tail(s))
  \/ s # <<>> /\ FailCycle(k, Head(s), Tail(s))

\* A slip the runs must notice: a cycle starts while another one runs.
RunRegardless(k, opt) ==
  /\ job[k] = Idle
  /\ queue' = <<>>
  /\ GoOn(k, [Idle EXCEPT !.opt = opt], queue)
  /\ AskedFor(opt)
  /\ UNCHANGED <<dryRun, fresh, accepted, effects, people>>

\* A slip the runs must notice: one event is drained, the queue is emptied.
RunFirst(k, opt) ==
  /\ job[k] = Idle
  /\ ~isRunning
  /\ queue' = <<>>
  /\ GoOn(k, [Idle EXCEPT !.opt = opt], IF queue = <<>> THEN <<>> ELSE <<Head(queue)>>)
  /\ AskedFor(opt)
  /\ UNCHANGED <<dryRun, fresh, accepted, effects, people>>

\* POST /gatekeeper/run; a second one answers at once.  Nothing else runs a cycle.
Run(k, opt) ==
  /\ job[k] = Idle
  /\ ~isRunning
  /\ queue' = <<>>
  /\ GoOn(k, [Idle EXCEPT !.opt = opt], queue)
  /\ AskedFor(opt)
  /\ UNCHANGED <<dryRun, fresh, accepted, effects, people>>

\* A cycle whose event is done with takes up the next.
Take(k) ==
  /\ job[k].at = "take"
  /\ GoOn(k, job[k], job[k].rest)
  /\ UNCHANGED <<dryRun, queue, fresh, accepted, effects, people, wentLive>>

-----------------------------------------------------------------------------
(* executePlaybook.                                                        *)

\* Playbooks run in the order in which they were loaded.
First(matched) ==
  Books[CHOOSE i \in DOMAIN Books :
          Books[i] \in matched /\ \A j \in 1 .. i - 1 : Books[j] \notin matched]
Book(w) == First(job[w].todo)
Asking(w) == <<job[w].ev[1], Book(w), job[w].step + 1>>

\* A slip the runs must notice: a harden action forgets about the dry run.
EffectsOfAnyRun(w, tier) ==
  IF tier = "harden" \/ (tier = "contain" /\ ~job[w].dry) THEN {Asking(w)} ELSE {}

\* A contain action, and a harden action that asks nobody, is carried out at
\* once unless the run is dry.
EffectsOf(w, tier) ==
  IF tier \in {"contain", "harden"} /\ ~job[w].dry THEN {Asking(w)} ELSE {}

\* executeAction on the next action.  A harden action that requires
\* confirmation is put in front of a person, in a dry run too.
Act(w) ==
  /\ job[w].at = "act"
  /\ LET tier == Actions[Book(w)][job[w].step + 1]
         last == job[w].step + 1 = Len(Actions[Book(w)])
     IN  /\ effects' = effects \cup EffectsOf(w, tier)
         /\ pending' = pending \cup
              (IF tier = "ask" THEN {[id |-> Asking(w), left |-> Patience + 1]} ELSE {})
         /\ job' = [job EXCEPT ![w].step = @ + 1, ![w].at = IF last THEN "audit" ELSE "act"]
  /\ UNCHANGED <<dryRun, queue, isRunning, fresh, trace, people, wentLive>>

\* The playbook is audited and recorded; the next one matched, if any, follows.
EndBook(w) ==
  /\ job[w].at = "audit"
  /\ LET left == job[w].todo \ {Book(w)} IN
       job' = [job EXCEPT ![w].todo = left, ![w].step = 0,
                          ![w].at = IF left = {} THEN "take" ELSE "act"]
  /\ UNCHANGED <<dryRun, queue, isRunning, pending, fresh, trace, effects, people, wentLive>>

-----------------------------------------------------------------------------
(* People and time.                                                        *)

\* A slip the runs must notice: a confirmation is dropped only when it is too late.
ConfirmKeeping(c) ==
  /\ verdicts' = [verdicts EXCEPT ![c.id] = @ \cup {"confirm"}]
  /\ \/ c.left > 0 /\ rotated' = [rotated EXCEPT ![c.id] = @ + 1] /\ UNCHANGED pending
     \/ c.left = 0 /\ pending' = pending \ {c} /\ UNCHANGED rotated
  /\ UNCHANGED <<dryRun, queue, isRunning, job, fresh, trace, effects, wentLive>>

\* confirmPendingAction, whatever the knobs say by now: it carries the action
\* out live, unless it is too late or its playbook is not found any more.
Confirm(c) ==
  /\ pending' = pending \ {c}
  /\ verdicts' = [verdicts EXCEPT ![c.id] = @ \cup {"confirm"}]
  /\ \/ c.left > 0 /\ rotated' = [rotated EXCEPT ![c.id] = @ + 1]
     \/ UNCHANGED rotated
  /\ UNCHANGED <<dryRun, queue, isRunning, job, fresh, trace, effects, wentLive>>

Deny(c) ==
  /\ pending' = pending \ {c}
  /\ verdicts' = [verdicts EXCEPT ![c.id] = @ \cup {"deny"}]
  /\ UNCHANGED <<dryRun, queue, isRunning, job, fresh, trace, effects, rotated, wentLive>>

Tick ==
  /\ \E c \in pending : c.left > 0
  /\ pending' = {[c EXCEPT !.left = IF @ > 0 THEN @ - 1 ELSE 0] : c \in pending}
  /\ UNCHANGED <<dryRun, queue, isRunning, job, fresh, trace, effects, people, wentLive>>

Proceed(w) == Act(w) \/ EndBook(w) \/ (w \in Cycles /\ Take(w)) \/ (w \in Processors /\ Answer(w))

Next ==
  \/ Configure
  \/ \E e \in Events : Enqueue(e)
  \/ \E w \in Processors, opt \in {"none", "dry", "live"} : Process(w, opt)
  \/ \E k \in Cycles, opt \in {"none", "dry", "live"} : Run(k, opt)
  \/ \E w \in Workers : Proceed(w)
  \/ \E c \in pending : Confirm(c) \/ Deny(c)
  \/ Tick

Spec == Init /\ [][Next]_vars

\* The clock runs, and every await of a request is settled: that is what this
\* module takes for granted of the advisor and of the alerts.  Neither has a
\* deadline for all it does; WaitsEnd in Services says how far theirs go.
\* Nobody is obliged to submit, run, confirm or deny.
WorkerFairness == WF_vars(Tick) /\ \A w \in Workers : WF_vars(Proceed(w))

FairSpec == Spec /\ WorkerFairness

-----------------------------------------------------------------------------
(* Properties.                                                             *)

\* However many requests to run a cycle race, events are taken up one by one
\* in the order they were queued, none of them twice.
InOrder ==
  \A i, j \in 1 .. Len(taken) :
    i < j => \E a, b \in 1 .. Len(accepted) :
               a < b /\ accepted[a] = taken[i] /\ accepted[b] = taken[j]

\* An event that was queued is still queued, is drained, has been taken up, or
\* was lost to a full queue or to a cycle that failed before it.
NothingVanishes ==
  Range(accepted) = Range(queue) \cup Range(taken) \cup lost
                      \cup UNION {Range(job[k].rest) : k \in Cycles}

\* Nothing is contained, and nothing hardened without a confirmation, unless
\* somebody asked for live processing, by the knob or with the request itself.
ContainedOnlyLive == effects # {} => wentLive

\* A harden action that requires confirmation is carried out at most once, and
\* only on a yes that no no contradicts.
HardenedOnOneYes ==
  \A i \in Ids : rotated[i] <= 1 /\ (rotated[i] = 1 => verdicts[i] = {"confirm"})

\* A cycle comes to an end, so that another one can run, whatever it meets.
CyclesEnd == isRunning ~> ~isRunning

=============================================================================
