------------------------------ MODULE Matcher ------------------------------
(***************************************************************************)
(* The gatekeeper's playbook matcher: which playbooks an event triggers,   *)
(* given their cooldowns, their execution counters and the windows of      *)
(* events they count.  matchAllPlaybooks judges an event in one stretch;   *)
(* the executions it leads to are recorded one by one, awaits later.       *)
(*                                                                         *)
(* Every stored time is kept as its age in ticks, up to the age Forever    *)
(* which no comparison of the code tells from a greater one; a cooldown is *)
(* kept as what is left of it.  Playbooks are the enabled ones, with the   *)
(* defaults of validatePlaybook filled in.                                 *)
(***************************************************************************)
EXTENDS Naturals, FiniteSets, Functions

CONSTANTS
  EnabledPlaybooks,
  Kinds,          \* kinds of event, as far as match conditions tell them apart
  Matches,        \* Matches[p]: the kinds that meet the conditions of p
  Cooldown,       \* Cooldown[p]: cooldown_ms
  MaxExecutions,  \* MaxExecutions[p]: max_executions_per_window
  Window,         \* Window[p]: match.window_ms
  Threshold,      \* Threshold[p]: match.count
  RecordWindow,   \* the 60000 ms written into recordPlaybookExecution
  Forever,        \* an age above every limit
  Delays,         \* ages an event's own timestamp may have when it is matched
  Tasks,          \* processEvent calls that may be under way at once
  MaxSeen         \* bound: events in one window of a playbook

ASSUME MatcherAssumption ==
  /\ Matches \in [EnabledPlaybooks -> SUBSET Kinds]
  /\ Cooldown \in [EnabledPlaybooks -> 0 .. Forever]
  /\ MaxExecutions \in [EnabledPlaybooks -> Nat]
  /\ Window \in [EnabledPlaybooks -> 0 .. Forever - 1]
  /\ Threshold \in [EnabledPlaybooks -> Nat]
  /\ Forever \in Nat \ {0}
  /\ RecordWindow \in 1 .. Forever
  /\ Delays \subseteq 0 .. Forever
  /\ IsFiniteSet(Tasks)
  /\ MaxSeen \in Nat

VARIABLES
  cool,      \* cool[p]: ticks before p leaves its cooldown
  execData,  \* playbookExecutionCounts: p -> count, and age of windowStart
  windows,   \* eventWindows: p -> events by age, and age of lastCleanup
  due,       \* due[t]: playbooks that task t has matched and not yet recorded
  started,   \* history: started[p][n]: how long ago an execution of p was matched,
             \* while it is less than the span of p
  offered    \* history: offered[p][a]: events of age a ever put in p's window

matcherVars == <<cool, execData, windows, due, started, offered>>

Ages == 0 .. Forever
Nothing == [a \in Ages |-> 0]

MatcherInit ==
  /\ cool = [p \in EnabledPlaybooks |-> 0]
  /\ execData = [p \in {} |-> 0]
  /\ windows = [p \in {} |-> 0]
  /\ due = [t \in Tasks |-> {}]
  /\ started = [p \in EnabledPlaybooks |-> <<>>]
  /\ offered = [p \in EnabledPlaybooks |-> Nothing]

-----------------------------------------------------------------------------
(* matchPlaybook, for an event of kind k whose timestamp is a ticks old.   *)

Add(bag, a) == [bag EXCEPT ![a] = @ + 1]
Recent(bag, p) == SumFunctionOnSet(bag, 0 .. Window[p])

Stale(p) == p \in DOMAIN execData /\ execData[p].age > Window[p]
\* A slip the runs must notice: the limit is never compared.
NeverExhausted(p) == FALSE

Exhausted(p) ==
  p \in DOMAIN execData /\ ~Stale(p) /\ execData[p].count >= MaxExecutions[p]
Blocked(p) == cool[p] > 0 \/ Exhausted(p)

\* A slip the runs must notice: a cleanup keeps only a quarter of the window.
CleanedTooMuch(p, w) ==
  IF 4 * w.cleaned > Window[p]
  THEN [events |-> [a \in Ages |-> IF 4 * a <= Window[p] THEN w.events[a] ELSE 0], cleaned |-> 0]
  ELSE w

\* cleanupOldEvents, at most every quarter of the window.
Cleaned(p, w) ==
  IF 4 * w.cleaned > Window[p]
  THEN [events |-> [a \in Ages |-> IF a <= Window[p] THEN w.events[a] ELSE 0], cleaned |-> 0]
  ELSE w

\* The window of p once the event has been pushed.
Pushed(p, a) ==
  LET w == IF p \in DOMAIN windows
           THEN Cleaned(p, windows[p]) ELSE [events |-> Nothing, cleaned |-> 0]
  IN  [w EXCEPT !.events = Add(@, a)]

\* How long the history remembers an execution of p.
Span(p) == IF Window[p] < Cooldown[p] THEN Cooldown[p] ELSE Window[p]

\* One more execution, matched now.
Free(runs) == CHOOSE n \in 0 .. Cardinality(DOMAIN runs) : n \notin DOMAIN runs
Begun(runs) ==
  [n \in DOMAIN runs \cup {Free(runs)} |-> IF n \in DOMAIN runs THEN runs[n] ELSE 0]

Meets(p, k) == ~Blocked(p) /\ k \in Matches[p]
Counts(p, k) == Meets(p, k) /\ Threshold[p] > 1
Matched(k, a) ==
  {p \in EnabledPlaybooks : Meets(p, k) /\
     (Threshold[p] > 1 => Recent(Pushed(p, a).events, p) >= Threshold[p])}

\* matchAllPlaybooks, for task t: counters past their window restart, windows
\* are cleaned and filled, and the matched playbooks are due for execution.
Match(t, k, a) ==
  /\ due[t] = {}
  /\ \A p \in EnabledPlaybooks : Counts(p, k) => SumFunction(Pushed(p, a).events) <= MaxSeen
  /\ execData' = [p \in DOMAIN execData |->
       IF cool[p] = 0 /\ Stale(p) THEN [count |-> 0, age |-> 0] ELSE execData[p]]
  /\ windows' = [p \in DOMAIN windows \cup {q \in EnabledPlaybooks : Counts(q, k)} |->
       IF Counts(p, k) THEN Pushed(p, a) ELSE windows[p]]
  /\ due' = [due EXCEPT ![t] = Matched(k, a)]
  /\ started' = [p \in EnabledPlaybooks |->
       IF p \in Matched(k, a) /\ Span(p) > 0 THEN Begun(started[p]) ELSE started[p]]
  /\ offered' = [p \in EnabledPlaybooks |->
       IF Counts(p, k) /\ a < Forever THEN Add(offered[p], a) ELSE offered[p]]
  /\ UNCHANGED cool

\* A slip the runs must notice: an execution starts no cooldown.
RecordCountOnly(t, p) ==
  /\ p \in due[t]
  /\ due' = [due EXCEPT ![t] = @ \ {p}]
  /\ execData' = [q \in DOMAIN execData \cup {p} |->
       IF q # p THEN execData[q]
       ELSE IF p \in DOMAIN execData /\ execData[p].age < RecordWindow
            THEN [execData[p] EXCEPT !.count = @ + 1]
            ELSE [count |-> 1, age |-> 0]]
  /\ UNCHANGED <<cool, windows, started, offered>>

\* recordPlaybookExecution, after the execution and its awaits.
Record(t, p) ==
  /\ p \in due[t]
  /\ due' = [due EXCEPT ![t] = @ \ {p}]
  /\ cool' = [cool EXCEPT ![p] = Cooldown[p]]
  /\ execData' = [q \in DOMAIN execData \cup {p} |->
       IF q # p THEN execData[q]
       ELSE IF p \in DOMAIN execData /\ execData[p].age < RecordWindow
            THEN [execData[p] EXCEPT !.count = @ + 1]
            ELSE [count |-> 1, age |-> 0]]
  /\ UNCHANGED <<windows, started, offered>>

-----------------------------------------------------------------------------
Aged(a) == IF a < Forever THEN a + 1 ELSE Forever
Shift(bag) ==
  [a \in Ages |-> CASE a = 0 -> 0
                    [] a = Forever -> bag[a] + bag[a - 1]
                    [] OTHER -> bag[a - 1]]
Forget(bag) == [Shift(bag) EXCEPT ![Forever] = 0]
StillCounting(p) ==
  [n \in {m \in DOMAIN started[p] : started[p][m] + 1 < Span(p)} |-> started[p][n] + 1]

\* A slip the runs must notice: a counter's window never gets older.
TickCooldownsOnly ==
  /\ cool' = [p \in EnabledPlaybooks |-> IF cool[p] > 0 THEN cool[p] - 1 ELSE 0]
  /\ windows' = [p \in DOMAIN windows |->
       [events |-> Shift(windows[p].events), cleaned |-> Aged(windows[p].cleaned)]]
  /\ started' = [p \in EnabledPlaybooks |-> StillCounting(p)]
  /\ offered' = [p \in EnabledPlaybooks |-> Forget(offered[p])]
  /\ UNCHANGED <<execData, due>>

MatcherTick ==
  /\ cool' = [p \in EnabledPlaybooks |-> IF cool[p] > 0 THEN cool[p] - 1 ELSE 0]
  /\ execData' = [p \in DOMAIN execData |-> [execData[p] EXCEPT !.age = Aged(@)]]
  /\ windows' = [p \in DOMAIN windows |->
       [events |-> Shift(windows[p].events), cleaned |-> Aged(windows[p].cleaned)]]
  /\ started' = [p \in EnabledPlaybooks |-> StillCounting(p)]
  /\ offered' = [p \in EnabledPlaybooks |-> Forget(offered[p])]
  /\ UNCHANGED due

MatcherNext ==
  \/ \E t \in Tasks, k \in Kinds, a \in Delays : Match(t, k, a)
  \/ \E t \in Tasks, p \in EnabledPlaybooks : Record(t, p)
  \/ MatcherTick

MatcherSpec == MatcherInit /\ [][MatcherNext]_matcherVars

\* The clock runs; events need never come, and executions need never end (an
\* advisor or an alert may keep one waiting for ever).
MatcherFairness == WF_matcherVars(MatcherTick)

MatcherFairSpec == MatcherSpec /\ MatcherFairness

-----------------------------------------------------------------------------
(* Properties.                                                             *)

\* The executions of p matched less than d ago.
Younger(p, d) == {n \in DOMAIN started[p] : started[p][n] < d}

\* A cooldown is checked when an event is matched and only started when the
\* execution is over (matcher.ts:89 and :141), so requests that overlap may
\* pass it together: within one cooldown a playbook is executed once per
\* request at most, however long the executions take.
CooldownKept ==
  \A p \in EnabledPlaybooks : Cardinality(Younger(p, Cooldown[p])) <= Cardinality(Tasks)

\* What docs/gatekeeper.md:101 says of cooldown_ms, "Minimum time between
\* executions": false of the code as soon as two requests overlap.
MinimumTimeBetween ==
  \A p \in EnabledPlaybooks : Cardinality(Younger(p, Cooldown[p])) <= 1

\* What one life of an execution counter lets through: the limit, and one
\* more for every other request that passed the check before it was counted.
\* A playbook without a counter, or with a stale one, is not compared at all.
PerCounter(p) ==
  (IF MaxExecutions[p] = 0 THEN 1 ELSE MaxExecutions[p]) - 1 + Cardinality(Tasks)

\* A counter lives this long at least: the matcher restarts it after window_ms,
\* the recorder after 60000 ms.
Life(p) == IF Window[p] < RecordWindow THEN Window[p] ELSE RecordWindow

\* What docs/gatekeeper.md:102 calls max_executions_per_window, as far as two
\* clocks that restart one counter keep it: a window no longer than m lives of
\* the counter touches m + 1 of them.
RateLimited ==
  \A p \in EnabledPlaybooks : \A m \in 1 .. Window[p] :
    m * Life(p) >= Window[p] =>
      Cardinality(Younger(p, Window[p])) <= (m + 1) * PerCounter(p)

\* Cleaning a window lazily, and only now and then, loses nothing a threshold
\* counts: what is left of the last window_ms is all that was ever put there.
WindowsAreComplete ==
  \A p \in DOMAIN windows : \A a \in 0 .. Window[p] : windows[p].events[a] = offered[p][a]

\* A playbook that a cooldown or a full counter silences speaks again, however
\* many events arrive meanwhile.
PlaybooksRecover == \A p \in EnabledPlaybooks : Blocked(p) ~> ~Blocked(p)
=============================================================================
