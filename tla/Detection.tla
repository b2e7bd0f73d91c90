------------------------------ MODULE Detection ------------------------------
(***************************************************************************)
(* The detection rules (rules/src/engine.ts) and the routes that use them  *)
(* (gateway/src/routes/phase4.ts).                                         *)
(*                                                                         *)
(* A rule selects events by their fields; one with an aggregation also     *)
(* keeps, by group, the events of a sliding window and fires when their    *)
(* number, distinct values, sum or average compares to a threshold.        *)
(* Events of the window are cleaned up lazily, and an event may carry a    *)
(* time of its own.  One call evaluates every rule and is one step.        *)
(*                                                                         *)
(* A context is a function from the fields it has to their values; those   *)
(* that are compared are numbers.                                          *)
(***************************************************************************)
EXTENDS Integers, FiniteSets, FiniteSetsExt

CONSTANTS
  Rules,        \* the rules of the directory that could be read
  Contexts,     \* the events considered
  Stamps,       \* the times they may carry
  Undefined,
  LastTick, MaxEvaluations   \* bounds: time, evaluations

\* An id is one rule's: two rules of one id and group would share their window.
ASSUME DetectionAssumption ==
  /\ \A r1 \in Rules, r2 \in Rules : r1.id = r2.id => r1 = r2
  /\ \A rule \in Rules : rule.window \in Nat
  /\ Stamps \subseteq Int

VARIABLES
  ticks,         \* Date.now()
  groups,        \* aggregationStates: [<<rule id, group>> -> state], partial
  hitCounts,     \* per rule
  lastHits,      \* what the last evaluation answered
  inOrder,       \* (history) the rules for whose group it was no older than any event
  evaluations,   \* how many there were
  arrived        \* (history) the events evaluated since the start

detectionVars == <<ticks, groups, hitCounts, lastHits, inOrder, evaluations, arrived>>

-----------------------------------------------------------------------------
(* Selections.                                                             *)

Field(ctx, f) == IF f \in DOMAIN ctx THEN ctx[f] ELSE Undefined

\* One condition of a selection: a comparison, a pattern or a set of values.
\* A field that is not there is no number, and is compared as text else.
Holds(cond, ctx) ==
  LET v == Field(ctx, cond.field) IN
  CASE cond.op = "field_gte" -> v # Undefined /\ v >= cond.value
    [] cond.op = "field_lte" -> v # Undefined /\ v <= cond.value
    [] cond.op = "field_gt"  -> v # Undefined /\ v > cond.value
    [] cond.op = "field_lt"  -> v # Undefined /\ v < cond.value
    [] cond.op = "field_not" -> v \notin cond.values
    [] cond.op \in {"field_contains", "field_regex", "in"} -> v \in cond.values

Selected(sel, ctx) == \A cond \in sel : Holds(cond, ctx)

\* A list of selections goes before a single one; a rule with neither selects
\* all for its aggregation, and nothing without one.
Selects(rule, ctx) ==
  IF rule.selections = {} THEN rule.aggregation # Undefined
  ELSE \E sel \in rule.selections : Selected(sel, ctx)

GroupKey(rule, ctx) == <<rule.id, [f \in rule.aggregation.groupBy |-> Field(ctx, f)]>>

-----------------------------------------------------------------------------
(* Aggregation.                                                            *)

\* An event of a window, numbered as it came.
Event(ctx, now) == [nth |-> evaluations, timestamp |-> now, ctx |-> ctx]

NewGroup(now) == [events |-> {}, lastCleanup |-> now]
Group(key, now) == IF key \in DOMAIN groups THEN groups[key] ELSE NewGroup(now)

NotBefore(events, cutoff) == {e \in events : e.timestamp >= cutoff}

\* A slip the runs must notice: events on the edge of the window are cleaned up.
CleanedPastEdge(state, window, now) ==
  IF 4 * (now - state.lastCleanup) > window
    THEN [events |-> NotBefore(state.events, now - window + 1), lastCleanup |-> now]
    ELSE state

\* Once a quarter of a window has passed since the last time.
Cleaned(state, window, now) ==
  IF 4 * (now - state.lastCleanup) > window
    THEN [events |-> NotBefore(state.events, now - window), lastCleanup |-> now]
    ELSE state

WithEvent(rule, ctx, now) ==
  LET state == Cleaned(Group(GroupKey(rule, ctx), now), rule.window, now) IN
  [state EXCEPT !.events = @ \cup {Event(ctx, now)}]

WindowEvents(rule, ctx, now) == NotBefore(WithEvent(rule, ctx, now).events, now - rule.window)

Number(v) == IF v = Undefined THEN 0 ELSE v
SumOf(events, f) == MapThenSumSet(LAMBDA e : Number(Field(e.ctx, f)), events)

\* The value compared is amount / of, an average being the one that is not whole.
Amount(agg, events) ==
  IF agg.type = "count" THEN Cardinality(events)
  ELSE IF agg.field = Undefined THEN IF agg.type = "avg" THEN 0 ELSE Cardinality(events)
  ELSE IF agg.type = "distinct_count" THEN Cardinality({Field(e.ctx, agg.field) : e \in events})
  ELSE SumOf(events, agg.field)
Of(agg, events) == IF agg.type = "avg" THEN Cardinality(events) ELSE 1

Compares(agg, events) ==
  LET amount == Amount(agg, events)
      limit == agg.threshold * Of(agg, events) IN
  CASE agg.comparison = "gte" -> amount >= limit
    [] agg.comparison = "gt"  -> amount > limit
    [] agg.comparison = "lte" -> amount <= limit
    [] agg.comparison = "lt"  -> amount < limit
    [] agg.comparison = "eq"  -> amount = limit

Hit(rule, ctx, now) ==
  [rule |-> rule.id,
   window |-> IF rule.aggregation = Undefined THEN {} ELSE WindowEvents(rule, ctx, now)]

Fires(rule, ctx, now) ==
  /\ Selects(rule, ctx)
  /\ rule.aggregation # Undefined =>
       Compares(rule.aggregation, WindowEvents(rule, ctx, now))

-----------------------------------------------------------------------------
Enabled == {rule \in Rules : rule.enabled}

\* Every aggregation the event is selected for takes it in.
Aggregated(ctx) == {rule \in Enabled : Selects(rule, ctx) /\ rule.aggregation # Undefined}

DetectionInit ==
  /\ ticks = 0
  /\ groups = [key \in {} |-> NewGroup(0)]
  /\ hitCounts = [id \in {rule.id : rule \in Rules} |-> 0]
  /\ lastHits = {} /\ inOrder = {}
  /\ evaluations = 0
  /\ arrived = {}

\* evaluateRules, of POST rules/evaluate with any time, or of an event that is
\* recorded, with none of its own.
Evaluate(ctx, stamp) ==
  LET now == IF stamp = Undefined THEN ticks ELSE stamp
      touched == Aggregated(ctx)
      fired == {rule \in Enabled : Fires(rule, ctx, now)} IN
  /\ evaluations < MaxEvaluations
  /\ evaluations' = evaluations + 1
  /\ groups' = [key \in DOMAIN groups \cup {GroupKey(rule, ctx) : rule \in touched} |->
       IF \E rule \in touched : key = GroupKey(rule, ctx)
         THEN WithEvent(CHOOSE rule \in touched : key = GroupKey(rule, ctx), ctx, now)
         ELSE groups[key]]
  /\ hitCounts' = [id \in DOMAIN hitCounts |->
       hitCounts[id] + IF \E rule \in fired : rule.id = id THEN 1 ELSE 0]
  /\ lastHits' = {Hit(rule, ctx, now) : rule \in fired}
  /\ arrived' = arrived \cup {Event(ctx, now)}
  /\ inOrder' = {rule \in touched :
       \A e \in arrived :
         (Selects(rule, e.ctx) /\ GroupKey(rule, e.ctx) = GroupKey(rule, ctx))
            => e.timestamp <= now}
  /\ UNCHANGED ticks

Tick ==
  /\ ticks < LastTick
  /\ ticks' = ticks + 1
  /\ UNCHANGED <<groups, hitCounts, lastHits, inOrder, evaluations, arrived>>

\* A restart forgets the windows and the counts; GET rules reads the files
\* again and forgets neither.
DetectionRestart ==
  /\ arrived # {}
  /\ groups' = [key \in {} |-> NewGroup(0)]
  /\ hitCounts' = [id \in DOMAIN hitCounts |-> 0]
  /\ arrived' = {}
  /\ lastHits' = {} /\ inOrder' = {}
  /\ UNCHANGED <<ticks, evaluations>>

DetectionNext ==
  \/ \E ctx \in Contexts, stamp \in Stamps \cup {Undefined} : Evaluate(ctx, stamp)
  \/ Tick \/ DetectionRestart

-----------------------------------------------------------------------------
\* The events a rule with an aggregation should count for the last one: those
\* it selects, of the same group, in the window that ends with it.
InWindow(rule) ==
  LET last == CHOOSE e \in arrived : \A other \in arrived : other.nth <= e.nth IN
  {e \in arrived : /\ Selects(rule, e.ctx)
                   /\ GroupKey(rule, e.ctx) = GroupKey(rule, last.ctx)
                   /\ e.timestamp >= last.timestamp - rule.window}

\* For an event no older than those of its group before, a rule fires exactly
\* if the events of its window since the start compare to the threshold, and
\* reports just these, whatever was cleaned up and whatever came late before.
InOrderIsExact ==
  \A rule \in inOrder :
    LET hits == {hit \in lastHits : hit.rule = rule.id} IN
    IF Compares(rule.aggregation, InWindow(rule))
      THEN \E hit \in hits : hit.window = InWindow(rule)
      ELSE hits = {}
=============================================================================
