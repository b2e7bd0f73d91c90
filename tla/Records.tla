------------------------------- MODULE Records -------------------------------
(***************************************************************************)
(* The recorder and the retention job (recorder/src/recorder.ts,           *)
(* shared/src/retention.ts, the export routes of gateway/src/routes/       *)
(* phase3.ts and their webhook, scripts/retention-cleanup.ts).             *)
(*                                                                         *)
(* Every query commits by itself and queries of different callers          *)
(* interleave.  A call records a number of rows, each of them by ensuring  *)
(* its session first and inserting then; the retention job deletes events, *)
(* sessions without events, and resolved approvals, in three queries.      *)
(* Deleting a session deletes its events and approvals with it, and a row  *)
(* cannot be inserted for a session that is not there.                     *)
(***************************************************************************)
EXTENDS Integers, Sequences, FiniteSets

CONSTANTS
  Calls,          \* calls that record something, each made once
  Inputs,         \* [Calls -> set of what it can be called with]
  Sessions,       \* session ids, with the fixed one of exports that name none
  Requests,       \* retention requests, from the API or the command line
  Absent,         \* a session that has no row
  NaN,            \* a number of days that is none
  FinalDay, MaxRuns, MaxFaults    \* bounds: days that pass, runs of the job, failing queries

ASSUME BoundsAssumption == FinalDay \in Nat /\ MaxRuns \in Nat /\ MaxFaults \in Nat

\* Four routes lead to the recorder, each names a session or has a fixed one, and
\* a day is an integer: the job rounds what it is asked for.
ASSUME RecordsAssumption ==
  /\ \A c \in Calls : \A in \in Inputs[c] :
       in.kind \in {"event", "queue", "resolve", "export"} /\ in.session \in Sessions
  /\ \A r \in Requests : r.days \in {NaN} \cup Int /\ r.pruneApprovals \in BOOLEAN
  /\ Absent \notin Int

VARIABLES
  today,        \* days since the start
  started,      \* per session: started_at of its row, or Absent
  events,       \* rows of events
  approvals,    \* rows of approvals
  pc, input,    \* per call: its next step, and what it was called with
  todo,         \* per call: the rows it still has to insert
  job,          \* the retention job: its next step
  cutoff,       \* of the run under way
  prune,        \* whether it deletes approvals
  faults, runs, \* queries that failed, runs of the job
  written,      \* (history) every event and approval that was inserted
  horizon,      \* (history) the latest cutoff a run that deletes has used
  ensured       \* (history) per call: started_at of the session it ensured last

calls == <<pc, input, todo, ensured>>
retention == <<job, cutoff, prune, runs>>
recordsVars == <<today, started, events, approvals, calls, retention, faults, written, horizon>>

-----------------------------------------------------------------------------
(* The rows a call inserts, in their order, and whether it goes on when    *)
(* an insert fails.                                                        *)

\* enforceToolCall records the call before its approval and the request after
\* it; resolveApproval records what it has updated.
Rows(in) ==
  CASE in.kind = "event"   -> <<"hook">>
    [] in.kind = "queue"   -> <<"tool.call", "approval", "approval.requested">>
    [] in.kind = "resolve" -> <<"approval.resolved">>
    [] in.kind = "export"  -> <<"siem.export">>

BestEffort(in) == in.kind = "export"

\* An export is recorded under the session asked for, else under one fixed id.
SessionOf(c) == input[c].session

Pending(a) == a.status = "pending"

-----------------------------------------------------------------------------
RecordsInit ==
  /\ today = 0
  /\ started = [s \in Sessions |-> Absent]
  /\ events = {} /\ approvals = {} /\ written = {}
  /\ pc = [c \in Calls |-> "idle"]
  /\ input \in [Calls -> UNION {Inputs[c] : c \in Calls}]
  /\ \A c \in Calls : input[c] \in Inputs[c]
  /\ todo = [c \in Calls |-> <<>>]
  /\ ensured = [c \in Calls |-> 0]
  /\ job = "idle" /\ cutoff = 0 /\ prune = FALSE
  /\ faults = 0 /\ runs = 0 /\ horizon = 0

Next1(c, step) == pc' = [pc EXCEPT ![c] = step]

\* A slip the runs must notice: the record of a resolution is best effort too.
BrokenQuietly(c, why) == Next1(c, "done")

\* What a failing insert makes of a call: the routes that export answer all
\* the same, every other one fails.
Broken(c, why) == Next1(c, IF BestEffort(input[c]) THEN "done" ELSE why)

\* A query fails, or the process that made it stops.
Fault == faults < MaxFaults /\ faults' = faults + 1

\* The call arrives.  An export answers with what it read, and one to a webhook
\* is recorded whether it was delivered, refused or timed out.
Begin(c) ==
  /\ pc[c] = "idle" /\ input[c].kind # "resolve"
  /\ todo' = [todo EXCEPT ![c] = Rows(input[c])]
  /\ Next1(c, "ensure")
  /\ UNCHANGED <<today, started, events, approvals, input, ensured, retention, faults,
                 written, horizon>>

\* resolveApproval: the UPDATE of a pending row.
UpdateApproval(c) ==
  /\ pc[c] = "idle" /\ input[c].kind = "resolve"
  /\ \E a \in approvals :
       /\ a.of = input[c].approval /\ Pending(a)
       /\ approvals' = (approvals \ {a}) \cup
                       {[a EXCEPT !.status = "resolved", !.resolved = today]}
  /\ todo' = [todo EXCEPT ![c] = Rows(input[c])]
  /\ Next1(c, "ensure")
  /\ UNCHANGED <<today, started, events, input, ensured, retention, faults, written, horizon>>

\* It finds no pending row: 404, nothing is recorded.
UpdateMisses(c) ==
  /\ pc[c] = "idle" /\ input[c].kind = "resolve"
  /\ ~\E a \in approvals : a.of = input[c].approval /\ Pending(a)
  /\ \E e \in written : e.type = "approval" /\ e.of = input[c].approval
  /\ Next1(c, "missed")
  /\ UNCHANGED <<today, started, events, approvals, input, todo, ensured, retention, faults,
                 written, horizon>>

\* ensureSession: INSERT ... ON CONFLICT DO NOTHING, and the agent's row, which
\* no one here reads.
Ensure(c) ==
  LET s == SessionOf(c)
      at == IF started[s] = Absent THEN today ELSE started[s] IN
  /\ pc[c] = "ensure"
  /\ started' = [started EXCEPT ![s] = at]
  /\ ensured' = [ensured EXCEPT ![c] = at]
  /\ Next1(c, "insert")
  /\ UNCHANGED <<today, events, approvals, input, todo, retention, faults, written, horizon>>

\* When c recorded the tool.call its approval is for.
CalledAt(c) ==
  LET of == {e \in written : e.type = "tool.call" /\ e.of = c} IN (CHOOSE e \in of : TRUE).at

\* The INSERT of the next row: its foreign key asks for the session.
Insert(c) ==
  LET s == SessionOf(c)
      row == Head(todo[c])
      event == [type |-> row, of |-> c, session |-> s, at |-> today]
      approval == [of |-> c, session |-> s, status |-> "pending", created |-> today,
                   resolved |-> 0, called |-> CalledAt(c)] IN
  /\ pc[c] = "insert" /\ started[s] # Absent
  /\ IF row = "approval"
       THEN approvals' = approvals \cup {approval} /\ UNCHANGED events
       ELSE events' = events \cup {event} /\ UNCHANGED approvals
  /\ written' = written \cup {event}
  /\ todo' = [todo EXCEPT ![c] = Tail(@)]
  /\ Next1(c, IF Len(todo[c]) = 1 THEN "done" ELSE "ensure")
  /\ UNCHANGED <<today, started, input, ensured, retention, faults, horizon>>

\* The session went between the two queries.
InsertOrphaned(c) ==
  /\ pc[c] = "insert" /\ started[SessionOf(c)] = Absent
  /\ Broken(c, "orphaned")
  /\ UNCHANGED <<today, started, events, approvals, input, todo, ensured, retention, faults,
                 written, horizon>>

CallFails(c) ==
  /\ pc[c] \in {"ensure", "insert"} /\ Fault /\ Broken(c, "failed")
  /\ UNCHANGED <<today, started, events, approvals, input, todo, ensured, retention, written,
                 horizon>>

-----------------------------------------------------------------------------
(* The retention job.                                                      *)

\* loadRetentionConfig and parseRetentionArgs: the command line deletes with
\* --execute and without --dry-run, the API with dry_run given as false.
DryRun(r) == IF r.by = "cli" THEN r.dryFlag \/ ~r.execute ELSE r.dryFlag

\* At least one day; days that are no number end the run before its first query.
Days(r) == IF r.days < 1 THEN 1 ELSE r.days

\* A dry run only counts, and a run of NaN days throws before its first query.
StartRun ==
  /\ job = "idle" /\ runs < MaxRuns
  /\ \E r \in Requests :
       /\ ~DryRun(r) /\ r.days # NaN /\ Days(r) <= today
       /\ cutoff' = today - Days(r) /\ prune' = r.pruneApprovals
  /\ horizon' = IF cutoff' > horizon THEN cutoff' ELSE horizon
  /\ job' = "events" /\ runs' = runs + 1
  /\ UNCHANGED <<today, started, events, approvals, calls, faults, written>>

JobEnds == job' = "idle" /\ cutoff' = 0 /\ prune' = FALSE

DeleteEvents ==
  /\ job = "events"
  /\ events' = {e \in events : e.at >= cutoff}
  /\ job' = "sessions"
  /\ UNCHANGED <<today, started, approvals, calls, cutoff, prune, runs, faults, written, horizon>>

\* A slip the runs must notice: started_at is not looked at.
OrphansOfAnyAge == {s \in Sessions : started[s] # Absent /\ ~\E e \in events : e.session = s}

\* Sessions started before the cutoff that have no events.
Orphans ==
  {s \in Sessions : /\ started[s] # Absent /\ started[s] < cutoff
                    /\ ~\E e \in events : e.session = s}

\* A slip the runs must notice: sessions go by their age alone.
DeleteOldSessions ==
  LET old == {s \in Sessions : started[s] # Absent /\ started[s] < cutoff} IN
  /\ job = "sessions"
  /\ started' = [s \in Sessions |-> IF s \in old THEN Absent ELSE started[s]]
  /\ events' = {e \in events : e.session \notin old}
  /\ approvals' = {a \in approvals : a.session \notin old}
  /\ job' = "approvals"
  /\ UNCHANGED <<today, calls, cutoff, prune, runs, faults, written, horizon>>

\* What refers to a session goes with it.
DeleteSessions ==
  /\ job = "sessions"
  /\ started' = [s \in Sessions |-> IF s \in Orphans THEN Absent ELSE started[s]]
  /\ events' = {e \in events : e.session \notin Orphans}
  /\ approvals' = {a \in approvals : a.session \notin Orphans}
  /\ job' = "approvals"
  /\ UNCHANGED <<today, calls, cutoff, prune, runs, faults, written, horizon>>

\* Resolved approvals, by the time they were resolved.  The audit comes last,
\* and is never pruned: the table it is deleted from does not exist, and the
\* error is swallowed.
DeleteApprovals ==
  /\ job = "approvals"
  /\ approvals' = IF prune
                    THEN {a \in approvals : Pending(a) \/ a.resolved >= cutoff}
                    ELSE approvals
  /\ JobEnds
  /\ UNCHANGED <<today, started, events, calls, runs, faults, written, horizon>>

\* A query of the job fails: the run ends with what it has deleted so far.
JobFails ==
  /\ job # "idle" /\ Fault /\ JobEnds
  /\ UNCHANGED <<today, started, events, approvals, calls, runs, written, horizon>>

DayPasses ==
  /\ today < FinalDay /\ today' = today + 1
  /\ UNCHANGED <<started, events, approvals, calls, retention, faults, written, horizon>>

RecordsNext ==
  \/ \E c \in Calls : \/ Begin(c) \/ UpdateApproval(c) \/ UpdateMisses(c) \/ Ensure(c)
                      \/ Insert(c) \/ InsertOrphaned(c) \/ CallFails(c)
  \/ StartRun \/ DeleteEvents \/ DeleteSessions \/ DeleteApprovals \/ JobFails
  \/ DayPasses

RecordsSpec == RecordsInit /\ [][RecordsNext]_recordsVars

-----------------------------------------------------------------------------
\* Whatever runs overlap with whatever calls, an event recorded since the
\* horizon is in its table, and so is the approval of a call that was recorded
\* since: the deletion of a session takes neither with it, pending approvals
\* included (retention.ts, the order of its deletions and NOT EXISTS).
RecentRowsStay ==
  \A e \in written : e.at >= horizon =>
    IF e.type = "approval"
      THEN CalledAt(e.of) >= horizon => \E a \in approvals : a.of = e.of
      ELSE e \in events

\* An approval that was resolved since the horizon has the event that says so,
\* unless whoever resolved it has yet to record it or failed to
\* (recorder.ts, resolveApproval: the update first, then the event).
RulingsAreOnRecord ==
  \A a \in approvals : ~Pending(a) /\ a.resolved >= horizon =>
    \/ \E e \in events : e.type = "approval.resolved" /\ input[e.of].approval = a.of
    \/ \E c \in Calls : /\ input[c].kind = "resolve" /\ input[c].approval = a.of
                        /\ pc[c] \in {"ensure", "insert", "failed", "orphaned"}

\* A call loses its session between its two queries only if the session was
\* older than a cutoff: a session just opened is not collected for having no
\* events yet (retention.ts, started_at < cutoff; recorder.ts, recordEvent).
YoungSessionsKeepCalls == \A c \in Calls : pc[c] = "orphaned" => ensured[c] < horizon
=============================================================================
