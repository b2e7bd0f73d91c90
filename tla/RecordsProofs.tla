--------------------------- MODULE RecordsProofs ---------------------------
(***************************************************************************)
(* Theorems about the recorder and the retention job, for any calls,       *)
(* sessions and retention requests: what was recorded since the latest     *)
(* cutoff stays, a ruling leads to its event, and a young session is not   *)
(* collected under a call.                                                 *)
(***************************************************************************)
EXTENDS Records, TLAPS

Kinds == {"event", "queue", "resolve", "export"}
RowNames == {"hook", "tool.call", "approval", "approval.requested", "approval.resolved",
             "siem.export"}

\* What a queued call has left to insert, from its first row to its last.
Queued == <<"tool.call", "approval", "approval.requested">>
Asked == <<"approval", "approval.requested">>
AskedFor == <<"approval.requested">>
ToInsert(kind) ==
  CASE kind = "queue"   -> {Queued, Asked, AskedFor}
    [] kind = "event"   -> {<<"hook">>}
    [] kind = "resolve" -> {<<"approval.resolved">>}
    [] kind = "export"  -> {<<"siem.export">>}

Event == [type : RowNames, of : Calls, session : Sessions, at : Nat]
Approval == [of : Calls, session : Sessions, status : {"pending", "resolved"},
             created : Nat, resolved : Nat, called : Nat]

TypeOK ==
  /\ today \in Nat /\ cutoff \in Nat /\ horizon \in Nat /\ prune \in BOOLEAN
  /\ started \in [Sessions -> Nat \cup {Absent}]
  /\ events \subseteq Event /\ written \subseteq Event /\ approvals \subseteq Approval
  /\ pc \in [Calls -> {"idle", "ensure", "insert", "done", "missed", "orphaned", "failed"}]
  /\ \A c \in Calls : input[c] \in Inputs[c]
  /\ todo \in [Calls -> Seq(RowNames)]
  /\ ensured \in [Calls -> Nat]

\* A run deletes nothing newer than the horizon, and that is in the past.
DaysInOrder ==
  /\ cutoff <= horizon /\ horizon <= today
  /\ \A e \in written : e.at <= today
  /\ \A a \in approvals : ~Pending(a) => a.called <= a.resolved /\ a.resolved <= today

\* How far a call has come, and which of its rows were inserted by then.
CalledEvent(t, c) == t \in written /\ t.type = "tool.call" /\ t.of = c
Inserting(c) == pc[c] \in {"ensure", "insert"}

CallsProgress ==
  /\ \A c \in Calls : Inserting(c) => todo[c] \in ToInsert(input[c].kind)
  /\ \A c \in Calls :
       pc[c] = "idle" \/ (Inserting(c) /\ todo[c] = Queued) => ~\E t \in written : CalledEvent(t, c)
  /\ \A c \in Calls : Inserting(c) /\ todo[c] = Asked => \E t \in written : CalledEvent(t, c)

RowsBelong ==
  /\ \A e \in written : e.session = SessionOf(e.of)
  /\ \A c \in Calls : \A t, u \in written : CalledEvent(t, c) /\ CalledEvent(u, c) => t = u
  /\ \A e \in written : e.type = "approval" => \E t \in written : CalledEvent(t, e.of)
  /\ \A a \in approvals :
       a.session = SessionOf(a.of) /\ \E t \in written : CalledEvent(t, a.of) /\ t.at = a.called

\* What was recorded since the horizon is still there.
RecentStay ==
  \A e \in written :
    /\ e.type # "approval" /\ e.at >= horizon => e \in events
    /\ e.type = "approval" =>
         \A t \in written : CalledEvent(t, e.of) /\ t.at >= horizon =>
           \E a \in approvals : a.of = e.of

\* Who resolved an approval has yet to record it, failed to, or did so no earlier.
Resolver(c, a) == input[c].kind = "resolve" /\ input[c].approval = a.of
RulingsLead ==
  \A a \in approvals : ~Pending(a) =>
    \/ \E c \in Calls : Resolver(c, a) /\ pc[c] \in {"ensure", "insert", "failed", "orphaned"}
    \/ \E e \in written : e.type = "approval.resolved" /\ Resolver(e.of, a) /\ e.at >= a.resolved

\* The session of a call that is about to insert is the one it ensured, or that
\* one was old enough to go.
SessionsHold ==
  \A c \in Calls :
    /\ pc[c] = "insert" => ensured[c] < horizon \/ started[SessionOf(c)] = ensured[c]
    /\ pc[c] = "orphaned" => ensured[c] < horizon

RecordsInv ==
  TypeOK /\ DaysInOrder /\ CallsProgress /\ RowsBelong /\ RecentStay /\ RulingsLead /\ SessionsHold

-----------------------------------------------------------------------------
LEMMA Queues ==
  /\ Len(Queued) = 3 /\ Head(Queued) = "tool.call" /\ Tail(Queued) = Asked
  /\ Len(Asked) = 2 /\ Head(Asked) = "approval" /\ Tail(Asked) = AskedFor
  /\ Len(AskedFor) = 1 /\ Head(AskedFor) = "approval.requested" /\ Tail(AskedFor) = <<>>
  /\ {Queued, Asked, AskedFor} \subseteq Seq(RowNames)
<1>1. {Queued, Asked, AskedFor} \subseteq Seq(RowNames)
  BY DEF Queued, Asked, AskedFor, RowNames
<1>2. Len(Queued) = 3 /\ Len(Asked) = 2 /\ Len(AskedFor) = 1
  BY DEF Queued, Asked, AskedFor
<1>3. Head(Queued) = "tool.call" /\ Head(Asked) = "approval" /\ Head(AskedFor) = "approval.requested"
  BY DEF Queued, Asked, AskedFor
<1>4. Tail(Queued) = Asked
  BY DEF Queued, Asked
<1>5. Tail(Asked) = AskedFor
  BY DEF Asked, AskedFor
<1>6. Tail(AskedFor) = <<>>
  BY DEF AskedFor
<1> QED
  BY <1>1, <1>2, <1>3, <1>4, <1>5, <1>6

LEMMA Singles ==
  ASSUME NEW row \in RowNames
  PROVE  /\ <<row>> \in Seq(RowNames) /\ Len(<<row>>) = 1 /\ Head(<<row>>) = row
         /\ Tail(<<row>>) \in Seq(RowNames)
  OBVIOUS

\* What a call has left to insert, and what is left after one more row.
LEMMA RowsToInsert ==
  ASSUME NEW c \in Calls, input[c] \in Inputs[c]
  PROVE  /\ input[c].kind \in Kinds /\ SessionOf(c) \in Sessions
         /\ Rows(input[c]) \in Seq(RowNames)
         /\ Rows(input[c]) \in ToInsert(input[c].kind)
         /\ Rows(input[c]) # Asked
<1>1. input[c].kind \in Kinds /\ SessionOf(c) \in Sessions
  BY RecordsAssumption DEF Kinds, SessionOf
<1>2. CASE input[c].kind = "queue"
  <2>1. Rows(input[c]) = Queued
    BY <1>2 DEF Rows, Queued
  <2> QED
    BY <1>1, <1>2, <2>1, Queues DEF ToInsert
<1>3. ASSUME NEW kind \in {"event", "resolve", "export"}, input[c].kind = kind
      PROVE  \E row \in RowNames : Rows(input[c]) = <<row>> /\ ToInsert(kind) = {<<row>>}
  BY <1>3 DEF Rows, ToInsert, RowNames
<1> QED
  BY <1>1, <1>2, <1>3, Singles, Queues DEF Kinds

LEMMA RowsLeft ==
  ASSUME NEW kind \in Kinds, NEW left \in ToInsert(kind)
  PROVE  /\ Head(left) \in RowNames /\ Tail(left) \in Seq(RowNames)
         /\ Len(left) # 1 => left \in {Queued, Asked} /\ Tail(left) \in ToInsert(kind)
         /\ Tail(left) # Queued
         /\ left = Queued <=> Head(left) = "tool.call"
         /\ Tail(left) = Asked <=> Head(left) = "tool.call"
         /\ left = Asked <=> Head(left) = "approval"
         /\ Head(left) = "approval.resolved" <=> kind = "resolve"
         /\ kind = "resolve" => Len(left) = 1
<1>1. CASE kind = "queue"
  <2>1. left \in {Queued, Asked, AskedFor} /\ {Asked, AskedFor} \subseteq ToInsert(kind)
    BY <1>1 DEF ToInsert
  <2>2. <<>> \in Seq(RowNames) /\ Len(<<>>) = 0
    OBVIOUS
  <2>3. /\ Queued # Asked /\ Queued # AskedFor /\ Asked # AskedFor
        /\ <<>> # Asked /\ <<>> # Queued /\ "queue" # "resolve"
    BY <2>2, Queues
  <2>4. CASE left = Queued
    BY <1>1, <2>1, <2>3, <2>4, Queues DEF RowNames
  <2>5. CASE left = Asked
    BY <1>1, <2>1, <2>3, <2>5, Queues DEF RowNames
  <2>6. CASE left = AskedFor
    BY <1>1, <2>1, <2>2, <2>3, <2>6, Queues DEF RowNames
  <2> QED
    BY <2>1, <2>4, <2>5, <2>6
<1>2. CASE kind # "queue"
  <2>1. PICK row \in RowNames \ {"tool.call", "approval", "approval.requested"} :
          left = <<row>> /\ (row = "approval.resolved" <=> kind = "resolve")
    <3>1. CASE kind = "event"
      BY <3>1 DEF ToInsert, RowNames
    <3>2. CASE kind = "resolve"
      BY <3>2 DEF ToInsert, RowNames
    <3>3. CASE kind = "export"
      BY <3>3 DEF ToInsert, RowNames
    <3> QED
      BY <1>2, <3>1, <3>2, <3>3 DEF Kinds
  <2>2. Head(left) = row /\ Len(left) = 1 /\ Tail(left) \in Seq(RowNames)
    BY <2>1, Singles
  <2>3. Tail(left) = <<>>
    BY <2>1
  <2>4. Len(<<>>) = 0
    OBVIOUS
  <2> QED
    BY <1>2, <2>1, <2>2, <2>3, <2>4, Queues
<1> QED
  BY <1>1, <1>2

LEMMA CalledAtIs ==
  ASSUME RowsBelong, NEW c \in Calls, NEW t \in written, CalledEvent(t, c)
  PROVE  CalledAt(c) = t.at
<1> DEFINE of == {e \in written : e.type = "tool.call" /\ e.of = c}
<1>1. t \in of /\ \A u \in of : u = t
  BY DEF RowsBelong, CalledEvent
<1>2. (CHOOSE e \in of : TRUE) = t
  BY <1>1
<1> QED
  BY <1>2 DEF CalledAt

LEMMA BeginKeeps ==
  ASSUME NEW c \in Calls, RecordsInv, Begin(c)
  PROVE  RecordsInv'
<1> USE DEF RecordsInv
<1>1. TypeOK'
  BY RowsToInsert DEF Begin, Next1, retention, TypeOK
<1>2. DaysInOrder'
  BY DEF Begin, retention, DaysInOrder
<1>3. CallsProgress'
  BY RowsToInsert DEF Begin, Next1, CallsProgress, Inserting, CalledEvent, TypeOK
<1>4. RowsBelong'
  BY DEF Begin, RowsBelong, CalledEvent, SessionOf
<1>5. RecentStay'
  BY DEF Begin, RecentStay, CalledEvent
<1>6. RulingsLead'
  BY DEF Begin, Next1, RulingsLead, Resolver
<1>7. SessionsHold'
  BY DEF Begin, Next1, SessionsHold, SessionOf
<1> QED
  BY <1>1, <1>2, <1>3, <1>4, <1>5, <1>6, <1>7

LEMMA UpdateMissesKeeps ==
  ASSUME NEW c \in Calls, RecordsInv, UpdateMisses(c)
  PROVE  RecordsInv'
<1> USE DEF RecordsInv
<1>1. TypeOK'
  BY DEF UpdateMisses, Next1, retention, TypeOK
<1>2. DaysInOrder'
  BY DEF UpdateMisses, retention, DaysInOrder
<1>3. CallsProgress'
  BY DEF UpdateMisses, Next1, CallsProgress, Inserting, CalledEvent
<1>4. RowsBelong'
  BY DEF UpdateMisses, RowsBelong, CalledEvent, SessionOf
<1>5. RecentStay'
  BY DEF UpdateMisses, RecentStay, CalledEvent
<1>6. RulingsLead'
  BY DEF UpdateMisses, Next1, RulingsLead, Resolver
<1>7. SessionsHold'
  BY DEF UpdateMisses, Next1, SessionsHold, SessionOf
<1> QED
  BY <1>1, <1>2, <1>3, <1>4, <1>5, <1>6, <1>7

LEMMA EnsureKeeps ==
  ASSUME NEW c \in Calls, RecordsInv, Ensure(c)
  PROVE  RecordsInv'
<1> USE DEF RecordsInv
<1>1. TypeOK'
  BY RowsToInsert DEF Ensure, Next1, retention, TypeOK
<1>2. DaysInOrder'
  BY DEF Ensure, retention, DaysInOrder
<1>3. CallsProgress'
  BY DEF Ensure, Next1, CallsProgress, Inserting, CalledEvent
<1>4. RowsBelong'
  BY DEF Ensure, RowsBelong, CalledEvent, SessionOf
<1>5. RecentStay'
  BY DEF Ensure, RecentStay, CalledEvent
<1>6. RulingsLead'
  BY DEF Ensure, Next1, RulingsLead, Resolver
<1>7. SessionsHold'
  BY RowsToInsert, RecordsAssumption DEF Ensure, Next1, SessionsHold, SessionOf, TypeOK
<1> QED
  BY <1>1, <1>2, <1>3, <1>4, <1>5, <1>6, <1>7

LEMMA InsertOrphanedKeeps ==
  ASSUME NEW c \in Calls, RecordsInv, InsertOrphaned(c)
  PROVE  RecordsInv'
<1> USE DEF RecordsInv
<1>1. TypeOK'
  BY DEF InsertOrphaned, Next1, Broken, retention, TypeOK
<1>2. DaysInOrder'
  BY DEF InsertOrphaned, retention, DaysInOrder
<1>3. CallsProgress'
  BY DEF InsertOrphaned, Next1, Broken, CallsProgress, Inserting, CalledEvent
<1>4. RowsBelong'
  BY DEF InsertOrphaned, RowsBelong, CalledEvent, SessionOf
<1>5. RecentStay'
  BY DEF InsertOrphaned, RecentStay, CalledEvent
<1>6. RulingsLead'
  BY DEF InsertOrphaned, Next1, Broken, BestEffort, RulingsLead, Resolver
<1>7. SessionsHold'
  BY RecordsAssumption DEF InsertOrphaned, Next1, Broken, SessionsHold, SessionOf,
     TypeOK
<1> QED
  BY <1>1, <1>2, <1>3, <1>4, <1>5, <1>6, <1>7

LEMMA CallFailsKeeps ==
  ASSUME NEW c \in Calls, RecordsInv, CallFails(c)
  PROVE  RecordsInv'
<1> USE DEF RecordsInv
<1>1. TypeOK'
  BY DEF CallFails, Next1, Broken, retention, TypeOK
<1>2. DaysInOrder'
  BY DEF CallFails, retention, DaysInOrder
<1>3. CallsProgress'
  BY DEF CallFails, Next1, Broken, CallsProgress, Inserting, CalledEvent
<1>4. RowsBelong'
  BY DEF CallFails, RowsBelong, CalledEvent, SessionOf
<1>5. RecentStay'
  BY DEF CallFails, RecentStay, CalledEvent
<1>6. RulingsLead'
  BY DEF CallFails, Next1, Broken, BestEffort, RulingsLead, Resolver
<1>7. SessionsHold'
  BY DEF CallFails, Next1, Broken, SessionsHold, SessionOf
<1> QED
  BY <1>1, <1>2, <1>3, <1>4, <1>5, <1>6, <1>7

LEMMA StartRunKeeps ==
  ASSUME RecordsInv, StartRun
  PROVE  RecordsInv'
<1> USE DEF RecordsInv
<1>1. TypeOK'
  BY RecordsAssumption DEF StartRun, Days, calls, TypeOK
<1>2. DaysInOrder'
  BY RecordsAssumption DEF StartRun, Days, DaysInOrder, TypeOK
<1>3. CallsProgress'
  BY DEF StartRun, calls, CallsProgress, Inserting, CalledEvent
<1>4. RowsBelong'
  BY RecordsAssumption DEF StartRun, calls, RowsBelong, CalledEvent, SessionOf, TypeOK
<1>5. RecentStay'
  BY RecordsAssumption DEF StartRun, Days, calls, RecentStay, CalledEvent, TypeOK, Event, Approval
<1>6. RulingsLead'
  BY RecordsAssumption DEF StartRun, Days, calls, RulingsLead, Resolver, Pending, TypeOK
<1>7. SessionsHold'
  BY RecordsAssumption DEF StartRun, Days, calls, SessionsHold, SessionOf, TypeOK
<1> QED
  BY <1>1, <1>2, <1>3, <1>4, <1>5, <1>6, <1>7

LEMMA DeleteEventsKeeps ==
  ASSUME RecordsInv, DeleteEvents
  PROVE  RecordsInv'
<1> USE DEF RecordsInv
<1>1. TypeOK'
  BY DEF DeleteEvents, calls, TypeOK
<1>2. DaysInOrder'
  BY DEF DeleteEvents, DaysInOrder
<1>3. CallsProgress'
  BY DEF DeleteEvents, calls, CallsProgress, Inserting, CalledEvent
<1>4. RowsBelong'
  BY DEF DeleteEvents, calls, RowsBelong, CalledEvent, SessionOf
<1>5. RecentStay'
  <2>1. \A e \in written : e.at \in Nat /\ e.session \in Sessions /\ e.of \in Calls
    BY DEF TypeOK, Event
  <2>2. ASSUME NEW e \in written, e.at >= horizon
        PROVE  e.at >= cutoff
    BY <2>1, <2>2 DEF TypeOK, DaysInOrder
  <2>3. /\ events' = {e \in events : e.at >= cutoff}
        /\ UNCHANGED <<written, approvals, horizon>>
    BY DEF DeleteEvents
  <2>4. \A e \in written : e.type # "approval" /\ e.at >= horizon => e \in events'
    BY <2>2, <2>3 DEF RecentStay
  <2> QED
    BY <2>3, <2>4 DEF RecentStay, CalledEvent
<1>6. RulingsLead'
  BY DEF DeleteEvents, calls, RulingsLead, Resolver
<1>7. SessionsHold'
  BY DEF DeleteEvents, calls, SessionsHold, SessionOf
<1> QED
  BY <1>1, <1>2, <1>3, <1>4, <1>5, <1>6, <1>7

LEMMA DeleteSessionsKeeps ==
  ASSUME RecordsInv, DeleteSessions
  PROVE  RecordsInv'
<1> USE DEF RecordsInv
<1>1. TypeOK'
  BY DEF DeleteSessions, calls, TypeOK
<1>2. DaysInOrder'
  BY DEF DeleteSessions, DaysInOrder
<1>3. CallsProgress'
  BY DEF DeleteSessions, calls, CallsProgress, Inserting, CalledEvent
<1>4. RowsBelong'
  BY DEF DeleteSessions, calls, RowsBelong, CalledEvent, SessionOf
<1>5. RecentStay'
  <2>1. \A e \in written : e.at \in Nat /\ e.session \in Sessions /\ e.of \in Calls
    BY DEF TypeOK, Event
  <2>2. /\ events' = {e \in events : e.session \notin Orphans}
        /\ approvals' = {a \in approvals : a.session \notin Orphans}
        /\ UNCHANGED <<written, horizon>>
    BY DEF DeleteSessions
  <2>3. \A e \in events : e.session \notin Orphans
    BY DEF Orphans
  <2>4. ASSUME NEW e \in written, NEW t \in written, e.type = "approval",
               CalledEvent(t, e.of), t.at >= horizon
        PROVE  \E a \in approvals' : a.of = e.of
    <3>1. PICK a \in approvals : a.of = e.of
      BY <2>4 DEF RecentStay
    <3>2. t \in events
      BY <2>4 DEF RecentStay, CalledEvent
    <3>3. a.session = t.session
      BY <2>4, <3>1 DEF RowsBelong, CalledEvent
    <3> QED
      BY <2>2, <2>3, <3>1, <3>2, <3>3
  <2>5. \A e \in written : e.type # "approval" /\ e.at >= horizon => e \in events'
    BY <2>2, <2>3 DEF RecentStay
  <2> QED
    BY <2>2, <2>4, <2>5 DEF RecentStay, CalledEvent
<1>6. RulingsLead'
  BY DEF DeleteSessions, calls, RulingsLead, Resolver
<1>7. SessionsHold'
  <2> SUFFICES ASSUME NEW c \in Calls
               PROVE  SessionsHold!(c)'
    BY DEF SessionsHold
  <2>1. SessionOf(c) \in Sessions
    BY RowsToInsert DEF TypeOK
  <2>2. CASE SessionOf(c) \in Orphans
    <3>1. started[SessionOf(c)] \in Nat /\ started[SessionOf(c)] < horizon
      BY <2>2 DEF Orphans, TypeOK, DaysInOrder
    <3>2. UNCHANGED <<pc, ensured, horizon>>
      BY DEF DeleteSessions, calls
    <3> QED
      BY <3>1, <3>2 DEF SessionsHold
  <2>3. CASE SessionOf(c) \notin Orphans
    <3>1. UNCHANGED <<pc, input, ensured, horizon>>
      BY DEF DeleteSessions, calls
    <3>2. started'[SessionOf(c)] = started[SessionOf(c)]
      BY <2>1, <2>3 DEF DeleteSessions
    <3> QED
      BY <3>1, <3>2 DEF SessionsHold, SessionOf
  <2> QED
    BY <2>2, <2>3
<1> QED
  BY <1>1, <1>2, <1>3, <1>4, <1>5, <1>6, <1>7

LEMMA DeleteApprovalsKeeps ==
  ASSUME RecordsInv, DeleteApprovals
  PROVE  RecordsInv'
<1> USE DEF RecordsInv
<1>1. TypeOK'
  BY DEF DeleteApprovals, JobEnds, calls, TypeOK
<1>2. DaysInOrder'
  BY DEF DeleteApprovals, JobEnds, DaysInOrder, TypeOK
<1>3. CallsProgress'
  BY DEF DeleteApprovals, calls, CallsProgress, Inserting, CalledEvent
<1>4. RowsBelong'
  BY DEF DeleteApprovals, calls, RowsBelong, CalledEvent, SessionOf
<1>5. RecentStay'
  <2>1. \A e \in written : e.at \in Nat /\ e.session \in Sessions /\ e.of \in Calls
    BY DEF TypeOK, Event
  <2>2. UNCHANGED <<written, events, horizon>>
    BY DEF DeleteApprovals
  <2>3. ASSUME NEW e \in written, NEW t \in written, e.type = "approval",
               CalledEvent(t, e.of), t.at >= horizon
        PROVE  \E a \in approvals' : a.of = e.of
    <3>1. PICK a \in approvals : a.of = e.of
      BY <2>3 DEF RecentStay
    <3>2. PICK u \in written : CalledEvent(u, a.of) /\ u.at = a.called
      BY DEF RowsBelong
    <3>3. u = t
      BY <2>1, <2>3, <3>1, <3>2 DEF RowsBelong
    <3>4. a.called \in Nat /\ a.resolved \in Nat
      BY DEF TypeOK, Approval
    <3>5. ~Pending(a) => a.resolved >= cutoff
      BY <2>3, <3>2, <3>3, <3>4 DEF TypeOK, DaysInOrder
    <3>6. a \in approvals'
      BY <3>5 DEF DeleteApprovals
    <3> QED
      BY <3>1, <3>6
  <2> QED
    BY <2>2, <2>3 DEF RecentStay, CalledEvent
<1>6. RulingsLead'
  BY DEF DeleteApprovals, calls, RulingsLead, Resolver
<1>7. SessionsHold'
  BY DEF DeleteApprovals, calls, SessionsHold, SessionOf
<1> QED
  BY <1>1, <1>2, <1>3, <1>4, <1>5, <1>6, <1>7

LEMMA JobFailsKeeps ==
  ASSUME RecordsInv, JobFails
  PROVE  RecordsInv'
<1> USE DEF RecordsInv
<1>1. TypeOK'
  BY DEF JobFails, JobEnds, calls, TypeOK
<1>2. DaysInOrder'
  BY DEF JobFails, JobEnds, DaysInOrder, TypeOK
<1>3. CallsProgress'
  BY DEF JobFails, calls, CallsProgress, Inserting, CalledEvent
<1>4. RowsBelong'
  BY DEF JobFails, calls, RowsBelong, CalledEvent, SessionOf
<1>5. RecentStay'
  BY DEF JobFails, RecentStay, CalledEvent
<1>6. RulingsLead'
  BY DEF JobFails, calls, RulingsLead, Resolver
<1>7. SessionsHold'
  BY DEF JobFails, calls, SessionsHold, SessionOf
<1> QED
  BY <1>1, <1>2, <1>3, <1>4, <1>5, <1>6, <1>7

LEMMA DayPassesKeeps ==
  ASSUME RecordsInv, DayPasses
  PROVE  RecordsInv'
<1> USE DEF RecordsInv
<1>1. TypeOK'
  BY DEF DayPasses, calls, retention, TypeOK
<1>2. DaysInOrder'
  BY DEF DayPasses, retention, DaysInOrder, TypeOK, Event, Approval
<1>3. CallsProgress'
  BY DEF DayPasses, calls, CallsProgress, Inserting, CalledEvent
<1>4. RowsBelong'
  BY DEF DayPasses, calls, RowsBelong, CalledEvent, SessionOf
<1>5. RecentStay'
  BY DEF DayPasses, RecentStay, CalledEvent
<1>6. RulingsLead'
  BY DEF DayPasses, calls, RulingsLead, Resolver
<1>7. SessionsHold'
  BY DEF DayPasses, calls, SessionsHold, SessionOf
<1> QED
  BY <1>1, <1>2, <1>3, <1>4, <1>5, <1>6, <1>7

LEMMA UpdateApprovalKeeps ==
  ASSUME NEW c \in Calls, RecordsInv, UpdateApproval(c)
  PROVE  RecordsInv'
<1> USE DEF RecordsInv
<1>1. PICK a \in approvals :
        /\ a.of = input[c].approval /\ Pending(a)
        /\ approvals' = (approvals \ {a}) \cup {[a EXCEPT !.status = "resolved", !.resolved = today]}
  BY DEF UpdateApproval
<1>0. PICK b : b = [a EXCEPT !.status = "resolved", !.resolved = today]
  OBVIOUS
<1>2. /\ b \in Approval /\ b.of = a.of /\ b.session = a.session /\ b.called = a.called
      /\ b.status = "resolved" /\ b.resolved = today
  BY <1>0 DEF TypeOK, Approval
<1>3. approvals' = (approvals \ {a}) \cup {b} /\ ~Pending(b)
  BY <1>0, <1>1 DEF Pending
<1>4. /\ pc[c] = "idle" /\ pc' = [pc EXCEPT ![c] = "ensure"]
      /\ input[c].kind = "resolve" /\ todo' = [todo EXCEPT ![c] = Rows(input[c])]
      /\ UNCHANGED <<today, started, events, input, ensured, cutoff, prune, written, horizon>>
  BY DEF UpdateApproval, Next1, retention
<1>5. TypeOK'
  BY <1>2, <1>3, <1>4, RowsToInsert DEF TypeOK
<1>6. DaysInOrder'
  <2>1. PICK t \in written : t.at = a.called
    BY DEF RowsBelong
  <2>2. b.called <= b.resolved /\ b.resolved <= today
    BY <1>2, <2>1 DEF TypeOK, DaysInOrder
  <2>3. \A x \in approvals' : ~Pending(x) => x.called <= x.resolved /\ x.resolved <= today
    BY <1>3, <2>2 DEF DaysInOrder
  <2> QED
    BY <1>4, <2>3 DEF DaysInOrder
<1>7. CallsProgress'
  BY <1>4, RowsToInsert DEF CallsProgress, Inserting, CalledEvent, TypeOK
<1>8. RowsBelong'
  BY <1>2, <1>3, <1>4 DEF RowsBelong, CalledEvent, SessionOf
<1>9. RecentStay'
  BY <1>2, <1>3, <1>4 DEF RecentStay, CalledEvent
<1>10. RulingsLead'
  <2>1. Resolver(c, b)' /\ pc'[c] = "ensure"
    BY <1>1, <1>2, <1>4 DEF Resolver, TypeOK
  <2>2. ASSUME NEW x \in approvals, ~Pending(x)
        PROVE  RulingsLead!(x)'
    <3>1. CASE \E d \in Calls : Resolver(d, x) /\ pc[d] \in {"ensure", "insert", "failed", "orphaned"}
      BY <1>4, <3>1 DEF Resolver, TypeOK
    <3>2. CASE \E e \in written : e.type = "approval.resolved" /\ Resolver(e.of, x) /\ e.at >= x.resolved
      BY <1>4, <3>2 DEF Resolver
    <3> QED
      BY <2>2, <3>1, <3>2 DEF RulingsLead
  <2> QED
    BY <1>3, <2>1, <2>2 DEF RulingsLead, Pending
<1>11. SessionsHold'
  BY <1>4 DEF SessionsHold, SessionOf, TypeOK
<1> QED
  BY <1>5, <1>6, <1>7, <1>8, <1>9, <1>10, <1>11

\* An insert adds one event to the history, and the same event or the approval
\* it stands for to its table.
NewEvent(c) == [type |-> Head(todo[c]), of |-> c, session |-> SessionOf(c), at |-> today]
NewApproval(c) ==
  [of |-> c, session |-> SessionOf(c), status |-> "pending", created |-> today,
   resolved |-> 0, called |-> CalledAt(c)]

LEMMA InsertIs ==
  ASSUME NEW c \in Calls, RecordsInv, Insert(c)
  PROVE  /\ NewEvent(c) \in Event
         /\ written' = written \cup {NewEvent(c)}
         /\ \/ /\ todo[c] # Asked /\ NewEvent(c).type # "approval"
               /\ events' = events \cup {NewEvent(c)} /\ UNCHANGED approvals
            \/ /\ todo[c] = Asked /\ NewEvent(c).type = "approval"
               /\ UNCHANGED events /\ approvals' = approvals \cup {NewApproval(c)}
               /\ \E t \in written : CalledEvent(t, c) /\ t.at = NewApproval(c).called
               /\ NewApproval(c) \in Approval
         /\ pc[c] = "insert" /\ todo[c] \in ToInsert(input[c].kind) /\ input[c].kind \in Kinds
         /\ todo' = [todo EXCEPT ![c] = Tail(todo[c])] /\ Tail(todo[c]) \in Seq(RowNames)
         /\ \/ pc' = [pc EXCEPT ![c] = "done"]
            \/ /\ pc' = [pc EXCEPT ![c] = "ensure"]
               /\ Tail(todo[c]) \in ToInsert(input[c].kind) /\ input[c].kind # "resolve"
         /\ UNCHANGED <<today, started, input, ensured, cutoff, prune, horizon>>
<1> USE DEF RecordsInv
<1>1. pc[c] = "insert" /\ todo[c] \in ToInsert(input[c].kind) /\ input[c].kind \in Kinds
  BY RowsToInsert DEF Insert, CallsProgress, Inserting, TypeOK
<1>2. Head(todo[c]) \in RowNames /\ SessionOf(c) \in Sessions /\ Tail(todo[c]) \in Seq(RowNames)
  BY <1>1, RowsLeft, RowsToInsert DEF TypeOK
<1>3. NewEvent(c) \in Event /\ NewEvent(c).type = Head(todo[c])
  BY <1>2 DEF NewEvent, Event, TypeOK
<1>4. todo[c] = Asked <=> Head(todo[c]) = "approval"
  BY <1>1, RowsLeft
<1>5. ASSUME todo[c] = Asked
      PROVE  /\ \E t \in written : CalledEvent(t, c) /\ t.at = NewApproval(c).called
             /\ NewApproval(c) \in Approval
  <2>1. PICK t \in written : CalledEvent(t, c)
    BY <1>1, <1>5 DEF CallsProgress, Inserting
  <2>2. CalledAt(c) = t.at /\ t.at \in Nat
    BY <2>1, CalledAtIs DEF TypeOK, Event
  <2> QED
    BY <1>2, <2>1, <2>2 DEF NewApproval, Approval, TypeOK
<1>6. /\ written' = written \cup {NewEvent(c)}
      /\ IF Head(todo[c]) = "approval"
           THEN approvals' = approvals \cup {NewApproval(c)} /\ UNCHANGED events
           ELSE events' = events \cup {NewEvent(c)} /\ UNCHANGED approvals
      /\ UNCHANGED <<today, started, input, ensured, cutoff, prune, horizon>>
      /\ todo' = [todo EXCEPT ![c] = Tail(todo[c])]
  BY DEF Insert, NewEvent, NewApproval, retention
<1>7. \/ pc' = [pc EXCEPT ![c] = "done"]
      \/ pc' = [pc EXCEPT ![c] = "ensure"] /\ Len(todo[c]) # 1
  BY DEF Insert, Next1
<1>8. Len(todo[c]) # 1 => Tail(todo[c]) \in ToInsert(input[c].kind) /\ input[c].kind # "resolve"
  BY <1>1, RowsLeft
<1> HIDE DEF RecordsInv
<1> QED
  BY <1>1, <1>2, <1>3, <1>4, <1>5, <1>6, <1>7, <1>8

LEMMA InsertKeeps ==
  ASSUME NEW c \in Calls, RecordsInv, Insert(c)
  PROVE  RecordsInv'
<1> USE DEF RecordsInv
<1>0. PICK event, approval : event = NewEvent(c) /\ approval = NewApproval(c)
  OBVIOUS
<1>1. /\ event.type = Head(todo[c]) /\ event.of = c /\ event.session = SessionOf(c)
      /\ event.at = today
      /\ approval.of = c /\ approval.session = SessionOf(c) /\ approval.status = "pending"
  BY <1>0 DEF NewEvent, NewApproval
<1>2. event \in Event /\ written' = written \cup {event}
  BY <1>0, InsertIs
<1>3. \/ /\ todo[c] # Asked /\ event.type # "approval"
         /\ events' = events \cup {event} /\ UNCHANGED approvals
      \/ /\ todo[c] = Asked /\ event.type = "approval"
         /\ UNCHANGED events /\ approvals' = approvals \cup {approval}
         /\ \E t \in written : CalledEvent(t, c) /\ t.at = approval.called
         /\ approval \in Approval
  BY <1>0, InsertIs
<1>4. /\ pc[c] = "insert" /\ todo[c] \in ToInsert(input[c].kind) /\ input[c].kind \in Kinds
      /\ todo' = [todo EXCEPT ![c] = Tail(todo[c])] /\ Tail(todo[c]) \in Seq(RowNames)
      /\ \/ pc' = [pc EXCEPT ![c] = "done"]
         \/ /\ pc' = [pc EXCEPT ![c] = "ensure"]
            /\ Tail(todo[c]) \in ToInsert(input[c].kind) /\ input[c].kind # "resolve"
      /\ UNCHANGED <<today, started, input, ensured, cutoff, prune, horizon>>
  BY <1>0, InsertIs
<1>5. /\ todo[c] = Queued <=> event.type = "tool.call"
      /\ Tail(todo[c]) = Asked <=> event.type = "tool.call"
      /\ Tail(todo[c]) # Queued
      /\ event.type = "approval.resolved" <=> input[c].kind = "resolve"
  BY <1>1, <1>4, RowsLeft
<1>6. \A t \in written : t.of = c => ~(t.type = "tool.call" /\ event.type = "tool.call")
  BY <1>4, <1>5 DEF CallsProgress, Inserting, CalledEvent
<1>7. TypeOK'
  BY <1>2, <1>3, <1>4 DEF TypeOK
<1>8. DaysInOrder'
  BY <1>1, <1>2, <1>3, <1>4 DEF DaysInOrder, Pending, TypeOK
<1>9. CallsProgress'
  <2>1. ASSUME NEW d \in Calls, d # c
        PROVE  /\ (\E t \in written' : CalledEvent(t, d)') <=> (\E t \in written : CalledEvent(t, d))
               /\ Inserting(d)' = Inserting(d) /\ todo'[d] = todo[d] /\ pc'[d] = pc[d]
    BY <1>1, <1>2, <1>4, <2>1 DEF CalledEvent, Inserting, TypeOK
  <2>2. /\ pc'[c] # "idle"
        /\ Inserting(c)' => Tail(todo[c]) \in ToInsert(input[c].kind)
        /\ todo'[c] = Tail(todo[c])
    BY <1>4 DEF Inserting, TypeOK
  <2>3. Tail(todo[c]) = Asked => CalledEvent(event, c)'
    BY <1>1, <1>2, <1>5 DEF CalledEvent
  <2>4. ASSUME NEW d \in Calls
        PROVE  /\ Inserting(d)' => todo'[d] \in ToInsert(input'[d].kind)
               /\ pc'[d] = "idle" \/ (Inserting(d)' /\ todo'[d] = Queued)
                    => ~\E t \in written' : CalledEvent(t, d)'
               /\ Inserting(d)' /\ todo'[d] = Asked => \E t \in written' : CalledEvent(t, d)'
    <3>1. CASE d = c
      BY <1>2, <1>4, <1>5, <2>2, <2>3, <3>1
    <3>2. CASE d # c
      <4> HIDE DEF RecordsInv
      <4>1. CallsProgress!1!(d) /\ CallsProgress!2!(d) /\ CallsProgress!3!(d)
        BY DEF RecordsInv, CallsProgress
      <4> QED
        BY <1>4, <2>1, <3>2, <4>1
    <3> QED
      BY <3>1, <3>2
  <2> QED
    BY <2>4 DEF CallsProgress
<1>10. RowsBelong'
  <2>1. \A e \in written' : e.session = SessionOf(e.of)'
    BY <1>1, <1>2, <1>4 DEF RowsBelong, SessionOf
  <2>2. \A d \in Calls : \A t, u \in written' : CalledEvent(t, d)' /\ CalledEvent(u, d)' => t = u
    BY <1>1, <1>2, <1>6 DEF RowsBelong, CalledEvent
  <2>3. \A e \in written' : e.type = "approval" => \E t \in written' : CalledEvent(t, e.of)'
    BY <1>1, <1>2, <1>3 DEF RowsBelong, CalledEvent
  <2>4. \A a \in approvals' :
          a.session = SessionOf(a.of)' /\ \E t \in written' : CalledEvent(t, a.of)' /\ t.at = a.called
    BY <1>1, <1>2, <1>3, <1>4 DEF RowsBelong, CalledEvent, SessionOf
  <2> QED
    BY <2>1, <2>2, <2>3, <2>4 DEF RowsBelong
<1>11. RecentStay'
  <2>1. events \subseteq events' /\ approvals \subseteq approvals' /\ horizon' = horizon
    BY <1>3, <1>4
  <2>2. event.type # "approval" => event \in events'
    BY <1>3
  <2>3. event.type = "approval" => \E a \in approvals' : a.of = c
    BY <1>1, <1>3
  <2>4. ASSUME NEW e \in written, e.type = "approval", CalledEvent(event, e.of)'
        PROVE  FALSE
    BY <1>1, <1>2, <1>6, <2>4 DEF RowsBelong, CalledEvent
  <2>5. ASSUME NEW e \in written', e.type # "approval", e.at >= horizon
        PROVE  e \in events'
    BY <1>2, <2>1, <2>2, <2>5 DEF RecentStay
  <2>6. ASSUME NEW e \in written', e.type = "approval",
               NEW t \in written', CalledEvent(t, e.of)', t.at >= horizon
        PROVE  \E a \in approvals' : a.of = e.of
    <3>1. CASE e = event
      BY <1>1, <2>3, <2>6, <3>1
    <3>2. CASE e \in written /\ t \in written
      BY <2>1, <2>6, <3>2 DEF RecentStay, CalledEvent
    <3> QED
      BY <1>2, <2>4, <2>6, <3>1, <3>2
  <2> QED
    BY <2>1, <2>5, <2>6 DEF RecentStay
<1>12. RulingsLead'
  <2>1. ASSUME NEW a \in approvals', ~Pending(a)
        PROVE  a \in approvals
    BY <1>1, <1>3, <2>1 DEF Pending
  <2>2. ASSUME NEW a \in approvals, ~Pending(a)
        PROVE  RulingsLead!(a)'
    <3>1. CASE Resolver(c, a)
      <4>1. event.type = "approval.resolved" /\ event.at >= a.resolved
        BY <1>1, <1>5, <2>2, <3>1 DEF Resolver, DaysInOrder, TypeOK, Approval
      <4> QED
        BY <1>1, <1>2, <1>4, <3>1, <4>1 DEF Resolver
    <3>2. CASE \E d \in Calls \ {c} :
                 Resolver(d, a) /\ pc[d] \in {"ensure", "insert", "failed", "orphaned"}
      BY <1>4, <3>2 DEF Resolver, TypeOK
    <3>3. CASE \E e \in written : e.type = "approval.resolved" /\ Resolver(e.of, a) /\ e.at >= a.resolved
      BY <1>2, <1>4, <3>3 DEF Resolver
    <3> QED
      BY <2>2, <3>1, <3>2, <3>3 DEF RulingsLead
  <2> QED
    BY <2>1, <2>2 DEF RulingsLead, Pending
<1>13. SessionsHold'
  BY <1>4 DEF SessionsHold, SessionOf, TypeOK
<1> QED
  BY <1>7, <1>8, <1>9, <1>10, <1>11, <1>12, <1>13

-----------------------------------------------------------------------------
LEMMA RecordsStart == RecordsInit => RecordsInv
<1> SUFFICES ASSUME RecordsInit
             PROVE  RecordsInv
  OBVIOUS
<1> USE DEF RecordsInit
<1>1. TypeOK
  <2>1. <<>> \in Seq(RowNames)
    OBVIOUS
  <2> QED
    BY <2>1 DEF TypeOK
<1>2. DaysInOrder /\ CallsProgress /\ RowsBelong
  BY DEF DaysInOrder, CallsProgress, Inserting, CalledEvent, RowsBelong
<1>3. RecentStay /\ RulingsLead /\ SessionsHold
  BY DEF RecentStay, RulingsLead, SessionsHold
<1> QED
  BY <1>1, <1>2, <1>3 DEF RecordsInv

LEMMA IdleKeeps ==
  ASSUME RecordsInv, UNCHANGED recordsVars
  PROVE  RecordsInv'
<1> USE DEF RecordsInv, recordsVars, calls, retention
<1>1. TypeOK' /\ DaysInOrder' /\ CallsProgress'
  BY DEF TypeOK, DaysInOrder, CallsProgress, Inserting, CalledEvent, Pending
<1>2. RowsBelong' /\ RecentStay'
  BY DEF RowsBelong, RecentStay, SessionOf, CalledEvent
<1>3. RulingsLead' /\ SessionsHold'
  BY DEF RulingsLead, SessionsHold, SessionOf, Resolver, Pending
<1> QED
  BY <1>1, <1>2, <1>3

LEMMA RecordsStep == RecordsInv /\ [RecordsNext]_recordsVars => RecordsInv'
<1> SUFFICES ASSUME RecordsInv, [RecordsNext]_recordsVars
             PROVE  RecordsInv'
  OBVIOUS
<1>1. ASSUME NEW c \in Calls,
             \/ Begin(c) \/ UpdateApproval(c) \/ UpdateMisses(c) \/ Ensure(c)
             \/ Insert(c) \/ InsertOrphaned(c) \/ CallFails(c)
      PROVE  RecordsInv'
  BY <1>1, BeginKeeps, UpdateApprovalKeeps, UpdateMissesKeeps, EnsureKeeps, InsertKeeps,
     InsertOrphanedKeeps, CallFailsKeeps
<1>2. CASE StartRun \/ DeleteEvents \/ DeleteSessions \/ DeleteApprovals \/ JobFails \/ DayPasses
  BY <1>2, StartRunKeeps, DeleteEventsKeeps, DeleteSessionsKeeps, DeleteApprovalsKeeps,
     JobFailsKeeps, DayPassesKeeps
<1>3. CASE UNCHANGED recordsVars
  BY <1>3, IdleKeeps
<1> QED
  BY <1>1, <1>2, <1>3 DEF RecordsNext

LEMMA Invariance == RecordsSpec => []RecordsInv
BY RecordsStart, RecordsStep, PTL DEF RecordsSpec

\* For any number of sessions, calls and overlapping runs, what was recorded
\* since the latest cutoff is still in its table (retention.ts).
THEOREM RecentRowsStayHolds == RecordsSpec => []RecentRowsStay
<1>1. RecordsInv => RecentRowsStay
  <2> SUFFICES ASSUME RecordsInv, NEW e \in written, e.at >= horizon
               PROVE  RecentRowsStay!(e)!2
    BY DEF RecentRowsStay
  <2>1. CASE e.type = "approval"
    <3>1. PICK t \in written : CalledEvent(t, e.of)
      BY <2>1 DEF RecordsInv, RowsBelong
    <3>2. e.of \in Calls
      BY DEF RecordsInv, TypeOK, Event
    <3>3. CalledAt(e.of) = t.at
      BY <3>1, <3>2, CalledAtIs DEF RecordsInv
    <3> QED
      BY <2>1, <3>1, <3>3 DEF RecordsInv, RecentStay
  <2>2. CASE e.type # "approval"
    BY <2>2 DEF RecordsInv, RecentStay
  <2> QED
    BY <2>1, <2>2
<1> QED
  BY <1>1, Invariance, PTL

\* However rulings, their events, crashes and runs of the job interleave, an
\* approval resolved since the horizon has its event, or whoever resolved it has
\* yet to record it or failed to (recorder.ts, resolveApproval).
THEOREM RulingsAreOnRecordHolds == RecordsSpec => []RulingsAreOnRecord
<1>1. RecordsInv => RulingsAreOnRecord
  <2> SUFFICES ASSUME RecordsInv, NEW a \in approvals, ~Pending(a), a.resolved >= horizon
               PROVE  RulingsAreOnRecord!(a)!2
    BY DEF RulingsAreOnRecord
  <2>1. CASE \E c \in Calls :
               Resolver(c, a) /\ pc[c] \in {"ensure", "insert", "failed", "orphaned"}
    BY <2>1 DEF Resolver
  <2>2. ASSUME NEW e \in written, e.type = "approval.resolved", Resolver(e.of, a),
               e.at >= a.resolved
        PROVE  e \in events
    <3>1. e.at \in Nat /\ a.resolved \in Nat /\ horizon \in Nat
      BY DEF RecordsInv, TypeOK, Event, Approval
    <3>2. e.at >= horizon
      BY <2>2, <3>1
    <3> QED
      BY <2>2, <3>2 DEF RecordsInv, RecentStay
  <2> QED
    BY <2>1, <2>2 DEF RecordsInv, RulingsLead, Resolver
<1> QED
  BY <1>1, Invariance, PTL

\* A call finds its session gone between its two queries only if the session was
\* older than the cutoff of some run (recorder.ts, recordEvent).
THEOREM YoungSessionsKeepCallsHolds == RecordsSpec => []YoungSessionsKeepCalls
<1>1. RecordsInv => YoungSessionsKeepCalls
  BY DEF RecordsInv, SessionsHold, YoungSessionsKeepCalls
<1> QED
  BY <1>1, Invariance, PTL
=============================================================================
