--------------------------- MODULE ApprovalProofs ---------------------------
(***************************************************************************)
(* Theorems about the approval queue, for any number of calls, resolvers   *)
(* and timeout values: the type invariant, the inductive invariant behind  *)
(* the rulings, the one behind the timeouts, and the implementation of     *)
(* HumanGate.                                                              *)
(***************************************************************************)
EXTENDS Approval, TLAPS

\* A resolution is stored with the person or the timeout that made it.
LEMMA RulingShape ==
  /\ ByTimeout \in Ruling /\ ByTimeout.status = "expired"
  /\ \A v \in Verdicts, r \in Resolvers :
       ByPerson(v, r) \in Ruling /\ ByPerson(v, r).status = v
  /\ \A x \in Ruling : x.status \in Final
  /\ \A x \in Ruling : x.status \in Verdicts =>
       \E r \in Resolvers : x = ByPerson(x.status, r)
<1>1. ByTimeout \in Ruling /\ ByTimeout.status = "expired"
  BY DEF Ruling, ByTimeout
<1>2. \A v \in Verdicts, r \in Resolvers :
        ByPerson(v, r) \in Ruling /\ ByPerson(v, r).status = v
  BY DEF Ruling, ByPerson
<1>3. ASSUME NEW x \in Ruling
      PROVE  /\ x.status \in Final
             /\ x.status \in Verdicts => \E r \in Resolvers : x = ByPerson(x.status, r)
  <2>1. CASE x = ByTimeout
    BY <2>1 DEF ByTimeout, Final, Verdicts
  <2>2. CASE \E v \in Verdicts, r \in Resolvers : x = ByPerson(v, r)
    BY <2>2, <1>2 DEF Final
  <2>3. QED
    BY <2>1, <2>2 DEF Ruling
<1>4. QED
  BY <1>1, <1>2, <1>3

\* The request state of every call, row and resolver keeps its type.
THEOREM TypeCorrect == Spec => []TypeOK
<1> USE DEF TypeOK
<1>1. Init => TypeOK
  BY DEF Init, Status, Awaiting, Answers
<1>2. TypeOK /\ [Next]_vars => TypeOK'
  <2> SUFFICES ASSUME TypeOK, [Next]_vars
               PROVE  TypeOK'
    OBVIOUS
  <2> USE DEF Goto, Reply, Awaiting, Answers
  <2>1. ASSUME NEW c \in Calls, Begin(c)
        PROVE  TypeOK'
    BY <2>1 DEF Begin
  <2>2. ASSUME NEW c \in Calls, Record(c)
        PROVE  TypeOK'
    BY <2>2, TimeoutsAssumption DEF Record
  <2>3. ASSUME NEW c \in Calls, Create(c)
        PROVE  TypeOK'
    BY <2>3 DEF Create, Status
  <2>4. ASSUME NEW c \in Calls, Requested(c)
        PROVE  TypeOK'
    BY <2>4, TimeoutsAssumption DEF Requested, Loop
  <2>5. ASSUME NEW c \in Calls, Read(c)
        PROVE  TypeOK'
    BY <2>5 DEF Read, Status, Final, Verdicts
  <2>6. ASSUME NEW c \in Calls, Decide(c)
        PROVE  TypeOK'
    BY <2>6 DEF Decide
  <2>7. ASSUME NEW c \in Calls, Wake(c)
        PROVE  TypeOK'
    BY <2>7 DEF Wake, Loop
  <2>8. ASSUME NEW c \in Calls, Expire(c)
        PROVE  TypeOK'
    BY <2>8, RulingShape DEF Expire, UpdateRow, UpdateMisses, Status
  <2>9. ASSUME NEW c \in Calls, LogExpiry(c)
        PROVE  TypeOK'
    BY <2>9, RulingShape DEF LogExpiry
  <2>10. ASSUME NEW r \in Resolvers, NEW c \in Calls, NEW v \in Verdicts, Resolve(r, c, v)
         PROVE  TypeOK'
    BY <2>10, RulingShape DEF Resolve, UpdateRow, UpdateMisses, Status
  <2>11. ASSUME NEW r \in Resolvers, LogResolution(r)
         PROVE  TypeOK'
    BY <2>11 DEF LogResolution
  <2>12. ASSUME NEW c \in Calls, CallFails(c)
         PROVE  TypeOK'
    BY <2>12 DEF CallFails
  <2>13. ASSUME NEW r \in Resolvers, ResolveFails(r)
         PROVE  TypeOK'
    BY <2>13 DEF ResolveFails
  <2>14. ASSUME NEW c \in Calls, Prune(c)
         PROVE  TypeOK'
    BY <2>14 DEF Prune, Status
  <2>15. CASE Crash
    BY <2>15 DEF Crash
  <2>16. CASE Tick
    BY <2>16 DEF Tick, Less
  <2>17. CASE UNCHANGED vars
    BY <2>17 DEF vars
  <2>18. QED
    BY <2>1, <2>2, <2>3, <2>4, <2>5, <2>6, <2>7, <2>8, <2>9, <2>10, <2>11, <2>12,
       <2>13, <2>14, <2>15, <2>16, <2>17 DEF Next, Proceed, Quiet
<1>3. QED
  BY <1>1, <1>2, PTL DEF Spec

-----------------------------------------------------------------------------
\* The strengthening: where the row of a call stands at each await, ...
RowsMatchProgress ==
  \A c \in Calls :
    /\ pc[c] \in {"idle", "record", "create"} => status[c] = "none"
    /\ pc[c] \in Awaiting \ {"record", "create"} => status[c] # "none"
    /\ pc[c] \in Awaiting \ {"record"} => mode[c] \in {"queue", "wait", "keep"}
    /\ mode[c] \notin {"queue", "wait", "keep"} => status[c] = "none"
    /\ pc[c] = "idle" <=> mode[c] = "none"
    /\ pc[c] = "done" <=> answer[c] # "none"

\* ... a row open or absent has no ruling and a final row shows its only one, ...
RulingsMatchRows ==
  \A c \in Calls :
    /\ status[c] \in {"none", "pending"} => rulings[c] = {}
    /\ status[c] \in Final => \E x \in rulings[c] : x.status = status[c]
    /\ \A x, y \in rulings[c] : x = y

\* ... and what a poll has read, and what the caller was told, somebody ruled.
PollsAreBacked ==
  \A c \in Calls :
    /\ seen[c] \in Verdicts => \E x \in rulings[c] : x.status = seen[c]
    /\ (pc[c] = "decide" /\ seen[c] = "none") => status[c] = "pruned"

AnswersAreBacked ==
  \A c \in Calls :
    /\ (answer[c] = "allowed" /\ mode[c] # "allow")
         => \E x \in rulings[c] : x.status = "approved"
    /\ answer[c] = "denied" => \E x \in rulings[c] : x.status = "denied"
    /\ answer[c] = "missing" => status[c] = "pruned"

IInv == RowsMatchProgress /\ RulingsMatchRows /\ PollsAreBacked /\ AnswersAreBacked

LEMMA IInvInit == Init => IInv
  BY DEF Init, IInv, RowsMatchProgress, RulingsMatchRows, PollsAreBacked,
         AnswersAreBacked, Awaiting, Final, Verdicts

LEMMA IInvStep == TypeOK /\ IInv /\ [Next]_vars => IInv'
<1> SUFFICES ASSUME TypeOK, IInv, [Next]_vars
             PROVE  IInv'
  OBVIOUS
<1> USE DEF TypeOK, IInv, Goto, Reply, Awaiting
<1>1. RowsMatchProgress'
  <2> USE DEF RowsMatchProgress, Status, Final, Verdicts
  <2>1. ASSUME NEW c \in Calls, Begin(c)
        PROVE  RowsMatchProgress'
    BY <2>1 DEF Begin
  <2>2. ASSUME NEW c \in Calls, Record(c)
        PROVE  RowsMatchProgress'
    BY <2>2 DEF Record
  <2>3. ASSUME NEW c \in Calls, Create(c)
        PROVE  RowsMatchProgress'
    BY <2>3 DEF Create
  <2>4. ASSUME NEW c \in Calls, Requested(c)
        PROVE  RowsMatchProgress'
    BY <2>4 DEF Requested, Loop
  <2>5. ASSUME NEW c \in Calls, Read(c)
        PROVE  RowsMatchProgress'
    BY <2>5 DEF Read
  <2>6. ASSUME NEW c \in Calls, Decide(c)
        PROVE  RowsMatchProgress'
    BY <2>6 DEF Decide
  <2>7. ASSUME NEW c \in Calls, Wake(c)
        PROVE  RowsMatchProgress'
    BY <2>7 DEF Wake, Loop
  <2>8. ASSUME NEW c \in Calls, Expire(c)
        PROVE  RowsMatchProgress'
    BY <2>8, RulingShape DEF Expire, UpdateRow, UpdateMisses
  <2>9. ASSUME NEW c \in Calls, LogExpiry(c)
        PROVE  RowsMatchProgress'
    BY <2>9 DEF LogExpiry
  <2>10. ASSUME NEW r \in Resolvers, NEW c \in Calls, NEW v \in Verdicts, Resolve(r, c, v)
         PROVE  RowsMatchProgress'
    BY <2>10, RulingShape DEF Resolve, UpdateRow, UpdateMisses
  <2>11. ASSUME NEW r \in Resolvers, LogResolution(r)
         PROVE  RowsMatchProgress'
    BY <2>11 DEF LogResolution
  <2>12. ASSUME NEW c \in Calls, CallFails(c)
         PROVE  RowsMatchProgress'
    BY <2>12 DEF CallFails
  <2>13. ASSUME NEW r \in Resolvers, ResolveFails(r)
         PROVE  RowsMatchProgress'
    BY <2>13 DEF ResolveFails
  <2>14. ASSUME NEW c \in Calls, Prune(c)
         PROVE  RowsMatchProgress'
    BY <2>14 DEF Prune
  <2>15. CASE Crash
    BY <2>15 DEF Crash
  <2>16. CASE Tick
    BY <2>16 DEF Tick
  <2>17. CASE UNCHANGED vars
    BY <2>17 DEF vars
  <2>18. QED
    BY <2>1, <2>2, <2>3, <2>4, <2>5, <2>6, <2>7, <2>8, <2>9, <2>10, <2>11, <2>12,
       <2>13, <2>14, <2>15, <2>16, <2>17 DEF Next, Proceed, Quiet
<1>2. RulingsMatchRows'
  <2> USE DEF RulingsMatchRows, Status, Final, Verdicts
  <2>1. ASSUME NEW c \in Calls, Begin(c)
        PROVE  RulingsMatchRows'
    BY <2>1 DEF Begin
  <2>2. ASSUME NEW c \in Calls, Record(c)
        PROVE  RulingsMatchRows'
    BY <2>2 DEF Record
  <2>3. ASSUME NEW c \in Calls, Create(c)
        PROVE  RulingsMatchRows'
    BY <2>3 DEF Create, RowsMatchProgress
  <2>4. ASSUME NEW c \in Calls, Requested(c)
        PROVE  RulingsMatchRows'
    BY <2>4 DEF Requested, Loop
  <2>5. ASSUME NEW c \in Calls, Read(c)
        PROVE  RulingsMatchRows'
    BY <2>5 DEF Read
  <2>6. ASSUME NEW c \in Calls, Decide(c)
        PROVE  RulingsMatchRows'
    BY <2>6 DEF Decide
  <2>7. ASSUME NEW c \in Calls, Wake(c)
        PROVE  RulingsMatchRows'
    BY <2>7 DEF Wake, Loop
  <2>8. ASSUME NEW c \in Calls, Expire(c)
        PROVE  RulingsMatchRows'
    BY <2>8, RulingShape DEF Expire, UpdateRow, UpdateMisses
  <2>9. ASSUME NEW c \in Calls, LogExpiry(c)
        PROVE  RulingsMatchRows'
    BY <2>9 DEF LogExpiry
  <2>10. ASSUME NEW r \in Resolvers, NEW c \in Calls, NEW v \in Verdicts, Resolve(r, c, v)
         PROVE  RulingsMatchRows'
    BY <2>10, RulingShape DEF Resolve, UpdateRow, UpdateMisses
  <2>11. ASSUME NEW r \in Resolvers, LogResolution(r)
         PROVE  RulingsMatchRows'
    BY <2>11 DEF LogResolution
  <2>12. ASSUME NEW c \in Calls, CallFails(c)
         PROVE  RulingsMatchRows'
    BY <2>12 DEF CallFails
  <2>13. ASSUME NEW r \in Resolvers, ResolveFails(r)
         PROVE  RulingsMatchRows'
    BY <2>13 DEF ResolveFails
  <2>14. ASSUME NEW c \in Calls, Prune(c)
         PROVE  RulingsMatchRows'
    BY <2>14 DEF Prune
  <2>15. CASE Crash
    BY <2>15 DEF Crash
  <2>16. CASE Tick
    BY <2>16 DEF Tick
  <2>17. CASE UNCHANGED vars
    BY <2>17 DEF vars
  <2>18. QED
    BY <2>1, <2>2, <2>3, <2>4, <2>5, <2>6, <2>7, <2>8, <2>9, <2>10, <2>11, <2>12,
       <2>13, <2>14, <2>15, <2>16, <2>17 DEF Next, Proceed, Quiet
<1>3. PollsAreBacked'
  <2> USE DEF PollsAreBacked, Status, Final, Verdicts
  <2>1. ASSUME NEW c \in Calls, Begin(c)
        PROVE  PollsAreBacked'
    BY <2>1 DEF Begin
  <2>2. ASSUME NEW c \in Calls, Record(c)
        PROVE  PollsAreBacked'
    BY <2>2 DEF Record
  <2>3. ASSUME NEW c \in Calls, Create(c)
        PROVE  PollsAreBacked'
    BY <2>3 DEF Create
  <2>4. ASSUME NEW c \in Calls, Requested(c)
        PROVE  PollsAreBacked'
    BY <2>4 DEF Requested, Loop
  <2>5. ASSUME NEW c \in Calls, Read(c)
        PROVE  PollsAreBacked'
    BY <2>5 DEF Read, RowsMatchProgress, RulingsMatchRows
  <2>6. ASSUME NEW c \in Calls, Decide(c)
        PROVE  PollsAreBacked'
    BY <2>6 DEF Decide
  <2>7. ASSUME NEW c \in Calls, Wake(c)
        PROVE  PollsAreBacked'
    BY <2>7 DEF Wake, Loop
  <2>8. ASSUME NEW c \in Calls, Expire(c)
        PROVE  PollsAreBacked'
    BY <2>8, RulingShape DEF Expire, UpdateRow, UpdateMisses
  <2>9. ASSUME NEW c \in Calls, LogExpiry(c)
        PROVE  PollsAreBacked'
    BY <2>9 DEF LogExpiry
  <2>10. ASSUME NEW r \in Resolvers, NEW c \in Calls, NEW v \in Verdicts, Resolve(r, c, v)
         PROVE  PollsAreBacked'
    BY <2>10, RulingShape DEF Resolve, UpdateRow, UpdateMisses
  <2>11. ASSUME NEW r \in Resolvers, LogResolution(r)
         PROVE  PollsAreBacked'
    BY <2>11 DEF LogResolution
  <2>12. ASSUME NEW c \in Calls, CallFails(c)
         PROVE  PollsAreBacked'
    BY <2>12 DEF CallFails
  <2>13. ASSUME NEW r \in Resolvers, ResolveFails(r)
         PROVE  PollsAreBacked'
    BY <2>13 DEF ResolveFails
  <2>14. ASSUME NEW c \in Calls, Prune(c)
         PROVE  PollsAreBacked'
    BY <2>14 DEF Prune
  <2>15. CASE Crash
    BY <2>15 DEF Crash
  <2>16. CASE Tick
    BY <2>16 DEF Tick
  <2>17. CASE UNCHANGED vars
    BY <2>17 DEF vars
  <2>18. QED
    BY <2>1, <2>2, <2>3, <2>4, <2>5, <2>6, <2>7, <2>8, <2>9, <2>10, <2>11, <2>12,
       <2>13, <2>14, <2>15, <2>16, <2>17 DEF Next, Proceed, Quiet
<1>4. AnswersAreBacked'
  <2> USE DEF AnswersAreBacked, Status, Final, Verdicts
  <2>1. ASSUME NEW c \in Calls, Begin(c)
        PROVE  AnswersAreBacked'
    BY <2>1 DEF Begin, RowsMatchProgress
  <2>2. ASSUME NEW c \in Calls, Record(c)
        PROVE  AnswersAreBacked'
    BY <2>2 DEF Record
  <2>3. ASSUME NEW c \in Calls, Create(c)
        PROVE  AnswersAreBacked'
    BY <2>3 DEF Create, RowsMatchProgress
  <2>4. ASSUME NEW c \in Calls, Requested(c)
        PROVE  AnswersAreBacked'
    BY <2>4 DEF Requested, Loop
  <2>5. ASSUME NEW c \in Calls, Read(c)
        PROVE  AnswersAreBacked'
    BY <2>5 DEF Read
  <2>6. ASSUME NEW c \in Calls, Decide(c)
        PROVE  AnswersAreBacked'
    BY <2>6 DEF Decide, PollsAreBacked
  <2>7. ASSUME NEW c \in Calls, Wake(c)
        PROVE  AnswersAreBacked'
    BY <2>7 DEF Wake, Loop
  <2>8. ASSUME NEW c \in Calls, Expire(c)
        PROVE  AnswersAreBacked'
    BY <2>8, RulingShape DEF Expire, UpdateRow, UpdateMisses
  <2>9. ASSUME NEW c \in Calls, LogExpiry(c)
        PROVE  AnswersAreBacked'
    BY <2>9 DEF LogExpiry
  <2>10. ASSUME NEW r \in Resolvers, NEW c \in Calls, NEW v \in Verdicts, Resolve(r, c, v)
         PROVE  AnswersAreBacked'
    BY <2>10, RulingShape DEF Resolve, UpdateRow, UpdateMisses
  <2>11. ASSUME NEW r \in Resolvers, LogResolution(r)
         PROVE  AnswersAreBacked'
    BY <2>11 DEF LogResolution
  <2>12. ASSUME NEW c \in Calls, CallFails(c)
         PROVE  AnswersAreBacked'
    BY <2>12 DEF CallFails
  <2>13. ASSUME NEW r \in Resolvers, ResolveFails(r)
         PROVE  AnswersAreBacked'
    BY <2>13 DEF ResolveFails
  <2>14. ASSUME NEW c \in Calls, Prune(c)
         PROVE  AnswersAreBacked'
    BY <2>14 DEF Prune
  <2>15. CASE Crash
    BY <2>15 DEF Crash
  <2>16. CASE Tick
    BY <2>16 DEF Tick
  <2>17. CASE UNCHANGED vars
    BY <2>17 DEF vars
  <2>18. QED
    BY <2>1, <2>2, <2>3, <2>4, <2>5, <2>6, <2>7, <2>8, <2>9, <2>10, <2>11, <2>12,
       <2>13, <2>14, <2>15, <2>16, <2>17 DEF Next, Proceed, Quiet
<1>5. QED
  BY <1>1, <1>2, <1>3, <1>4

THEOREM Invariance == Spec => [](TypeOK /\ IInv)
<1>1. Init => IInv
  BY IInvInit
<1>2. TypeOK /\ IInv /\ [Next]_vars => IInv'
  BY IInvStep
<1>3. QED
  BY <1>1, <1>2, TypeCorrect, PTL DEF Spec

\* Each approvals row gets at most one ruling, and shows it.
THEOREM OneRulingHolds == Spec => []OneRuling
<1>1. IInv => OneRuling
  BY DEF IInv, RulingsMatchRows, OneRuling
<1>2. QED
  BY <1>1, Invariance, PTL

\* A waiting caller is allowed, or called denied, only on a person's ruling.
THEOREM AnswersFollowRulingsHolds == Spec => []AnswersFollowRulings
<1>1. TypeOK /\ IInv => AnswersFollowRulings
  <2> SUFFICES ASSUME TypeOK, IInv, NEW c \in Calls
               PROVE  AnswersFollowRulings!(c)
    BY DEF AnswersFollowRulings
  <2>1. \A x \in rulings[c], v \in Verdicts :
          x.status = v => \E r \in Resolvers : x = ByPerson(v, r)
    BY RulingShape DEF TypeOK
  <2>2. QED
    BY <2>1 DEF IInv, AnswersAreBacked, Verdicts
<1>2. QED
  BY <1>1, Invariance, PTL

-----------------------------------------------------------------------------
\* The strengthening behind the timeouts: how far each wait that times out has
\* come, and what time and the row look like there.  A row is expired only by
\* its own wait, which polls no more, so no poll ever reads "expired".
WaitsTimeOutLate ==
  \A c \in Calls :
    /\ pc[c] \in {"expireRow", "logRow"} => ttl[c] = 0
    /\ pc[c] \in {"expireWait", "logWait"} => left[c] = 0
    /\ answer[c] \in {"expired", "timeout"} => ttl[c] = 0 \/ left[c] = 0

ExpiredByItsWait ==
  \A c \in Calls :
    /\ pc[c] \in {"expireRow", "expireWait", "logRow", "logWait"} => ExpireOnTimeout(c)
    /\ status[c] = "expired" => pc[c] \in {"logRow", "logWait", "done"}
    /\ pc[c] \in {"logRow", "logWait"} => status[c] # "pending"
    /\ seen[c] # "expired"
    /\ (ExpireOnTimeout(c) /\ answer[c] \in {"expired", "timeout"}) => status[c] # "pending"

LateInv == WaitsTimeOutLate /\ ExpiredByItsWait

LEMMA LateInvInit == Init => LateInv
  BY DEF Init, LateInv, WaitsTimeOutLate, ExpiredByItsWait

LEMMA LateInvStep == TypeOK /\ RowsMatchProgress /\ LateInv /\ [Next]_vars => LateInv'
<1> SUFFICES ASSUME TypeOK, RowsMatchProgress, LateInv, [Next]_vars
             PROVE  LateInv'
  OBVIOUS
<1> USE DEF TypeOK, RowsMatchProgress, LateInv, Goto, Reply, Awaiting
<1>1. WaitsTimeOutLate'
  <2> USE DEF WaitsTimeOutLate, ExpireOnTimeout
  <2>1. ASSUME NEW c \in Calls, Begin(c)
        PROVE  WaitsTimeOutLate'
    BY <2>1 DEF Begin
  <2>2. ASSUME NEW c \in Calls, Record(c)
        PROVE  WaitsTimeOutLate'
    BY <2>2, TimeoutsAssumption DEF Record
  <2>3. ASSUME NEW c \in Calls, Create(c)
        PROVE  WaitsTimeOutLate'
    BY <2>3 DEF Create
  <2>4. ASSUME NEW c \in Calls, Requested(c)
        PROVE  WaitsTimeOutLate'
    BY <2>4, TimeoutsAssumption DEF Requested, Loop
  <2>5. ASSUME NEW c \in Calls, Read(c)
        PROVE  WaitsTimeOutLate'
    BY <2>5 DEF Read
  <2>6. ASSUME NEW c \in Calls, Decide(c)
        PROVE  WaitsTimeOutLate'
    BY <2>6 DEF Decide, ExpiredByItsWait
  <2>7. ASSUME NEW c \in Calls, Wake(c)
        PROVE  WaitsTimeOutLate'
    BY <2>7 DEF Wake, Loop
  <2>8. ASSUME NEW c \in Calls, Expire(c)
        PROVE  WaitsTimeOutLate'
    BY <2>8 DEF Expire, UpdateRow, UpdateMisses
  <2>9. ASSUME NEW c \in Calls, LogExpiry(c)
        PROVE  WaitsTimeOutLate'
    BY <2>9 DEF LogExpiry
  <2>10. ASSUME NEW r \in Resolvers, NEW c \in Calls, NEW v \in Verdicts, Resolve(r, c, v)
         PROVE  WaitsTimeOutLate'
    BY <2>10 DEF Resolve, UpdateRow, UpdateMisses
  <2>11. ASSUME NEW r \in Resolvers, LogResolution(r)
         PROVE  WaitsTimeOutLate'
    BY <2>11 DEF LogResolution
  <2>12. ASSUME NEW c \in Calls, CallFails(c)
         PROVE  WaitsTimeOutLate'
    BY <2>12 DEF CallFails
  <2>13. ASSUME NEW r \in Resolvers, ResolveFails(r)
         PROVE  WaitsTimeOutLate'
    BY <2>13 DEF ResolveFails
  <2>14. ASSUME NEW c \in Calls, Prune(c)
         PROVE  WaitsTimeOutLate'
    BY <2>14 DEF Prune
  <2>15. CASE Crash
    BY <2>15 DEF Crash
  <2>16. CASE Tick
    BY <2>16 DEF Tick, Less
  <2>17. CASE UNCHANGED vars
    BY <2>17 DEF vars
  <2>18. QED
    BY <2>1, <2>2, <2>3, <2>4, <2>5, <2>6, <2>7, <2>8, <2>9, <2>10, <2>11, <2>12,
       <2>13, <2>14, <2>15, <2>16, <2>17 DEF Next, Proceed, Quiet
<1>2. ExpiredByItsWait'
  <2> USE DEF ExpiredByItsWait, ExpireOnTimeout, Status, Final, Verdicts
  <2>1. ASSUME NEW c \in Calls, Begin(c)
        PROVE  ExpiredByItsWait'
    BY <2>1 DEF Begin
  <2>2. ASSUME NEW c \in Calls, Record(c)
        PROVE  ExpiredByItsWait'
    BY <2>2, TimeoutsAssumption DEF Record
  <2>3. ASSUME NEW c \in Calls, Create(c)
        PROVE  ExpiredByItsWait'
    BY <2>3 DEF Create
  <2>4. ASSUME NEW c \in Calls, Requested(c)
        PROVE  ExpiredByItsWait'
    BY <2>4, TimeoutsAssumption DEF Requested, Loop
  <2>5. ASSUME NEW c \in Calls, Read(c)
        PROVE  ExpiredByItsWait'
    BY <2>5 DEF Read
  <2>6. ASSUME NEW c \in Calls, Decide(c)
        PROVE  ExpiredByItsWait'
    BY <2>6 DEF Decide
  <2>7. ASSUME NEW c \in Calls, Wake(c)
        PROVE  ExpiredByItsWait'
    BY <2>7 DEF Wake, Loop
  <2>8. ASSUME NEW c \in Calls, Expire(c)
        PROVE  ExpiredByItsWait'
    BY <2>8, RulingShape DEF Expire, UpdateRow, UpdateMisses
  <2>9. ASSUME NEW c \in Calls, LogExpiry(c)
        PROVE  ExpiredByItsWait'
    BY <2>9 DEF LogExpiry
  <2>10. ASSUME NEW r \in Resolvers, NEW c \in Calls, NEW v \in Verdicts, Resolve(r, c, v)
         PROVE  ExpiredByItsWait'
    BY <2>10, RulingShape DEF Resolve, UpdateRow, UpdateMisses
  <2>11. ASSUME NEW r \in Resolvers, LogResolution(r)
         PROVE  ExpiredByItsWait'
    BY <2>11 DEF LogResolution
  <2>12. ASSUME NEW c \in Calls, CallFails(c)
         PROVE  ExpiredByItsWait'
    BY <2>12 DEF CallFails
  <2>13. ASSUME NEW r \in Resolvers, ResolveFails(r)
         PROVE  ExpiredByItsWait'
    BY <2>13 DEF ResolveFails
  <2>14. ASSUME NEW c \in Calls, Prune(c)
         PROVE  ExpiredByItsWait'
    BY <2>14 DEF Prune
  <2>15. CASE Crash
    BY <2>15 DEF Crash
  <2>16. CASE Tick
    BY <2>16 DEF Tick, Less
  <2>17. CASE UNCHANGED vars
    BY <2>17 DEF vars
  <2>18. QED
    BY <2>1, <2>2, <2>3, <2>4, <2>5, <2>6, <2>7, <2>8, <2>9, <2>10, <2>11, <2>12,
       <2>13, <2>14, <2>15, <2>16, <2>17 DEF Next, Proceed, Quiet
<1>3. QED
  BY <1>1, <1>2

LEMMA LateInvariance == Spec => []LateInv
<1>1. Init => LateInv
  BY LateInvInit
<1>2. TypeOK /\ RowsMatchProgress /\ LateInv /\ [Next]_vars => LateInv'
  BY LateInvStep
<1>3. IInv => RowsMatchProgress
  BY DEF IInv
<1>4. QED
  BY <1>1, <1>2, <1>3, Invariance, PTL DEF Spec

\* With expire_on_timeout, no row of a timed-out caller is left open.
THEOREM TimedOutRowsAreClosedHolds == Spec => []TimedOutRowsAreClosed
<1>1. LateInv => TimedOutRowsAreClosed
  BY DEF LateInv, ExpiredByItsWait, TimedOutRowsAreClosed
<1>2. QED
  BY <1>1, LateInvariance, PTL

\* No caller is told that time ran out while row and wait both have time left.
THEOREM OnlyLateCallsTimeOutHolds == Spec => []OnlyLateCallsTimeOut
<1>1. LateInv => OnlyLateCallsTimeOut
  BY DEF LateInv, WaitsTimeOutLate, OnlyLateCallsTimeOut
<1>2. QED
  BY <1>1, LateInvariance, PTL

-----------------------------------------------------------------------------
\* Every step of the queue is a step of HumanGate or leaves it unchanged.
LEMMA GateInit == Init => Gate!GInit
  BY DEF Init, Gate!GInit, GateState, Outcome

\* What one reply of the queue is to the gate ...
LEMMA RefusingReply ==
  ASSUME TypeOK, RowsMatchProgress, NEW c \in Calls, pc[c] \in Awaiting,
         NEW a \in Answers \ {"none", "allowed"}, Reply(c, a),
         UNCHANGED <<mode, status, rulings>>
  PROVE  Gate!Refuse(c)
<1> USE DEF Reply, TypeOK, Answers
<1>1. Outcome(c) = "none"
  BY DEF RowsMatchProgress, Outcome, Awaiting
<1>2. [d \in Calls |-> Outcome(d)]' = [[d \in Calls |-> Outcome(d)] EXCEPT ![c] = "refused"]
  BY DEF Outcome
<1>3. \A d \in Calls : GateState(d)' = GateState(d)
  BY DEF GateState
<1>4. QED
  BY <1>1, <1>2, <1>3 DEF Gate!Refuse

LEMMA AllowingReply ==
  ASSUME TypeOK, RowsMatchProgress, NEW c \in Calls, pc[c] \in Awaiting,
         Reply(c, "allowed"), UNCHANGED <<mode, status, rulings>>,
         mode[c] = "allow" \/ \E x \in rulings[c] : x.status = "approved"
  PROVE  Gate!LetRun(c)
<1> USE DEF Reply, TypeOK, Answers
<1>1. Outcome(c) = "none"
  BY DEF RowsMatchProgress, Outcome, Awaiting
<1>2. [d \in Calls |-> Outcome(d)]' = [[d \in Calls |-> Outcome(d)] EXCEPT ![c] = "run"]
  BY DEF Outcome
<1>3. \A d \in Calls : GateState(d)' = GateState(d)
  BY DEF GateState
<1>4. GateState(c) = "exempt" \/ Gate!Approved(c)
  BY DEF GateState, Gate!Approved
<1>5. QED
  BY <1>1, <1>2, <1>3, <1>4 DEF Gate!LetRun

\* ... what a written ruling is, ...
LEMMA WrittenRuling ==
  ASSUME TypeOK, IInv, NEW c \in Calls, NEW x \in Ruling, x.status \in Final,
         mode[c] # "allow", UpdateRow(c, x), UNCHANGED <<mode, answer>>
  PROVE  Gate!Rule(c, x)
<1> USE DEF TypeOK, UpdateRow
<1>1. GateState(c) = "open" /\ rulings[c] = {}
  BY DEF GateState, IInv, RulingsMatchRows
<1>2. \A d \in Calls : GateState(d)' = GateState(d)
  BY DEF GateState, Final, Verdicts
<1>3. \A d \in Calls : Outcome(d)' = Outcome(d)
  BY DEF Outcome
<1>4. rulings' = [rulings EXCEPT ![c] = {x}]
  BY <1>1
<1>5. QED
  BY <1>1, <1>2, <1>3, <1>4 DEF Gate!Rule

\* ... and which steps it does not see.
LEMMA UnseenStep ==
  ASSUME UNCHANGED <<mode, status, answer, rulings>>
  PROVE  UNCHANGED Gate!gvars
  BY DEF Gate!gvars, GateState, Outcome

LEMMA GateStep == TypeOK /\ IInv /\ [Next]_vars => [Gate!GNext]_(Gate!gvars)
<1> SUFFICES ASSUME TypeOK, IInv, [Next]_vars
             PROVE  Gate!GNext \/ UNCHANGED Gate!gvars
  OBVIOUS
<1> DEFINE Quietly == UNCHANGED Gate!gvars
<1>0. RowsMatchProgress
  BY DEF IInv
<1> USE DEF Goto, Awaiting, Answers
<1>1. ASSUME NEW c \in Calls, Begin(c)
      PROVE  Gate!Exempt(c) \/ Quietly
  <2>1. PICK m \in {"allow", "deny", "queue", "wait", "keep"} : mode' = [mode EXCEPT ![c] = m]
    BY <1>1 DEF Begin
  <2>2. status[c] = "none" /\ mode[c] = "none" /\ UNCHANGED <<status, answer, rulings>>
    BY <1>0, <1>1 DEF Begin, RowsMatchProgress
  <2>3. CASE m = "allow"
    <3>1. [d \in Calls |-> GateState(d)]'
            = [[d \in Calls |-> GateState(d)] EXCEPT ![c] = "exempt"]
      BY <2>1, <2>2, <2>3 DEF GateState, TypeOK
    <3>2. GateState(c) = "closed"
      BY <2>2 DEF GateState
    <3>3. \A d \in Calls : Outcome(d)' = Outcome(d)
      BY <2>2 DEF Outcome
    <3>4. QED
      BY <2>2, <3>1, <3>2, <3>3 DEF Gate!Exempt
  <2>4. CASE m # "allow"
    <3>1. \A d \in Calls : GateState(d)' = GateState(d) /\ Outcome(d)' = Outcome(d)
      BY <2>1, <2>2, <2>4 DEF GateState, Outcome, TypeOK
    <3>2. QED
      BY <2>2, <3>1 DEF Gate!gvars
  <2>5. QED
    BY <2>3, <2>4
<1>2. ASSUME NEW c \in Calls, Record(c)
      PROVE  Gate!LetRun(c) \/ Gate!Refuse(c) \/ Quietly
  BY <1>0, <1>2, AllowingReply, RefusingReply, UnseenStep DEF Record
<1>3. ASSUME NEW c \in Calls, Create(c)
      PROVE  Gate!Ask(c)
  <2>1. status[c] = "none" /\ mode[c] # "allow"
    BY <1>0, <1>3 DEF Create, RowsMatchProgress
  <2>2. [d \in Calls |-> GateState(d)]' = [[d \in Calls |-> GateState(d)] EXCEPT ![c] = "open"]
    BY <1>3, <2>1 DEF Create, GateState, TypeOK
  <2>3. \A d \in Calls : Outcome(d)' = Outcome(d)
    BY <1>3 DEF Create, Outcome
  <2>4. GateState(c) = "closed"
    BY <2>1 DEF GateState
  <2>5. QED
    BY <1>3, <2>2, <2>3, <2>4 DEF Create, Gate!Ask
<1>4. ASSUME NEW c \in Calls, Requested(c) \/ Wake(c)
      PROVE  Gate!Refuse(c) \/ Quietly
  BY <1>0, <1>4, RefusingReply, UnseenStep DEF Requested, Wake, Loop
<1>5. ASSUME NEW c \in Calls, Read(c)
      PROVE  Quietly
  BY <1>5, UnseenStep DEF Read
<1>6. ASSUME NEW c \in Calls, Decide(c)
      PROVE  Gate!LetRun(c) \/ Gate!Refuse(c) \/ Quietly
  <2>1. seen[c] = "approved" => \E x \in rulings[c] : x.status = "approved"
    BY DEF IInv, PollsAreBacked, Verdicts
  <2>2. QED
    BY <1>0, <1>6, <2>1, AllowingReply, RefusingReply, UnseenStep DEF Decide
<1>7. ASSUME NEW c \in Calls, Expire(c)
      PROVE  Gate!Rule(c, ByTimeout) \/ Gate!Refuse(c)
  <2>1. pc[c] \in Awaiting /\ mode[c] # "allow"
    BY <1>0, <1>7 DEF Expire, RowsMatchProgress
  <2>2. CASE UpdateRow(c, ByTimeout)
    BY <1>7, <2>1, <2>2, WrittenRuling, RulingShape DEF Expire, UpdateRow, UpdateMisses, Final
  <2>3. CASE UpdateMisses(c) /\ (Reply(c, "expired") \/ Reply(c, "timeout"))
    BY <1>0, <1>7, <2>1, <2>3, RefusingReply DEF Expire, UpdateMisses
  <2>4. QED
    BY <1>7, <2>2, <2>3 DEF Expire
<1>8. ASSUME NEW c \in Calls, LogExpiry(c)
      PROVE  Gate!Refuse(c)
  BY <1>0, <1>8, RefusingReply DEF LogExpiry
<1>9. ASSUME NEW r \in Resolvers, NEW c \in Calls, NEW v \in Verdicts, Resolve(r, c, v)
      PROVE  Gate!Rule(c, ByPerson(v, r)) \/ Quietly
  <2>1. CASE UpdateRow(c, ByPerson(v, r))
    <3>1. mode[c] # "allow"
      BY <1>0, <2>1 DEF UpdateRow, RowsMatchProgress, TypeOK
    <3>2. QED
      BY <1>9, <2>1, <3>1, WrittenRuling, RulingShape DEF Resolve, Final
  <2>2. CASE UpdateMisses(c)
    BY <1>9, <2>2, UnseenStep DEF Resolve, UpdateMisses
  <2>3. QED
    BY <1>9, <2>1, <2>2 DEF Resolve
<1>10. ASSUME NEW r \in Resolvers, LogResolution(r) \/ ResolveFails(r)
       PROVE  Quietly
  BY <1>10, UnseenStep DEF LogResolution, ResolveFails
<1>11. ASSUME NEW c \in Calls, CallFails(c)
       PROVE  Gate!Refuse(c)
  BY <1>0, <1>11, RefusingReply DEF CallFails
<1>12. ASSUME NEW c \in Calls, Prune(c)
       PROVE  Quietly
  <2>1. \A d \in Calls : GateState(d)' = GateState(d) /\ Outcome(d)' = Outcome(d)
    BY <1>12 DEF Prune, Final, Verdicts, GateState, Outcome, TypeOK
  <2>2. QED
    BY <1>12, <2>1 DEF Prune, Gate!gvars
<1>13. ASSUME Crash
       PROVE  \E lost \in SUBSET Calls : Gate!RefuseAll(lost)
  <2> DEFINE lost == {c \in Calls : pc[c] \in Awaiting}
  <2>1. \A c \in lost : Outcome(c) = "none"
    BY <1>0 DEF RowsMatchProgress, Outcome
  <2>2. \A c \in Calls : Outcome(c)' = IF c \in lost THEN "refused" ELSE Outcome(c)
    BY <1>13 DEF Crash, Outcome
  <2>3. \A c \in Calls : GateState(c)' = GateState(c)
    BY <1>13 DEF Crash, GateState
  <2>4. Gate!RefuseAll(lost)
    BY <1>13, <2>1, <2>2, <2>3 DEF Crash, Gate!RefuseAll
  <2>5. QED
    BY <2>4
<1>14. ASSUME Tick \/ UNCHANGED vars
       PROVE  Quietly
  BY <1>14, UnseenStep DEF Tick, vars
<1>15. QED
  BY <1>1, <1>2, <1>3, <1>4, <1>5, <1>6, <1>7, <1>8, <1>9, <1>10, <1>11, <1>12, <1>13,
     <1>14, RulingShape DEF Next, Proceed, Quiet, Gate!GNext

THEOREM ImplementsGate == Spec => GateSpec
<1>1. Init => Gate!GInit
  BY GateInit
<1>2. TypeOK /\ IInv /\ [Next]_vars => [Gate!GNext]_(Gate!gvars)
  BY GateStep
<1>3. QED
  BY <1>1, <1>2, Invariance, PTL DEF Spec, GateSpec, Gate!GSpec
=============================================================================
