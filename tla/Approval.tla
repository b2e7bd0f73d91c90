------------------------------ MODULE Approval ------------------------------
(***************************************************************************)
(* The approval queue: enforceToolCall of the gateway puts a protected     *)
(* tool call in table approvals, people approve or deny the row over HTTP, *)
(* and a caller that asked to wait polls the row until it is ruled on or   *)
(* time runs out.  Every await is a step of its own: between two of them   *)
(* any other request, the clock, the retention job or a crash may act.     *)
(*                                                                         *)
(* Time is kept as what is left of it: ttl[c] counts down to the row's     *)
(* expires_at and left[c] to the end of the caller's wait.  One Tick is    *)
(* any stretch of real time; the poll interval is shorter than one.        *)
(***************************************************************************)
EXTENDS Naturals, FiniteSets

CONSTANTS
  Calls,           \* tool calls, one approvals row each
  Resolvers,       \* HTTP requests to approve or deny, one ruling attempt each
  Timeouts         \* values approval.timeout_ms may have; a policy reload changes it

ASSUME TimeoutsAssumption == Timeouts \subseteq Nat

VARIABLES
  mode,     \* mode[c]: the policy decision; "queue", "wait" and "keep" are
            \* require_approval: without wait_for_approval, with it, and with it
            \* when expire_on_timeout is off as the wait begins
  pc,       \* pc[c]: the await the request of c has reached
  status,   \* status[c]: column status of the row, "none" and "pruned" when absent
  ttl,      \* ttl[c]: ticks until the row's expires_at
  left,     \* left[c]: ticks until the wait gives up
  seen,     \* seen[c]: the status the last poll read, "none" for no row
  answer,   \* answer[c]: what the caller is told
  http,     \* http[r]: progress, then result, of approve/deny request r
  rulings,  \* history: the (status, resolved_by) pairs written to the row
  logged    \* history: the rulings whose approval.resolved/expired event is stored

vars == <<mode, pc, status, ttl, left, seen, answer, http, rulings, logged>>

Verdicts == {"approved", "denied"}
Final == Verdicts \cup {"expired"}
Status == Final \cup {"none", "pending", "pruned"}

ByPerson(v, r) == [status |-> v, by |-> r]
ByTimeout == [status |-> "expired", by |-> "timeout-policy"]
Ruling == {ByPerson(v, r) : v \in Verdicts, r \in Resolvers} \cup {ByTimeout}

Awaiting == {"record", "create", "request", "read", "decide", "sleep",
             "expireRow", "expireWait", "logRow", "logWait"}
Answers == {"none", "allowed", "refused", "denied", "expired", "timeout",
            "missing", "queued", "error", "lost"}

TypeOK ==
  /\ mode \in [Calls -> {"none", "allow", "deny", "queue", "wait", "keep"}]
  /\ pc \in [Calls -> Awaiting \cup {"idle", "done"}]
  /\ status \in [Calls -> Status]
  /\ ttl \in [Calls -> Nat]
  /\ left \in [Calls -> Nat]
  /\ seen \in [Calls -> Status \ {"pruned"}]
  /\ answer \in [Calls -> Answers]
  /\ http \in [Resolvers -> {"idle", "log", "200", "404", "500"}]
  /\ rulings \in [Calls -> SUBSET Ruling]
  /\ logged \in [Calls -> SUBSET Ruling]

Init ==
  /\ mode = [c \in Calls |-> "none"]
  /\ pc = [c \in Calls |-> "idle"]
  /\ status = [c \in Calls |-> "none"]
  /\ ttl = [c \in Calls |-> 0]
  /\ left = [c \in Calls |-> 0]
  /\ seen = [c \in Calls |-> "none"]
  /\ answer = [c \in Calls |-> "none"]
  /\ http = [r \in Resolvers |-> "idle"]
  /\ rulings = [c \in Calls |-> {}]
  /\ logged = [c \in Calls |-> {}]

\* expireOnTimeout, read from the policy once, as the wait begins.
ExpireOnTimeout(c) == mode[c] # "keep"

Goto(c, l) == pc' = [pc EXCEPT ![c] = l] /\ UNCHANGED answer
Reply(c, a) == pc' = [pc EXCEPT ![c] = "done"] /\ answer' = [answer EXCEPT ![c] = a]

-----------------------------------------------------------------------------
(* The caller's side: enforceToolCall and waitForApprovalDecision.         *)

\* evaluateToolCall decides synchronously, from the policy in force now.
Begin(c) ==
  /\ pc[c] = "idle"
  /\ \E m \in {"allow", "deny", "queue", "wait", "keep"} : mode' = [mode EXCEPT ![c] = m]
  /\ Goto(c, "record")
  /\ UNCHANGED <<status, ttl, left, seen, http, rulings, logged>>

\* The tool.call event and its companions are stored, then the decision is
\* acted on; expires_at of a new row is computed here, before its INSERT.
Record(c) ==
  /\ pc[c] = "record"
  /\ \/ mode[c] = "allow" /\ Reply(c, "allowed") /\ UNCHANGED ttl
     \/ mode[c] = "deny" /\ Reply(c, "refused") /\ UNCHANGED ttl
     \/ /\ mode[c] \in {"queue", "wait", "keep"}
        /\ \E t \in Timeouts : ttl' = [ttl EXCEPT ![c] = t]
        /\ Goto(c, "create")
  /\ UNCHANGED <<mode, status, left, seen, http, rulings, logged>>

Create(c) ==
  /\ pc[c] = "create"
  /\ status' = [status EXCEPT ![c] = "pending"]
  /\ Goto(c, "request")
  /\ UNCHANGED <<mode, ttl, left, seen, http, rulings, logged>>

\* Where the polling loop goes with t ticks of the wait left: the next poll,
\* or past the loop, to the UPDATE that expires the row.
Loop(c, t) ==
  \/ t > 0 /\ Goto(c, "read")
  \/ t = 0 /\ ExpireOnTimeout(c) /\ Goto(c, "expireWait")
  \/ t = 0 /\ ~ExpireOnTimeout(c) /\ Reply(c, "timeout")

\* The approval.requested event is stored; a waiting caller starts its wait.
Requested(c) ==
  /\ pc[c] = "request"
  /\ \/ mode[c] = "queue" /\ Reply(c, "queued") /\ UNCHANGED left
     \/ /\ mode[c] \in {"wait", "keep"}
        /\ \E t \in Timeouts : left' = [left EXCEPT ![c] = t] /\ Loop(c, t)
  /\ UNCHANGED <<mode, status, ttl, seen, http, rulings, logged>>

Read(c) ==
  /\ pc[c] = "read"
  /\ seen' = [seen EXCEPT ![c] = IF status[c] = "pruned" THEN "none" ELSE status[c]]
  /\ Goto(c, "decide")
  /\ UNCHANGED <<mode, status, ttl, left, http, rulings, logged>>

\* A slip the runs must notice: expires_at of the polled row is not compared.
DecideExpiringAnyway(c) ==
  /\ pc[c] = "decide"
  /\ \/ seen[c] = "none" /\ Reply(c, "missing")
     \/ seen[c] = "approved" /\ Reply(c, "allowed")
     \/ seen[c] = "denied" /\ Reply(c, "denied")
     \/ seen[c] = "expired" /\ Reply(c, "expired")
     \/ seen[c] = "pending" /\ ExpireOnTimeout(c) /\ Goto(c, "expireRow")
     \/ seen[c] = "pending" /\ ~ExpireOnTimeout(c) /\ Reply(c, "expired")
  /\ UNCHANGED <<mode, status, ttl, left, seen, http, rulings, logged>>

\* A slip the runs must notice: a row that is gone no longer stops the call.
DecideFailOpen(c) ==
  /\ pc[c] = "decide"
  /\ \/ seen[c] \in {"none", "approved"} /\ Reply(c, "allowed")
     \/ seen[c] = "denied" /\ Reply(c, "denied")
     \/ seen[c] = "expired" /\ Reply(c, "expired")
     \/ seen[c] = "pending" /\ Goto(c, "sleep")
  /\ UNCHANGED <<mode, status, ttl, left, seen, http, rulings, logged>>

\* The poll's result is acted on; the row may have changed since it was read.
\* (As only its own wait expires a row, no poll of it reads "expired".)
Decide(c) ==
  /\ pc[c] = "decide"
  /\ \/ seen[c] = "none" /\ Reply(c, "missing")
     \/ seen[c] = "approved" /\ Reply(c, "allowed")
     \/ seen[c] = "denied" /\ Reply(c, "denied")
     \/ seen[c] = "expired" /\ Reply(c, "expired")
     \/ /\ seen[c] = "pending"
        /\ \/ ttl[c] > 0 /\ Goto(c, "sleep")
           \/ ttl[c] = 0 /\ ExpireOnTimeout(c) /\ Goto(c, "expireRow")
           \/ ttl[c] = 0 /\ ~ExpireOnTimeout(c) /\ Reply(c, "expired")
  /\ UNCHANGED <<mode, status, ttl, left, seen, http, rulings, logged>>

Wake(c) ==
  /\ pc[c] = "sleep"
  /\ Loop(c, left[c])
  /\ UNCHANGED <<mode, status, ttl, left, seen, http, rulings, logged>>

-----------------------------------------------------------------------------
(* resolveApproval, used by the wait's timeout and by people.              *)

\* A slip the runs must notice: UPDATE without "AND status = 'pending'".
UpdateAnyRow(c, x) ==
  /\ status[c] \notin {"none", "pruned"}
  /\ status' = [status EXCEPT ![c] = x.status]
  /\ rulings' = [rulings EXCEPT ![c] = @ \cup {x}]

\* UPDATE approvals ... WHERE id = c AND status = 'pending', as one statement.
UpdateRow(c, x) ==
  /\ status[c] = "pending"
  /\ status' = [status EXCEPT ![c] = x.status]
  /\ rulings' = [rulings EXCEPT ![c] = @ \cup {x}]

UpdateMisses(c) == status[c] # "pending" /\ UNCHANGED <<status, rulings>>

\* A slip the runs must notice: the expiry is logged and the row left alone.
ExpireWithoutUpdate(c) ==
  /\ \/ pc[c] = "expireRow" /\ Goto(c, "logRow")
     \/ pc[c] = "expireWait" /\ Goto(c, "logWait")
  /\ UNCHANGED <<mode, status, ttl, left, seen, http, rulings, logged>>

\* A slip the runs must notice: the wait ends only if its own UPDATE wins.
ExpireUntilWon(c) ==
  /\ UpdateRow(c, ByTimeout)
  /\ \/ pc[c] = "expireRow" /\ Goto(c, "logRow")
     \/ pc[c] = "expireWait" /\ Goto(c, "logWait")
  /\ UNCHANGED <<mode, ttl, left, seen, http, logged>>

\* The wait's own attempt to expire the row: whether it wins is not looked
\* at, the caller is told "expired" or "timeout" all the same.
Expire(c) ==
  /\ \/ /\ pc[c] = "expireRow"
        /\ \/ UpdateRow(c, ByTimeout) /\ Goto(c, "logRow")
           \/ UpdateMisses(c) /\ Reply(c, "expired")
     \/ /\ pc[c] = "expireWait"
        /\ \/ UpdateRow(c, ByTimeout) /\ Goto(c, "logWait")
           \/ UpdateMisses(c) /\ Reply(c, "timeout")
  /\ UNCHANGED <<mode, ttl, left, seen, http, logged>>

LogExpiry(c) ==
  /\ \/ pc[c] = "logRow" /\ Reply(c, "expired")
     \/ pc[c] = "logWait" /\ Reply(c, "timeout")
  /\ logged' = [logged EXCEPT ![c] = @ \cup {ByTimeout}]
  /\ UNCHANGED <<mode, status, ttl, left, seen, http, rulings>>

\* POST /v1/phaseone/approvals/:id/approve and /deny; expires_at is not consulted.
Resolve(r, c, v) ==
  /\ http[r] = "idle"
  /\ \/ UpdateRow(c, ByPerson(v, r)) /\ http' = [http EXCEPT ![r] = "log"]
     \/ UpdateMisses(c) /\ http' = [http EXCEPT ![r] = "404"]
  /\ UNCHANGED <<mode, pc, ttl, left, seen, answer, logged>>

LogResolution(r) ==
  /\ http[r] = "log"
  /\ http' = [http EXCEPT ![r] = "200"]
  /\ logged' = [c \in Calls |-> logged[c] \cup {x \in rulings[c] : x.by = r}]
  /\ UNCHANGED <<mode, pc, status, ttl, left, seen, answer, rulings>>

-----------------------------------------------------------------------------
(* Failures, time and the retention job.                                   *)

\* A query rejects: the handler throws and the caller gets a 500.
CallFails(c) ==
  /\ pc[c] \in Awaiting \ {"decide", "sleep"}
  /\ Reply(c, "error")
  /\ UNCHANGED <<mode, status, ttl, left, seen, http, rulings, logged>>

ResolveFails(r) ==
  /\ http[r] \in {"idle", "log"}
  /\ http' = [http EXCEPT ![r] = "500"]
  /\ UNCHANGED <<mode, pc, status, ttl, left, seen, answer, rulings, logged>>

\* The gateway process dies: every request in flight is lost, rows survive.
Crash ==
  /\ \/ \E c \in Calls : pc[c] \in Awaiting
     \/ \E r \in Resolvers : http[r] = "log"
  /\ pc' = [c \in Calls |-> IF pc[c] \in Awaiting THEN "done" ELSE pc[c]]
  /\ answer' = [c \in Calls |-> IF pc[c] \in Awaiting THEN "lost" ELSE answer[c]]
  /\ http' = [r \in Resolvers |-> IF http[r] = "log" THEN "500" ELSE http[r]]
  /\ UNCHANGED <<mode, status, ttl, left, seen, rulings, logged>>

\* Retention deletes an old row; with its session it deletes pending ones too.
Prune(c) ==
  /\ status[c] \in Final \/ (status[c] = "pending" /\ ttl[c] = 0)
  /\ status' = [status EXCEPT ![c] = "pruned"]
  /\ UNCHANGED <<mode, pc, ttl, left, seen, answer, http, rulings, logged>>

Less(n) == IF n > 0 THEN n - 1 ELSE 0

Tick ==
  /\ \E c \in Calls : ttl[c] > 0 \/ left[c] > 0
  /\ ttl' = [c \in Calls |-> Less(ttl[c])]
  /\ left' = [c \in Calls |-> Less(left[c])]
  /\ UNCHANGED <<mode, pc, status, seen, answer, http, rulings, logged>>

\* Every request has been answered and every row is final or gone.
Quiet ==
  /\ \A c \in Calls : pc[c] = "done" /\ ttl[c] = 0 /\ left[c] = 0
  /\ \A r \in Resolvers : http[r] \notin {"idle", "log"}
  /\ UNCHANGED vars

Proceed(c) ==
  \/ Record(c) \/ Create(c) \/ Requested(c) \/ Read(c) \/ Decide(c)
  \/ Wake(c) \/ Expire(c) \/ LogExpiry(c)

Next ==
  \/ \E c \in Calls : Begin(c) \/ Proceed(c) \/ CallFails(c) \/ Prune(c)
  \/ \E r \in Resolvers, c \in Calls, v \in Verdicts : Resolve(r, c, v)
  \/ \E r \in Resolvers : LogResolution(r) \/ ResolveFails(r)
  \/ Crash \/ Tick \/ Quiet

Spec == Init /\ [][Next]_vars

\* The event loop serves every settled await and timer, and the clock runs;
\* nobody is obliged to call, to approve, to deny or to run retention.
FairSpec == Spec /\ WF_vars(Tick) /\ \A c \in Calls : WF_vars(Proceed(c))

-----------------------------------------------------------------------------
(* Properties.                                                             *)

\* One request, one ruling: however approve, deny, double clicks and the
\* wait's timeout race on a row, only one of them is ever written to it, and
\* the row shows that one for as long as it exists.
OneRuling ==
  \A c \in Calls :
    /\ \A x, y \in rulings[c] : x = y
    /\ status[c] \in Final => \E x \in rulings[c] : x.status = status[c]

\* The answer a caller acts on is backed by what people did: a protected call
\* is allowed only if a person approved that very row, it is called denied
\* only if a person denied it, and missing only if the row was deleted.
AnswersFollowRulings ==
  \A c \in Calls :
    /\ (answer[c] = "allowed" /\ mode[c] # "allow")
         => \E r \in Resolvers : ByPerson("approved", r) \in rulings[c]
    /\ answer[c] = "denied" => \E r \in Resolvers : ByPerson("denied", r) \in rulings[c]
    /\ answer[c] = "missing" => status[c] = "pruned"

\* With expire_on_timeout, a caller told that time ran out leaves no row behind
\* that somebody could still approve to no effect.
TimedOutRowsAreClosed ==
  \A c \in Calls :
    (ExpireOnTimeout(c) /\ answer[c] \in {"expired", "timeout"}) => status[c] # "pending"

\* Nobody is told that time ran out while both the row and the wait had time left.
OnlyLateCallsTimeOut ==
  \A c \in Calls : answer[c] \in {"expired", "timeout"} => ttl[c] = 0 \/ left[c] = 0

\* Every call in flight is answered, whatever people, retention and crashes do.
CallsAreAnswered == \A c \in Calls : pc[c] \in Awaiting ~> pc[c] = "done"

\* The gateway's promise, with rows, polls and deadlines abstracted away.
GateState(c) ==
  IF mode[c] = "allow" THEN "exempt" ELSE IF status[c] = "none" THEN "closed" ELSE "open"
Outcome(c) ==
  IF answer[c] = "none" THEN "none" ELSE IF answer[c] = "allowed" THEN "run" ELSE "refused"
Gate == INSTANCE HumanGate WITH
  gate <- [c \in Calls |-> GateState(c)],
  ruled <- rulings,
  outcome <- [c \in Calls |-> Outcome(c)]
GateSpec == Gate!GSpec

=============================================================================
