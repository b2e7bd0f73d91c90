# A verification of PhaseOne10841

PhaseOne10841 is a security gateway for AI agents: it sits between agents and the
tools, models and other agents they talk to, decides what may pass, asks people
about what may not pass unasked, records everything and reacts to what it records.
These modules model its stateful parts in TLA+, check them with TLC on small
instances and prove the central facts about some of them with TLAPS.

Every process of the system is a single-threaded event loop (Node), so code between
two `await`s is atomic and everything else interleaves: requests with each other,
with timers, with the jobs run by hand or by cron, and with the other processes that
share the Postgres database. That is the grain of every model here: one action per
stretch of code between two awaits.

## Inventory

| Part | State it keeps | Operations | Talks to |
|---|---|---|---|
| Approval queue (`gateway/src/enforce.ts`, `approval.ts`, `recorder/src/recorder.ts`) | rows of `approvals`: status, expires_at, resolved_by | enforce a call, poll, expire, approve, deny | policy engine, recorder, people (dashboard, CLI), retention |
| Playbook matcher (`gatekeeper/src/matcher.ts`) | cooldowns, execution counters, windows of events | match an event, record an execution | gatekeeper worker |
| Gatekeeper worker (`gatekeeper/src/worker.ts`, `actions.ts`, `gateway/src/routes/phase7.ts`) | event queue, running flag, enabled and dry-run knobs, pending confirmations | queue, process, run a cycle, confirm, deny | matcher, runtime overrides, canaries, rules, audit, advisor |
| Runtime overrides (`gatekeeper/src/actions.ts`) | key -> restriction with an expiry | set by contain actions, get, list, clear | gatekeeper worker; meant for enforcement |
| Rate limiting (`shared/src/rate-limit.ts`, gateway middleware) | per key, the times of the last hits | check, record | gateway routes, dashboard OTP, operator MCP server |
| Dashboard sign-in (`dashboard/src/auth.ts`, `server.ts`, `shared/src/oidc.ts`) | OTPs, OTP rate, sessions, pending OIDC logins | request and verify OTP, OIDC login and callback, logout | people, identity provider |
| Policy engine (`policy/src/engine.ts`) | cached policy | load, evaluate a call | enforcement, policy routes |
| Chat pipeline and tool calls (`gateway/src/index.ts`, `enforce.ts`, `scanner.ts`) | none across requests | scan messages, check egress, enforce tool calls, forward, record | policy engine, recorder, chat upstream |
| A2A firewall (`gateway/src/a2a-firewall.ts`) | none of its own | judge a message by trust rank, scan, forward or quarantine | policy, recorder |
| MCP proxy (`gateway/src/routes/mcp-proxy.ts`) | none across requests | allowlist, enforce, forward with a timer, scan the result | policy, MCP servers |
| Permissions inspector (`gateway/src/permissions.ts`) | none | capability matrix and findings of a policy | policy |
| Recorder (`recorder/src/recorder.ts`) | sessions, events, approvals | ensure a session, record an event | everybody |
| Retention (`shared/src/retention.ts`, `scripts/retention-cleanup.ts`) | none | delete old events, sessions, approvals, audit | recorder's tables |
| Policy store (`shared/src/policy-save.ts`, `gateway/src/routes/phase3.ts`, `phase4.ts`) | policy file, backups, cached policy | validate, back up, write, reload, change an agent's trust | policy engine |
| Canaries (`canaries/src/manager.ts`, `detector.ts`, `shared/src/canary-sign.ts`) | markers, signatures, key files | rotate, sign, verify, detect | enforcement, gatekeeper |
| Detection rules (`rules/src/engine.ts`) | rule cache, windows of events by group | load, evaluate with aggregation | gateway, gatekeeper |
| Organisations and audit (`shared/src/orgs.ts`, `audit.ts`, `gateway/src/routes/orgs.ts`) | orgs, API keys, audit entries, each in the database and in memory | create, delete, revive, mint keys, list | dashboard, gateway |
| Advisor (`shared/src/gatekeeper-llm.ts`) | none | ask a provider, fall back on another | gatekeeper worker |
| Alerting (`shared/src/alerting.ts`) | none | send with retries | webhook |
| Action caps (`shared/src/gatekeeper.ts`) | actions of a window, pending approvals, breaker | check, record, release | gatekeeper routes |
| Operator MCP server (`mcp-server/src/`) | its own rate limiter, audit | management tools | gateway API |
| Simulation (`shared/src/gatekeeper.ts`), learn loop (`playbook-learn.ts`) | outcome store | replay events; suggest tweaks | gatekeeper routes |
| CLI, GUI, website, SDKs, adapters, lab, deploy | none of the system's own | call the API | gateway |

### What is hard in it, and what makes each part correct

- **Approval queue.** Clicks, the waiting caller's poll and its time limit race on
  one row; queries fail; the gateway may stop between any two of them; retention may
  delete the row. Correct means: one ruling per row, a protected call runs only on
  the approval of that row, nobody who gave up leaves a row open for approval, and
  every waiting caller is answered.
- **Matcher.** Cooldowns and counters are checked in one place and recorded in
  another, awaits later; windows of events are cleaned lazily, with late timestamps.
  Correct means: however many requests overlap, executions within a cooldown and
  within a window stay within bounds that follow from their number and the limit; a
  threshold counts the whole window; no playbook is silenced for good.
- **Gatekeeper worker.** Two requests may run cycles over one queue, knobs are turned
  in mid-flight, matching may throw half-way, confirmations race with their expiry.
  Correct means: events in order and accounted for, nothing done live unasked, what
  needs a yes done at most once and on a yes, cycles that end.
- **Runtime overrides.** Entries outlive their expiry until somebody reads or cleans.
  Correct means: in force exactly as long as last asked, and observed by enforcement.
- **Rate limiting.** Boundaries of a sliding window. Correct means: never more than
  the limit in any window, and a truthful time to come back.
- **Sign-in.** Slow deliveries, double clicks, reloaded callbacks, timers, a logout
  that awaits its audit entry. Correct means: guesses bounded by attempts, one session
  per code or sign-on, signed out for good, no sign-on refused in time.
- **Policy engine, pipelines, A2A firewall, MCP proxy.** Ladders of checks whose
  order matters; lists whose emptiness means everything here and nothing there; a
  policy that is reloaded between two checks of one request; records that fail to be
  written. Correct means: what was forwarded was cleared piece by piece, what was
  refused is on record, what a sender claims of itself opens nothing the operator
  closed, tightening a policy opens nothing, requests end.
- **Recorder and retention.** Each query commits alone: a session is deleted under its
  first event. Correct means: rows younger than every cutoff stay, calls on young
  sessions are not broken by the job, an approval resolved is a resolution on record.
- **Policy store, canaries, detection rules, organisations.** Files, tables and memory
  that several requests and processes change at once. Correct means: every text saved
  is the file, a backup or was replaced by hand; a quarantine stays; a signature
  verifies, or is of a marker that a failed rotation left unsigned; aggregation of
  events in order is exact; a change that was answered is in the audit.
- **Advisor, alerting, caps, operator MCP.** Providers that stall, lost answers,
  boundaries of times, changes applied after their caller gave up. Correct means:
  waits that have a timer end, refusals name the exact time to come back, changes are
  on record.

## Plan

1. Approval queue: `HumanGate` (abstract), `Approval` (detailed, refines it),
   `ApprovalProofs`. Done.
2. Gatekeeper: `Matcher` and `Gatekeeper`, composed by `Response`; `Containment`. Done.
3. Limits and sign-in: `RateLimit`, `SignIn` (which extends it), `RateLimitProofs`,
   `SignInProofs`. Done.
4. Flows: `Policy` (the ladder), `Screening` (scans and trust), `Permissions` (the
   analyzer), composed by `Gateway` (the request handlers). Done.
5. Data: `Records` (recorder against retention). Done.
6. Administration: `PolicyStore`, `Canaries`, `Detection`, `Orgs`, composed with
   `Records` by `Admin`. Services: `Advisor`, `Alerts`, `Caps`, `Containment`, `OperatorMcp`,
   composed by `Services`. Done.
7. Proofs about the flows, the administration and the services: `GatewayProofs`,
   `AdminProofs`, `ServicesProofs`. Done.
8. The safety properties of what was only checked before: `RecordsProofs`,
   `GatekeeperProofs` (worker and matcher), the rest of `ApprovalProofs`,
   `GatewayProofs`, `AdminProofs` and `ServicesProofs`. Done: every invariant and every
   action property that a passing run checks is stated by a theorem.
9. Left: abstract specifications for the matcher (a limiter of executions) and for the
   worker (a queue), with the detailed modules shown to implement them.

Runs are few and each checks many properties. Parts that share no state and have small
instances are checked in one run each for the gatekeeper, the administration and the
services: a behaviour chooses its part at the start and follows it, so the states of
the parts add up and do not multiply.

## The modules

Every module says at its head which code it models; each action names the handler it
stands for. Variables marked *history* in a module are not in the code: they record
what properties speak of and no action reads them to decide anything. Each module
also holds a few definitions marked *a slip the runs must notice*: small mistakes a
programmer might make in that very definition, under which the run must find a
property violated. They are not part of the specification; they show that the
properties can tell.

### `HumanGate`, `Approval`

`HumanGate` is the promise: a call is exempt or a person is asked, a ruling is final,
a call runs only when exempt or approved, refusing is always allowed.

`Approval` is `enforceToolCall` from the decision on, `waitForApprovalDecision`,
`createApproval`, `resolveApproval`, `getApproval` and the two routes.

| Module | Code |
|---|---|
| `mode` | the decision of `evaluateToolCall`, `wait_for_approval`, `expire_on_timeout` |
| `pc` | the await at which the request of a call stands |
| `status`, `ttl` | columns `status` and `expires_at` of the row |
| `left`, `seen` | the deadline of the wait, and what the last poll read |
| `answer`, `http` | what the caller, and the person, are told |
| `Begin`, `Record`, `Create`, `Requested` | `enforceToolCall` from evaluation to the stored request |
| `Read`, `Decide`, `Wake`, `Expire`, `LogExpiry` | one turn of the polling loop and its two ways of giving up |
| `Resolve`, `LogResolution` | `POST approvals/:id/approve` and `/deny` |
| `CallFails`, `ResolveFails`, `Crash` | a query rejects; the gateway stops |
| `Prune` | retention, by its own DELETE or by the cascade from sessions |

Times are what is left of them, so the model has no unbounded clock. The poll interval
is abstracted: a caller may poll any number of times in a tick. Which decision policy
takes is any; the tool itself runs in the caller and is not modelled.

### `Matcher`, `Gatekeeper`, `Response`

In `Matcher`, `matchAllPlaybooks` is `Match`, atomic as in the code, and
`recordPlaybookExecution` is `Record`, which comes after the awaits of the execution:
between the two other requests (`Tasks`) match and record. Times are ages, saturated at
`Forever`. Conditions on fields, patterns and severities are data: constant `Matches`
says which kinds of event meet which playbook. `Delays` are the ages an event's own
timestamp may have on arrival: events are matched late, out of order, or with timestamps
older than any window. `EnabledPlaybooks` are the playbooks with the defaults of
`validatePlaybook` filled in. The history `started` numbers the executions of a playbook
that are younger than its window or its cooldown, whichever is longer.

In `Gatekeeper`, `Enqueue` is `queueEvent`, `Run`/`Take`/`EndCycle`/`FailCycle` are
`runGatekeeperCycle` up to each await, `Process`/`Act`/`EndBook`/`Answer` are
`processEvent` and `executePlaybook`, `Confirm`/`Deny` the confirmation routes,
`Configure` the knobs. An action observes, contains, hardens at once
(`requires_confirmation: false`) or asks a person first, which is the default of a
harden action; to contain and to harden at once take effect in a
live run only, and what asks is put in front of people in a dry run too. An event matches any set of the
playbooks that concern it (`Concerns`; what may match is `Matcher`'s business); those
matched are a set, `todo`, and `First` takes them in the order of the books, as the
loop over `matchAllPlaybooks` does. The knob `enabled`, which no step of the code
reads, is left out, and so are audit entries, alerts and the advisor's text: nothing
reads them back. Their awaits are kept as the points where steps interleave.

`Response` follows one of the two per behaviour.

### `Containment`

`runtimeOverrides`: the contain actions set keys, `getRuntimeOverride` and
`clearExpiredOverrides` drop what has expired, a restart forgets all. `Call` is a tool
call judged by the same gateway.

### `RateLimit`, `SignIn`

`RateLimit` is the sliding window that `shared/src/rate-limit.ts`, `dashboard/src/auth.ts`
and `mcp-server/src/tools.ts` each implement; the three differ in whether a refusal
stores the filtered bucket, and `Refuse` allows both. Checking and recording have no
await between them, so a request is one step.

`SignIn` extends it: its keys are the allowlisted emails. `RequestOtp`, `Delivered` and
`Verify` are `requestOtp` up to and after `deliverOtp`, and `verifyOtp`; `BeginAtLogin`,
`BeginAtButton`, `Forget`, `Callback`, `Exchanged`, `Named` the two ways of beginning a
single sign-on, the timer, and the callback from await to await; `Visited`, `Logout`,
`LoggedOut`, `OidcLogout` the life of a session. A code is known by its position among
the requests of its email, so two equal six-digit codes do not occur; roles, cookies,
CSRF token and tokens of the provider are data no property speaks of.

### `Policy`, `Screening`, `Permissions`, `Gateway`

`Policy` is `evaluatePolicy` as a ladder: for each family of checks the set of rules
that deny a call, `Order` the order in which they are tried, `Decision` the first that
applies, else approval for what is destructive, else allowance. A list of patterns is
the set of things it matches, so matching is membership and the peculiarities of empty
lists are kept. `evaluateToolCall`'s reading of a call is `BlankCall` and the calls
built from it. `Screening` has the classification of a text's source, the decision to
block by severity, and the firewall's effective trust and decision, in the form the
handler uses and in the one the unit tests use (`A2ADecisionSync`). `Permissions` is
the analyzer's capability matrix and findings. Whether a message may be delivered is
judged by `Deliverable`, which reads the operator's lists and not the trust the firewall
computes from them and from the sender's claim.

`Gateway` composes them: the handlers of chat completions, `tools/enforce`, the two
scan routes, the A2A route and the MCP proxy.

| Module | Code |
|---|---|
| `policy`, `Reload` | `cachedPolicy` and whatever replaces it |
| `pc`, `at` | the await a request stands at, and the message or tool call it is at |
| `seen` | the policy a handler keeps from its beginning: MCP proxy and A2A firewall do, the others read anew at each check |
| `Store`, `StoreFails`, `StoreQuietly` | `recordEvent` and `createApproval`, in order; failing at any of them; with `.catch(() => undefined)` |
| `OpenChat` ... `ChatFails` | `POST /v1/chat/completions`: session, message by message, canaries, egress, tool call by tool call, upstream |
| `Tool`, `Waiting` | `enforceToolCall`; what happens after it waits is module `Approval` |
| `Scan`, `EnsureSession`, `Decide` | the scan routes; `processA2AMessage` |
| `OpenMcp`, `Proxy`, `McpAnswered`, `McpFails` | the MCP proxy, its stub, dry run and timer |

### `Records`

`recordEvent` is two queries, `Ensure` and `Insert`; `UpdateApproval` the one that
`resolveApproval` begins with; a call inserts the rows its handler inserts, in that
order (`Rows`). `StartRun` to `DeleteApprovals` are the queries of
`runRetentionCleanup` with the cutoff and the flags of the command line or the API
(`NaN` is a number of days that is none). Foreign keys act as the migrations declare
them: deleting a session deletes what refers to it, and an insert for a session that
is gone fails (`InsertOrphaned`). Time is counted in days.

### `PolicyStore`, `Canaries`, `Detection`, `Orgs`, `Admin`

`PolicyStore` has the file, its backups by millisecond, and the policy in force.
Handlers read and write files synchronously, so `Save`, `Trust` and `Reload` are one
step each; what interleaves are requests, edits by hand and restarts. A text is its
flaw, if any, a tag for all that the properties do not look into, and its lists of
agents. `Canaries` has two processes with markers and signatures of their own and the
key files they share, read and written one after the other (`ReadKeys`,
`GenerateKeys`, `WritePrivate`, `WritePublic`). `rotateCanary` gives a marker its new
value (`ChangeValue`) before it looks for its keys and signs (`SignOne`), and may throw
in between (`Fails`): the history `torn` has the markers this leaves with a signature of
an older value. `Detection` is `evaluateRules`: one
call is one step, and its difficulty lies in sequences of calls with late timestamps
and lazy clean-up. The events of a window are a set, each with the number of its
evaluation. `Orgs` has rows in the database and in the memory of the process,
which is used while the database is down, and the audit in both: `Audit` puts the entry
in memory, `AuditRow` writes the row, an await later, and answers. `Admin` follows one
of these four, or `Records`, per behaviour.

### `Advisor`, `Alerts`, `Caps`, `OperatorMcp`, `Services`

`Advisor` is `completeAdvisorPrompt` and `checkLLMHealth` with every provider call in
two stages, headers and body, since the timer covers the first alone. `Alerts` is
`sendAlert`: attempts, doubled pauses, and answers lost after the receiver took the
alert. `Caps` is `checkRateCap`, `recordAction` and `releaseApproval`; nothing in the
product calls the latter two, so callers may or may not keep to the answers. Actions
are a set of records, of which `Earliest` is the one the code finds first in its list.
`OperatorMcp` extends `RateLimit` with the operator's server: token, limiter, request
with a timeout, audit on the console and at the gateway. A request the server has given
up may still be carried out. `Services` follows one of these, or the overrides of
`Containment`, per behaviour.

## What the runs check

State counts are distinct states. Every property of a passing run is also checked to
fail under a slip in the definitions (`mutants` of `PROJECT.json`).

| Run | Instance | Shows |
|---|---|---|
| `approval` (83 000) | one call, three people, timeouts 0, 1, 2 chosen twice | `OneRuling`, `AnswersFollowRulings`, `TimedOutRowsAreClosed`, `OnlyLateCallsTimeOut`, `CallsAreAnswered` (liveness), and that `Approval` implements `HumanGate` (`GateSpec`) |
| `response` (201 000) | the worker: two cycles, one request, three events of which one is poison, a queue of two, a playbook that contains and one that hardens and asks. The matcher: two requests that overlap, two playbooks, one with a threshold of two; fresh, late and ancient events; windows longer than the recorder's | `ContainedOnlyLive`, `HardenedOnOneYes`, `InOrder`, `NothingVanishes`, `CyclesEnd` (liveness); `RateLimited`, `CooldownKept`, `WindowsAreComplete`, `PlaybooksRecover` (liveness) |
| `signin` (730 000) | one email, one sign-on with two callbacks, limit 1 in a window of two ticks, two attempts | `AtMostMaxPerWindow`, `RoomWhenPromised`, `GuessesBounded`, `OneSessionEach`, `SignedOutStaysOut`, `LoginsAreHonoured` |
| `gateway` (26 000) | one request out of 170 of every kind, four policies, one change of policy, any write failing | `ForwardedWasCleared`, `IncidentsAreOnRecord`, `DeliveredMessagesWereTrusted`, `TighteningOpensNothing`, `AnalyzerSeesWhatIsAllowed`, `RequestsEnd` (liveness) |
| `admin` (1 617 000) | five texts and two agents; two processes and two markers, operations that throw; four rules and four evaluations; two organisations and two requests; a queued call, one or two resolutions, an event or an export, two runs of the retention job, three days, one failing query | `SavedPoliciesAreRecoverable`, `QuarantineSticks`, `SignaturesHold`, `InOrderIsExact`, `AnsweredChangesAreAudited`; `RecentRowsStay`, `RulingsAreOnRecord`, `YoungSessionsKeepCalls` |
| `services` (246 000) | two requests for advice in each of 24 environments; two alerts with three attempts; two actions capped at two; two tools and an agent restricted; two management calls | `RetryTimesAreExact`, `InForceAsAsked`, `ChangesAreOnRecord`, `WaitsEnd` and `TimedRestrictionsEnd` (liveness) |
| `response_overlap` | as `response` | **violated:** a playbook is executed once in a cooldown |
| `containment_enforced` | one tool | **violated:** a denied tool runs |
| `signin_button` | as `signin`, one callback | **violated:** sign-ons begun with the button are refused |
| `a2a_trust` | as `gateway` | **violated:** what an unlisted sender claims gets it no further than claiming nothing |
| `advice_timeout` | as `services` | **violated:** every request for advice is answered |
| `canaries_rotated` | as `admin` | **violated:** an active marker passes enforcement unseen |

**Why these bounds are enough.** Calls of the approval queue share nothing but the
people and a crash, so one call with three clickers has all the races on a row: two
people and a double click, against a time limit. Timeouts 0, 1 and 2, chosen once for
the row and once for the wait, meet both orders of the two deadlines, their tie, and the
immediate one. Two playbooks show that one does not disturb another, and two requests
that overlap pass a check together; a window is cleaned after one tick of its two, is
twice as long as the recorder's, so that counters restart within it, and `Forever` is
one more than any limit. The proofs hold for any number of requests and all lengths.
Three events in a queue of two overflow it while a cycle holds some; two cycles are what
a running flag is for. In `signin`, the clock runs for four ticks, twice the longest
lifetime and one more than the window, so a second code is requested, a delivery
overtakes another, sessions and sign-ons expire; the limiter's sizes beyond 1 are
covered by the proofs, which hold for all.

Requests at the gateway share nothing but the policy, so one request, all the policies
it may find and one change at any of its awaits is every pair of policies at every
place. The inputs hold each rung of the ladder, each order of clean and suspect
messages, and every trust a sender may have or claim; one of the policies blocks unknown
agents and one of the senders is on no list. In `admin`, three days against a retention
of no days let a session be younger than, as old as and older than the cutoff of each of
two runs, whose queries interleave with three calls. Two stamps of backups, five changes
and restarts let a backup be replaced and a policy be lost in every way there is; two
processes and at most two keys are what it takes to mix a pair of key files; four
evaluations with stamps before, in and after a window of 2, 4 or 8 ticks reach the
clean-up at a quarter of a window, its edge and a late event that follows it; two
requests, three entries against a memory of two and one outage put every query of one
before and after the loss and return of the database and the entry of the other. Caps of
two with a threshold of one meet each reason to refuse and every boundary in a clock of
six ticks, twice the longest of the times.

Bounds on counters are constants named where they are declared, among them `MaxSeen`,
`Forever`, `LastTick`, `QueueMax` (the code's 1000), `MaxReloads`, `FinalDay`,
`MaxRuns`, `MaxFaults`, `MaxChanges`, `MaxRotations`, `MaxSignings`, `MaxEvaluations`,
`MaxOutages`, `MaxAudits`, `MaxKeysMinted`, `MaxRecorded`. Two relations between times are assumed, as shipped: the
cooldown of an action is no longer than `CapWindow` (one second and one minute), as
otherwise a clean-up drops the action the cooldown is counted from, and
`BreakerCooldown` no shorter (five minutes), as otherwise the breaker trips again on the
same actions; the time a refusal names would not be the last.

**Deadlock** is checked in `Approval` and in `Response` (`Matcher`, `Gatekeeper`). The models of
sign-in, the gateway, administration and services stop of themselves: each
request, sign-on or call happens once and the clocks and counters of faults end at
their bounds, where the program waits for the next request. In `Approval` the end of
all requests is a step of its own (`Quiet`) which is enabled only when every request is
answered and every deadline past: a deadlock would be a caller left hanging. What a
deadlock would be in the others, a request that waits for ever, is what `RequestsEnd`
and `WaitsEnd` exclude.

**Fairness.** `Approval`: the clock and each caller's next step (`Proceed`) are weakly
fair, because Node serves every settled await and every timer; nobody has to begin,
click, prune or fail. `Gatekeeper`: the clock and each request under way (`Proceed(w)`)
are. That every await of a request is settled is taken for granted by `CyclesEnd`, which
asks whether a cycle that goes on ends, and is not so in the program where a provider
stalls in the middle of its answer or a webhook never answers: `AdviceComes` and the
excuses of `WaitsEnd` say where. Running a cycle is not fair: nothing in the code polls.
`Matcher`: the clock alone; no event has to come and no execution to end. `Gateway`: the
handler's own steps and the timer of the MCP proxy; no upstream has to answer, which is
why `RequestsEnd` lets a chat stand at its upstream. `Services`: the timers of provider
calls, which run until the headers have come, those of management calls, the pauses
between attempts of an alert, and the clock of the overrides. The body of a provider's
answer and the attempt of an alert have no timer in the code and are not fair: `WaitsEnd`
lets a request for advice stand at a body, and an alert at an attempt. Providers,
receivers and the gateway need not answer. `SignIn` and `Admin` have no liveness property
and no fairness.

## What is proved

The proofs hold for every value of the constants that the named assumptions admit. None
bounds the size of an instance; TLC evaluates each of them on its run.

| Assumption | Says |
|---|---|
| `TimeoutsAssumption`, `ContainmentAssumption` | timeouts and durations are natural numbers |
| `RateAssumption`, `SignInAssumption` | limit and window at least 1; lifetimes are natural numbers, a code has an attempt |
| `MatcherAssumption` | cooldowns, windows, the recorder's 60 s and the ages of events are no greater than `Forever`, windows less; the requests that overlap are finitely many |
| `GatekeeperAssumption` | events concern playbooks, books are without repetition, each has an action (`validatePlaybook`), the queue has room for one and confirmations a moment |
| `PoliciesAssumption`, `InputsAssumption`, `DepthAssumption` | a policy has every field of its A2A section, a request is of one of five kinds, messages and calls come in sequences, depths are natural numbers |
| `BoundsAssumption`, `RecordsAssumption` | days are integers, a call is of one of the four routes and names a session |
| `GatewayAssumption`, `KeyAssumption` | the gateway is one of the processes; having no key is not a key |
| `MaxMemoryAssumption` | the audit in memory holds a natural number of entries |
| `DetectionAssumption` | rules have ids of their own, windows are natural numbers, stamps integers |
| `CapAssumption` | times and caps at least 1, the cooldown within the window, the breaker's no shorter |

- **`ApprovalProofs`**: `TypeCorrect`, `OneRulingHolds`, `AnswersFollowRulingsHolds`,
  `TimedOutRowsAreClosedHolds`, `OnlyLateCallsTimeOutHolds`, `ImplementsGate`. None of the
  properties is inductive: that an answer "allowed" is
  backed depends on what the last poll read, which may be out of date. The inductive
  invariant `IInv` has four parts: where the row stands at each await
  (`RowsMatchProgress`); an open row has no ruling and a final one shows its only one
  (`RulingsMatchRows`); what a poll read, somebody ruled (`PollsAreBacked`: rulings are
  never taken back, so a stale reading stays justified); and the same for answers
  (`AnswersAreBacked`). The refinement maps each step to a step of `HumanGate` or to
  none: `Create` asks, `UpdateRow` rules, a reply lets run or refuses, a crash refuses all calls in
  flight at once.
  What is said of timeouts rests on `LateInv`, how far a wait that gives up has come:
  which deadline is past at each await of its two endings (`WaitsTimeOutLate`), and that
  a row becomes "expired" by its own wait only, which never polls again
  (`ExpiredByItsWait`).
- **`RateLimitProofs`**: `LimitHolds`, `PromiseHolds`. Buckets are kept as sets of
  positions; the invariant says hits are in the order of their times (`InOrder`), those
  that still count are in the bucket (`KeptWhileFresh`), and a refusal named one of the
  last `Max` hits (`PromisesAreRecent`). The heart is counting: if the hit `Max` places
  before a new one still counted, the `Max` hits from there on would all be in the
  bucket, and there would have been no room (`LaterHitsCount`).
  `HitsAreFew` adds that a key has at most `Max` hits a tick.
- **`SignInProofs`**: signing in implements the limiter (`SignInLimits`), hence
  `CodesAreLimited`. `GuessesAreBounded` and `OneSessionEachHolds` follow from what may
  still become of a code (not requested, on its way, stored, gone: `CodesInv`) and of a
  sign-on (not begun, stored, held by one callback, gone: `SignOnsInv`); in all but the
  last nothing has been opened. `SignedOutHolds` uses that: an id that was signed out
  has opened its one session. `LoginsHonoured` rests on the fact that a state leaves
  the store only by its timer, when it is too old, or by a callback (`LoginsInv`).
- **`GatekeeperProofs`**, the worker: `ContainedOnlyLiveHolds`, `HardenedOnOneYesHolds`,
  `InOrderHolds`, `NothingVanishesHolds`. One invariant, `GatekeeperInv`, for all four.
  Order: what was taken up, the rest of the cycle under way and the queue, one after the
  other, are as accepted, none of it twice (`EventsInOrder`), for which there must be
  one cycle at a time (`JobsMakeSense`, the running flag). One yes: an action that
  still has to be reached, in the queue, in the rest or in the playbooks ahead of a
  request, has been put to nobody (`AskedInTurn`), and no two requests are at one event
  (`EventsOnce`).
- **`GatekeeperProofs`**, the matcher: `WindowsAreCompleteHolds`, `CooldownKeptHolds`,
  `RateLimitedHolds`, for any number of requests that overlap. A window holds exactly
  what was offered to it within its length, as the clock ages both alike
  (`WindowsKeep`). Cooldowns: of the executions younger
  than a cooldown, at most as many as there are requests still executing (`Busy`) are not
  covered by what is left of the cooldown now running; when they are over, they start
  it anew, and while it runs none is matched (`CooldownLasts`). Limits: the executions within the
  window split into parts, one for each life of the counter that the window touches; one
  part holds no more than the limit and one for every other request, which passed the
  check before it was counted, and a life is as long as the shorter of the two windows
  that restart it (`RestartKeeps`, `MatchSplits`, `CountersTogether`). Neither asks for
  anything of the lengths of cooldowns and windows.
- **`GatewayProofs`**: `TighteningIsSafe`, `ForwardedWasClearedHolds`,
  `IncidentsAreOnRecordHolds`, `DeliveredMessagesWereTrustedHolds`,
  `AnalyzerSeesWhatIsAllowedHolds`. The lemma `StricterDeniesMore` goes through
  the rules of the ladder one by one; with `StricterAllowsLess` it speaks of any two
  policies and any call. `ToolInv` says that whoever is at its tool calls is a chat, a
  call of `tools/enforce` or of the MCP proxy and has calls to be judged. `GatewayInv`
  adds, request by request, the awaits a kind of request can stand at (`InPlace`), that
  the policies it met include the one in force (`InForce`), what has been cleared by
  some of them when it gets to each await (`ChatCleared`, `McpCleared`, `CallsCleared`,
  `Trusted`), and which rows are in the tables by then (`RefusalOnRecord`,
  `CanaryOnRecord`). `DeliveredWasTrusted` derives what the lists say of a message from
  the trust and the two verdicts computed from them. One lemma for each handler shows that it moves on only past what
  it has cleared or stored. The analyzer's theorem is about the two evaluators of a
  policy and needs no invariant.
- **`RecordsProofs`**: `RecentRowsStayHolds`, `RulingsAreOnRecordHolds`,
  `YoungSessionsKeepCallsHolds`, for any number of sessions, calls, runs and faults.
  `RecordsInv`: no run has a cutoff later than the horizon (`DaysInOrder`); a row is of
  the session of its call, and an approval comes with the event of its call, which keeps
  the session from being deleted while it is young (`RowsBelong`, `RecentStay`); the
  rows of a handler come in their order (`CallsProgress`); a row that shows a ruling
  has its event, or somebody on the way to
  it (`RulingsLead`); between its two queries a call's session is the one it ensured, or
  was older than a cutoff (`SessionsHold`).
- **`AdminProofs`**: one inductive invariant for each part, which `FollowsParts` lets
  stand alone. `SavedIsRecoverable`: a saved policy that is in no backup is the file's,
  and then the policy in force is of that file, so a change of trust, which writes back
  what is in force, writes it again (`StoreInv`); backups made in one millisecond share
  a name, which the property excepts. `QuarantineHolds`: the list is in the file and in
  the policy. `SignaturesHoldAlways`: keys are in the public file before anything is
  signed with them, and a signature is of the signature before it and of the value that
  is active, unless the rotation that changed the value has still to sign it or threw
  before it could, and then of an older one (`SignInv`); with one key generated it is
  the public file's.
  `DetectionIsExact`: a group holds the events it was given but for those before the
  window at its last clean-up, which was at the time of one of them (`GroupsAreKept`);
  so whatever clean-ups dropped is out of the window of an event that is no older. What
  is compared, a number of events or a sum, is any function of the set of events.
  `AnsweredChangesAreAuditedHolds`: memory is the last entries made since the start of the
  process, newest first and as many as it holds (`Newest`, `NewestFirst`), whoever writes
  its row has made its entry, and nothing removes a row (`OrgInv`).
- **`ServicesProofs`**: `InForceHolds` (entries are those
  last asked for, and a key without one has run out: `EntriesAreAsAsked`);
  `ChangesAreRecorded` (a request given up while the gateway is at it has its entry
  already: `AbandonedHaveEntries`); `McpLimits`, by which the operator's server
  implements the limiter, and with it `ManagementIsLimited`; `RetryTimesHold`: a
  refusal stays true whatever is cleaned up after it, because the breaker keeps its time
  and finds the window empty then (`BreakerHolds`), as many actions as the cap allows
  are in the window until that time and no longer (`WindowHolds`), and the last of the
  same actions is as old as that (`CooldownHolds`). `ServicesKeepTheirWord` carries these
  over to the composition that the run checks.

**Only model-checked**: all liveness (`CallsAreAnswered`, `PlaybooksRecover`,
`CyclesEnd`, `RequestsEnd`, `WaitsEnd`, `TimedRestrictionsEnd`), which is outside what
the prover does, as is ENABLED; `Advisor` and `Alerts` have no other property. What a
recursive definition computes for every input cannot be proved either: that the sum
`Detection` compares is the sum is left to its definition, a fold. The limiter is proved for clocks that run forward;
`Date.now()` may be set back on a real host, which the model does not have. `TypeOK` of
`Approval` and `SignIn` and `RateTypeOK` are parts of the proofs and hold for every
instance; the runs do not repeat them.

## Where code and documents disagree

Six runs state what a document says and TLC finds it violated by what the code does:

1. `containment_enforced`, `actions.ts:502`: runtime overrides are never read by
   enforcement; `README.md:161` lists denying a tool among their effects.
2. `signin_button`, `server.ts:353`: sign-ons begun with the button are looked up in the
   wrong store; `README.md:415` says single sign-on works.
3. `canaries_rotated`, `enforce.ts:65`: enforcement matches the shipped values of the
   markers only; `gateway/src/index.ts:500` says detection fires when values appear in
   arguments or egress, and `canaries/src/manager.ts:95` that the active markers
   include the rotated values.
4. `response_overlap`, `matcher.ts:141`: the cooldown is checked before an execution and
   starts when it is over, so two requests that overlap run a playbook twice within it;
   `docs/gatekeeper.md:101` calls it the minimum time between executions. What the code
   does keep, one execution per request, is `CooldownKept`.
5. `a2a_trust`, `a2a-firewall.ts:76`: a sender that nobody lists and that declares itself
   `LOCAL_TRUSTED` ends as `LOCAL_UNTRUSTED`, above the default for unknown agents, and
   passes where those are blocked; the comment at line 70 has it the other way.
6. `advice_timeout`, `gatekeeper-llm.ts:176`: the timer of a provider call is cleared
   before the body is read, so a provider that stalls in the middle keeps the request for
   ever; `docs/gatekeeper.md:595` speaks of a hard timeout that prevents hanging.

Met while modelling, without a run of their own. Approvals and gatekeeper:

- An approval queued without a waiting caller never expires (`enforce.ts:366`), though
  `docs/technical-and-deployment-guide.md:31` says pending approvals do. The approval
  of a chat's or an MCP proxy's call lets nothing proceed: a retry is judged, and
  queued, afresh.
- The recorder restarts counters every literal 60 s (`matcher.ts:144`), so with a longer
  `window_ms` and the default cooldown `max_executions_per_window`
  (`docs/gatekeeper.md:102`) is never reached: with six minutes and a limit of two TLC
  finds five executions in a window. What the code keeps, one limit for each life of a
  counter that the window touches, and one more for every other request that overlaps,
  is `RateLimited`; shipped playbooks with longer windows have cooldowns longer still.
- A dry run's confirmation acts live (`worker.ts:277`); `docs/gatekeeper.md:192` and
  `:233` say a dry run mutates nothing.
- `PHASEONE_GATEKEEPER_ENABLED` is stored and reported and guards nothing
  (`docs/gatekeeper.md:189-190` says it disables the gatekeeper). `PHASEONE_GATEKEEPER_POLL_MS` is read and never used:
  queued events wait for a request to run a cycle (`docs/gatekeeper.md:201-202`).
- `lower_a2a_trust` sets no expiry and so is not a temporary restriction
  (`docs/gatekeeper.md:76`), and a second, shorter restriction shortens one in force
  (`actions.ts:300`); `Containment` has both.

Gateway:

- `mcpServerAllowed` (`mcp-proxy.ts:36`) accepts `"*"` among the allowed servers, which
  the ladder does not know, and holds a filled list against other servers outside the
  allowlist mode too, where the ladder does not read it.
- The egress check reads only contents that are plain strings; the analyzer reports in
  denylist mode what is on the allow list; a disabled firewall still scans contents;
  the MCP proxy's refusals are recorded best effort.

Sign-in: the role computed from the claims of the identity provider is dropped
(`server.ts:365-366`; `docs/oidc-setup.md:45`). A code is stored when its delivery is
over, so a slow older delivery replaces the newer code; `SignIn` has it so.

Records and administration:

- Retention prunes `admin_audit`, while the table is `admin_audit_log`, and swallows the
  error (`retention.ts:119-128`, `docs/operations.md:38`). Its dry run counts sessions
  before the events are gone and so too few.
- `POST a2a/trust` with `persist: false` writes the file as well, and takes no backup. A
  save carries no version, so two editors overwrite each other; a policy without the
  sections the engine reads is accepted.
- Rotating changes a marker before it is signed, and a rotation that throws in between
  leaves it with a signature of the old value. Two processes that find no keys may
  leave the private key of one with the public key of the other; `SignaturesHold`
  names both cases.
- A window of events has no upper end, so a late event counts later ones
  (`rules/src/engine.ts:251`); the property speaks of events in order. Some shipped rules
  wait for types of events that nothing emits.
- An organisation created while the database is down is lost when it returns, a deletion
  in an outage is not applied, a key asked for while the organisation was there is handed
  out after it was deleted, the keys of a deleted organisation go on verifying, and
  no route revokes one. A listing of the audit hides what is only in memory as soon as
  there is a row. `events.org_id` is never written.

Services:

- Attempts of an alert have no timer, and a lost answer duplicates it.
- The action caps never bite: `recordAction` and `releaseApproval` have no caller
  outside tests. With the defaults the breaker is out of reach, its threshold being 500
  and the cap 100. `rate-cap-check` calls itself a dry run, and cleans up and trips.
- Management calls with arguments that do not do use up a slot of the limiter and leave
  no entry; one that timed out may have been applied though its entry says it failed.
- The simulation ignores `policy_override` for events that name a tool; outcomes recorded
  by the learn loop in an outage vanish when it is over.

## What is not modelled

- **Text scanners**: the regular expressions for injections, secrets and canaries. A text
  is the hits it has; what is decided by them is in `Screening` and `Policy`.
- **Export and replay**: an export's own event is in `Records`; the document and the
  timeline are formatting of rows.
- **Simulation**: replays recorded events through the ladder of `Policy` and writes
  nothing. **Learn loop**: counts of outcomes and two thresholds that nothing acts on.
- **Metrics**: counters that no component reads. **Roles and session secret**: look-ups in
  configuration.
- **CLI, GUI and scripts**: one-shot callers of the API; those that sign canaries or
  clean up are a process of `Canaries` and `Records`. **SDKs and adapters**: thin clients.
  **Lab**: fake services. **Deployment and website**: files.
