------------------------------- MODULE Gateway -------------------------------
(***************************************************************************)
(* The gateway's request handlers: chat completions, tools/enforce, the    *)
(* scan routes, the agent-to-agent firewall and the MCP proxy.             *)
(*                                                                         *)
(* A handler awaits the database or an upstream between the checks it      *)
(* makes, and each check reads the policy that is cached at that moment:   *)
(* GET /v1/phaseone/policy, or saving a policy, may change it in between.  *)
(* A database write may fail: the handler's own errors end the request,    *)
(* the ones it swallows leave a gap in the record.                         *)
(***************************************************************************)
EXTENDS Policy, Screening, Permissions

CONSTANTS
  Requests,     \* HTTP requests
  Inputs,       \* what a request may bring: records by kind, see Arrive
  Policies,     \* policies the file may hold
  UpstreamHost, \* host of the chat upstream's base URL
  MaxReloads    \* bound: how often the cached policy changes

\* The settings of the agent-to-agent firewall.
ASSUME PoliciesAssumption ==
  \A p \in Policies :
    DOMAIN p.a2a = {"enabled", "default", "localTrusted", "localUntrusted", "verified", "quarantined",
                    "blockQuarantined", "blockUnknown", "scan", "blockOnInjection", "allowSelf"}

\* One handler for each kind of request; a chat brings a list of messages.
ASSUME InputsAssumption ==
  \A x \in Inputs :
    /\ x.kind \in {"chat", "enforce", "scan", "a2a", "mcp"}
    /\ x.kind = "chat" => /\ x.messages \in Seq({x.messages[n] : n \in DOMAIN x.messages})
                         /\ \A n \in DOMAIN x.messages : x.messages[n].canary \in BOOLEAN

VARIABLES
  policy,    \* cachedPolicy
  reloads,   \* number of changes so far
  input,     \* input[r]: what request r brought
  pc,        \* pc[r]: the await request r has reached
  at,        \* at[r]: the message or tool call it is at
  seen,      \* seen[r]: the policy read as the request arrived
  blocked,   \* blocked[r]: the scan has found a message to block
  stored,    \* stored[r]: events and approvals rows inserted for it, in order
  sent,      \* sent[r]: forwarded to an upstream
  answer,    \* answer[r]: what the client is told
  during     \* history: the policies cached while r was handled

vars == <<policy, reloads, input, pc, at, seen, blocked, stored, sent, answer, during>>

Init ==
  /\ policy \in Policies
  /\ reloads = 0
  /\ input = [r \in Requests |-> None]
  /\ pc = [r \in Requests |-> "idle"]
  /\ at = [r \in Requests |-> 1]
  /\ seen = [r \in Requests |-> policy]
  /\ blocked = [r \in Requests |-> FALSE]
  /\ stored = [r \in Requests |-> <<>>]
  /\ sent = [r \in Requests |-> FALSE]
  /\ answer = [r \in Requests |-> "none"]
  /\ during = [r \in Requests |-> {}]

Goto(r, l) == pc' = [pc EXCEPT ![r] = l] /\ UNCHANGED answer
Reply(r, a) == pc' = [pc EXCEPT ![r] = "done"] /\ answer' = [answer EXCEPT ![r] = a]

\* recordEvent and createApproval of these writes, one await after the other: a
\* failing INSERT ends the request with the writes before it in place.
Store(r, writes) == stored' = [stored EXCEPT ![r] = @ \o writes]
StoreFails(r, writes) ==
  /\ \E n \in 0..(Len(writes) - 1) : Store(r, SubSeq(writes, 1, n))
  /\ Reply(r, "error")

\* recordEvent(...).catch(() => undefined)
StoreQuietly(r, writes) == Store(r, writes) \/ UNCHANGED stored

Is(r, kind, l) == pc[r] = l /\ input[r].kind = kind

-----------------------------------------------------------------------------
(* Every request.                                                          *)

\* The handler begins; the MCP proxy and the A2A firewall read the policy at
\* once and keep it.  A blank server is refused before anything else.
Arrive(r) ==
  /\ pc[r] = "idle"
  /\ \E x \in Inputs :
       /\ input' = [input EXCEPT ![r] = x]
       /\ IF x.kind = "mcp" /\ x.server = None THEN Reply(r, "invalid")
          ELSE Goto(r, IF x.kind \in {"chat", "a2a", "mcp"} THEN "open"
                       ELSE IF x.kind = "enforce" THEN "tool" ELSE "scan")
  /\ seen' = [seen EXCEPT ![r] = policy]
  /\ during' = [during EXCEPT ![r] = {policy}]
  /\ UNCHANGED <<policy, reloads, at, blocked, stored, sent>>

\* loadPolicy: the cached policy is replaced by what the file holds.
Reload ==
  /\ reloads < MaxReloads
  /\ policy' \in Policies \ {policy}
  /\ reloads' = reloads + 1
  /\ during' = [r \in Requests |->
                 IF pc[r] \in {"idle", "done"} THEN during[r] ELSE during[r] \cup {policy'}]
  /\ UNCHANGED <<input, pc, at, seen, blocked, stored, sent, answer>>

-----------------------------------------------------------------------------
(* POST /v1/chat/completions                                               *)

OpenChat(r) ==
  /\ Is(r, "chat", "open")
  /\ LET start == <<Event("session.start", "none")>>
     IN \/ Store(r, start) /\ Goto(r, "scan")
        \/ StoreFails(r, start)
  /\ UNCHANGED <<policy, reloads, input, at, seen, blocked, sent, during>>

\* A slip the runs must notice: the handler goes on when the first message is
\* clean.
ScanMessageFirstOnly(r) ==
  /\ Is(r, "chat", "scan")
  /\ at[r] <= Len(input[r].messages)
  /\ LET m == input[r].messages[1]
         source == MessageSource(m.role)
         events == ScanEvents(policy, source, m.hit)
         blocks == ScanBlocks(policy, source, m.hit)
     IN \/ /\ Store(r, events)
           /\ Goto(r, "canaries")
           /\ blocked' = [blocked EXCEPT ![r] = blocks]
           /\ at' = [at EXCEPT ![r] = 1]
        \/ StoreFails(r, events) /\ UNCHANGED <<blocked, at>>
  /\ UNCHANGED <<policy, reloads, input, seen, sent, during>>

\* scanMessagesWithPolicy: one message after the other, each by the policy of
\* its moment, up to the first that is to be blocked.
ScanMessage(r) ==
  /\ Is(r, "chat", "scan")
  /\ at[r] <= Len(input[r].messages)
  /\ LET m == input[r].messages[at[r]]
         source == MessageSource(m.role)
         events == ScanEvents(policy, source, m.hit)
         blocks == ScanBlocks(policy, source, m.hit)
     IN \/ /\ Store(r, events)
           /\ Goto(r, IF blocks THEN "canaries" ELSE "scan")
           /\ blocked' = [blocked EXCEPT ![r] = blocks]
           /\ at' = [at EXCEPT ![r] = IF blocks THEN 1 ELSE @ + 1]
        \/ StoreFails(r, events) /\ UNCHANGED <<blocked, at>>
  /\ UNCHANGED <<policy, reloads, input, seen, sent, during>>

ScanEnds(r) ==
  /\ Is(r, "chat", "scan")
  /\ at[r] > Len(input[r].messages)
  /\ Goto(r, "canaries")
  /\ at' = [at EXCEPT ![r] = 1]
  /\ UNCHANGED <<policy, reloads, input, seen, blocked, stored, sent, during>>

\* The rest of scanMessagesForThreats: canaries are looked for and recorded in
\* every message but the system's, blocked or not; they block nothing here.
CanaryEvents(messages) ==
  [n \in 1..Cardinality({k \in DOMAIN messages : messages[k].canary /\ messages[k].role # "system"})
     |-> Event("canary.trigger", "deny")]

Canaries(r) ==
  /\ Is(r, "chat", "canaries")
  /\ LET events == CanaryEvents(input[r].messages)
                     \o Maybe(blocked[r], Event("prompt_injection.blocked", "deny"))
     IN \/ Store(r, events) /\ IF blocked[r] THEN Reply(r, "refused") ELSE Goto(r, "egress")
        \/ StoreFails(r, events)
  /\ UNCHANGED <<policy, reloads, input, at, seen, blocked, sent, during>>

\* egressBlob: the content of the messages that is a plain string.
InBlob(messages, mark) == \E k \in DOMAIN messages : messages[k].plain /\ messages[k][mark]

\* enforceEgressText, and the handler's own test of its result: a denial that
\* is about neither canaries nor secrets does not count.
EgressDecision(p, messages) ==
  Decision(p, EgressCall(UpstreamHost, InBlob(messages, "canary"), InBlob(messages, "secret")))

EgressRefused(d) == d.action = "deny" /\ (d.canary \/ d.secret)

EgressEvents(d, messages) ==
  Maybe(d.canary, Event("canary.trigger", "deny"))
    \o Maybe(InBlob(messages, "secret"),
             Event("secret.detected", IF d.action = "deny" THEN "deny" ELSE "allow"))
    \o Maybe(EgressRefused(d), Event("chat.completion", "deny"))

Egress(r) ==
  /\ Is(r, "chat", "egress")
  /\ LET d == EgressDecision(policy, input[r].messages)
         events == EgressEvents(d, input[r].messages)
     IN \/ Store(r, events) /\ IF EgressRefused(d) THEN Reply(r, "refused") ELSE Goto(r, "tool")
        \/ StoreFails(r, events)
  /\ UNCHANGED <<policy, reloads, input, at, seen, blocked, sent, during>>

-----------------------------------------------------------------------------
(* enforceToolCall, for chat, tools/enforce and the MCP proxy              *)

Calls(x) ==
  CASE x.kind = "chat" -> x.tools
    [] x.kind = "enforce" -> <<x.call>>
    [] x.kind = "mcp" -> <<McpCall(x.server, x.tool)>>

\* The monitoring hook of a tool that has one.
HookEvent(c, d) ==
  CASE c.tool = "run_shell" -> <<Event("shell.exec", d.action)>>
    [] c.tool \in {"http_request", "fetch"} -> <<Event("http.request", d.action)>>
    [] c.tool \in FileTools -> <<Event("filesystem.access", d.action)>>
    [] c.tool = "mcp_call" ->
         <<Event(IF d.action = "deny" THEN "mcp.denied" ELSE "mcp.call", d.action)>>
    [] c.tool = "spawn_agent" -> <<Event("agent.spawn", d.action)>>
    [] OTHER -> <<>>

\* A slip the runs must notice: a denial with a canary in it is told to nobody.
EnforceEventsNoCanary(c, d) ==
  <<Event("tool.call", d.action)>> \o HookEvent(c, d)
    \o Maybe(d.action = "deny", Event("policy.decision", "deny"))
    \o (IF d.action = "require_approval"
        THEN <<Event("approvals row", "none"), Event("approval.requested", d.action)>> ELSE <<>>)

EnforceEvents(c, d) ==
  <<Event("tool.call", d.action)>>
    \o Maybe(d.canary, Event("canary.trigger", "deny"))
    \o Maybe(d.secret, IF d.action = "deny" THEN Event("secret.blocked", "deny")
                       ELSE Event("secret.detected", "allow"))
    \o HookEvent(c, d)
    \o Maybe(d.action = "deny", Event("policy.decision", "deny"))
    \o (IF d.action = "require_approval"
        THEN <<Event("approvals row", "none"), Event("approval.requested", d.action)>> ELSE <<>>)

\* What the handlers make of a call that is not allowed.  The MCP proxy answers
\* 403 to one that is queued as well, after an event it may fail to write.
NotAllowed(r, d) ==
  CASE input[r].kind = "mcp" -> Reply(r, "refused")
    [] input[r].kind # "mcp" /\ d.action = "deny" -> Reply(r, "refused")
    [] input[r].kind = "enforce" /\ d.action = "require_approval" /\ input[r].wait ->
         Goto(r, "waiting")
    [] OTHER -> Reply(r, "pending")

Tool(r) ==
  /\ pc[r] = "tool"
  /\ at[r] <= Len(Calls(input[r]))
  /\ LET c == Calls(input[r])[at[r]]
         d == Decision(policy, c)
         events == EnforceEvents(c, d)
     IN \/ /\ \/ Store(r, events)
              \/ /\ input[r].kind = "mcp" /\ d.action # "allow"
                 /\ Store(r, Append(events, Event("mcp.proxy", "deny")))
           /\ IF d.action # "allow" THEN NotAllowed(r, d) /\ UNCHANGED at
              ELSE /\ at' = [at EXCEPT ![r] = @ + 1]
                   /\ CASE input[r].kind = "enforce" -> Reply(r, "ok")
                        [] input[r].kind = "mcp" -> Goto(r, "proxy")
                        [] OTHER -> Goto(r, "tool")
        \/ StoreFails(r, events) /\ UNCHANGED at
  /\ UNCHANGED <<policy, reloads, input, seen, blocked, sent, during>>

\* The waiting caller is answered by the approval queue.
Waiting(r) ==
  /\ pc[r] = "waiting"
  /\ \E a \in {"ok", "refused", "error"} : Reply(r, a)
  /\ UNCHANGED <<policy, reloads, input, at, seen, blocked, stored, sent, during>>

\* What is enforced is a list of calls, each at some depth of spawning.
ASSUME DepthAssumption ==
  /\ \A p \in Policies : p.maxDepth \in Nat
  /\ \A x \in Inputs : x.kind \in {"chat", "enforce", "mcp"} =>
       LET c == Calls(x)
       IN c \in Seq({c[n] : n \in DOMAIN c}) /\ \A n \in DOMAIN c : c[n].depth \in Nat

-----------------------------------------------------------------------------
(* The chat upstream: no deadline is set for its answer                    *)

ToolsEnd(r) ==
  /\ Is(r, "chat", "tool")
  /\ at[r] > Len(Calls(input[r]))
  /\ Goto(r, "forward")
  /\ UNCHANGED <<policy, reloads, input, at, seen, blocked, stored, sent, during>>

Forward(r) ==
  /\ Is(r, "chat", "forward")
  /\ LET event == <<Event("chat.completion", "allow")>>
     IN \/ Store(r, event) /\ Goto(r, "upstream") /\ sent' = [sent EXCEPT ![r] = TRUE]
        \/ StoreFails(r, event) /\ UNCHANGED sent
  /\ UNCHANGED <<policy, reloads, input, at, seen, blocked, during>>

\* The catch block covers the event of the answer too: a chat that was answered
\* and whose tool.result cannot be written is told 502.
ChatAnswered(r) ==
  /\ Is(r, "chat", "upstream")
  /\ Store(r, <<Event("tool.result", "allow")>>) /\ Reply(r, "ok")
  /\ UNCHANGED <<policy, reloads, input, at, seen, blocked, sent, during>>

ChatFails(r) ==
  /\ Is(r, "chat", "upstream")
  /\ LET event == <<Event("chat.completion", "deny")>>
     IN \/ Store(r, event) /\ Reply(r, "bad gateway")
        \/ StoreFails(r, event)
  /\ UNCHANGED <<policy, reloads, input, at, seen, blocked, sent, during>>

-----------------------------------------------------------------------------
(* The scan routes and the agent-to-agent firewall                         *)

\* scan/untrusted and scan/injection.
Scan(r) ==
  /\ Is(r, "scan", "scan")
  /\ LET x == input[r]
         events == ScanEvents(policy, x.source, x.hit)
     IN \/ /\ Store(r, events)
           /\ Reply(r, IF ScanBlocks(policy, x.source, x.hit) THEN "refused" ELSE "ok")
        \/ StoreFails(r, events)
  /\ UNCHANGED <<policy, reloads, input, at, seen, blocked, sent, during>>

\* ensureSession, which writes no event.
EnsureSession(r) ==
  /\ pc[r] = "open" /\ input[r].kind = "a2a"
  /\ Goto(r, "decide") \/ Reply(r, "error")
  /\ UNCHANGED <<policy, reloads, input, at, seen, blocked, stored, sent, during>>

\* The rest of processA2AMessage, by the policy read before ensureSession.
Decide(r) ==
  /\ Is(r, "a2a", "decide")
  /\ LET d == A2ADecision(seen[r].a2a, input[r])
     IN \/ /\ Store(r, A2AEvents(d))
           /\ Reply(r, CASE d.action = "allow" -> "ok"
                         [] d.action = "quarantine" -> "quarantined"
                         [] d.action = "deny" -> "refused")
        \/ StoreFails(r, A2AEvents(d))
  /\ UNCHANGED <<policy, reloads, input, at, seen, blocked, sent, during>>

-----------------------------------------------------------------------------
(* POST /v1/mcp/proxy                                                      *)

\* mcpServerAllowed: "*" admits every server, which the ladder does not know.
ServerAllowed(p, server) ==
  IF p.mcpMode = "allowlist" THEN server \in p.servers \/ "*" \in p.servers
  ELSE p.servers = {} \/ server \in p.servers

OpenMcp(r) ==
  /\ Is(r, "mcp", "open")
  /\ IF ~ServerAllowed(seen[r], input[r].server)
     THEN StoreQuietly(r, <<Event("mcp.proxy", "deny")>>) /\ Reply(r, "refused")
     ELSE /\ \/ Goto(r, IF input[r].toolCall THEN "tool" ELSE "proxy")
             \/ Reply(r, "error")
          /\ UNCHANGED stored
  /\ UNCHANGED <<policy, reloads, input, at, seen, blocked, sent, during>>

\* scanMcpResult.
McpScanBlocks(hit) == ShouldBlock(hit, "untrusted", TRUE, FALSE, "medium")

\* The result of a server, or the stub that stands in for one without a URL, is
\* scanned twice: by fixed settings for the answer, and for the record by the
\* policy's; both records are best effort.
McpResult(r, hit, ok) ==
  LET blocks == McpScanBlocks(hit)
      proxied == <<Event("mcp.proxy", IF blocks \/ ~ok THEN "deny" ELSE "allow")>>
  IN /\ \E found \in {<<>>, ScanEvents(policy, "untrusted", hit)}, done \in {<<>>, proxied} :
          Store(r, found \o done)
     /\ Reply(r, IF blocks THEN "refused" ELSE "ok")

Proxy(r) ==
  /\ Is(r, "mcp", "proxy")
  /\ CASE input[r].dryRun -> Reply(r, "ok") /\ UNCHANGED <<stored, sent>>
       [] ~input[r].dryRun /\ ~input[r].url -> McpResult(r, input[r].hit, TRUE) /\ UNCHANGED sent
       [] OTHER -> /\ Goto(r, "upstream") /\ sent' = [sent EXCEPT ![r] = TRUE]
                   /\ UNCHANGED stored
  /\ UNCHANGED <<policy, reloads, input, at, seen, blocked, during>>

McpAnswered(r) ==
  /\ Is(r, "mcp", "upstream")
  /\ \E hit \in Hits, ok \in BOOLEAN : McpResult(r, hit, ok)
  /\ UNCHANGED <<policy, reloads, input, at, seen, blocked, sent, during>>

\* A slip the runs must notice: no timer aborts the fetch.
McpFailsUntimed(r) ==
  /\ Is(r, "mcp", "upstream") /\ input[r].hit = "high"
  /\ StoreQuietly(r, <<Event("mcp.proxy", "deny")>>)
  /\ Reply(r, "bad gateway")
  /\ UNCHANGED <<policy, reloads, input, at, seen, blocked, sent, during>>

\* The server cannot be reached, or the timer aborts the fetch.
McpFails(r) ==
  /\ Is(r, "mcp", "upstream")
  /\ StoreQuietly(r, <<Event("mcp.proxy", "deny")>>)
  /\ Reply(r, "bad gateway")
  /\ UNCHANGED <<policy, reloads, input, at, seen, blocked, sent, during>>

-----------------------------------------------------------------------------
\* The gateway's own steps, and the timer of the MCP proxy.
Step(r) ==
  \/ OpenChat(r) \/ ScanMessage(r) \/ ScanEnds(r) \/ Canaries(r) \/ Egress(r)
  \/ Tool(r) \/ Waiting(r) \/ ToolsEnd(r) \/ Forward(r)
  \/ Scan(r) \/ EnsureSession(r) \/ Decide(r) \/ OpenMcp(r) \/ Proxy(r) \/ McpFails(r)

Next ==
  \/ \E r \in Requests : Arrive(r) \/ Step(r) \/ ChatAnswered(r) \/ ChatFails(r) \/ McpAnswered(r)
  \/ Reload

Spec == Init /\ [][Next]_vars

\* Clients, upstreams and whoever edits the policy may do nothing.
FairSpec == Spec /\ \A r \in Requests : WF_vars(Step(r))

-----------------------------------------------------------------------------
(* Properties                                                              *)

Stored(r, type) == \E n \in DOMAIN stored[r] : stored[r][n].type = type

\* A request that reaches an upstream was cleared: each of its messages, its
\* text as a whole and each of its tool calls passed under a policy that was in
\* force while it was handled, and an MCP call's server is one its policy
\* allows (gateway/src/index.ts, chat completions; routes/mcp-proxy.ts).
ForwardedWasCleared ==
  \A r \in Requests : sent[r] =>
    /\ input[r].kind = "chat" =>
         /\ \A n \in DOMAIN input[r].messages : \E p \in during[r] :
              LET m == input[r].messages[n] IN ~ScanBlocks(p, MessageSource(m.role), m.hit)
         /\ \E p \in during[r] : \A n \in DOMAIN input[r].messages :
              LET m == input[r].messages[n]
              IN m.plain => ~(m.canary /\ p.canaryBlock) /\ ~(m.secret /\ p.secretBlock)
    /\ input[r].kind = "mcp" =>
         \E p \in during[r] : p.mcpMode = "allowlist" => p.servers \cap {input[r].server, "*"} # {}
    /\ input[r].kind = "chat" \/ input[r].toolCall =>
         \A n \in DOMAIN Calls(input[r]) :
           \E p \in during[r] : Decision(p, Calls(input[r])[n]).action = "allow"

\* A refused or quarantined request has left a denial on record, and a pending
\* one its approvals row and event; the MCP proxy's own refusals, of a server
\* and of a result, are the only ones whose record may be lost
\* (gateway/src/enforce.ts, a2a-firewall.ts, scanner.ts).
RefusalsAreOnRecord ==
  \A r \in Requests :
    /\ answer[r] = "refused" /\ ~Stored(r, "approvals row")
         /\ (input[r].kind = "mcp" => Stored(r, "tool.call") /\ ~sent[r] /\ input[r].url) =>
         \E n \in DOMAIN stored[r] : stored[r][n].decision = "deny"
    /\ answer[r] = "quarantined" => Stored(r, "a2a.quarantined")
    /\ answer[r] = "pending" => Stored(r, "approvals row") /\ Stored(r, "approval.requested")

\* Whatever becomes of a chat or a tool call, a canary in it is on record once
\* it has an answer other than an error (gateway/src/enforce.ts).
CanariesAreOnRecord ==
  \A r \in Requests :
    answer[r] \in {"ok", "refused", "pending"} \/ sent[r] =>
      /\ input[r].kind = "chat" /\ (\E n \in DOMAIN input[r].messages :
           input[r].messages[n].canary /\ input[r].messages[n].role # "system")
           => Stored(r, "canary.trigger")
      /\ input[r].kind = "enforce" /\ input[r].call.canary => Stored(r, "canary.trigger")

\* No refusal, pending call or canary goes without its record, though any of
\* the writes may fail (gateway/src/enforce.ts, a2a-firewall.ts, scanner.ts).
IncidentsAreOnRecord == RefusalsAreOnRecord /\ CanariesAreOnRecord

\* What the operator has decided about a sender, and what he asks of a message.
Listed(a, from) == from \in a.quarantined \cup a.localTrusted \cup a.verified \cup a.localUntrusted
TrustedByOperator(a, from) ==
  \/ from \in a.localTrusted \ a.quarantined
  \/ ~Listed(a, from) /\ a.default = "LOCAL_TRUSTED"

Deliverable(a, m) ==
  /\ a.scan /\ a.blockOnInjection /\ m.hit \in {"medium", "high"} => TrustedByOperator(a, m.from)
  /\ a.enabled =>
       /\ m.from \notin a.quarantined
       /\ a.allowSelf \/ m.from # m.to
       /\ a.blockUnknown /\ ~Listed(a, m.from) =>
            a.default # "REMOTE_UNKNOWN" \/ m.declared = "LOCAL_TRUSTED"
       /\ A2ADecisionSync(a, m).action = "allow"

\* A message is delivered only if the lists that were in force when it arrived
\* let it through, whatever its sender claims to be: nothing from a quarantined
\* agent, no injected text but from an agent the operator trusts, nothing from
\* an agent of no list where those are blocked, except the one claim that the
\* firewall raises (see SelfAssertedTrustIsCapped); and the evaluator of the
\* unit tests passes it too.  A policy loaded while the session is written
\* neither admits the message nor stops it (gateway/src/a2a-firewall.ts).
DeliveredMessagesWereTrusted ==
  \A r \in Requests : answer[r] = "ok" /\ input[r].kind = "a2a" =>
    Deliverable(seen[r].a2a, input[r])

\* "Do not allow clients to self-assert higher than policy default for unknown
\* agents" (gateway/src/a2a-firewall.ts:70): a message from an agent of no list
\* that is delivered would have been delivered had it claimed nothing.
SelfAssertedTrustIsCapped ==
  \A r \in Requests : answer[r] = "ok" /\ input[r].kind = "a2a" =>
    LET a == seen[r].a2a
    IN ~Listed(a, input[r].from) =>
         A2ADecision(a, [input[r] EXCEPT !.declared = None]).action = "allow"

\* A call allowed under the policy in force is allowed under every looser one:
\* whoever tightens a policy opens nothing by it (policy/src/engine.ts).
TighteningOpensNothing ==
  \A r \in Requests : pc[r] = "tool" /\ at[r] <= Len(Calls(input[r])) =>
    LET c == Calls(input[r])[at[r]]
    IN \A p \in Policies :
         Stricter(policy, p) /\ Decision(policy, c).action = "allow"
           => Decision(p, c).action = "allow"

\* A call that is let through under an allowlist uses a tool the analyzer has
\* in its report: the matrix understates nothing (gateway/src/permissions.ts).
AnalyzerSeesWhatIsAllowed ==
  \A r \in Requests : pc[r] = "tool" /\ at[r] <= Len(Calls(input[r])) =>
    LET c == Calls(input[r])[at[r]]
        matrix == Granted(policy, {}, {})
    IN policy.toolsMode = "allowlist" /\ c.tool # None =>
         /\ Decision(policy, c).action # "deny" => c.tool \in AllowedTools(policy, {})
         /\ c.tool \in AllowedTools(policy, {}) => ToolDenials(policy, c) = {}
         /\ {k \in Capabilities : c.tool \in CapabilityTools[k]} \subseteq matrix
              \/ ToolDenials(policy, c) # {}
         /\ {"shell", "filesystem_write", "network"} \subseteq matrix
              => MaxSeverity(Findings(policy, matrix)) = 4

\* An MCP request ends, whatever the server does; a chat ends unless its
\* upstream keeps it waiting (mcp-proxy.ts, AbortController; upstream/proxy.ts).
RequestsEnd ==
  \A r \in Requests :
    /\ (pc[r] # "idle" /\ input[r].kind # "chat") ~> pc[r] = "done"
    /\ (pc[r] # "idle" /\ input[r].kind = "chat") ~> (pc[r] = "done" \/ pc[r] = "upstream")
=============================================================================
