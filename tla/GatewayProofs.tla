---------------------------- MODULE GatewayProofs ----------------------------
(* What is proved of the gateway, for all policies, requests and inputs.    *)
(* GatewayInv follows one request through its handler: where it can be, the *)
(* policies it has met, what has been cleared on the way and what is on     *)
(* record.  A step of one request touches no other, so that each handler is *)
(* shown to keep what holds of its own request only.                       *)
EXTENDS Gateway, SequenceTheorems, FiniteSetTheorems, WellFoundedInduction, TLAPS

\* A stricter policy denies by every rule by which the looser one does.
LEMMA StricterDeniesMore ==
  ASSUME NEW p, NEW q, NEW c, Stricter(q, p),
         p.maxDepth \in Nat, q.maxDepth \in Nat, c.depth \in Nat
  PROVE  Denials(p, c) \subseteq Denials(q, c)
<1> USE DEF When, Stricter
<1>1. SecretDenials(p, c) \subseteq SecretDenials(q, c)
  BY DEF SecretDenials, Outbound
<1>2. ToolDenials(p, c) \subseteq ToolDenials(q, c)
  BY DEF ToolDenials
<1>3. HostDenials(p, c) \subseteq HostDenials(q, c)
  BY DEF HostDenials
<1>4. MethodDenials(p, c) \subseteq MethodDenials(q, c)
  BY DEF MethodDenials
<1>5. PathDenials(p, c) \subseteq PathDenials(q, c)
  BY DEF PathDenials, PathBlocked
<1>6. ShellDenials(p, c) \subseteq ShellDenials(q, c)
  BY DEF ShellDenials
<1>7. McpDenials(p, c) \subseteq McpDenials(q, c)
  BY DEF McpDenials
<1>8. SpawnDenials(p, c) \subseteq SpawnDenials(q, c)
  BY DEF SpawnDenials
<1> QED
  BY <1>1, <1>2, <1>3, <1>4, <1>5, <1>6, <1>7, <1>8 DEF Denials

LEMMA StricterAllowsLess ==
  ASSUME NEW p, NEW q, NEW c, Stricter(q, p), Decision(q, c).action = "allow",
         p.maxDepth \in Nat, q.maxDepth \in Nat, c.depth \in Nat
  PROVE  Decision(p, c).action = "allow"
<1>1. Denials(q, c) = {} /\ ~Destructive(q, c)
  BY DEF Decision, Verdict
<1>2. Denials(p, c) = {}
  BY <1>1, StricterDeniesMore
<1>3. ~Destructive(p, c)
  BY <1>1 DEF Destructive, Stricter
<1> QED
  BY <1>2, <1>3 DEF Decision, Verdict

-----------------------------------------------------------------------------
(* What a request has brought when its tool calls are enforced.            *)

ToolKinds == {"chat", "enforce", "mcp"}

Places == {"idle", "open", "scan", "canaries", "egress", "tool", "waiting", "forward",
           "decide", "proxy", "upstream", "done"}

ToolInv ==
  /\ policy \in Policies
  /\ pc \in [Requests -> Places]
  /\ at \in [Requests -> Nat \ {0}]
  /\ input \in [Requests -> Inputs \cup {None}]
  /\ \A r \in Requests : pc[r] # "idle" => input[r] \in Inputs
  /\ \A r \in Requests : pc[r] = "tool" => input[r].kind \in ToolKinds

\* A step of a request that has arrived: to its tool calls only if it has some.
Moves(r) ==
  /\ pc[r] # "idle"
  /\ pc' \in [Requests -> Places] /\ \A q \in Requests \ {r} : pc'[q] = pc[q]
  /\ pc'[r] = "tool" => pc[r] = "tool" \/ input[r].kind \in ToolKinds
  /\ at' \in [Requests -> Nat \ {0}]
  /\ UNCHANGED <<policy, input>>

LEMMA MovesKeep ==
  ASSUME ToolInv, NEW r \in Requests, Moves(r)
  PROVE  ToolInv'
BY DEF ToolInv, Moves

\* The handlers from await to await.
LEMMA HandlersMove ==
  ASSUME ToolInv, NEW r \in Requests,
         Step(r) \/ ChatAnswered(r) \/ ChatFails(r) \/ McpAnswered(r)
  PROVE  Moves(r)
<1> USE DEF Goto, Reply, Is, StoreFails, Moves, ToolInv, ToolKinds, Places
<1>1. CASE OpenChat(r)
  BY <1>1 DEF OpenChat
<1>2. CASE ScanMessage(r)
  <2>1. pc[r] = "scan" /\ UNCHANGED <<policy, input>>
    BY <1>2 DEF ScanMessage
  <2>2. \/ pc' = [pc EXCEPT ![r] = "canaries"] /\ at' = [at EXCEPT ![r] = 1]
        \/ pc' = [pc EXCEPT ![r] = "scan"] /\ at' = [at EXCEPT ![r] = @ + 1]
        \/ pc' = [pc EXCEPT ![r] = "done"] /\ UNCHANGED at
    BY <1>2 DEF ScanMessage
  <2> QED
    BY <2>1, <2>2
<1>3. CASE ScanEnds(r)
  BY <1>3 DEF ScanEnds
<1>4. CASE Canaries(r)
  BY <1>4 DEF Canaries
<1>5. CASE Egress(r)
  BY <1>5 DEF Egress
<1>6. CASE Tool(r)
  <2>1. pc[r] = "tool" /\ UNCHANGED <<policy, input>>
    BY <1>6 DEF Tool
  <2>2. UNCHANGED at \/ at' = [at EXCEPT ![r] = @ + 1]
    BY <1>6 DEF Tool
  <2>3. \E l \in {"done", "waiting", "proxy", "tool"} : pc' = [pc EXCEPT ![r] = l]
    <3>1. CASE StoreFails(r, EnforceEvents(Calls(input[r])[at[r]],
                                           Decision(policy, Calls(input[r])[at[r]])))
      BY <3>1
    <3>2. CASE NotAllowed(r, Decision(policy, Calls(input[r])[at[r]]))
      BY <3>2 DEF NotAllowed
    <3>3. CASE Reply(r, "ok") \/ Goto(r, "proxy") \/ Goto(r, "tool")
      BY <3>3
    <3> QED
      BY <1>6, <3>1, <3>2, <3>3 DEF Tool
  <2> QED
    BY <2>1, <2>2, <2>3
<1>7. CASE Waiting(r)
  BY <1>7 DEF Waiting
<1>8. CASE ToolsEnd(r)
  BY <1>8 DEF ToolsEnd
<1>9. CASE Forward(r)
  BY <1>9 DEF Forward
<1>10. CASE Scan(r)
  BY <1>10 DEF Scan
<1>11. CASE EnsureSession(r)
  BY <1>11 DEF EnsureSession
<1>12. CASE Decide(r)
  BY <1>12 DEF Decide
<1>13. CASE OpenMcp(r)
  BY <1>13 DEF OpenMcp
<1>14. CASE Proxy(r)
  BY <1>14 DEF Proxy, McpResult
<1>15. CASE McpFails(r)
  BY <1>15 DEF McpFails
<1>16. CASE ChatAnswered(r)
  BY <1>16 DEF ChatAnswered
<1>17. CASE ChatFails(r)
  BY <1>17 DEF ChatFails
<1>18. CASE McpAnswered(r)
  BY <1>18 DEF McpAnswered, McpResult
<1> QED
  BY <1>1, <1>2, <1>3, <1>4, <1>5, <1>6, <1>7, <1>8, <1>9, <1>10, <1>11, <1>12, <1>13,
     <1>14, <1>15, <1>16, <1>17, <1>18 DEF Step

LEMMA ToolInvHolds == Spec => []ToolInv
<1>1. Init => ToolInv
  BY DEF Init, ToolInv, Places
<1>2. ToolInv /\ [Next]_vars => ToolInv'
  <2> SUFFICES ASSUME ToolInv, [Next]_vars PROVE ToolInv'
    OBVIOUS
  <2>1. ASSUME NEW r \in Requests, Arrive(r) PROVE ToolInv'
    <3>1. PICK x \in Inputs :
            /\ input' = [input EXCEPT ![r] = x]
            /\ \E l \in {"done", "open", "tool", "scan"} :
                 pc' = [pc EXCEPT ![r] = l] /\ (l = "tool" => x.kind = "enforce")
      BY <2>1 DEF Arrive, Goto, Reply
    <3>2. UNCHANGED <<policy, at>>
      BY <2>1 DEF Arrive
    <3> QED
      BY <3>1, <3>2 DEF ToolInv, ToolKinds, Places
  <2>2. ASSUME NEW r \in Requests,
               Step(r) \/ ChatAnswered(r) \/ ChatFails(r) \/ McpAnswered(r)
        PROVE  ToolInv'
    BY <2>2, HandlersMove, MovesKeep
  <2>3. CASE Reload
    BY <2>3 DEF Reload, ToolInv
  <2>4. CASE UNCHANGED vars
    BY <2>4 DEF vars, ToolInv
  <2> QED
    BY <2>1, <2>2, <2>3, <2>4 DEF Next
<1> QED
  BY <1>1, <1>2, PTL DEF Spec

\* For every set of policies and every request: a tool call that the policy in
\* force allows is allowed by every looser one, so tightening a policy opens
\* nothing (policy/src/engine.ts, evaluatePolicy).
THEOREM TighteningIsSafe == Spec => []TighteningOpensNothing
<1>1. ToolInv => TighteningOpensNothing
  <2> SUFFICES ASSUME ToolInv, NEW r \in Requests, pc[r] = "tool",
                      at[r] <= Len(Calls(input[r])), NEW p \in Policies,
                      Stricter(policy, p),
                      Decision(policy, Calls(input[r])[at[r]]).action = "allow"
               PROVE  Decision(p, Calls(input[r])[at[r]]).action = "allow"
    BY DEF TighteningOpensNothing
  <2>1. input[r] \in Inputs /\ input[r].kind \in {"chat", "enforce", "mcp"} /\ at[r] \in Nat \ {0}
    BY DEF ToolInv, ToolKinds
  <2>2. at[r] \in DOMAIN Calls(input[r])
    <3> DEFINE c == Calls(input[r])
    <3>1. c \in Seq({c[n] : n \in DOMAIN c})
      BY <2>1, DepthAssumption
    <3> HIDE DEF c
    <3>2. DOMAIN c = 1 .. Len(c) /\ Len(c) \in Nat
      BY <3>1
    <3> QED
      BY <2>1, <3>2 DEF c
  <2>3. /\ Calls(input[r])[at[r]].depth \in Nat
        /\ policy.maxDepth \in Nat /\ p.maxDepth \in Nat
    BY <2>1, <2>2, DepthAssumption DEF ToolInv
  <2> QED
    BY <2>3, StricterAllowsLess
<1> QED
  BY <1>1, ToolInvHolds, PTL

-----------------------------------------------------------------------------
(* What holds of each request: where its handler can be ...                *)

EventTypes ==
  {"session.start", "chat.completion", "tool.call", "tool.result", "policy.decision",
   "canary.trigger", "secret.detected", "secret.blocked", "prompt_injection.blocked",
   "prompt_injection.detected", "shell.exec", "http.request", "filesystem.access", "mcp.call",
   "mcp.denied", "mcp.proxy", "agent.spawn", "approvals row", "approval.requested",
   "a2a.message", "a2a.blocked", "a2a.quarantined"}
Outcomes == {"none", "allow", "deny", "require_approval", "quarantine"}
Entry == [type : EventTypes, decision : Outcomes]
Answers == {"none", "ok", "refused", "pending", "quarantined", "invalid", "bad gateway", "error"}

TypeOK ==
  /\ stored \in [Requests -> Seq(Entry)]
  /\ sent \in [Requests -> BOOLEAN] /\ blocked \in [Requests -> BOOLEAN]
  /\ answer \in [Requests -> Answers]
  /\ seen \in [Requests -> Policies] /\ during \in [Requests -> SUBSET Policies]

InPlace(r) ==
  /\ pc[r] \in {"idle", "open"} => at[r] = 1 /\ stored[r] = <<>>
  /\ pc[r] # "done" => answer[r] = "none"
  /\ pc[r] = "open" => input[r].kind \in {"chat", "a2a", "mcp"}
  /\ pc[r] = "scan" => input[r].kind \in {"chat", "scan"}
  /\ pc[r] \in {"canaries", "egress"} => at[r] = 1
  /\ pc[r] \in {"canaries", "egress", "forward"} => input[r].kind = "chat"
  /\ pc[r] = "waiting" => input[r].kind = "enforce"
  /\ pc[r] = "decide" => input[r].kind = "a2a"
  /\ pc[r] = "proxy" => input[r].kind = "mcp"
  /\ pc[r] = "upstream" => sent[r]
  /\ sent[r] => pc[r] \in {"upstream", "done"} /\ input[r].kind \in {"chat", "mcp"}

\* ... which policies it has met ...
InForce(r) ==
  pc[r] # "idle" => seen[r] \in during[r] /\ (pc[r] # "done" => policy \in during[r])

\* ... what has been cleared on the way ...
MessagePasses(r, n) ==
  \E p \in during[r] :
    LET m == input[r].messages[n] IN ~ScanBlocks(p, MessageSource(m.role), m.hit)

TextPasses(r) ==
  \E p \in during[r] : \A n \in DOMAIN input[r].messages :
    LET m == input[r].messages[n]
    IN m.plain => ~(m.canary /\ p.canaryBlock) /\ ~(m.secret /\ p.secretBlock)

CallPasses(r, n) == \E p \in during[r] : Decision(p, Calls(input[r])[n]).action = "allow"

Reached(r, places) == pc[r] \in places \/ sent[r]

ChatCleared(r) ==
  input[r].kind = "chat" =>
    /\ pc[r] = "scan" => \A n \in DOMAIN input[r].messages : n < at[r] => MessagePasses(r, n)
    /\ (pc[r] = "canaries" /\ ~blocked[r]) \/ Reached(r, {"egress", "tool", "forward", "upstream"})
         => \A n \in DOMAIN input[r].messages : MessagePasses(r, n)
    /\ Reached(r, {"tool", "forward", "upstream"}) => TextPasses(r)
    /\ Reached(r, {"forward", "upstream"}) => \A n \in DOMAIN Calls(input[r]) : CallPasses(r, n)

McpCleared(r) ==
  input[r].kind = "mcp" =>
    /\ Reached(r, {"tool", "proxy", "upstream"}) => ServerAllowed(seen[r], input[r].server)
    /\ pc[r] = "tool" => input[r].toolCall
    /\ Reached(r, {"proxy", "upstream"}) /\ input[r].toolCall =>
         \A n \in DOMAIN Calls(input[r]) : CallPasses(r, n)

CallsCleared(r) ==
  pc[r] = "tool" => \A n \in DOMAIN Calls(input[r]) : n < at[r] => CallPasses(r, n)

Trusted(r) == answer[r] = "ok" /\ input[r].kind = "a2a" => Deliverable(seen[r].a2a, input[r])

\* ... and what is on record.
HasCanary(x) == \E n \in DOMAIN x.messages : x.messages[n].canary /\ x.messages[n].role # "system"

DenialStored(r) == \E n \in DOMAIN stored[r] : stored[r][n].decision = "deny"

RefusalOnRecord(r) ==
  /\ answer[r] = "refused" /\ ~Stored(r, "approvals row")
       /\ (input[r].kind = "mcp" => Stored(r, "tool.call") /\ ~sent[r] /\ input[r].url) => DenialStored(r)
  /\ answer[r] = "quarantined" => Stored(r, "a2a.quarantined")
  /\ answer[r] = "pending" => Stored(r, "approvals row") /\ Stored(r, "approval.requested")
  /\ pc[r] = "waiting" => Stored(r, "approvals row")

CanaryOnRecord(r) ==
  LET late == answer[r] \in {"ok", "refused", "pending"} \/ sent[r] IN
  /\ input[r].kind = "chat" /\ HasCanary(input[r])
       /\ (late \/ pc[r] \in {"egress", "tool", "forward", "upstream"}) => Stored(r, "canary.trigger")
  /\ input[r].kind = "enforce" /\ input[r].call.canary /\ (late \/ pc[r] = "waiting")
       => Stored(r, "canary.trigger")

RequestOK(r) ==
  /\ InPlace(r) /\ InForce(r) /\ ChatCleared(r) /\ McpCleared(r) /\ CallsCleared(r)
  /\ Trusted(r) /\ RefusalOnRecord(r) /\ CanaryOnRecord(r)

GatewayInv == ToolInv /\ TypeOK /\ \A r \in Requests : RequestOK(r)

-----------------------------------------------------------------------------
(* What is written.                                                        *)

Entries(s) == {s[n] : n \in DOMAIN s}

LEMMA OneEntry ==
  ASSUME NEW e \in Entry
  PROVE  <<e>> \in Seq(Entry) /\ Entries(<<e>>) = {e}
BY DEF Entries

LEMMA NoEntry == <<>> \in Seq(Entry) /\ Entries(<<>>) = {}
BY DEF Entries

LEMMA MoreEntries ==
  ASSUME NEW s \in Seq(Entry), NEW t \in Seq(Entry)
  PROVE  s \o t \in Seq(Entry) /\ Entries(s \o t) = Entries(s) \cup Entries(t)
<1> DEFINE u == s \o t
<1>1. /\ u \in Seq(Entry) /\ Len(u) = Len(s) + Len(t) /\ Len(s) \in Nat /\ Len(t) \in Nat
      /\ \A i \in 1 .. Len(s) : u[i] = s[i]
      /\ \A i \in 1 .. Len(t) : u[Len(s) + i] = t[i]
      /\ DOMAIN s = 1 .. Len(s) /\ DOMAIN t = 1 .. Len(t) /\ DOMAIN u = 1 .. Len(u)
  OBVIOUS
<1> HIDE DEF u
<1>2. ASSUME NEW i \in DOMAIN u
      PROVE  u[i] \in Entries(s) \cup Entries(t)
  <2>1. CASE i \in 1 .. Len(s)
    BY <1>1, <2>1 DEF Entries
  <2>2. CASE i \notin 1 .. Len(s)
    <3>1. i - Len(s) \in 1 .. Len(t) /\ Len(s) + (i - Len(s)) = i
      BY <1>1, <2>2
    <3>2. u[i] = t[i - Len(s)]
      BY <1>1, <3>1
    <3> QED
      BY <1>1, <3>1, <3>2 DEF Entries
  <2> QED
    BY <2>1, <2>2
<1>3. ASSUME NEW i \in DOMAIN s
      PROVE  s[i] \in Entries(u)
  <2>1. i \in DOMAIN u /\ u[i] = s[i]
    BY <1>1
  <2> QED
    BY <2>1 DEF Entries
<1>4. ASSUME NEW i \in DOMAIN t
      PROVE  t[i] \in Entries(u)
  <2>1. Len(s) + i \in DOMAIN u /\ u[Len(s) + i] = t[i]
    BY <1>1
  <2> QED
    BY <2>1 DEF Entries
<1>5. Entries(u) \subseteq Entries(s) \cup Entries(t)
  BY <1>2 DEF Entries
<1>6. Entries(s) \subseteq Entries(u) /\ Entries(t) \subseteq Entries(u)
  BY <1>3, <1>4 DEF Entries
<1> QED
  BY <1>1, <1>5, <1>6 DEF u

LEMMA EventIs ==
  ASSUME NEW type \in EventTypes, NEW decision \in Outcomes
  PROVE  /\ Event(type, decision) \in Entry
         /\ Event(type, decision).type = type /\ Event(type, decision).decision = decision
BY DEF Event, Entry

LEMMA DecisionIs ==
  ASSUME NEW p, NEW c
  PROVE  /\ Decision(p, c).action \in {"deny", "require_approval", "allow"}
         /\ Decision(p, c).action \in Outcomes
         /\ Decision(p, c).canary = c.canary
         /\ Denials(p, c) # {} <=> Decision(p, c).action = "deny"
<1>1. /\ Verdict("deny", First(Denials(p, c)), c).action = "deny"
      /\ Verdict("deny", First(Denials(p, c)), c).canary = c.canary
      /\ Verdict("require_approval", "destructive.approval", c).action = "require_approval"
      /\ Verdict("require_approval", "destructive.approval", c).canary = c.canary
      /\ Verdict("allow", "default.allow", c).action = "allow"
      /\ Verdict("allow", "default.allow", c).canary = c.canary
  BY DEF Verdict
<1>2. /\ Decision(p, c).action \in {"deny", "require_approval", "allow"}
      /\ Decision(p, c).canary = c.canary
      /\ Denials(p, c) # {} <=> Decision(p, c).action = "deny"
  <2>1. CASE Denials(p, c) # {}
    BY <1>1, <2>1 DEF Decision
  <2>2. CASE Denials(p, c) = {} /\ Destructive(p, c)
    BY <1>1, <2>2 DEF Decision
  <2>3. CASE Denials(p, c) = {} /\ ~Destructive(p, c)
    BY <1>1, <2>3 DEF Decision
  <2> QED
    BY <2>1, <2>2, <2>3
<1> QED
  BY <1>2 DEF Outcomes

\* A rule that is tried and applies is found: one of those that apply denies.
LEMMA FirstApplies ==
  ASSUME NEW rules, NEW n \in DOMAIN Order, Order[n] \in rules
  PROVE  First(rules) \in rules
<1> DEFINE S == {k \in DOMAIN Order : Order[k] \in rules}
<1>1. S # {} /\ S \subseteq Nat /\ DOMAIN Order \subseteq Nat
  BY DEF Order
<1>2. PICK k \in S : \A j \in S : ~(<<j, k>> \in OpToRel(<, Nat))
  <2> HIDE DEF S
  <2> QED
    BY <1>1, NatLessThanWellFounded, WFMin
<1>3. \A j \in DOMAIN Order : Order[j] \in rules => k <= j
  <2> SUFFICES ASSUME NEW j \in S
               PROVE  k <= j
    OBVIOUS
  <2>1. j \in Nat /\ k \in Nat
    BY <1>1
  <2> HIDE DEF S
  <2>2. ~(j < k)
    BY <1>2, <2>1 DEF OpToRel
  <2> QED
    BY <2>1, <2>2
<1>4. \E m \in DOMAIN Order : Order[m] \in rules /\ \A j \in DOMAIN Order : Order[j] \in rules => m <= j
  BY <1>2, <1>3
<1> HIDE DEF S
<1> QED
  BY <1>4 DEF First

LEMMA TextOK ==
  ASSUME NEW p, NEW messages, ~EgressRefused(EgressDecision(p, messages)),
         NEW n \in DOMAIN messages, messages[n].plain
  PROVE  ~(messages[n].canary /\ p.canaryBlock) /\ ~(messages[n].secret /\ p.secretBlock)
<1> DEFINE c == EgressCall(UpstreamHost, InBlob(messages, "canary"), InBlob(messages, "secret"))
           d == Decision(p, c)
<1>1. /\ c.tool = "http_request" /\ c.text /\ c.canary = InBlob(messages, "canary")
      /\ c.secret = InBlob(messages, "secret")
  BY DEF EgressCall, BlankCall
<1>2. ~(d.action = "deny" /\ (d.canary \/ d.secret))
  BY DEF EgressRefused, EgressDecision
<1> HIDE DEF c
<1>3. ASSUME messages[n].canary, p.canaryBlock
      PROVE  FALSE
  <2>1. c.canary
    BY <1>1, <1>3 DEF InBlob
  <2>2. "canary.block" \in Denials(p, c)
    BY <1>3, <2>1 DEF Denials, SecretDenials, When
  <2> QED
    BY <1>2, <2>1, <2>2, DecisionIs
<1>4. ASSUME messages[n].secret, p.secretBlock
      PROVE  FALSE
  <2>1. c.secret
    BY <1>1, <1>4 DEF InBlob
  <2>2. "secret.egress" \in Denials(p, c)
    BY <1>1, <1>4, <2>1 DEF Denials, SecretDenials, When, Outbound
  <2>3. d.action = "deny" /\ d = Verdict("deny", First(Denials(p, c)), c)
    BY <2>2 DEF Decision, Verdict
  <2>4. First(Denials(p, c)) \in Denials(p, c)
    <3>1. 2 \in DOMAIN Order /\ Order[2] = "secret.egress"
      BY DEF Order
    <3> QED
      BY <2>2, <3>1, FirstApplies
  <2>5. CASE First(Denials(p, c)) = "canary.block"
    <3>1. c.canary
      BY <2>4, <2>5 DEF Denials, When, SecretDenials, ToolDenials, HostDenials, MethodDenials,
                        PathDenials, ShellDenials, McpDenials, SpawnDenials
    <3> QED
      BY <1>2, <2>3, <3>1, DecisionIs
  <2>6. CASE First(Denials(p, c)) # "canary.block"
    <3>1. d.secret = (c.secret /\ First(Denials(p, c)) # "canary.block")
      BY <2>3 DEF Verdict
    <3> QED
      BY <1>2, <2>1, <2>3, <2>6, <3>1
  <2> QED
    BY <2>5, <2>6
<1> QED
  BY <1>3, <1>4

LEMMA EnforceEventsAre ==
  ASSUME NEW p, NEW c
  PROVE  LET d == Decision(p, c)
             written == Entries(EnforceEvents(c, d))
         IN /\ EnforceEvents(c, d) \in Seq(Entry)
            /\ c.canary => Event("canary.trigger", "deny") \in written
            /\ d.action = "deny" => Event("policy.decision", "deny") \in written
            /\ d.action = "require_approval" =>
                 {Event("approvals row", "none"), Event("approval.requested", d.action)} \subseteq written
<1> DEFINE d == Decision(p, c)
           e1 == <<Event("tool.call", d.action)>>
           e2 == Maybe(d.canary, Event("canary.trigger", "deny"))
           e3 == Maybe(d.secret, IF d.action = "deny" THEN Event("secret.blocked", "deny")
                                 ELSE Event("secret.detected", "allow"))
           e4 == HookEvent(c, d)
           e5 == Maybe(d.action = "deny", Event("policy.decision", "deny"))
           e6 == IF d.action = "require_approval"
                 THEN <<Event("approvals row", "none"), Event("approval.requested", d.action)>>
                 ELSE <<>>
<1>1. /\ d.action \in {"deny", "require_approval", "allow"} /\ d.action \in Outcomes
      /\ d.canary = c.canary
  BY DecisionIs
<1>2. EnforceEvents(c, d) = e1 \o e2 \o e3 \o e4 \o e5 \o e6
  BY DEF EnforceEvents
<1>3. e1 \in Seq(Entry)
  BY <1>1, EventIs, OneEntry DEF EventTypes
<1>4. e2 \in Seq(Entry) /\ (c.canary => Event("canary.trigger", "deny") \in Entries(e2))
  <2>1. Event("canary.trigger", "deny") \in Entry
    BY DEF Event, Entry, EventTypes, Outcomes
  <2> QED
    BY <1>1, <2>1, OneEntry, NoEntry DEF Maybe
<1>5. e3 \in Seq(Entry)
  <2>1. Event("secret.blocked", "deny") \in Entry /\ Event("secret.detected", "allow") \in Entry
    BY DEF Event, Entry, EventTypes, Outcomes
  <2> QED
    BY <2>1, OneEntry, NoEntry DEF Maybe
<1>6. e4 \in Seq(Entry)
  <2>1. \A t \in {"shell.exec", "http.request", "filesystem.access", "mcp.denied", "mcp.call", "agent.spawn"} :
          <<Event(t, d.action)>> \in Seq(Entry)
    <3>1. \A t \in {"shell.exec", "http.request", "filesystem.access", "mcp.denied", "mcp.call", "agent.spawn"} :
            Event(t, d.action) \in Entry
      BY <1>1 DEF Event, Entry, EventTypes
    <3> QED
      BY <3>1, OneEntry
  <2>2. \/ e4 = <<>>
        \/ \E t \in {"shell.exec", "http.request", "filesystem.access", "mcp.denied", "mcp.call", "agent.spawn"} :
             e4 = <<Event(t, d.action)>>
    BY DEF HookEvent
  <2> QED
    BY <2>1, <2>2, NoEntry
<1>7. e5 \in Seq(Entry) /\ (d.action = "deny" => Event("policy.decision", "deny") \in Entries(e5))
  <2>1. Event("policy.decision", "deny") \in Entry
    BY DEF Event, Entry, EventTypes, Outcomes
  <2> QED
    BY <2>1, OneEntry, NoEntry DEF Maybe
<1>8. /\ e6 \in Seq(Entry)
      /\ d.action = "require_approval" =>
           {Event("approvals row", "none"), Event("approval.requested", d.action)} \subseteq Entries(e6)
  <2>1. Event("approvals row", "none") \in Entry /\ Event("approval.requested", d.action) \in Entry
    BY <1>1 DEF Event, Entry, EventTypes, Outcomes
  <2>2. \A a, b \in Entry : <<a, b>> \in Seq(Entry) /\ {a, b} \subseteq Entries(<<a, b>>)
    <3> SUFFICES ASSUME NEW a \in Entry, NEW b \in Entry
                 PROVE  <<a, b>> \in Seq(Entry) /\ {a, b} \subseteq Entries(<<a, b>>)
      OBVIOUS
    <3>1. 1 \in DOMAIN <<a, b>> /\ 2 \in DOMAIN <<a, b>> /\ <<a, b>>[1] = a /\ <<a, b>>[2] = b
      OBVIOUS
    <3> QED
      BY <3>1 DEF Entries
  <2> QED
    BY <2>1, <2>2, NoEntry
<1> HIDE DEF e1, e2, e3, e4, e5, e6, d
<1>9. /\ e1 \o e2 \o e3 \o e4 \o e5 \o e6 \in Seq(Entry)
      /\ Entries(e2) \cup Entries(e5) \cup Entries(e6) \subseteq Entries(e1 \o e2 \o e3 \o e4 \o e5 \o e6)
  <2>1. e1 \o e2 \in Seq(Entry) /\ Entries(e2) \subseteq Entries(e1 \o e2)
    BY <1>3, <1>4, MoreEntries
  <2>2. e1 \o e2 \o e3 \in Seq(Entry) /\ Entries(e2) \subseteq Entries(e1 \o e2 \o e3)
    BY <1>5, <2>1, MoreEntries
  <2>3. e1 \o e2 \o e3 \o e4 \in Seq(Entry) /\ Entries(e2) \subseteq Entries(e1 \o e2 \o e3 \o e4)
    BY <1>6, <2>2, MoreEntries
  <2>4. /\ e1 \o e2 \o e3 \o e4 \o e5 \in Seq(Entry)
        /\ Entries(e2) \cup Entries(e5) \subseteq Entries(e1 \o e2 \o e3 \o e4 \o e5)
    BY <1>7, <2>3, MoreEntries
  <2> QED
    BY <1>8, <2>4, MoreEntries
<1> QED
  BY <1>2, <1>4, <1>7, <1>8, <1>9 DEF d

LEMMA ScanEventsAre ==
  ASSUME NEW p, NEW source, NEW hit
  PROVE  /\ ScanEvents(p, source, hit) \in Seq(Entry)
         /\ ScanBlocks(p, source, hit) =>
              Event("prompt_injection.blocked", "deny") \in Entries(ScanEvents(p, source, hit))
<1>1. /\ Event("prompt_injection.blocked", "deny") \in Entry
      /\ Event("prompt_injection.detected", "allow") \in Entry
  BY DEF Event, Entry, EventTypes, Outcomes
<1>2. ScanBlocks(p, source, hit) => ScanHit(p, source, hit) # "none"
  BY DEF ScanBlocks, ShouldBlock
<1> QED
  BY <1>1, <1>2, OneEntry, NoEntry DEF ScanEvents, Maybe

LEMMA CanaryEventsAre ==
  ASSUME NEW x \in Inputs, x.kind = "chat"
  PROVE  /\ CanaryEvents(x.messages) \in Seq(Entry)
         /\ HasCanary(x) => Event("canary.trigger", "deny") \in Entries(CanaryEvents(x.messages))
<1> DEFINE found == {k \in DOMAIN x.messages : x.messages[k].canary /\ x.messages[k].role # "system"}
           s == CanaryEvents(x.messages)
           e == Event("canary.trigger", "deny")
<1>1. x.messages \in Seq({x.messages[n] : n \in DOMAIN x.messages})
  BY InputsAssumption
<1>2. IsFiniteSet(DOMAIN x.messages)
  <2>1. Len(x.messages) \in Nat /\ DOMAIN x.messages = 1 .. Len(x.messages)
    BY <1>1, LenProperties
  <2> QED
    BY <2>1, FS_Interval
<1>3. IsFiniteSet(found) /\ Cardinality(found) \in Nat /\ (found # {} => Cardinality(found) # 0)
  BY <1>2, FS_Subset, FS_CardinalityType, FS_EmptySet
<1>4. s = [n \in 1 .. Cardinality(found) |-> e]
  BY DEF CanaryEvents
<1>5. e \in Entry
  BY DEF Event, Entry, EventTypes, Outcomes
<1>6. HasCanary(x) => found # {}
  BY DEF HasCanary
<1> HIDE DEF found, e
<1>7. s \in Seq(Entry)
  BY <1>3, <1>4, <1>5
<1>8. HasCanary(x) => 1 \in DOMAIN s /\ s[1] = e
  BY <1>3, <1>4, <1>6
<1>9. HasCanary(x) => e \in Entries(s)
  BY <1>8 DEF Entries
<1> QED
  BY <1>7, <1>9 DEF e

LEMMA A2AEventsAre ==
  ASSUME NEW a, NEW m
  PROVE  LET d == A2ADecision(a, m)
             written == Entries(A2AEvents(d))
         IN /\ d.action \in {"allow", "deny", "quarantine"}
            /\ A2AEvents(d) \in Seq(Entry)
            /\ d.action = "deny" => Event("a2a.blocked", "deny") \in written
            /\ d.action = "quarantine" => Event("a2a.quarantined", "quarantine") \in written
<1> DEFINE d == A2ADecision(a, m)
           e1 == <<Event("a2a.message", d.action)>>
           e2 == Maybe(d.action = "deny", Event("a2a.blocked", "deny"))
           e3 == Maybe(d.action = "quarantine", Event("a2a.quarantined", "quarantine"))
           e4 == Maybe(d.hit # "none", Event("prompt_injection.detected",
                                             IF d.action = "allow" THEN "allow" ELSE "deny"))
<1>1. d.action \in {"allow", "deny", "quarantine"}
  <2>1. \A from, to, t : SenderAction(a, from, to, t) \in {"allow", "deny", "quarantine"}
    BY DEF SenderAction
  <2>2. \A s \in {"allow", "deny", "quarantine"} : \A t, h :
          ContentAction(a, t, s, h) \in {"allow", "deny", "quarantine"}
    BY DEF ContentAction
  <2> QED
    BY <2>1, <2>2 DEF A2ADecision
<1>2. A2AEvents(d) = e1 \o e2 \o e3 \o e4
  BY DEF A2AEvents
<1> HIDE DEF d
<1>3. /\ Event("a2a.message", d.action) \in Entry
      /\ Event("a2a.blocked", "deny") \in Entry /\ Event("a2a.quarantined", "quarantine") \in Entry
      /\ Event("prompt_injection.detected", IF d.action = "allow" THEN "allow" ELSE "deny") \in Entry
  BY <1>1 DEF Event, Entry, EventTypes, Outcomes
<1>4. /\ e1 \in Seq(Entry) /\ e2 \in Seq(Entry) /\ e3 \in Seq(Entry) /\ e4 \in Seq(Entry)
      /\ d.action = "deny" => Event("a2a.blocked", "deny") \in Entries(e2)
      /\ d.action = "quarantine" => Event("a2a.quarantined", "quarantine") \in Entries(e3)
  BY <1>3, OneEntry, NoEntry DEF Maybe
<1> HIDE DEF e1, e2, e3, e4
<1>5. e1 \o e2 \in Seq(Entry) /\ Entries(e2) \subseteq Entries(e1 \o e2)
  BY <1>4, MoreEntries
<1>6. e1 \o e2 \o e3 \in Seq(Entry) /\ Entries(e2) \cup Entries(e3) \subseteq Entries(e1 \o e2 \o e3)
  <2>1. Entries((e1 \o e2) \o e3) = Entries(e1 \o e2) \cup Entries(e3)
    BY <1>4, <1>5, MoreEntries
  <2>2. (e1 \o e2) \o e3 \in Seq(Entry)
    BY <1>4, <1>5
  <2> QED
    BY <1>5, <2>1, <2>2
<1>7. /\ e1 \o e2 \o e3 \o e4 \in Seq(Entry)
      /\ Entries(e2) \cup Entries(e3) \subseteq Entries(e1 \o e2 \o e3 \o e4)
  BY <1>4, <1>6, MoreEntries
<1> QED
  BY <1>1, <1>2, <1>4, <1>7 DEF d

LEMMA DeliveredWasTrusted ==
  ASSUME NEW p \in Policies, NEW m, A2ADecision(p.a2a, m).action = "allow"
  PROVE  Deliverable(p.a2a, m)
<1> DEFINE a == p.a2a
           b == [a EXCEPT !.enabled = TRUE, !.allowSelf = TRUE]
           trust == EffectiveTrust(a, m.from, NormalTrust(m.declared))
<1>1. /\ b.enabled /\ b.allowSelf
      /\ b.default = a.default /\ b.localTrusted = a.localTrusted
      /\ b.localUntrusted = a.localUntrusted /\ b.verified = a.verified
      /\ b.quarantined = a.quarantined /\ b.blockQuarantined = a.blockQuarantined
      /\ b.blockUnknown = a.blockUnknown /\ b.scan = a.scan
      /\ b.blockOnInjection = a.blockOnInjection
  BY PoliciesAssumption
<1>2. A2ADecisionSync(a, m) = A2ADecision(b, m)
  BY DEF A2ADecisionSync
<1> HIDE DEF a, b
<1>3. EffectiveTrust(b, m.from, NormalTrust(m.declared)) = trust
  BY <1>1 DEF EffectiveTrust, UnlistedTrust
<1> HIDE DEF trust
<1>4. ContentAction(a, trust, SenderAction(a, m.from, m.to, trust), m.hit) = "allow"
  BY DEF A2ADecision, a, trust
<1>5. SenderAction(a, m.from, m.to, trust) = "allow"
  BY <1>4 DEF ContentAction
<1>6. a.scan /\ a.blockOnInjection /\ m.hit \in {"medium", "high"} => TrustedByOperator(a, m.from)
  <2> SUFFICES ASSUME a.scan, a.blockOnInjection, m.hit \in {"medium", "high"}
               PROVE  TrustedByOperator(a, m.from)
    OBVIOUS
  <2>1. ~ShouldBlock(m.hit, A2ASource(trust), TRUE, FALSE, "medium")
    BY <1>4, <1>5 DEF ContentAction
  <2>2. trust = "LOCAL_TRUSTED"
    BY <2>1 DEF ShouldBlock, A2ASource, SeverityRank
  <2> QED
    BY <2>2 DEF trust, EffectiveTrust, UnlistedTrust, TrustedByOperator, Listed, NormalTrust
<1>7. ASSUME a.enabled
      PROVE  /\ m.from \notin a.quarantined /\ (a.allowSelf \/ m.from # m.to)
             /\ A2ADecisionSync(a, m).action = "allow"
  <2>1. trust # "QUARANTINED" /\ (a.allowSelf \/ m.from # m.to)
    BY <1>5, <1>7 DEF SenderAction
  <2>2. m.from \notin a.quarantined
    BY <2>1 DEF EffectiveTrust, trust
  <2>3. SenderAction(b, m.from, m.to, trust) = "allow"
    BY <1>1, <1>5, <1>7 DEF SenderAction
  <2>4. ContentAction(b, trust, "allow", m.hit) = "allow"
    BY <1>1, <1>4, <1>5 DEF ContentAction
  <2>5. A2ADecision(b, m).action = "allow"
    BY <1>3, <2>3, <2>4 DEF A2ADecision
  <2> QED
    BY <1>2, <2>1, <2>2, <2>5
<1>8. ASSUME a.enabled, a.blockUnknown, ~Listed(a, m.from), a.default = "REMOTE_UNKNOWN"
      PROVE  m.declared = "LOCAL_TRUSTED"
  <2> DEFINE claim == NormalTrust(m.declared)
  <2>1. trust \notin {"QUARANTINED", "REMOTE_UNKNOWN"}
    BY <1>5, <1>8 DEF SenderAction
  <2>2. trust = UnlistedTrust(a, claim)
    BY <1>8 DEF trust, EffectiveTrust, Listed
  <2>3. claim \in {"LOCAL_TRUSTED", "REMOTE_VERIFIED", "LOCAL_UNTRUSTED", "REMOTE_UNKNOWN", "QUARANTINED"}
    BY DEF NormalTrust, TrustLevels, TrustRank
  <2>4. claim = "LOCAL_TRUSTED"
    BY <1>8, <2>1, <2>2, <2>3 DEF UnlistedTrust, TrustRank
  <2> QED
    BY <2>4 DEF NormalTrust
<1> QED
  BY <1>6, <1>7, <1>8 DEF Deliverable, a

\* What the analyzer reports covers what the ladder lets through.
LEMMA AnalyzerCovers ==
  ASSUME NEW p, NEW c, p.toolsMode = "allowlist", c.tool # None
  PROVE  LET matrix == Granted(p, {}, {})
         IN /\ Decision(p, c).action # "deny" => c.tool \in AllowedTools(p, {})
            /\ c.tool \in AllowedTools(p, {}) => ToolDenials(p, c) = {}
            /\ {k \in Capabilities : c.tool \in CapabilityTools[k]} \subseteq matrix
                 \/ ToolDenials(p, c) # {}
            /\ {"shell", "filesystem_write", "network"} \subseteq matrix
                 => MaxSeverity(Findings(p, matrix)) = 4
<1> DEFINE matrix == Granted(p, {}, {})
<1>1. c.tool \in AllowedTools(p, {}) <=> ToolDenials(p, c) = {}
  BY DEF AllowedTools, ToolDenials, When
<1>2. Decision(p, c).action # "deny" => ToolDenials(p, c) = {}
  BY DecisionIs DEF Denials
<1>3. {k \in Capabilities : c.tool \in CapabilityTools[k]} \subseteq matrix \/ ToolDenials(p, c) # {}
  BY <1>1 DEF Granted
<1>4. ASSUME {"shell", "filesystem_write", "network"} \subseteq matrix
      PROVE  MaxSeverity(Findings(p, matrix)) = 4
  <2> DEFINE found == Findings(p, matrix)
             top == [id |-> "full_agency_triangle", needs |-> {"shell", "filesystem_write", "network"},
                     severity |-> 4]
  <2> HIDE DEF matrix
  <2>1. top \in Combinations /\ top.severity = 4 /\ top.needs = {"shell", "filesystem_write", "network"}
    BY DEF Combinations
  <2>2. top \in found
    BY <1>4, <2>1 DEF Findings
  <2>3. \A f \in Combinations \cup {BroadMcp, OpenShell} : f.severity \in 2 .. 4
    BY DEF Combinations, BroadMcp, OpenShell
  <2>4. \A f \in found : f.severity \in 2 .. 4
    BY <2>3 DEF Findings
  <2> HIDE DEF top, found
  <2>5. 4 \in {f.severity : f \in found} /\ \A f \in found : f.severity <= 4
    BY <2>1, <2>2, <2>4
  <2>6. \A s \in {f.severity : f \in found} : (\A f \in found : f.severity <= s) => s = 4
    <3> SUFFICES ASSUME NEW s \in {f.severity : f \in found}, \A f \in found : f.severity <= s
                 PROVE  s = 4
      OBVIOUS
    <3>1. s \in 2 .. 4 /\ 4 <= s
      BY <2>1, <2>2, <2>4
    <3> QED
      BY <3>1
  <2>7. found # {}
    BY <2>2
  <2> QED
    BY <2>5, <2>6, <2>7 DEF MaxSeverity, found
<1> QED
  BY <1>1, <1>2, <1>3, <1>4

-----------------------------------------------------------------------------
(* Every step keeps the invariant.                                         *)

LEMMA Recorded ==
  ASSUME NEW r \in Requests, stored[r] \in Seq(Entry), NEW w \in Seq(Entry), stored'[r] = stored[r] \o w
  PROVE  /\ stored'[r] \in Seq(Entry)
         /\ \A type : Stored(r, type)' <=> Stored(r, type) \/ \E e \in Entries(w) : e.type = type
         /\ DenialStored(r)' <=> DenialStored(r) \/ \E e \in Entries(w) : e.decision = "deny"
<1>1. stored'[r] \in Seq(Entry) /\ Entries(stored'[r]) = Entries(stored[r]) \cup Entries(w)
  BY MoreEntries
<1>2. /\ \A type : Stored(r, type) <=> \E e \in Entries(stored[r]) : e.type = type
      /\ \A type : Stored(r, type)' <=> \E e \in Entries(stored'[r]) : e.type = type
      /\ DenialStored(r) <=> \E e \in Entries(stored[r]) : e.decision = "deny"
      /\ DenialStored(r)' <=> \E e \in Entries(stored'[r]) : e.decision = "deny"
  BY DEF Stored, DenialStored, Entries
<1> QED
  BY <1>1, <1>2

\* A step of the handler of r and of nothing else, which wrote w.
Touches(r, w) ==
  /\ UNCHANGED <<policy, input, seen, during>>
  /\ \A q \in Requests \ {r} :
       /\ pc'[q] = pc[q] /\ at'[q] = at[q] /\ blocked'[q] = blocked[q]
       /\ stored'[q] = stored[q] /\ sent'[q] = sent[q] /\ answer'[q] = answer[q]
  /\ w \in Seq(Entry) /\ stored' = [stored EXCEPT ![r] = @ \o w]
  /\ sent' \in [Requests -> BOOLEAN] /\ blocked' \in [Requests -> BOOLEAN]
  /\ answer' \in [Requests -> Answers]

LEMMA TouchesKeeps ==
  ASSUME GatewayInv, NEW r \in Requests, NEW w, Touches(r, w), Moves(r), RequestOK(r)'
  PROVE  GatewayInv'
<1>1. TypeOK'
  <2>1. stored' \in [Requests -> Seq(Entry)]
    <3>1. stored \in [Requests -> Seq(Entry)] /\ stored[r] \o w \in Seq(Entry)
      BY MoreEntries DEF Touches, GatewayInv, TypeOK
    <3> QED
      BY <3>1 DEF Touches
  <2> QED
    BY <2>1 DEF Touches, GatewayInv, TypeOK
<1>2. ASSUME NEW q \in Requests \ {r}
      PROVE  RequestOK(q)'
  <2>1. /\ UNCHANGED <<policy, input, seen, during>>
        /\ pc'[q] = pc[q] /\ at'[q] = at[q] /\ blocked'[q] = blocked[q]
        /\ stored'[q] = stored[q] /\ sent'[q] = sent[q] /\ answer'[q] = answer[q]
    BY DEF Touches
  <2>2. RequestOK(q)
    BY DEF GatewayInv
  <2>3. \A l : Reached(q, l)' <=> Reached(q, l)
    BY <2>1 DEF Reached
  <2>4. \A n : /\ MessagePasses(q, n)' <=> MessagePasses(q, n)
               /\ CallPasses(q, n)' <=> CallPasses(q, n)
    BY <2>1 DEF MessagePasses, CallPasses
  <2>5. \A t : Stored(q, t)' <=> Stored(q, t)
    BY <2>1 DEF Stored
  <2>6. (DenialStored(q)' <=> DenialStored(q)) /\ (TextPasses(q)' <=> TextPasses(q))
    BY <2>1 DEF DenialStored, TextPasses
  <2>7. InPlace(q)' /\ InForce(q)' /\ Trusted(q)'
    BY <2>1, <2>2 DEF RequestOK, InPlace, InForce, Trusted
  <2>8. ChatCleared(q)'
    BY <2>1, <2>2, <2>3, <2>4, <2>6 DEF RequestOK, ChatCleared
  <2>9. McpCleared(q)' /\ CallsCleared(q)'
    BY <2>1, <2>2, <2>3, <2>4 DEF RequestOK, McpCleared, CallsCleared
  <2>10. RefusalOnRecord(q)' /\ CanaryOnRecord(q)'
    BY <2>1, <2>2, <2>5, <2>6 DEF RequestOK, RefusalOnRecord, CanaryOnRecord
  <2> QED
    BY <2>7, <2>8, <2>9, <2>10 DEF RequestOK
<1>3. ToolInv'
  BY MovesKeep DEF GatewayInv
<1> QED
  BY <1>1, <1>2, <1>3 DEF GatewayInv

\* A request that ends in an error keeps what was true of it.
Fails(r) == pc'[r] = "done" /\ answer'[r] = "error" /\ sent'[r] = sent[r]

LEMMA FailsOK ==
  ASSUME GatewayInv, NEW r \in Requests, NEW w, Touches(r, w), pc[r] # "idle", Fails(r)
  PROVE  RequestOK(r)'
<1> USE DEF Touches, GatewayInv, RequestOK, Fails
<1>1. /\ \A type : Stored(r, type) => Stored(r, type)'
      /\ stored \in [Requests -> Seq(Entry)] /\ stored'[r] = stored[r] \o w
  BY Recorded DEF TypeOK
<1>2. InPlace(r)' /\ InForce(r)'
  BY DEF InPlace, InForce
<1>3. ChatCleared(r)'
  BY DEF ChatCleared, MessagePasses, TextPasses, CallPasses, Reached
<1>4. McpCleared(r)' /\ CallsCleared(r)'
  BY DEF McpCleared, CallsCleared, CallPasses, Reached
<1>5. Trusted(r)'
  BY DEF Trusted
<1>6. RefusalOnRecord(r)'
  BY DEF RefusalOnRecord
<1>7. CanaryOnRecord(r)'
  BY <1>1 DEF CanaryOnRecord
<1> QED
  BY <1>2, <1>3, <1>4, <1>5, <1>6, <1>7

\* A write that may fail: what was written, and where the handler goes then.
LEMMA StoresOrFails ==
  ASSUME GatewayInv, NEW r \in Requests, NEW w \in Seq(Entry), StoreFails(r, w),
         UNCHANGED <<policy, input, seen, during, sent>>,
         blocked' \in [Requests -> BOOLEAN], \A q \in Requests \ {r} : blocked'[q] = blocked[q],
         at' \in [Requests -> Nat \ {0}], \A q \in Requests \ {r} : at'[q] = at[q]
  PROVE  Fails(r) /\ \E v : Touches(r, v)
<1>1. PICK n \in 0 .. (Len(w) - 1) : stored' = [stored EXCEPT ![r] = @ \o SubSeq(w, 1, n)]
  BY DEF StoreFails, Store
<1>2. SubSeq(w, 1, n) \in Seq(Entry)
  <2>1. n \in Nat /\ n <= Len(w) /\ Len(w) \in Nat
    BY <1>1
  <2> QED
    BY <2>1, SubSeqProperties
<1>3. /\ pc' = [pc EXCEPT ![r] = "done"] /\ answer' = [answer EXCEPT ![r] = "error"]
      /\ stored \in [Requests -> Seq(Entry)] /\ pc \in [Requests -> Places]
      /\ answer \in [Requests -> Answers] /\ sent \in [Requests -> BOOLEAN]
  BY DEF StoreFails, Reply, GatewayInv, TypeOK, ToolInv
<1>4. answer' \in [Requests -> Answers]
  BY <1>3 DEF Answers
<1>5. Touches(r, SubSeq(w, 1, n))
  BY <1>1, <1>2, <1>3, <1>4 DEF Touches
<1> QED
  BY <1>3, <1>5 DEF Fails

LEMMA Unmoved ==
  ASSUME GatewayInv, NEW r \in Requests, NEW w, Touches(r, w), pc[r] # "idle"
  PROVE  /\ UNCHANGED <<policy, input, seen, during>>
         /\ \A n : /\ MessagePasses(r, n)' <=> MessagePasses(r, n)
                   /\ CallPasses(r, n)' <=> CallPasses(r, n)
         /\ TextPasses(r)' <=> TextPasses(r)
         /\ \A type : Stored(r, type)' <=> Stored(r, type) \/ \E e \in Entries(w) : e.type = type
         /\ DenialStored(r)' <=> DenialStored(r) \/ \E e \in Entries(w) : e.decision = "deny"
         /\ pc[r] # "done" => InForce(r)'
<1>1. UNCHANGED <<policy, input, seen, during>>
  BY DEF Touches
<1>2. /\ stored \in [Requests -> Seq(Entry)] /\ w \in Seq(Entry) /\ stored'[r] = stored[r] \o w
  BY DEF Touches, GatewayInv, TypeOK
<1>3. \A n : /\ MessagePasses(r, n)' <=> MessagePasses(r, n)
             /\ CallPasses(r, n)' <=> CallPasses(r, n)
  BY <1>1 DEF MessagePasses, CallPasses
<1>4. TextPasses(r)' <=> TextPasses(r)
  BY <1>1 DEF TextPasses
<1>5. pc[r] # "done" => InForce(r)'
  BY <1>1 DEF GatewayInv, RequestOK, InForce
<1> QED
  BY <1>1, <1>2, <1>3, <1>4, <1>5, Recorded

\* What is left to show of a request that is answered ...
LEMMA AnswersOK ==
  ASSUME GatewayInv, NEW r \in Requests, NEW w, Touches(r, w), pc[r] \notin {"idle", "done"},
         pc'[r] = "done", sent'[r] = sent[r],
         Trusted(r)', RefusalOnRecord(r)', CanaryOnRecord(r)'
  PROVE  RequestOK(r)'
<1>1. /\ RequestOK(r) /\ input' = input /\ seen' = seen /\ InForce(r)'
      /\ \A n : /\ MessagePasses(r, n)' <=> MessagePasses(r, n)
                /\ CallPasses(r, n)' <=> CallPasses(r, n)
      /\ TextPasses(r)' <=> TextPasses(r)
  BY Unmoved DEF GatewayInv
<1>2. \A l : Reached(r, l)' => "done" \in l \/ sent[r]
  BY DEF Reached
<1>3. InPlace(r)'
  BY <1>1 DEF RequestOK, InPlace
<1>4. ChatCleared(r)'
  BY <1>1, <1>2 DEF RequestOK, ChatCleared, Reached
<1>5. McpCleared(r)' /\ CallsCleared(r)'
  BY <1>1, <1>2 DEF RequestOK, McpCleared, CallsCleared, Reached
<1> QED
  BY <1>1, <1>3, <1>4, <1>5 DEF RequestOK

\* ... and of one that is not answered yet.
LEMMA GoesOnOK ==
  ASSUME GatewayInv, NEW r \in Requests, NEW w, Touches(r, w), pc[r] \notin {"idle", "done"},
         pc'[r] \notin {"idle", "open", "waiting", "done"}, answer'[r] = answer[r],
         InPlace(r)', ChatCleared(r)', McpCleared(r)', CallsCleared(r)', CanaryOnRecord(r)'
  PROVE  RequestOK(r)'
<1>1. answer'[r] = "none" /\ InForce(r)'
  BY Unmoved DEF GatewayInv, RequestOK, InPlace
<1>2. Trusted(r)' /\ RefusalOnRecord(r)'
  BY <1>1 DEF Trusted, RefusalOnRecord
<1> QED
  BY <1>1, <1>2 DEF RequestOK

\* A step that writes w, moves the handler of r and leaves the others alone.
Aside(r) ==
  /\ UNCHANGED <<policy, input, seen, during>>
  /\ \A q \in Requests \ {r} : at'[q] = at[q] /\ blocked'[q] = blocked[q] /\ sent'[q] = sent[q]
  /\ sent' \in [Requests -> BOOLEAN] /\ blocked' \in [Requests -> BOOLEAN]

LEMMA RestAside ==
  ASSUME GatewayInv, NEW r \in Requests, UNCHANGED <<policy, input, seen, during>>,
         UNCHANGED <<blocked, sent>>, at' = at \/ \E n : at' = [at EXCEPT ![r] = n]
  PROVE  Aside(r)
BY DEF Aside, GatewayInv, TypeOK, ToolInv

LEMMA GotoTouches ==
  ASSUME GatewayInv, NEW r \in Requests, NEW w \in Seq(Entry), NEW l,
         Store(r, w), Goto(r, l), Aside(r)
  PROVE  Touches(r, w) /\ pc'[r] = l /\ answer'[r] = answer[r]
BY DEF GatewayInv, ToolInv, TypeOK, Store, Goto, Aside, Touches

LEMMA ReplyTouches ==
  ASSUME GatewayInv, NEW r \in Requests, NEW w \in Seq(Entry), NEW a \in Answers,
         Store(r, w), Reply(r, a), Aside(r)
  PROVE  Touches(r, w) /\ pc'[r] = "done" /\ answer'[r] = a
<1>1. /\ pc \in [Requests -> Places] /\ answer \in [Requests -> Answers]
      /\ pc' = [pc EXCEPT ![r] = "done"] /\ answer' = [answer EXCEPT ![r] = a]
  BY DEF GatewayInv, ToolInv, TypeOK, Reply
<1>2. answer' \in [Requests -> Answers] /\ answer'[r] = a /\ pc'[r] = "done"
  BY <1>1
<1> QED
  BY <1>1, <1>2 DEF GatewayInv, TypeOK, Store, Aside, Touches

LEMMA NothingStored ==
  ASSUME GatewayInv, NEW r \in Requests, UNCHANGED stored
  PROVE  Store(r, <<>>)
<1>1. stored \in [Requests -> Seq(Entry)] /\ stored[r] \o <<>> = stored[r]
  BY DEF GatewayInv, TypeOK
<1> QED
  BY <1>1 DEF Store

\* The indices of messages and calls.
LEMMA Indices ==
  ASSUME NEW x \in Inputs
  PROVE  /\ x.kind = "chat" => DOMAIN x.messages = 1 .. Len(x.messages) /\ Len(x.messages) \in Nat
         /\ x.kind \in ToolKinds => DOMAIN Calls(x) = 1 .. Len(Calls(x)) /\ Len(Calls(x)) \in Nat
<1>1. ASSUME NEW S, NEW s \in Seq(S)
      PROVE  DOMAIN s = 1 .. Len(s) /\ Len(s) \in Nat
  OBVIOUS
<1>2. x.kind = "chat" => x.messages \in Seq({x.messages[n] : n \in DOMAIN x.messages})
  BY InputsAssumption
<1>3. x.kind \in ToolKinds => Calls(x) \in Seq({Calls(x)[n] : n \in DOMAIN Calls(x)})
  BY DepthAssumption DEF ToolKinds
<1> QED
  BY <1>1, <1>2, <1>3

LEMMA OpenChatOK ==
  ASSUME GatewayInv, NEW r \in Requests, OpenChat(r)
  PROVE  RequestOK(r)' /\ \E w : Touches(r, w)
<1> DEFINE w == <<Event("session.start", "none")>>
<1>1. /\ pc[r] = "open" /\ input[r].kind = "chat" /\ RequestOK(r) /\ w \in Seq(Entry)
      /\ UNCHANGED <<policy, input, at, seen, blocked, sent, during>>
  <2>1. Event("session.start", "none") \in Entry
    BY DEF Event, Entry, EventTypes, Outcomes
  <2> QED
    BY <2>1, OneEntry DEF OpenChat, Is, GatewayInv
<1>2. /\ at[r] = 1 /\ ~sent[r] /\ at \in [Requests -> Nat \ {0}] /\ blocked \in [Requests -> BOOLEAN]
  BY <1>1 DEF GatewayInv, RequestOK, InPlace, ToolInv, TypeOK
<1>3. CASE StoreFails(r, w)
  BY <1>1, <1>2, <1>3, StoresOrFails, FailsOK
<1>4. CASE Store(r, w) /\ Goto(r, "scan")
  <2> HIDE DEF w
  <2>1. Touches(r, w) /\ pc'[r] = "scan" /\ answer'[r] = answer[r]
    BY <1>1, <1>4, RestAside, GotoTouches
  <2>2. InPlace(r)'
    BY <1>1, <1>2, <2>1 DEF RequestOK, InPlace
  <2>3. ChatCleared(r)' /\ McpCleared(r)' /\ CallsCleared(r)'
    <3>1. input[r] \in Inputs
      BY <1>1 DEF GatewayInv, ToolInv
    <3>2. \A n \in DOMAIN input[r].messages : ~(n < at[r])
      BY <1>1, <1>2, <3>1, Indices
    <3> QED
      BY <1>1, <1>2, <2>1, <3>2 DEF ChatCleared, McpCleared, CallsCleared, Reached
  <2>4. CanaryOnRecord(r)'
    BY <1>1, <1>2, <2>1 DEF RequestOK, InPlace, CanaryOnRecord
  <2> QED
    BY <1>1, <2>1, <2>2, <2>3, <2>4, GoesOnOK
<1> QED
  BY <1>3, <1>4 DEF OpenChat

LEMMA ScanMessageOK ==
  ASSUME GatewayInv, NEW r \in Requests, ScanMessage(r)
  PROVE  RequestOK(r)' /\ \E w : Touches(r, w)
<1> DEFINE m == input[r].messages[at[r]]
           w == ScanEvents(policy, MessageSource(m.role), m.hit)
           blocks == ScanBlocks(policy, MessageSource(m.role), m.hit)
<1>1. /\ pc[r] = "scan" /\ input[r].kind = "chat" /\ at[r] <= Len(input[r].messages) /\ RequestOK(r)
      /\ w \in Seq(Entry)
      /\ UNCHANGED <<policy, reloads, input, seen, sent, during>>
      /\ \/ /\ Store(r, w) /\ Goto(r, IF blocks THEN "canaries" ELSE "scan")
            /\ blocked' = [blocked EXCEPT ![r] = blocks]
            /\ at' = [at EXCEPT ![r] = IF blocks THEN 1 ELSE @ + 1]
         \/ StoreFails(r, w) /\ UNCHANGED <<blocked, at>>
  BY ScanEventsAre DEF ScanMessage, Is, GatewayInv
<1>2. /\ at \in [Requests -> Nat \ {0}] /\ blocked \in [Requests -> BOOLEAN] /\ sent \in [Requests -> BOOLEAN]
      /\ ~sent[r] /\ answer[r] = "none" /\ input[r] \in Inputs /\ policy \in during[r]
  BY <1>1 DEF GatewayInv, RequestOK, InPlace, InForce, ToolInv, TypeOK
<1>3. blocks \in BOOLEAN
  BY DEF ScanBlocks, ShouldBlock
<1>4. ~blocks => MessagePasses(r, at[r])
  BY <1>2 DEF MessagePasses
<1> HIDE DEF w, blocks
<1>5. CASE StoreFails(r, w) /\ UNCHANGED <<blocked, at>>
  BY <1>1, <1>2, <1>5, StoresOrFails, FailsOK
<1>6. CASE /\ Store(r, w) /\ Goto(r, IF blocks THEN "canaries" ELSE "scan")
           /\ blocked' = [blocked EXCEPT ![r] = blocks]
           /\ at' = [at EXCEPT ![r] = IF blocks THEN 1 ELSE @ + 1]
  <2> DEFINE l == IF blocks THEN "canaries" ELSE "scan"
  <2>1. Aside(r)
    BY <1>1, <1>2, <1>3, <1>6 DEF Aside
  <2>2. Touches(r, w) /\ pc'[r] = l /\ answer'[r] = "none" /\ ~sent'[r]
    BY <1>1, <1>2, <1>6, <2>1, GotoTouches
  <2>3. at'[r] = (IF blocks THEN 1 ELSE at[r] + 1) /\ blocked'[r] = blocks
    BY <1>2, <1>6
  <2>4. InPlace(r)'
    BY <1>1, <2>2, <2>3 DEF InPlace
  <2>5. ChatCleared(r)'
    <3>1. CASE blocks
      BY <2>2, <2>3, <3>1 DEF ChatCleared, Reached
    <3>2. CASE ~blocks
      <4>1. \A n \in DOMAIN input[r].messages : n < at[r] + 1 => n < at[r] \/ n = at[r]
        BY <1>1, <1>2, Indices
      <4>2. \A n \in DOMAIN input[r].messages : n < at[r] + 1 => MessagePasses(r, n)
        BY <1>1, <1>4, <3>2, <4>1 DEF RequestOK, ChatCleared
      <4>3. \A n : MessagePasses(r, n)' <=> MessagePasses(r, n)
        BY <1>1, <2>2, Unmoved
      <4> QED
        BY <1>1, <2>2, <2>3, <3>2, <4>2, <4>3 DEF ChatCleared, Reached
    <3> QED
      BY <3>1, <3>2
  <2>6. McpCleared(r)' /\ CallsCleared(r)' /\ CanaryOnRecord(r)'
    BY <1>1, <2>2 DEF McpCleared, CallsCleared, CanaryOnRecord
  <2> QED
    BY <1>1, <1>2, <2>2, <2>4, <2>5, <2>6, GoesOnOK
<1> QED
  BY <1>1, <1>5, <1>6

LEMMA ScanEndsOK ==
  ASSUME GatewayInv, NEW r \in Requests, ScanEnds(r)
  PROVE  RequestOK(r)' /\ \E w : Touches(r, w)
<1>1. /\ pc[r] = "scan" /\ input[r].kind = "chat" /\ at[r] > Len(input[r].messages) /\ RequestOK(r)
      /\ UNCHANGED <<policy, reloads, input, seen, blocked, stored, sent, during>>
      /\ Goto(r, "canaries") /\ at' = [at EXCEPT ![r] = 1]
  BY DEF ScanEnds, Is, GatewayInv
<1>2. /\ at \in [Requests -> Nat \ {0}] /\ blocked \in [Requests -> BOOLEAN]
      /\ ~sent[r] /\ answer[r] = "none" /\ input[r] \in Inputs
  BY <1>1 DEF GatewayInv, RequestOK, InPlace, ToolInv, TypeOK
<1>3. Touches(r, <<>>) /\ pc'[r] = "canaries" /\ answer'[r] = answer[r]
  BY <1>1, RestAside, NothingStored, NoEntry, GotoTouches
<1>4. InPlace(r)'
  BY <1>1, <1>2, <1>3 DEF InPlace
<1>5. ChatCleared(r)'
  <2>1. \A n \in DOMAIN input[r].messages : MessagePasses(r, n)
    <3>1. \A n \in DOMAIN input[r].messages : n < at[r]
      BY <1>1, <1>2, Indices
    <3> QED
      BY <1>1, <3>1 DEF RequestOK, ChatCleared
  <2>2. \A n : MessagePasses(r, n)' <=> MessagePasses(r, n)
    BY <1>1, <1>3, Unmoved
  <2> QED
    BY <1>1, <1>2, <1>3, <2>1, <2>2 DEF ChatCleared, Reached
<1>6. McpCleared(r)' /\ CallsCleared(r)' /\ CanaryOnRecord(r)'
  BY <1>1, <1>2, <1>3 DEF McpCleared, CallsCleared, CanaryOnRecord
<1> QED
  BY <1>1, <1>3, <1>4, <1>5, <1>6, GoesOnOK

LEMMA CanariesOK ==
  ASSUME GatewayInv, NEW r \in Requests, Canaries(r)
  PROVE  RequestOK(r)' /\ \E w : Touches(r, w)
<1> DEFINE e == Event("prompt_injection.blocked", "deny")
           w == CanaryEvents(input[r].messages) \o Maybe(blocked[r], e)
<1>1. /\ pc[r] = "canaries" /\ input[r].kind = "chat" /\ RequestOK(r)
      /\ UNCHANGED <<policy, reloads, input, at, seen, blocked, sent, during>>
      /\ \/ Store(r, w) /\ IF blocked[r] THEN Reply(r, "refused") ELSE Goto(r, "egress")
         \/ StoreFails(r, w)
  BY DEF Canaries, Is, GatewayInv
<1>2. /\ at \in [Requests -> Nat \ {0}] /\ blocked \in [Requests -> BOOLEAN]
      /\ ~sent[r] /\ answer[r] = "none" /\ at[r] = 1 /\ input[r] \in Inputs
  BY <1>1 DEF GatewayInv, RequestOK, InPlace, ToolInv, TypeOK
<1>3. /\ w \in Seq(Entry)
      /\ HasCanary(input[r]) => \E x \in Entries(w) : x.type = "canary.trigger"
      /\ blocked[r] => \E x \in Entries(w) : x.decision = "deny"
  <2>1. e \in Entry
    BY DEF Event, Entry, EventTypes, Outcomes
  <2>2. e.decision = "deny" /\ Event("canary.trigger", "deny").type = "canary.trigger"
    BY DEF Event
  <2>3. Maybe(blocked[r], e) \in Seq(Entry) /\ (blocked[r] => e \in Entries(Maybe(blocked[r], e)))
    BY <2>1, OneEntry, NoEntry DEF Maybe
  <2> QED
    BY <1>1, <1>2, <2>2, <2>3, CanaryEventsAre, MoreEntries
<1> HIDE DEF w
<1>4. CASE StoreFails(r, w)
  BY <1>1, <1>2, <1>3, <1>4, StoresOrFails, FailsOK
<1>5. CASE Store(r, w) /\ blocked[r] /\ Reply(r, "refused")
  <2>1. Touches(r, w) /\ pc'[r] = "done" /\ answer'[r] = "refused"
    BY <1>1, <1>3, <1>5, RestAside, ReplyTouches DEF Answers
  <2>2. /\ DenialStored(r)' /\ (HasCanary(input[r]) => Stored(r, "canary.trigger")') /\ input' = input
    BY <1>1, <1>3, <1>5, <2>1, Unmoved
  <2>3. Trusted(r)' /\ RefusalOnRecord(r)' /\ CanaryOnRecord(r)'
    BY <1>1, <2>1, <2>2 DEF Trusted, RefusalOnRecord, CanaryOnRecord
  <2> QED
    BY <1>1, <2>1, <2>3, AnswersOK
<1>6. CASE Store(r, w) /\ ~blocked[r] /\ Goto(r, "egress")
  <2>1. Touches(r, w) /\ pc'[r] = "egress" /\ answer'[r] = answer[r]
    BY <1>1, <1>3, <1>6, RestAside, GotoTouches
  <2>2. /\ HasCanary(input[r]) => Stored(r, "canary.trigger")'
        /\ \A n : MessagePasses(r, n)' <=> MessagePasses(r, n)
    BY <1>1, <1>3, <2>1, Unmoved
  <2>3. InPlace(r)'
    BY <1>1, <1>2, <2>1 DEF InPlace
  <2>4. ChatCleared(r)'
    BY <1>1, <1>2, <1>6, <2>1, <2>2 DEF RequestOK, ChatCleared, Reached
  <2>5. McpCleared(r)' /\ CallsCleared(r)' /\ CanaryOnRecord(r)'
    BY <1>1, <1>2, <2>1, <2>2 DEF McpCleared, CallsCleared, CanaryOnRecord
  <2> QED
    BY <1>1, <2>1, <2>3, <2>4, <2>5, GoesOnOK
<1> QED
  BY <1>1, <1>4, <1>5, <1>6

LEMMA EgressOK ==
  ASSUME GatewayInv, NEW r \in Requests, Egress(r)
  PROVE  RequestOK(r)' /\ \E w : Touches(r, w)
<1> DEFINE messages == input[r].messages
           d == EgressDecision(policy, messages)
           w == EgressEvents(d, messages)
<1>1. /\ pc[r] = "egress" /\ input[r].kind = "chat" /\ RequestOK(r)
      /\ UNCHANGED <<policy, reloads, input, at, seen, blocked, sent, during>>
      /\ \/ Store(r, w) /\ IF EgressRefused(d) THEN Reply(r, "refused") ELSE Goto(r, "tool")
         \/ StoreFails(r, w)
  BY DEF Egress, Is, GatewayInv
<1>2. /\ at \in [Requests -> Nat \ {0}] /\ blocked \in [Requests -> BOOLEAN]
      /\ ~sent[r] /\ answer[r] = "none" /\ at[r] = 1 /\ input[r] \in Inputs /\ policy \in during[r]
  BY <1>1 DEF GatewayInv, RequestOK, InPlace, InForce, ToolInv, TypeOK
<1>3. w \in Seq(Entry) /\ (EgressRefused(d) => \E x \in Entries(w) : x.decision = "deny")
  <2> DEFINE e1 == Event("canary.trigger", "deny")
             e2 == Event("secret.detected", IF d.action = "deny" THEN "deny" ELSE "allow")
             e3 == Event("chat.completion", "deny")
             w1 == Maybe(d.canary, e1)
             w2 == Maybe(InBlob(messages, "secret"), e2)
             w3 == Maybe(EgressRefused(d), e3)
  <2>1. e1 \in Entry /\ e2 \in Entry /\ e3 \in Entry /\ e3.decision = "deny"
    BY DEF Event, Entry, EventTypes, Outcomes
  <2> HIDE DEF e1, e2, e3
  <2>2. /\ w1 \in Seq(Entry) /\ w2 \in Seq(Entry) /\ w3 \in Seq(Entry)
        /\ EgressRefused(d) => e3 \in Entries(w3)
    BY <2>1, OneEntry, NoEntry DEF Maybe
  <2>3. w = w1 \o w2 \o w3
    BY DEF EgressEvents, e1, e2, e3
  <2> HIDE DEF w, w1, w2, w3
  <2>4. w1 \o w2 \in Seq(Entry)
    BY <2>2, MoreEntries
  <2> QED
    BY <2>1, <2>2, <2>3, <2>4, MoreEntries
<1> HIDE DEF w
<1>4. CASE StoreFails(r, w)
  BY <1>1, <1>2, <1>3, <1>4, StoresOrFails, FailsOK
<1>5. CASE Store(r, w) /\ EgressRefused(d) /\ Reply(r, "refused")
  <2>1. Touches(r, w) /\ pc'[r] = "done" /\ answer'[r] = "refused"
    BY <1>1, <1>3, <1>5, RestAside, ReplyTouches DEF Answers
  <2>2. DenialStored(r)' /\ (Stored(r, "canary.trigger") => Stored(r, "canary.trigger")') /\ input' = input
    BY <1>1, <1>3, <1>5, <2>1, Unmoved
  <2>3. Trusted(r)' /\ RefusalOnRecord(r)' /\ CanaryOnRecord(r)'
    BY <1>1, <2>1, <2>2 DEF RequestOK, Trusted, RefusalOnRecord, CanaryOnRecord
  <2> QED
    BY <1>1, <2>1, <2>3, AnswersOK
<1>6. CASE Store(r, w) /\ ~EgressRefused(d) /\ Goto(r, "tool")
  <2>1. Touches(r, w) /\ pc'[r] = "tool" /\ answer'[r] = answer[r]
    BY <1>1, <1>3, <1>6, RestAside, GotoTouches
  <2>2. /\ Stored(r, "canary.trigger") => Stored(r, "canary.trigger")'
        /\ \A n : MessagePasses(r, n)' <=> MessagePasses(r, n)
        /\ TextPasses(r)' <=> TextPasses(r)
    BY <1>1, <1>3, <2>1, Unmoved
  <2>3. InPlace(r)'
    BY <1>1, <1>2, <2>1 DEF InPlace
  <2>4. TextPasses(r)
    BY <1>2, <1>6, TextOK DEF TextPasses
  <2>5. ChatCleared(r)'
    BY <1>1, <1>2, <2>1, <2>2, <2>4 DEF RequestOK, ChatCleared, Reached
  <2>6. CallsCleared(r)'
    <3>1. \A n \in DOMAIN Calls(input[r]) : ~(n < at[r])
      BY <1>1, <1>2, Indices DEF ToolKinds
    <3> QED
      BY <1>1, <3>1 DEF CallsCleared
  <2>7. McpCleared(r)' /\ CanaryOnRecord(r)'
    BY <1>1, <1>2, <2>1, <2>2 DEF RequestOK, McpCleared, CanaryOnRecord
  <2> QED
    BY <1>1, <2>1, <2>3, <2>5, <2>6, <2>7, GoesOnOK
<1> QED
  BY <1>1, <1>4, <1>5, <1>6

LEMMA WaitingOK ==
  ASSUME GatewayInv, NEW r \in Requests, Waiting(r)
  PROVE  RequestOK(r)' /\ \E w : Touches(r, w)
<1>1. /\ pc[r] = "waiting" /\ RequestOK(r)
      /\ UNCHANGED <<policy, reloads, input, at, seen, blocked, stored, sent, during>>
  BY DEF Waiting, GatewayInv
<1>2. PICK a \in {"ok", "refused", "error"} : Reply(r, a)
  BY DEF Waiting
<1>3. Touches(r, <<>>) /\ pc'[r] = "done" /\ answer'[r] = a
  BY <1>1, <1>2, RestAside, NothingStored, NoEntry, ReplyTouches DEF Answers
<1>4. /\ ~sent[r] /\ input[r].kind = "enforce" /\ Stored(r, "approvals row")
      /\ input[r].call.canary => Stored(r, "canary.trigger")
  BY <1>1 DEF RequestOK, InPlace, RefusalOnRecord, CanaryOnRecord
<1>5. \A type : Stored(r, type) => Stored(r, type)'
  BY <1>1, <1>3, Unmoved
<1>6. Trusted(r)' /\ RefusalOnRecord(r)' /\ CanaryOnRecord(r)'
  BY <1>1, <1>3, <1>4, <1>5 DEF Trusted, RefusalOnRecord, CanaryOnRecord
<1> QED
  BY <1>1, <1>3, <1>6, AnswersOK

LEMMA ToolsEndOK ==
  ASSUME GatewayInv, NEW r \in Requests, ToolsEnd(r)
  PROVE  RequestOK(r)' /\ \E w : Touches(r, w)
<1>1. /\ pc[r] = "tool" /\ input[r].kind = "chat" /\ at[r] > Len(Calls(input[r])) /\ RequestOK(r)
      /\ UNCHANGED <<policy, reloads, input, at, seen, blocked, stored, sent, during>>
      /\ Goto(r, "forward")
  BY DEF ToolsEnd, Is, GatewayInv
<1>2. at[r] \in Nat /\ ~sent[r] /\ answer[r] = "none" /\ input[r] \in Inputs
  BY <1>1 DEF GatewayInv, RequestOK, InPlace, ToolInv
<1>3. Touches(r, <<>>) /\ pc'[r] = "forward" /\ answer'[r] = answer[r]
  BY <1>1, RestAside, NothingStored, NoEntry, GotoTouches
<1>4. \A n \in DOMAIN Calls(input[r]) : CallPasses(r, n)
  <2>1. \A n \in DOMAIN Calls(input[r]) : n < at[r]
    BY <1>1, <1>2, Indices DEF ToolKinds
  <2> QED
    BY <1>1, <2>1 DEF RequestOK, CallsCleared
<1>5. /\ \A n : /\ MessagePasses(r, n)' <=> MessagePasses(r, n)
                /\ CallPasses(r, n)' <=> CallPasses(r, n)
      /\ TextPasses(r)' <=> TextPasses(r)
      /\ \A type : Stored(r, type) => Stored(r, type)'
  BY <1>1, <1>3, Unmoved
<1>6. ChatCleared(r)'
  BY <1>1, <1>2, <1>3, <1>4, <1>5 DEF RequestOK, ChatCleared, Reached
<1>7. InPlace(r)' /\ McpCleared(r)' /\ CallsCleared(r)' /\ CanaryOnRecord(r)'
  BY <1>1, <1>2, <1>3, <1>5 DEF RequestOK, InPlace, McpCleared, CallsCleared, CanaryOnRecord
<1> QED
  BY <1>1, <1>3, <1>6, <1>7, GoesOnOK

LEMMA ForwardOK ==
  ASSUME GatewayInv, NEW r \in Requests, Forward(r)
  PROVE  RequestOK(r)' /\ \E w : Touches(r, w)
<1> DEFINE w == <<Event("chat.completion", "allow")>>
<1>1. /\ pc[r] = "forward" /\ input[r].kind = "chat" /\ RequestOK(r) /\ w \in Seq(Entry)
      /\ UNCHANGED <<policy, reloads, input, at, seen, blocked, during>>
      /\ \/ Store(r, w) /\ Goto(r, "upstream") /\ sent' = [sent EXCEPT ![r] = TRUE]
         \/ StoreFails(r, w) /\ UNCHANGED sent
  <2>1. Event("chat.completion", "allow") \in Entry
    BY DEF Event, Entry, EventTypes, Outcomes
  <2> QED
    BY <2>1, OneEntry DEF Forward, Is, GatewayInv
<1>2. /\ at \in [Requests -> Nat \ {0}] /\ blocked \in [Requests -> BOOLEAN] /\ sent \in [Requests -> BOOLEAN]
      /\ answer[r] = "none"
  BY <1>1 DEF GatewayInv, RequestOK, InPlace, ToolInv, TypeOK
<1> HIDE DEF w
<1>3. CASE StoreFails(r, w) /\ UNCHANGED sent
  BY <1>1, <1>2, <1>3, StoresOrFails, FailsOK
<1>4. CASE Store(r, w) /\ Goto(r, "upstream") /\ sent' = [sent EXCEPT ![r] = TRUE]
  <2>1. Aside(r) /\ sent'[r]
    BY <1>1, <1>2, <1>4 DEF Aside
  <2>2. Touches(r, w) /\ pc'[r] = "upstream" /\ answer'[r] = answer[r]
    BY <1>1, <1>4, <2>1, GotoTouches
  <2>3. /\ \A n : /\ MessagePasses(r, n)' <=> MessagePasses(r, n)
                  /\ CallPasses(r, n)' <=> CallPasses(r, n)
        /\ TextPasses(r)' <=> TextPasses(r)
        /\ \A type : Stored(r, type) => Stored(r, type)'
    BY <1>1, <2>2, Unmoved
  <2>4. ChatCleared(r)'
    BY <1>1, <2>2, <2>3 DEF RequestOK, ChatCleared, Reached
  <2>5. InPlace(r)' /\ McpCleared(r)' /\ CallsCleared(r)' /\ CanaryOnRecord(r)'
    BY <1>1, <1>2, <2>1, <2>2, <2>3 DEF RequestOK, InPlace, McpCleared, CallsCleared, CanaryOnRecord
  <2> QED
    BY <1>1, <2>2, <2>4, <2>5, GoesOnOK
<1> QED
  BY <1>1, <1>3, <1>4

\* What is stored of a decision about a tool call.
Documents(w, c, d) ==
  /\ w \in Seq(Entry)
  /\ c.canary => \E e \in Entries(w) : e.type = "canary.trigger"
  /\ d.action = "deny" => \E e \in Entries(w) : e.decision = "deny"
  /\ d.action = "require_approval" => /\ \E e \in Entries(w) : e.type = "approvals row"
                                     /\ \E e \in Entries(w) : e.type = "approval.requested"

LEMMA ToolDocuments ==
  ASSUME NEW p, NEW c
  PROVE  LET d == Decision(p, c)
             w == EnforceEvents(c, d)
         IN Documents(w, c, d) /\ Documents(Append(w, Event("mcp.proxy", "deny")), c, d)
<1> DEFINE d == Decision(p, c)
           w == EnforceEvents(c, d)
           e == Event("mcp.proxy", "deny")
<1>1. /\ Event("canary.trigger", "deny").type = "canary.trigger"
      /\ Event("policy.decision", "deny").decision = "deny"
      /\ Event("approvals row", "none").type = "approvals row"
      /\ Event("approval.requested", d.action).type = "approval.requested"
  BY DEF Event
<1>2. Documents(w, c, d)
  BY <1>1, EnforceEventsAre DEF Documents
<1>3. e \in Entry
  BY DEF Event, Entry, EventTypes, Outcomes
<1> HIDE DEF w, e
<1>4. Append(w, e) = w \o <<e>>
  BY <1>2, <1>3, AppendIsConcat DEF Documents
<1>5. Append(w, e) \in Seq(Entry) /\ Entries(w) \subseteq Entries(Append(w, e))
  BY <1>2, <1>3, <1>4, OneEntry, MoreEntries DEF Documents
<1> QED
  BY <1>2, <1>5 DEF Documents, w, e

LEMMA ToolAnswers ==
  ASSUME GatewayInv, NEW r \in Requests, NEW w, NEW d, NEW a,
         pc[r] = "tool", Touches(r, w), pc'[r] = "done", answer'[r] = a, sent'[r] = sent[r],
         Documents(w, Calls(input[r])[at[r]], d), at[r] <= Len(Calls(input[r])),
         \/ a = "refused" /\ d.action \in {"deny", "require_approval"}
         \/ a = "pending" /\ d.action = "require_approval"
         \/ a = "ok" /\ input[r].kind = "enforce"
  PROVE  RequestOK(r)'
<1> DEFINE c == Calls(input[r])[at[r]]
<1>1. /\ RequestOK(r) /\ ~sent[r] /\ input' = input /\ input[r].kind \in ToolKinds
      /\ input[r].kind = "chat" /\ HasCanary(input[r]) => Stored(r, "canary.trigger")
  BY Unmoved DEF GatewayInv, ToolInv, RequestOK, InPlace, CanaryOnRecord
<1>2. input[r].kind = "enforce" => c = input[r].call
  <2>1. at[r] \in Nat \ {0}
    BY DEF GatewayInv, ToolInv
  <2>2. CASE input[r].kind = "enforce"
    <3>1. Calls(input[r]) = <<input[r].call>>
      BY <2>2 DEF Calls
    <3> QED
      BY <2>1, <3>1
  <2> QED
    BY <2>2
<1> HIDE DEF c
<1>3. /\ \A type : Stored(r, type) => Stored(r, type)'
      /\ c.canary => Stored(r, "canary.trigger")'
      /\ d.action = "deny" => DenialStored(r)'
      /\ d.action = "require_approval" =>
           Stored(r, "approvals row")' /\ Stored(r, "approval.requested")'
  BY Unmoved DEF Documents, c
<1>4. Trusted(r)'
  BY <1>1 DEF Trusted, ToolKinds
<1>5. RefusalOnRecord(r)'
  BY <1>3 DEF RefusalOnRecord
<1>6. CanaryOnRecord(r)'
  BY <1>1, <1>2, <1>3 DEF CanaryOnRecord
<1> QED
  BY <1>4, <1>5, <1>6, AnswersOK

LEMMA ToolOK ==
  ASSUME GatewayInv, NEW r \in Requests, Tool(r)
  PROVE  RequestOK(r)' /\ \E w : Touches(r, w)
<1> DEFINE x == input[r]
           c == Calls(x)[at[r]]
           d == Decision(policy, c)
           events == EnforceEvents(c, d)
<1>1. /\ pc[r] = "tool" /\ at[r] <= Len(Calls(x)) /\ RequestOK(r)
      /\ UNCHANGED <<policy, reloads, input, seen, blocked, sent, during>>
      /\ \/ /\ \/ Store(r, events)
               \/ Store(r, Append(events, Event("mcp.proxy", "deny")))
            /\ IF d.action # "allow" THEN NotAllowed(r, d) /\ UNCHANGED at
               ELSE /\ at' = [at EXCEPT ![r] = @ + 1]
                    /\ CASE x.kind = "enforce" -> Reply(r, "ok")
                         [] x.kind = "mcp" -> Goto(r, "proxy")
                         [] OTHER -> Goto(r, "tool")
         \/ StoreFails(r, events) /\ UNCHANGED at
  BY DEF Tool, GatewayInv
<1>2. /\ at \in [Requests -> Nat \ {0}] /\ blocked \in [Requests -> BOOLEAN]
      /\ ~sent[r] /\ answer[r] = "none" /\ x \in Inputs /\ x.kind \in ToolKinds /\ policy \in during[r]
  BY <1>1 DEF GatewayInv, RequestOK, InPlace, InForce, ToolInv, TypeOK
<1>3. Documents(events, c, d) /\ Documents(Append(events, Event("mcp.proxy", "deny")), c, d)
  BY ToolDocuments
<1>4. d.action \in {"deny", "require_approval", "allow"}
  BY DecisionIs
<1>5. d.action = "allow" => CallPasses(r, at[r])
  BY <1>2 DEF CallPasses
<1> HIDE DEF events, d
<1>6. CASE StoreFails(r, events) /\ UNCHANGED at
  BY <1>1, <1>2, <1>3, <1>6, StoresOrFails, FailsOK DEF Documents
<1>7. ASSUME NEW w, Documents(w, c, d), Store(r, w),
             IF d.action # "allow" THEN NotAllowed(r, d) /\ UNCHANGED at
             ELSE /\ at' = [at EXCEPT ![r] = @ + 1]
                  /\ CASE x.kind = "enforce" -> Reply(r, "ok")
                       [] x.kind = "mcp" -> Goto(r, "proxy")
                       [] OTHER -> Goto(r, "tool")
      PROVE  RequestOK(r)' /\ \E v : Touches(r, v)
  <2>1. Aside(r) /\ w \in Seq(Entry)
    <3>1. at' = at \/ \E n : at' = [at EXCEPT ![r] = n]
      BY <1>7
    <3> QED
      BY <1>1, <1>7, <3>1, RestAside DEF Documents
  <2>2. ASSUME NEW a \in Answers, Reply(r, a),
               \/ a = "refused" /\ d.action \in {"deny", "require_approval"}
               \/ a = "pending" /\ d.action = "require_approval"
               \/ a = "ok" /\ x.kind = "enforce"
        PROVE  RequestOK(r)' /\ \E v : Touches(r, v)
    <3>1. Touches(r, w) /\ pc'[r] = "done" /\ answer'[r] = a
      BY <1>7, <2>1, <2>2, ReplyTouches
    <3>2. sent'[r] = sent[r]
      BY <1>1
    <3> QED
      BY <1>1, <1>7, <2>2, <3>1, <3>2, ToolAnswers
  <2>3. CASE d.action # "allow" /\ NotAllowed(r, d) /\ UNCHANGED at
    <3>1. CASE Goto(r, "waiting") /\ x.kind = "enforce" /\ d.action = "require_approval"
      <4>1. Touches(r, w) /\ pc'[r] = "waiting" /\ answer'[r] = "none" /\ ~sent'[r]
        BY <1>1, <1>2, <1>7, <2>1, <3>1, GotoTouches
      <4>2. c = x.call
        <5>1. Calls(x) = <<x.call>> /\ at[r] \in Nat \ {0}
          BY <1>2, <3>1 DEF Calls
        <5> QED
          BY <1>1, <5>1
      <4>3. /\ c.canary => Stored(r, "canary.trigger")'
            /\ Stored(r, "approvals row")' /\ InForce(r)'
        BY <1>1, <1>7, <3>1, <4>1, Unmoved DEF Documents
      <4>4. InPlace(r)' /\ Trusted(r)' /\ RefusalOnRecord(r)'
        BY <1>1, <3>1, <4>1, <4>3 DEF InPlace, Trusted, RefusalOnRecord
      <4>5. ChatCleared(r)' /\ McpCleared(r)' /\ CallsCleared(r)' /\ CanaryOnRecord(r)'
        BY <1>1, <3>1, <4>1, <4>2, <4>3 DEF ChatCleared, McpCleared, CallsCleared, CanaryOnRecord
      <4> QED
        BY <4>1, <4>3, <4>4, <4>5 DEF RequestOK
    <3>2. CASE Reply(r, "refused")
      BY <1>4, <2>2, <2>3, <3>2 DEF Answers
    <3>3. CASE Reply(r, "pending") /\ d.action # "deny"
      BY <1>4, <2>2, <2>3, <3>3 DEF Answers
    <3> QED
      BY <1>4, <2>3, <3>1, <3>2, <3>3 DEF NotAllowed
  <2>4. CASE d.action = "allow" /\ at' = [at EXCEPT ![r] = @ + 1] /\ x.kind = "enforce" /\ Reply(r, "ok")
    BY <2>2, <2>4 DEF Answers
  <2>5. CASE d.action = "allow" /\ at' = [at EXCEPT ![r] = @ + 1] /\ x.kind # "enforce"
    <3> DEFINE l == IF x.kind = "mcp" THEN "proxy" ELSE "tool"
    <3>1. Goto(r, l)
      BY <1>7, <2>5
    <3>2. Touches(r, w) /\ pc'[r] = l /\ answer'[r] = "none" /\ ~sent'[r]
      BY <1>1, <1>2, <1>7, <2>1, <3>1, GotoTouches
    <3>3. /\ \A n : /\ MessagePasses(r, n)' <=> MessagePasses(r, n)
                    /\ CallPasses(r, n)' <=> CallPasses(r, n)
          /\ TextPasses(r)' <=> TextPasses(r)
          /\ \A type : Stored(r, type) => Stored(r, type)'
      BY <1>1, <3>2, Unmoved
    <3>4. at'[r] = at[r] + 1
      BY <1>2, <2>5
    <3>5. \A n \in DOMAIN Calls(x) : n < at[r] + 1 => CallPasses(r, n)
      <4>1. \A n \in DOMAIN Calls(x) : n < at[r] + 1 => n < at[r] \/ n = at[r]
        BY <1>2, Indices
      <4> QED
        BY <1>1, <1>5, <2>5, <4>1 DEF RequestOK, CallsCleared
    <3>6. InPlace(r)' /\ CanaryOnRecord(r)'
      BY <1>1, <2>5, <3>2, <3>3 DEF InPlace, RequestOK, CanaryOnRecord
    <3>7. ChatCleared(r)'
      BY <1>1, <1>2, <3>2, <3>3 DEF RequestOK, ChatCleared, Reached
    <3>8. McpCleared(r)'
      <4>1. CASE x.kind = "mcp"
        <5>1. \A n \in DOMAIN Calls(x) : n < at[r] + 1
          <6>1. Calls(x) = <<McpCall(x.server, x.tool)>>
            BY <4>1 DEF Calls
          <6> HIDE DEF x
          <6>2. \A n \in DOMAIN Calls(x) : n = 1
            BY <6>1
          <6> QED
            BY <1>2, <6>2
        <5>2. \A n \in DOMAIN Calls(x) : CallPasses(r, n)
          BY <3>5, <5>1
        <5> QED
          BY <1>1, <1>2, <3>2, <3>3, <4>1, <5>2 DEF RequestOK, McpCleared, Reached
      <4> QED
        BY <1>1, <4>1 DEF McpCleared
    <3>9. CallsCleared(r)'
      BY <1>1, <3>3, <3>4, <3>5 DEF CallsCleared
    <3> QED
      BY <1>1, <1>2, <3>2, <3>6, <3>7, <3>8, <3>9, GoesOnOK
  <2> QED
    BY <1>7, <2>3, <2>4, <2>5
<1> QED
  BY <1>1, <1>3, <1>6, <1>7

LEMMA ScanOK ==
  ASSUME GatewayInv, NEW r \in Requests, Scan(r)
  PROVE  RequestOK(r)' /\ \E w : Touches(r, w)
<1> DEFINE x == input[r]
           w == ScanEvents(policy, x.source, x.hit)
           a == IF ScanBlocks(policy, x.source, x.hit) THEN "refused" ELSE "ok"
<1>1. /\ pc[r] = "scan" /\ x.kind = "scan" /\ RequestOK(r)
      /\ UNCHANGED <<policy, reloads, input, at, seen, blocked, sent, during>>
      /\ (Store(r, w) /\ Reply(r, a)) \/ StoreFails(r, w)
  BY DEF Scan, Is, GatewayInv
<1>2. at \in [Requests -> Nat \ {0}] /\ blocked \in [Requests -> BOOLEAN] /\ a \in Answers
  BY DEF GatewayInv, ToolInv, TypeOK, Answers
<1>3. w \in Seq(Entry) /\ (a = "refused" => \E e \in Entries(w) : e.decision = "deny")
  <2>1. Event("prompt_injection.blocked", "deny").decision = "deny"
    BY DEF Event
  <2> QED
    BY <2>1, ScanEventsAre
<1> HIDE DEF w
<1>4. CASE StoreFails(r, w)
  BY <1>1, <1>2, <1>3, <1>4, StoresOrFails, FailsOK
<1>5. CASE Store(r, w) /\ Reply(r, a)
  <2> HIDE DEF a
  <2>1. Touches(r, w) /\ pc'[r] = "done" /\ answer'[r] = a
    BY <1>1, <1>2, <1>3, <1>5, RestAside, ReplyTouches
  <2>2. a = "refused" => DenialStored(r)'
    BY <1>1, <1>3, <2>1, Unmoved
  <2>3. a \in {"refused", "ok"}
    BY DEF a
  <2>4. Trusted(r)' /\ RefusalOnRecord(r)' /\ CanaryOnRecord(r)'
    BY <1>1, <2>1, <2>2, <2>3 DEF Trusted, RefusalOnRecord, CanaryOnRecord
  <2> QED
    BY <1>1, <2>1, <2>4, AnswersOK
<1> QED
  BY <1>1, <1>4, <1>5

\* An error, or a bad gateway, asks for no record.
LEMMA ErrorsOK ==
  ASSUME GatewayInv, NEW r \in Requests, NEW w, Touches(r, w), pc[r] \notin {"idle", "done"},
         pc'[r] = "done", answer'[r] \in {"error", "bad gateway"}, sent'[r] = sent[r]
  PROVE  RequestOK(r)'
<1>1. /\ RequestOK(r) /\ input' = input /\ \A type : Stored(r, type) => Stored(r, type)'
  BY Unmoved DEF GatewayInv
<1>2. Trusted(r)' /\ RefusalOnRecord(r)' /\ CanaryOnRecord(r)'
  BY <1>1 DEF RequestOK, Trusted, RefusalOnRecord, CanaryOnRecord
<1> QED
  BY <1>2, AnswersOK

LEMMA EnsureSessionOK ==
  ASSUME GatewayInv, NEW r \in Requests, EnsureSession(r)
  PROVE  RequestOK(r)' /\ \E w : Touches(r, w)
<1>1. /\ pc[r] = "open" /\ input[r].kind = "a2a" /\ RequestOK(r)
      /\ UNCHANGED <<policy, reloads, input, at, seen, blocked, stored, sent, during>>
      /\ Goto(r, "decide") \/ Reply(r, "error")
  BY DEF EnsureSession, GatewayInv
<1>2. CASE Goto(r, "decide")
  <2>1. Touches(r, <<>>) /\ pc'[r] = "decide" /\ answer'[r] = answer[r]
    BY <1>1, <1>2, RestAside, NothingStored, NoEntry, GotoTouches
  <2>2. /\ InPlace(r)' /\ ChatCleared(r)' /\ McpCleared(r)' /\ CallsCleared(r)' /\ CanaryOnRecord(r)'
    BY <1>1, <2>1 DEF RequestOK, InPlace, ChatCleared, McpCleared, CallsCleared, CanaryOnRecord
  <2> QED
    BY <1>1, <2>1, <2>2, GoesOnOK
<1>3. CASE Reply(r, "error")
  <2>1. Touches(r, <<>>) /\ pc'[r] = "done" /\ answer'[r] = "error"
    BY <1>1, <1>3, RestAside, NothingStored, NoEntry, ReplyTouches DEF Answers
  <2> QED
    BY <1>1, <2>1, ErrorsOK
<1> QED
  BY <1>1, <1>2, <1>3

LEMMA DecideOK ==
  ASSUME GatewayInv, NEW r \in Requests, Decide(r)
  PROVE  RequestOK(r)' /\ \E w : Touches(r, w)
<1> DEFINE x == input[r]
           d == A2ADecision(seen[r].a2a, x)
           w == A2AEvents(d)
           a == CASE d.action = "allow" -> "ok"
                  [] d.action = "quarantine" -> "quarantined"
                  [] d.action = "deny" -> "refused"
<1>1. /\ pc[r] = "decide" /\ x.kind = "a2a" /\ RequestOK(r)
      /\ UNCHANGED <<policy, reloads, input, at, seen, blocked, sent, during>>
      /\ (Store(r, w) /\ Reply(r, a)) \/ StoreFails(r, w)
  BY DEF Decide, Is, GatewayInv
<1>2. /\ at \in [Requests -> Nat \ {0}] /\ blocked \in [Requests -> BOOLEAN] /\ ~sent[r]
      /\ seen[r] \in Policies /\ seen[r] \in during[r]
  BY <1>1 DEF GatewayInv, ToolInv, TypeOK, RequestOK, InPlace, InForce
<1>3. d.action \in {"allow", "deny", "quarantine"} /\ w \in Seq(Entry)
  BY A2AEventsAre
<1>4. /\ d.action = "deny" => \E e \in Entries(w) : e.decision = "deny"
      /\ d.action = "quarantine" => \E e \in Entries(w) : e.type = "a2a.quarantined"
  <2>1. Event("a2a.blocked", "deny").decision = "deny"
        /\ Event("a2a.quarantined", "quarantine").type = "a2a.quarantined"
    BY DEF Event
  <2> QED
    BY <2>1, A2AEventsAre
<1>5. /\ a \in {"ok", "quarantined", "refused"} /\ a \in Answers
      /\ (a = "ok" => d.action = "allow") /\ (a = "refused" => d.action = "deny")
      /\ (a = "quarantined" => d.action = "quarantine")
  BY <1>3 DEF Answers
<1> HIDE DEF w, a
<1>6. CASE StoreFails(r, w)
  BY <1>1, <1>2, <1>3, <1>6, StoresOrFails, FailsOK
<1>7. CASE Store(r, w) /\ Reply(r, a)
  <2>1. Touches(r, w) /\ pc'[r] = "done" /\ answer'[r] = a
    BY <1>1, <1>3, <1>5, <1>7, RestAside, ReplyTouches
  <2>2. (a = "refused" => DenialStored(r)') /\ (a = "quarantined" => Stored(r, "a2a.quarantined")')
    BY <1>1, <1>4, <1>5, <2>1, Unmoved
  <2>3. Trusted(r)'
    <3>1. a = "ok" => Trusted(r)'
      <4> SUFFICES ASSUME a = "ok"
                   PROVE  Trusted(r)'
        OBVIOUS
      <4>1. A2ADecision(seen[r].a2a, x).action = "allow"
        BY <1>5
      <4>2. Deliverable(seen[r].a2a, x)
        BY <1>2, <4>1, DeliveredWasTrusted
      <4> QED
        BY <1>1, <1>2, <4>2 DEF Trusted
    <3> QED
      BY <2>1, <3>1 DEF Trusted
  <2>4. RefusalOnRecord(r)' /\ CanaryOnRecord(r)'
    BY <1>1, <1>5, <2>1, <2>2 DEF RefusalOnRecord, CanaryOnRecord
  <2> QED
    BY <1>1, <2>1, <2>3, <2>4, AnswersOK
<1> QED
  BY <1>1, <1>6, <1>7

\* The handlers that swallow a failing write.
LEMMA QuietlyStores ==
  ASSUME GatewayInv, NEW r \in Requests, NEW w, StoreQuietly(r, w)
  PROVE  \E v \in {w, <<>>} : Store(r, v)
BY NothingStored DEF StoreQuietly

LEMMA OpenMcpOK ==
  ASSUME GatewayInv, NEW r \in Requests, OpenMcp(r)
  PROVE  RequestOK(r)' /\ \E w : Touches(r, w)
<1> DEFINE x == input[r]
           w == <<Event("mcp.proxy", "deny")>>
<1>1. /\ pc[r] = "open" /\ x.kind = "mcp" /\ RequestOK(r)
      /\ UNCHANGED <<policy, reloads, input, at, seen, blocked, sent, during>>
      /\ \/ StoreQuietly(r, w) /\ Reply(r, "refused")
         \/ /\ ServerAllowed(seen[r], x.server) /\ UNCHANGED stored
            /\ Goto(r, IF x.toolCall THEN "tool" ELSE "proxy") \/ Reply(r, "error")
  BY DEF OpenMcp, Is, GatewayInv
<1>2. at \in [Requests -> Nat \ {0}] /\ ~sent[r] /\ stored[r] = <<>> /\ at[r] = 1 /\ x \in Inputs
  BY <1>1 DEF GatewayInv, ToolInv, RequestOK, InPlace
<1>3. CASE StoreQuietly(r, w) /\ Reply(r, "refused")
  <2>1. w \in Seq(Entry) /\ \A e \in Entries(w) : e.type = "mcp.proxy"
    <3>1. Event("mcp.proxy", "deny") \in Entry /\ Event("mcp.proxy", "deny").type = "mcp.proxy"
      BY DEF Event, Entry, EventTypes, Outcomes
    <3> QED
      BY <3>1, OneEntry
  <2> HIDE DEF w
  <2>2. PICK v \in {w, <<>>} : Store(r, v)
    BY <1>3, QuietlyStores
  <2>3. v \in Seq(Entry) /\ \A e \in Entries(v) : e.type = "mcp.proxy"
    BY <2>1, <2>2, NoEntry
  <2>4. Touches(r, v) /\ pc'[r] = "done" /\ answer'[r] = "refused"
    BY <1>1, <1>3, <2>2, <2>3, RestAside, ReplyTouches DEF Answers
  <2>5. ~Stored(r, "tool.call")'
    <3>1. ~Stored(r, "tool.call")
      BY <1>2 DEF Stored
    <3> QED
      BY <1>1, <2>3, <2>4, <3>1, Unmoved
  <2>6. Trusted(r)' /\ RefusalOnRecord(r)' /\ CanaryOnRecord(r)'
    BY <1>1, <2>4, <2>5 DEF Trusted, RefusalOnRecord, CanaryOnRecord
  <2> QED
    BY <1>1, <2>4, <2>6, AnswersOK
<1>4. CASE UNCHANGED stored /\ Reply(r, "error")
  <2>1. Touches(r, <<>>) /\ pc'[r] = "done" /\ answer'[r] = "error"
    BY <1>1, <1>4, RestAside, NothingStored, NoEntry, ReplyTouches DEF Answers
  <2> QED
    BY <1>1, <2>1, ErrorsOK
<1>5. CASE ServerAllowed(seen[r], x.server) /\ UNCHANGED stored
             /\ Goto(r, IF x.toolCall THEN "tool" ELSE "proxy")
  <2> DEFINE l == IF x.toolCall THEN "tool" ELSE "proxy"
  <2>1. Touches(r, <<>>) /\ pc'[r] = l /\ answer'[r] = answer[r]
    BY <1>1, <1>5, RestAside, NothingStored, NoEntry, GotoTouches
  <2>2. CallsCleared(r)'
    <3>1. \A n \in DOMAIN Calls(x) : ~(n < at[r])
      BY <1>1, <1>2, Indices DEF ToolKinds
    <3> QED
      BY <1>1, <3>1 DEF CallsCleared
  <2>3. McpCleared(r)'
    BY <1>1, <1>2, <1>5, <2>1 DEF McpCleared, Reached
  <2>4. pc'[r] \in {"tool", "proxy"} /\ answer'[r] = "none" /\ ~sent'[r] /\ input' = input
    BY <1>1, <1>2, <2>1 DEF RequestOK, InPlace
  <2>5. InPlace(r)' /\ ChatCleared(r)' /\ CanaryOnRecord(r)'
    BY <1>1, <2>4 DEF InPlace, ChatCleared, CanaryOnRecord
  <2> QED
    BY <1>1, <2>1, <2>2, <2>3, <2>4, <2>5, GoesOnOK
<1> QED
  BY <1>1, <1>3, <1>4, <1>5

\* The proxy's own answer to a result: none of its records is asked for.
LEMMA McpResultOK ==
  ASSUME GatewayInv, NEW r \in Requests, NEW hit, NEW ok, McpResult(r, hit, ok),
         UNCHANGED <<policy, input, at, seen, blocked, sent, during>>,
         pc[r] \notin {"idle", "done"}, input[r].kind = "mcp", sent[r] \/ ~input[r].url
  PROVE  RequestOK(r)' /\ \E w : Touches(r, w)
<1> DEFINE blocks == McpScanBlocks(hit)
           proxied == <<Event("mcp.proxy", IF blocks \/ ~ok THEN "deny" ELSE "allow")>>
           a == IF blocks THEN "refused" ELSE "ok"
<1>1. PICK found \in {<<>>, ScanEvents(policy, "untrusted", hit)}, done \in {<<>>, proxied} :
        Store(r, found \o done)
  BY DEF McpResult
<1>2. Reply(r, a) /\ a \in {"refused", "ok"} /\ a \in Answers
  BY DEF McpResult, Answers
<1>3. found \o done \in Seq(Entry)
  <2>1. Event("mcp.proxy", IF blocks \/ ~ok THEN "deny" ELSE "allow") \in Entry
    BY DEF Event, Entry, EventTypes, Outcomes
  <2>2. proxied \in Seq(Entry)
    BY <2>1, OneEntry
  <2> HIDE DEF proxied
  <2>3. done \in Seq(Entry) /\ found \in Seq(Entry)
    BY <1>1, <2>2, NoEntry, ScanEventsAre
  <2> QED
    BY <2>3, MoreEntries
<1> HIDE DEF a
<1>4. Touches(r, found \o done) /\ pc'[r] = "done" /\ answer'[r] = a
  BY <1>1, <1>2, <1>3, RestAside, ReplyTouches
<1>5. Trusted(r)' /\ RefusalOnRecord(r)' /\ CanaryOnRecord(r)'
  BY <1>2, <1>4 DEF Trusted, RefusalOnRecord, CanaryOnRecord
<1> QED
  BY <1>4, <1>5, AnswersOK

LEMMA ProxyOK ==
  ASSUME GatewayInv, NEW r \in Requests, Proxy(r)
  PROVE  RequestOK(r)' /\ \E w : Touches(r, w)
<1> DEFINE x == input[r]
<1>1. /\ pc[r] = "proxy" /\ x.kind = "mcp" /\ RequestOK(r)
      /\ UNCHANGED <<policy, reloads, input, at, seen, blocked, during>>
      /\ \/ Reply(r, "ok") /\ UNCHANGED <<stored, sent>>
         \/ ~x.url /\ McpResult(r, x.hit, TRUE) /\ UNCHANGED sent
         \/ Goto(r, "upstream") /\ sent' = [sent EXCEPT ![r] = TRUE] /\ UNCHANGED stored
  BY DEF Proxy, Is, GatewayInv
<1>2. /\ at \in [Requests -> Nat \ {0}] /\ sent \in [Requests -> BOOLEAN] /\ blocked \in [Requests -> BOOLEAN]
      /\ answer[r] = "none"
  BY <1>1 DEF GatewayInv, ToolInv, TypeOK, RequestOK, InPlace
<1>3. CASE Reply(r, "ok") /\ UNCHANGED <<stored, sent>>
  <2>1. Touches(r, <<>>) /\ pc'[r] = "done" /\ answer'[r] = "ok"
    BY <1>1, <1>3, RestAside, NothingStored, NoEntry, ReplyTouches DEF Answers
  <2>2. Trusted(r)' /\ RefusalOnRecord(r)' /\ CanaryOnRecord(r)'
    BY <1>1, <2>1 DEF Trusted, RefusalOnRecord, CanaryOnRecord
  <2> QED
    BY <1>1, <1>3, <2>1, <2>2, AnswersOK
<1>4. CASE ~x.url /\ McpResult(r, x.hit, TRUE) /\ UNCHANGED sent
  BY <1>1, <1>4, McpResultOK
<1>5. CASE Goto(r, "upstream") /\ sent' = [sent EXCEPT ![r] = TRUE] /\ UNCHANGED stored
  <2>1. Aside(r) /\ sent'[r]
    BY <1>1, <1>2, <1>5 DEF Aside
  <2>2. Touches(r, <<>>) /\ pc'[r] = "upstream" /\ answer'[r] = answer[r]
    BY <1>1, <1>5, <2>1, NothingStored, NoEntry, GotoTouches
  <2>3. \A n : CallPasses(r, n)' <=> CallPasses(r, n)
    BY <1>1, <2>2, Unmoved
  <2>4. McpCleared(r)'
    BY <1>1, <2>2, <2>3 DEF RequestOK, McpCleared, Reached
  <2>5. InPlace(r)' /\ ChatCleared(r)' /\ CallsCleared(r)' /\ CanaryOnRecord(r)'
    BY <1>1, <1>2, <2>1, <2>2 DEF InPlace, ChatCleared, CallsCleared, CanaryOnRecord
  <2> QED
    BY <1>1, <2>2, <2>4, <2>5, GoesOnOK
<1> QED
  BY <1>1, <1>3, <1>4, <1>5

LEMMA McpAnsweredOK ==
  ASSUME GatewayInv, NEW r \in Requests, McpAnswered(r)
  PROVE  RequestOK(r)' /\ \E w : Touches(r, w)
<1>1. /\ pc[r] = "upstream" /\ input[r].kind = "mcp" /\ RequestOK(r)
      /\ UNCHANGED <<policy, input, at, seen, blocked, sent, during>>
  BY DEF McpAnswered, Is, GatewayInv
<1>2. PICK hit, ok : McpResult(r, hit, ok)
  BY DEF McpAnswered
<1>3. sent[r]
  BY <1>1 DEF RequestOK, InPlace
<1> QED
  BY <1>1, <1>2, <1>3, McpResultOK

LEMMA McpFailsOK ==
  ASSUME GatewayInv, NEW r \in Requests, McpFails(r)
  PROVE  RequestOK(r)' /\ \E w : Touches(r, w)
<1> DEFINE w == <<Event("mcp.proxy", "deny")>>
<1>1. /\ pc[r] = "upstream" /\ StoreQuietly(r, w) /\ Reply(r, "bad gateway")
      /\ UNCHANGED <<policy, reloads, input, at, seen, blocked, sent, during>>
  BY DEF McpFails, Is
<1>2. w \in Seq(Entry)
  <2>1. Event("mcp.proxy", "deny") \in Entry
    BY DEF Event, Entry, EventTypes, Outcomes
  <2> QED
    BY <2>1, OneEntry
<1> HIDE DEF w
<1>3. PICK v \in {w, <<>>} : Store(r, v)
  BY <1>1, QuietlyStores
<1>4. v \in Seq(Entry)
  BY <1>2, <1>3, NoEntry
<1>5. Touches(r, v) /\ pc'[r] = "done" /\ answer'[r] = "bad gateway"
  BY <1>1, <1>3, <1>4, RestAside, ReplyTouches DEF Answers
<1> QED
  BY <1>1, <1>5, ErrorsOK

LEMMA ChatAnsweredOK ==
  ASSUME GatewayInv, NEW r \in Requests, ChatAnswered(r)
  PROVE  RequestOK(r)' /\ \E w : Touches(r, w)
<1> DEFINE w == <<Event("tool.result", "allow")>>
<1>1. /\ pc[r] = "upstream" /\ input[r].kind = "chat" /\ Store(r, w) /\ Reply(r, "ok") /\ RequestOK(r)
      /\ UNCHANGED <<policy, reloads, input, at, seen, blocked, sent, during>>
  BY DEF ChatAnswered, Is, GatewayInv
<1>2. w \in Seq(Entry)
  <2>1. Event("tool.result", "allow") \in Entry
    BY DEF Event, Entry, EventTypes, Outcomes
  <2> QED
    BY <2>1, OneEntry
<1> HIDE DEF w
<1>3. Touches(r, w) /\ pc'[r] = "done" /\ answer'[r] = "ok"
  BY <1>1, <1>2, RestAside, ReplyTouches DEF Answers
<1>4. \A type : Stored(r, type) => Stored(r, type)'
  BY <1>1, <1>3, Unmoved
<1>5. Trusted(r)' /\ RefusalOnRecord(r)' /\ CanaryOnRecord(r)'
  BY <1>1, <1>3, <1>4 DEF RequestOK, Trusted, RefusalOnRecord, CanaryOnRecord
<1> QED
  BY <1>1, <1>3, <1>5, AnswersOK

LEMMA ChatFailsOK ==
  ASSUME GatewayInv, NEW r \in Requests, ChatFails(r)
  PROVE  RequestOK(r)' /\ \E w : Touches(r, w)
<1> DEFINE w == <<Event("chat.completion", "deny")>>
<1>1. /\ pc[r] = "upstream" /\ ((Store(r, w) /\ Reply(r, "bad gateway")) \/ StoreFails(r, w))
      /\ UNCHANGED <<policy, reloads, input, at, seen, blocked, sent, during>>
  BY DEF ChatFails, Is
<1>2. /\ w \in Seq(Entry) /\ at \in [Requests -> Nat \ {0}] /\ blocked \in [Requests -> BOOLEAN]
  <2>1. Event("chat.completion", "deny") \in Entry
    BY DEF Event, Entry, EventTypes, Outcomes
  <2> QED
    BY <2>1, OneEntry DEF GatewayInv, ToolInv, TypeOK
<1> HIDE DEF w
<1>3. CASE StoreFails(r, w)
  BY <1>1, <1>2, <1>3, StoresOrFails, FailsOK
<1>4. CASE Store(r, w) /\ Reply(r, "bad gateway")
  <2>1. Touches(r, w) /\ pc'[r] = "done" /\ answer'[r] = "bad gateway"
    BY <1>1, <1>2, <1>4, RestAside, ReplyTouches DEF Answers
  <2> QED
    BY <1>1, <2>1, ErrorsOK
<1> QED
  BY <1>1, <1>3, <1>4

LEMMA HandlersOK ==
  ASSUME GatewayInv, NEW r \in Requests,
         Step(r) \/ ChatAnswered(r) \/ ChatFails(r) \/ McpAnswered(r)
  PROVE  GatewayInv'
<1>1. RequestOK(r)' /\ \E w : Touches(r, w)
  BY OpenChatOK, ScanMessageOK, ScanEndsOK, CanariesOK, EgressOK, ToolOK, WaitingOK, ToolsEndOK,
     ForwardOK, ScanOK, EnsureSessionOK, DecideOK, OpenMcpOK, ProxyOK, McpFailsOK,
     ChatAnsweredOK, ChatFailsOK, McpAnsweredOK DEF Step
<1>2. Moves(r)
  BY HandlersMove DEF GatewayInv
<1> QED
  BY <1>1, <1>2, TouchesKeeps

LEMMA ArriveOK ==
  ASSUME GatewayInv, NEW r \in Requests, Arrive(r), ToolInv'
  PROVE  GatewayInv'
<1>1. PICK x \in Inputs :
        /\ input' = [input EXCEPT ![r] = x]
        /\ \/ Reply(r, "invalid") /\ x.kind = "mcp"
           \/ \E l \in {"open", "tool", "scan"} :
                /\ Goto(r, l)
                /\ l = "open" => x.kind \in {"chat", "a2a", "mcp"}
                /\ l = "tool" => x.kind = "enforce"
                /\ l = "scan" => x.kind = "scan"
  BY InputsAssumption DEF Arrive
<1>2. /\ pc[r] = "idle" /\ seen' = [seen EXCEPT ![r] = policy] /\ during' = [during EXCEPT ![r] = {policy}]
      /\ UNCHANGED <<policy, reloads, at, blocked, stored, sent>>
  BY DEF Arrive
<1>3. /\ TypeOK /\ policy \in Policies /\ pc \in [Requests -> Places]
      /\ input \in [Requests -> Inputs \cup {None}]
      /\ answer \in [Requests -> Answers] /\ \A q \in Requests : RequestOK(q)
  BY DEF GatewayInv, ToolInv, TypeOK
<1>4. /\ \A q \in Requests \ {r} : /\ pc'[q] = pc[q] /\ answer'[q] = answer[q] /\ input'[q] = input[q]
                                   /\ seen'[q] = seen[q] /\ during'[q] = during[q]
      /\ answer' \in [Requests -> Answers]
  BY <1>1, <1>2, <1>3 DEF Goto, Reply, Answers, TypeOK
<1>5. TypeOK'
  BY <1>2, <1>3, <1>4 DEF TypeOK
<1>6. ASSUME NEW q \in Requests \ {r}
      PROVE  RequestOK(q)'
  <2>1. /\ \A l : Reached(q, l)' <=> Reached(q, l)
        /\ \A n : /\ MessagePasses(q, n)' <=> MessagePasses(q, n)
                  /\ CallPasses(q, n)' <=> CallPasses(q, n)
        /\ \A t : Stored(q, t)' <=> Stored(q, t)
        /\ DenialStored(q)' <=> DenialStored(q)
        /\ TextPasses(q)' <=> TextPasses(q)
    BY <1>2, <1>4 DEF Reached, MessagePasses, CallPasses, Stored, DenialStored, TextPasses
  <2>2. InPlace(q)' /\ InForce(q)' /\ Trusted(q)'
    BY <1>2, <1>3, <1>4 DEF RequestOK, InPlace, InForce, Trusted
  <2>3. ChatCleared(q)' /\ McpCleared(q)' /\ CallsCleared(q)'
    BY <1>2, <1>3, <1>4, <2>1 DEF RequestOK, ChatCleared, McpCleared, CallsCleared
  <2>4. RefusalOnRecord(q)' /\ CanaryOnRecord(q)'
    BY <1>2, <1>3, <1>4, <2>1 DEF RequestOK, RefusalOnRecord, CanaryOnRecord
  <2> QED
    BY <2>2, <2>3, <2>4 DEF RequestOK
<1>7. RequestOK(r)'
  <2>1. /\ ~sent'[r] /\ at'[r] = 1 /\ input'[r] = x /\ x \in Inputs
        /\ stored[r] = <<>> /\ stored'[r] = <<>> /\ answer[r] = "none"
    BY <1>1, <1>2, <1>3 DEF RequestOK, InPlace
  <2>2. InForce(r)'
    BY <1>2, <1>3 DEF InForce, TypeOK
  <2>3. CASE Reply(r, "invalid") /\ x.kind = "mcp"
    <3>1. pc'[r] = "done" /\ answer'[r] = "invalid"
      BY <1>3, <2>3 DEF Reply
    <3>2. InPlace(r)' /\ ChatCleared(r)' /\ McpCleared(r)' /\ CallsCleared(r)'
      BY <2>1, <2>3, <3>1 DEF InPlace, ChatCleared, McpCleared, CallsCleared, Reached
    <3>3. Trusted(r)' /\ RefusalOnRecord(r)' /\ CanaryOnRecord(r)'
      BY <2>1, <2>3, <3>1 DEF Trusted, RefusalOnRecord, CanaryOnRecord
    <3> QED
      BY <2>2, <3>2, <3>3 DEF RequestOK
  <2>4. ASSUME NEW l \in {"open", "tool", "scan"}, Goto(r, l),
               l = "open" => x.kind \in {"chat", "a2a", "mcp"},
               l = "tool" => x.kind = "enforce", l = "scan" => x.kind = "scan"
        PROVE  RequestOK(r)'
    <3>1. pc'[r] = l /\ answer'[r] = "none"
      BY <1>3, <2>1, <2>4 DEF Goto
    <3>2. CallsCleared(r)'
      <4>1. x.kind \in ToolKinds => \A n \in DOMAIN Calls(x) : ~(n < 1)
        BY <2>1, Indices
      <4> QED
        BY <2>1, <2>4, <3>1, <4>1 DEF CallsCleared, ToolKinds
    <3>3. InPlace(r)' /\ ChatCleared(r)' /\ McpCleared(r)'
      BY <2>1, <2>4, <3>1 DEF InPlace, ChatCleared, McpCleared, Reached
    <3>4. Trusted(r)' /\ RefusalOnRecord(r)' /\ CanaryOnRecord(r)'
      BY <2>1, <2>4, <3>1 DEF Trusted, RefusalOnRecord, CanaryOnRecord
    <3> QED
      BY <2>2, <3>2, <3>3, <3>4 DEF RequestOK
  <2> QED
    BY <1>1, <2>3, <2>4
<1> QED
  BY <1>5, <1>6, <1>7 DEF GatewayInv

\* A new policy takes nothing from what was in force before.
LEMMA ReloadOK ==
  ASSUME GatewayInv, Reload, ToolInv'
  PROVE  GatewayInv'
<1>1. /\ policy' \in Policies
      /\ during' = [q \in Requests |->
                     IF pc[q] \in {"idle", "done"} THEN during[q] ELSE during[q] \cup {policy'}]
      /\ UNCHANGED <<input, pc, at, seen, blocked, stored, sent, answer>>
  BY DEF Reload
<1>2. TypeOK'
  BY <1>1 DEF GatewayInv, TypeOK
<1>3. ASSUME NEW q \in Requests
      PROVE  RequestOK(q)'
  <2>1. /\ during[q] \subseteq during'[q]
        /\ pc[q] \notin {"idle", "done"} => policy' \in during'[q]
    BY <1>1
  <2>2. RequestOK(q)
    BY DEF GatewayInv
  <2>3. /\ \A n : /\ MessagePasses(q, n) => MessagePasses(q, n)'
                  /\ CallPasses(q, n) => CallPasses(q, n)'
        /\ TextPasses(q) => TextPasses(q)'
    BY <1>1, <2>1 DEF MessagePasses, CallPasses, TextPasses
  <2>4. \A l : Reached(q, l)' <=> Reached(q, l)
    BY <1>1 DEF Reached
  <2>5. InPlace(q)' /\ InForce(q)' /\ Trusted(q)'
    BY <1>1, <2>1, <2>2 DEF RequestOK, InPlace, InForce, Trusted
  <2>6. ChatCleared(q)' /\ McpCleared(q)' /\ CallsCleared(q)'
    BY <1>1, <2>2, <2>3, <2>4 DEF RequestOK, ChatCleared, McpCleared, CallsCleared
  <2>7. RefusalOnRecord(q)' /\ CanaryOnRecord(q)'
    BY <1>1, <2>2 DEF RequestOK, RefusalOnRecord, CanaryOnRecord, Stored, DenialStored
  <2> QED
    BY <2>5, <2>6, <2>7 DEF RequestOK
<1> QED
  BY <1>2, <1>3 DEF GatewayInv

LEMMA InitOK == Init => GatewayInv
<1> SUFFICES ASSUME Init
             PROVE  GatewayInv
  OBVIOUS
<1>1. ToolInv
  BY DEF Init, ToolInv, Places
<1>2. TypeOK
  BY DEF Init, TypeOK, Answers
<1>3. ASSUME NEW r \in Requests
      PROVE  RequestOK(r)
  <2>1. pc[r] = "idle" /\ at[r] = 1 /\ ~sent[r] /\ answer[r] = "none" /\ stored[r] = <<>>
    BY DEF Init
  <2>2. InPlace(r) /\ InForce(r) /\ Trusted(r)
    BY <2>1 DEF InPlace, InForce, Trusted
  <2>3. ChatCleared(r) /\ McpCleared(r) /\ CallsCleared(r)
    BY <2>1 DEF ChatCleared, McpCleared, CallsCleared, Reached
  <2>4. RefusalOnRecord(r) /\ CanaryOnRecord(r)
    BY <2>1 DEF RefusalOnRecord, CanaryOnRecord
  <2> QED
    BY <2>2, <2>3, <2>4 DEF RequestOK
<1> QED
  BY <1>1, <1>2, <1>3 DEF GatewayInv

THEOREM GatewayInvariant == Spec => []GatewayInv
<1>1. GatewayInv /\ ToolInv' /\ [Next]_vars => GatewayInv'
  <2> SUFFICES ASSUME GatewayInv, ToolInv', [Next]_vars
               PROVE  GatewayInv'
    OBVIOUS
  <2>1. CASE UNCHANGED vars
    <3>1. TypeOK'
      BY <2>1 DEF vars, GatewayInv, TypeOK
    <3>2. ASSUME NEW q \in Requests
          PROVE  RequestOK(q)'
      <4>1. RequestOK(q) /\ UNCHANGED <<policy, input, pc, at, seen, blocked, stored, sent, answer, during>>
        BY <2>1 DEF vars, GatewayInv
      <4>2. /\ \A l : Reached(q, l)' <=> Reached(q, l)
            /\ \A n : /\ MessagePasses(q, n)' <=> MessagePasses(q, n)
                      /\ CallPasses(q, n)' <=> CallPasses(q, n)
            /\ TextPasses(q)' <=> TextPasses(q)
        BY <4>1 DEF Reached, MessagePasses, CallPasses, TextPasses
      <4>3. InPlace(q)' /\ InForce(q)' /\ Trusted(q)'
        BY <4>1 DEF RequestOK, InPlace, InForce, Trusted
      <4>4. ChatCleared(q)' /\ McpCleared(q)' /\ CallsCleared(q)'
        BY <4>1, <4>2 DEF RequestOK, ChatCleared, McpCleared, CallsCleared
      <4>5. RefusalOnRecord(q)' /\ CanaryOnRecord(q)'
        BY <4>1 DEF RequestOK, RefusalOnRecord, CanaryOnRecord, Stored, DenialStored
      <4> QED
        BY <4>3, <4>4, <4>5 DEF RequestOK
    <3> QED
      BY <3>1, <3>2 DEF GatewayInv
  <2> QED
    BY <2>1, ArriveOK, HandlersOK, ReloadOK DEF Next
<1> QED
  BY <1>1, InitOK, ToolInvHolds, PTL DEF Spec

-----------------------------------------------------------------------------
(* What the runs check, for all policies and requests.                     *)

\* Whatever is sent to an upstream has been cleared: its messages one by one,
\* its text, each of its tool calls and the server it names, by policies that
\* were in force while it was handled, however often the policy is replaced
\* between two awaits (gateway/src/index.ts, chat completions; mcp-proxy.ts).
THEOREM ForwardedWasClearedHolds == Spec => []ForwardedWasCleared
<1>1. GatewayInv => ForwardedWasCleared
  <2> SUFFICES ASSUME GatewayInv, NEW r \in Requests, sent[r]
               PROVE  /\ input[r].kind = "chat" =>
                           /\ \A n \in DOMAIN input[r].messages : MessagePasses(r, n)
                           /\ TextPasses(r)
                      /\ input[r].kind = "mcp" =>
                           \E p \in during[r] :
                             p.mcpMode = "allowlist" => p.servers \cap {input[r].server, "*"} # {}
                      /\ input[r].kind = "chat" \/ input[r].toolCall =>
                           \A n \in DOMAIN Calls(input[r]) : CallPasses(r, n)
    BY DEF ForwardedWasCleared, MessagePasses, TextPasses, CallPasses
  <2>1. /\ ChatCleared(r) /\ McpCleared(r) /\ input[r].kind \in {"chat", "mcp"}
        /\ pc[r] # "idle" /\ seen[r] \in during[r]
    BY DEF GatewayInv, RequestOK, InPlace, InForce
  <2>2. CASE input[r].kind = "chat"
    BY <2>1, <2>2 DEF ChatCleared, Reached
  <2>3. CASE input[r].kind = "mcp"
    <3>1. ServerAllowed(seen[r], input[r].server)
      BY <2>1, <2>3 DEF McpCleared, Reached
    <3>2. seen[r].mcpMode = "allowlist" => seen[r].servers \cap {input[r].server, "*"} # {}
      BY <3>1 DEF ServerAllowed
    <3> QED
      BY <2>1, <2>3, <3>2 DEF McpCleared, Reached
  <2> QED
    BY <2>1, <2>2, <2>3
<1> QED
  BY <1>1, GatewayInvariant, PTL

\* No refusal, pending call or canary goes without its record, though each of
\* the writes may fail and end the request (gateway/src/enforce.ts,
\* a2a-firewall.ts, scanner.ts).
THEOREM IncidentsAreOnRecordHolds == Spec => []IncidentsAreOnRecord
<1>1. GatewayInv => RefusalsAreOnRecord
  BY DEF GatewayInv, RequestOK, RefusalOnRecord, RefusalsAreOnRecord, DenialStored
<1>2. GatewayInv => CanariesAreOnRecord
  BY DEF GatewayInv, RequestOK, CanaryOnRecord, CanariesAreOnRecord, HasCanary
<1> QED
  BY <1>1, <1>2, GatewayInvariant, PTL DEF IncidentsAreOnRecord

\* A message between agents is delivered only if the lists in force when it
\* arrived let it through, though it is decided after an await and whatever it
\* claims, but for the one claim the firewall raises; the evaluator the unit
\* tests call passes it too (gateway/src/a2a-firewall.ts, processA2AMessage and
\* evaluateA2AMessageSync).
THEOREM DeliveredMessagesWereTrustedHolds == Spec => []DeliveredMessagesWereTrusted
<1>1. GatewayInv => DeliveredMessagesWereTrusted
  BY DEF GatewayInv, RequestOK, Trusted, DeliveredMessagesWereTrusted
<1> QED
  BY <1>1, GatewayInvariant, PTL

\* For every policy and every call: what the ladder lets through under an
\* allowlist is in the analyzer's report, and the three capabilities of full
\* agency are reported at the highest severity (gateway/src/permissions.ts,
\* policy/src/engine.ts).
THEOREM AnalyzerSeesWhatIsAllowedHolds == Spec => []AnalyzerSeesWhatIsAllowed
<1>1. AnalyzerSeesWhatIsAllowed
  BY AnalyzerCovers DEF AnalyzerSeesWhatIsAllowed
<1> QED
  BY <1>1, PTL
=============================================================================
