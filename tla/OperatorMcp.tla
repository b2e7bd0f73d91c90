----------------------------- MODULE OperatorMcp -----------------------------
(***************************************************************************)
(* The operator's MCP server (mcp-server/src): tools that read the state   *)
(* of the gateway and tools that change it.  A change needs the admin      *)
(* token and room in the limiter of its caller, module RateLimit; then it  *)
(* is a request to the gateway, ten seconds at most, and an entry of the   *)
(* audit, on the console at once and at the gateway if that can be had.    *)
(***************************************************************************)
EXTENDS RateLimit

CONSTANT Calls    \* management calls; their callers are the Keys of the limiter

VARIABLES
  calls,      \* per call: what it does next, whether it changes something, and
              \* how its request went
  underWay,   \* requests the gateway has not handled yet, whoever still waits for them
  applied,    \* changes the gateway has made
  console,    \* logAudit: entries, each with its call and whether it was a success
  trail       \* the same entries as far as they reached the gateway

mcpVars == <<rateVars, calls, underWay, applied, console, trail>>

NotCalled == [next |-> "call", write |-> FALSE, reply |-> "none"]

McpInit ==
  /\ RateInit
  /\ calls = [c \in Calls |-> NotCalled]
  /\ underWay = {} /\ applied = {} /\ console = {} /\ trail = {}

Entry(c, ok) == [call |-> c, ok |-> ok]

\* The request of c goes to the gateway.
Request(c, write) ==
  /\ calls' = [calls EXCEPT ![c].next = "fetch", ![c].write = write]
  /\ underWay' = underWay \cup {c}
  /\ UNCHANGED <<applied, console, trail>>

\* auditManagementCall: on the console, and next to the gateway.
Audited(c, write, ok) ==
  /\ calls' = [calls EXCEPT ![c].next = "audit", ![c].write = write]
  /\ console' = console \cup {Entry(c, ok)}
  /\ UNCHANGED <<underWay, applied, trail>>

Answered(c, write) ==
  /\ calls' = [calls EXCEPT ![c].next = "answered", ![c].write = write]
  /\ UNCHANGED <<underWay, applied, console, trail>>

\* Not JSON-RPC, another method, or a tool of no name known.
Reject(c) ==
  /\ calls[c].next = "call"
  /\ Answered(c, FALSE)
  /\ UNCHANGED rateVars

RunReadTool(c) ==
  /\ calls[c].next = "call"
  /\ Request(c, FALSE)
  /\ UNCHANGED rateVars

\* verifyAdminToken: no token, the wrong one, or none configured.
Unauthorized(c) ==
  /\ calls[c].next = "call"
  /\ Audited(c, TRUE, FALSE)
  /\ UNCHANGED rateVars

RateLimited(c, actor) ==
  /\ calls[c].next = "call"
  /\ Refuse(actor)
  /\ Audited(c, TRUE, FALSE)

\* Arguments that do not do are found only after the limiter has counted the
\* call, and leave no entry.
RunWriteTool(c, actor) ==
  /\ calls[c].next = "call"
  /\ Admit(actor)
  /\ Request(c, TRUE) \/ Answered(c, TRUE)

\* The gateway handles a request, even one nobody waits for any more.
GatewayHandles(c) ==
  /\ c \in underWay
  /\ underWay' = underWay \ {c}
  /\ \E ok \in BOOLEAN :
       /\ calls' = [calls EXCEPT ![c].reply = IF ok THEN "ok" ELSE "error"]
       /\ applied' = IF ok /\ calls[c].write THEN applied \cup {c} ELSE applied
  /\ UNCHANGED <<rateVars, console, trail>>

\* The gateway stops before it has handled it.
RequestLost(c) ==
  /\ c \in underWay
  /\ underWay' = underWay \ {c}
  /\ UNCHANGED <<rateVars, calls, applied, console, trail>>

ReplyArrives(c) ==
  /\ calls[c].next = "fetch" /\ calls[c].reply # "none"
  /\ Audited(c, calls[c].write, calls[c].reply = "ok")
  /\ UNCHANGED rateVars

\* A slip the runs must notice: a request that failed is answered without an entry.
GiveUpUnaudited(c) ==
  /\ calls[c].next = "fetch"
  /\ Answered(c, calls[c].write)
  /\ UNCHANGED rateVars

\* AbortSignal.timeout, or a connection that breaks, before or after the gateway
\* has handled the request.
GiveUp(c) ==
  /\ calls[c].next = "fetch"
  /\ Audited(c, calls[c].write, FALSE)
  /\ UNCHANGED rateVars

\* postGatewayAudit, five seconds at most; a failure is logged and forgotten.
PostAudit(c) ==
  /\ calls[c].next = "audit"
  /\ calls' = [calls EXCEPT ![c].next = "answered"]
  /\ \/ trail' = trail \cup {e \in console : e.call = c}
     \/ UNCHANGED trail
  /\ UNCHANGED <<rateVars, underWay, applied, console>>

McpNext ==
  \/ PassTime /\ UNCHANGED <<calls, underWay, applied, console, trail>>
  \/ \E c \in Calls :
       \/ Reject(c) \/ RunReadTool(c) \/ Unauthorized(c)
       \/ \E actor \in Keys : RateLimited(c, actor) \/ RunWriteTool(c, actor)
       \/ GatewayHandles(c) \/ RequestLost(c) \/ ReplyArrives(c) \/ GiveUp(c)
       \/ PostAudit(c)

\* The timeouts of both requests fire.
McpFairness ==
  \A c \in Calls : WF_mcpVars(GiveUp(c)) /\ WF_mcpVars(PostAudit(c))

-----------------------------------------------------------------------------
\* Whoever reads the console knows of every change made through the server
\* (runWriteTool, auditManagementCall), even of one the server gave up and the
\* gateway carried out afterwards: a change that nobody waits for any more has an
\* entry, and what an entry, at either place, calls done was done.
ChangesAreOnRecord ==
  /\ \A c \in applied : calls[c].next \in {"audit", "answered"} =>
       \E e \in console : e.call = c
  /\ \A e \in console \cup trail : e.ok /\ calls[e.call].write => e.call \in applied

\* Every management call is answered.
CallsEnd ==
  \A c \in Calls : (calls[c].next \in {"fetch", "audit"}) ~> (calls[c].next = "answered")
=============================================================================
