------------------------------- MODULE Services -------------------------------
(***************************************************************************)
(* What the gatekeeper and its operator use beside the gateway: the        *)
(* advisor, the alerts, the caps on actions, the overrides of containment  *)
(* and the operator's MCP server.  They share no state, and each property  *)
(* speaks of one of them or of each by itself: a behaviour follows the one *)
(* it begins with.                                                         *)
(***************************************************************************)
EXTENDS Advisor, Alerts, Caps, Containment, OperatorMcp

VARIABLE part

vars == <<advisorVars, alertVars, capVars, overrideVars, mcpVars, part>>

Init ==
  /\ AdvisorInit /\ AlertInit /\ CapInit /\ OverrideInit /\ McpInit
  /\ part \in {"advisor", "alerts", "caps", "overrides", "mcp"}
  /\ part = "advisor" \/ llm = CHOOSE e \in LlmConfigs : TRUE    \* nobody else reads it

Next ==
  /\ \/ /\ part = "advisor" /\ AdvisorNext
        /\ UNCHANGED <<alertVars, capVars, overrideVars, mcpVars>>
     \/ /\ part = "alerts" /\ AlertNext
        /\ UNCHANGED <<advisorVars, capVars, overrideVars, mcpVars>>
     \/ /\ part = "caps" /\ CapNext
        /\ UNCHANGED <<advisorVars, alertVars, overrideVars, mcpVars>>
     \/ /\ part = "overrides" /\ OverrideNext
        /\ UNCHANGED <<advisorVars, alertVars, capVars, mcpVars>>
     \/ /\ part = "mcp" /\ McpNext
        /\ UNCHANGED <<advisorVars, alertVars, capVars, overrideVars>>
  /\ UNCHANGED part

\* What is under way in a part is so only in the behaviours that follow it.
Fairness == AdvisorFairness /\ AlertFairness /\ OverrideFairness /\ McpFairness

FairSpec == Init /\ [][Next]_vars /\ Fairness

\* Where the program has a timer, nobody who awaits another party waits for
\* ever, though the party may stall, fail or lose its answers: the gatekeeper
\* gets its advice or the headers of it, an alert goes on to its next attempt,
\* and the operator has his management call answered.  Without one are the body
\* of an advice and the answer to an attempt of an alert: these are excused.
WaitsEnd == AdviceComesOrReads /\ AlertsEndOrWait /\ CallsEnd
=============================================================================
