----------------------------- MODULE Screening -----------------------------
(***************************************************************************)
(* What the gateway makes of a text and of the agent that sent it: the     *)
(* prompt-injection scan (shared/src/prompt-injection.ts and               *)
(* gateway/src/scanner.ts) and the agent-to-agent firewall                 *)
(* (gateway/src/a2a-firewall.ts).  A text is its worst hit; the scan       *)
(* settings are p.inj and the firewall's p.a2a of a policy p.              *)
(***************************************************************************)
EXTENDS Naturals, Sequences

Hits == {"none", "medium", "high"}
SeverityRank == [none |-> 0, low |-> 1, medium |-> 2, high |-> 3]

\* classifyMessageSource: the role of a chat message, "none" when it has none.
MessageSource(role) ==
  CASE role \in {"system", "developer"} -> "system"
    [] role = "user" -> "user"
    [] OTHER -> "untrusted"

\* scanPromptInjection's shouldBlock: hits in untrusted text from a minimum
\* severity on, in a user's text only high ones and only when so configured.
ShouldBlock(hit, source, blockMode, blockUser, min) ==
  /\ blockMode /\ hit # "none"
  /\ \/ source = "untrusted" /\ SeverityRank[hit] >= SeverityRank[min]
     \/ source = "user" /\ blockUser /\ SeverityRank[hit] >= SeverityRank["high"]

Event(type, decision) == [type |-> type, decision |-> decision]
Maybe(condition, event) == IF condition THEN <<event>> ELSE <<>>

\* runInjectionScan: sources the policy does not scan have no hits.
ScanHit(p, source, hit) == IF p.inj.scan[source] THEN hit ELSE "none"

ScanBlocks(p, source, hit) ==
  ShouldBlock(ScanHit(p, source, hit), source, p.inj.blockMode, p.inj.blockUser, p.inj.min)

ScanEvents(p, source, hit) ==
  Maybe(ScanHit(p, source, hit) # "none",
        IF ScanBlocks(p, source, hit) THEN Event("prompt_injection.blocked", "deny")
        ELSE Event("prompt_injection.detected", "allow"))

-----------------------------------------------------------------------------
(* Trust between agents.                                                   *)

TrustRank == [LOCAL_TRUSTED |-> 4, REMOTE_VERIFIED |-> 3, LOCAL_UNTRUSTED |-> 2,
              REMOTE_UNKNOWN |-> 1, QUARANTINED |-> 0]
TrustLevels == DOMAIN TrustRank

NormalTrust(raw) == IF raw \in TrustLevels THEN raw ELSE "REMOTE_UNKNOWN"

\* A slip the runs must notice: an agent of no list is believed.
UnlistedTrustBelieved(a, declared) == IF declared = "REMOTE_UNKNOWN" THEN a.default ELSE declared

\* What an agent of no list gets for the level it declares.
UnlistedTrust(a, declared) ==
  IF TrustRank[declared] > TrustRank[a.default] /\ declared # "LOCAL_TRUSTED" THEN a.default
  ELSE IF declared = "LOCAL_TRUSTED" THEN "LOCAL_UNTRUSTED"
  ELSE IF declared = "REMOTE_UNKNOWN" THEN a.default
  ELSE declared

\* resolveEffectiveTrust: the lists in this order, whatever is declared.
EffectiveTrust(a, from, declared) ==
  CASE from \in a.quarantined -> "QUARANTINED"
    [] from \notin a.quarantined /\ from \in a.localTrusted -> "LOCAL_TRUSTED"
    [] from \notin a.quarantined \cup a.localTrusted /\ from \in a.verified -> "REMOTE_VERIFIED"
    [] from \notin a.quarantined \cup a.localTrusted \cup a.verified
         /\ from \in a.localUntrusted -> "LOCAL_UNTRUSTED"
    [] OTHER -> UnlistedTrust(a, declared)

\* The verdict before the content is looked at.
SenderAction(a, from, to, trust) ==
  IF ~a.enabled THEN "allow"
  ELSE IF trust = "QUARANTINED" \/ (a.blockQuarantined /\ from \in a.quarantined) THEN "quarantine"
  ELSE IF a.blockUnknown /\ trust = "REMOTE_UNKNOWN" THEN "deny"
  ELSE IF ~a.allowSelf /\ from = to THEN "deny"
  ELSE "allow"

A2ASource(trust) == IF trust = "LOCAL_TRUSTED" THEN "user" ELSE "untrusted"

\* The content of a message so far allowed is scanned, a disabled firewall's
\* included; what is found in a less trusted sender's text quarantines it.
ContentAction(a, trust, action, hit) ==
  IF /\ a.scan /\ action = "allow"
     /\ ShouldBlock(hit, A2ASource(trust), a.blockOnInjection, FALSE, "medium")
  THEN IF trust \in {"LOCAL_UNTRUSTED", "REMOTE_UNKNOWN"} THEN "quarantine" ELSE "deny"
  ELSE action

A2ADecision(a, m) ==
  LET trust == EffectiveTrust(a, m.from, NormalTrust(m.declared))
      sender == SenderAction(a, m.from, m.to, trust)
  IN [action |-> ContentAction(a, trust, sender, m.hit), trust |-> trust,
      hit |-> IF a.scan /\ sender = "allow" THEN m.hit ELSE "none"]

\* evaluateA2AMessageSync, the evaluator without a database: it does not know
\* of a disabled firewall or of self-addressed messages.
A2ADecisionSync(a, m) ==
  A2ADecision([a EXCEPT !.enabled = TRUE, !.allowSelf = TRUE], m)

\* A slip the runs must notice: a quarantine leaves no event of its own.
A2AEventsNoQuarantine(d) ==
  <<Event("a2a.message", d.action)>> \o Maybe(d.action = "deny", Event("a2a.blocked", "deny"))

\* What processA2AMessage stores of a decision, in this order.
A2AEvents(d) ==
  <<Event("a2a.message", d.action)>>
    \o Maybe(d.action = "deny", Event("a2a.blocked", "deny"))
    \o Maybe(d.action = "quarantine", Event("a2a.quarantined", "quarantine"))
    \o Maybe(d.hit # "none", Event("prompt_injection.detected",
                                   IF d.action = "allow" THEN "allow" ELSE "deny"))
=============================================================================
