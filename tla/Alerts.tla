-------------------------------- MODULE Alerts --------------------------------
(***************************************************************************)
(* Alerts to a webhook (shared/src/alerting.ts): an attempt, and after     *)
(* each that fails a pause and another one.  Attempts have no timer of     *)
(* their own, and an answer that is lost after the alert was taken counts  *)
(* as a failure: the receiver may be told twice.                           *)
(***************************************************************************)
EXTENDS Naturals

CONSTANTS
  AlertIds,      \* alerts that may be under way at once
  MaxRetries     \* PHASEONE_ALERT_MAX_RETRIES

VARIABLES
  alerts,        \* per alert: the attempt it is at and what it waits for
  received       \* history: the attempts of it that the receiver took

alertVars == <<alerts, received>>

NotSending == [attempt |-> 0, waits |-> "none", outcome |-> "none"]

AlertInit ==
  /\ alerts = [a \in AlertIds |-> NotSending]
  /\ received = [a \in AlertIds |-> {}]

\* max in sendAlert.
Attempts == IF MaxRetries > 1 THEN MaxRetries ELSE 1

\* sendAlert, called for an incident, by an action of a playbook, or by
\* POST alerts/test, which brings an address of its own.
Send(a) ==
  /\ alerts[a].outcome = "none" /\ alerts[a].waits = "none"
  /\ \E configured \in BOOLEAN :
       alerts' = [alerts EXCEPT ![a] =
         IF configured THEN [@ EXCEPT !.attempt = 1, !.waits = "answer"]
                       ELSE [@ EXCEPT !.outcome = "not configured"]]
  /\ UNCHANGED received

\* The receiver takes an attempt.
Receive(a) ==
  /\ alerts[a].waits = "answer" /\ alerts[a].attempt \notin received[a]
  /\ received' = [received EXCEPT ![a] = @ \cup {alerts[a].attempt}]
  /\ UNCHANGED alerts

Succeed(a) ==
  /\ alerts[a].waits = "answer" /\ alerts[a].attempt \in received[a]
  /\ alerts' = [alerts EXCEPT ![a].waits = "none", ![a].outcome = "sent"]
  /\ UNCHANGED received

\* No answer, or one that is not ok.
AttemptFails(a) ==
  /\ alerts[a].waits = "answer"
  /\ alerts' = [alerts EXCEPT ![a] =
       IF @.attempt < Attempts THEN [@ EXCEPT !.waits = "pause"]
                               ELSE [@ EXCEPT !.waits = "none", !.outcome = "failed"]]
  /\ UNCHANGED received

\* The pause of baseDelayMs, doubled each time, is over.
Retry(a) ==
  /\ alerts[a].waits = "pause"
  /\ alerts' = [alerts EXCEPT ![a].attempt = @ + 1, ![a].waits = "answer"]
  /\ UNCHANGED received

AlertNext ==
  \E a \in AlertIds : Send(a) \/ Receive(a) \/ Succeed(a) \/ AttemptFails(a) \/ Retry(a)

\* Pauses end.  Nothing ends an attempt but the receiver, or the HTTP client.
AlertFairness == \A a \in AlertIds : WF_alertVars(Retry(a))

-----------------------------------------------------------------------------
\* Every alert comes to an end, sent or given up, or waits for the answer to an
\* attempt, which has no timer (sendAlert): its pauses do not hold up the action
\* of a playbook or POST alerts/test that await it.
AlertsEndOrWait ==
  \A a \in AlertIds :
    (alerts[a].waits # "none") ~> (alerts[a].outcome # "none" \/ alerts[a].waits = "answer")
=============================================================================
