----------------------------- MODULE HumanGate -----------------------------
(***************************************************************************)
(* What the gateway promises about a protected tool call: it is let        *)
(* through only when policy exempts it or a person approved it, and one    *)
(* request gets at most one ruling.  Nothing is said of polling, expiry    *)
(* deadlines, database rows or crashes; those belong to module Approval.   *)
(***************************************************************************)
CONSTANTS
  Calls,    \* the tool calls put to the gateway
  Ruling    \* what may be ruled on one: records with fields status and by

VARIABLES
  gate,     \* gate[c]: "closed" (undecided), "exempt" or "open" (a person is asked)
  ruled,    \* ruled[c]: the rulings made on c
  outcome   \* outcome[c]: "none", "run" or "refused"

gvars == <<gate, ruled, outcome>>

GInit ==
  /\ gate = [c \in Calls |-> "closed"]
  /\ ruled = [c \in Calls |-> {}]
  /\ outcome = [c \in Calls |-> "none"]

Exempt(c) ==
  /\ gate[c] = "closed"
  /\ gate' = [gate EXCEPT ![c] = "exempt"]
  /\ UNCHANGED <<ruled, outcome>>

Ask(c) ==
  /\ gate[c] = "closed"
  /\ gate' = [gate EXCEPT ![c] = "open"]
  /\ UNCHANGED <<ruled, outcome>>

\* A ruling is final: there is none to make once one has been made.
Rule(c, x) ==
  /\ gate[c] = "open"
  /\ ruled[c] = {}
  /\ ruled' = [ruled EXCEPT ![c] = {x}]
  /\ UNCHANGED <<gate, outcome>>

Approved(c) == \E x \in ruled[c] : x.status = "approved"

LetRun(c) ==
  /\ outcome[c] = "none"
  /\ gate[c] = "exempt" \/ Approved(c)
  /\ outcome' = [outcome EXCEPT ![c] = "run"]
  /\ UNCHANGED <<gate, ruled>>

\* Refusing is always safe: policy, timeout, a lost connection or a crash.
Refuse(c) ==
  /\ outcome[c] = "none"
  /\ outcome' = [outcome EXCEPT ![c] = "refused"]
  /\ UNCHANGED <<gate, ruled>>

\* A crash refuses every call it catches at once.
RefuseAll(lost) ==
  /\ \A c \in lost : outcome[c] = "none"
  /\ outcome' = [c \in Calls |-> IF c \in lost THEN "refused" ELSE outcome[c]]
  /\ UNCHANGED <<gate, ruled>>

GNext ==
  \/ \E c \in Calls : Exempt(c) \/ Ask(c) \/ LetRun(c) \/ Refuse(c)
  \/ \E c \in Calls, x \in Ruling : Rule(c, x)
  \/ \E lost \in SUBSET Calls : RefuseAll(lost)

GSpec == GInit /\ [][GNext]_gvars
=============================================================================
