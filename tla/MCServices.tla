------------------------------ MODULE MCServices ------------------------------
(* An instance of Services for TLC: two requests for advice in each kind of  *)
(* environment, two alerts with three attempts, a cap of two and a breaker   *)
(* at one, two management calls of two callers with room for one each, and   *)
(* two tools and an agent to restrict.                                       *)
EXTENDS Services

CONSTANTS q1, q2, al1, al2, ag1, any, op1, op2, mc1, mc2, shell, mail, agent

TwoAsks == {q1, q2}
Environments ==
  [key : BOOLEAN, flag : BOOLEAN, primary : Providers \cup {"none"},
   fallback : {"ollama", "none"}]
TwoAlerts == {al1, al2}
TwoActions == {"contain", "require_approval"}
OneAgent == {ag1}
TwoCallers == {op1, op2}
TwoCalls == {mc1, mc2}
TwoTools == {shell, mail}
Trusted == {agent}
ShortAndLong == {0, 1, 3}
=============================================================================
