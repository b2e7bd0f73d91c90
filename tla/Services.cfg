SPECIFICATION FairSpec
CONSTANTS
  q1 = q1  q2 = q2  al1 = al1  al2 = al2  ag1 = ag1  any = any
  op1 = op1  op2 = op2  mc1 = mc1  mc2 = mc2 
  shell = shell  mail = mail  agent = agent
  Asks <- TwoAsks
  LlmConfigs <- Environments
  AlertIds <- TwoAlerts
  MaxRetries = 3
  Limited <- TwoActions
  Actors <- OneAgent
  AnyAgent = any
  MaxActions = 2
  CapWindow = 3
  Cooldown = 2
  MaxPending = 1
  Threshold = 1
  BreakerCooldown = 3
  LastMoment = 6
  MaxRecorded = 3
  Keys <- TwoCallers
  Max = 1
  Window = 2
  LastTick = 3
  Calls <- TwoCalls
  Timed <- TwoTools
  Trust <- Trusted
  Durations <- ShortAndLong
INVARIANTS RetryTimesAreExact InForceAsAsked ChangesAreOnRecord
PROPERTIES WaitsEnd TimedRestrictionsEnd
CHECK_DEADLOCK FALSE
