SPECIFICATION Spec
CONSTANTS
  ann = ann  s1 = s1  v1 = v1  v2 = v2
  Keys <- OneEmail
  Starts <- OneStart
  Visits <- OneVisit
  Max = 1
  Window = 2
  LastTick = 2
  OtpTtl = 1
  MaxAttempts = 1
  SessionTtl = 1
  StateTtl = 1
INVARIANT SignOnsAreHonoured
CHECK_DEADLOCK FALSE
