SPECIFICATION Spec
CONSTANTS
  ann = ann  s1 = s1  v1 = v1  v2 = v2
  Keys <- OneEmail
  Starts <- OneStart
  Visits <- TwoVisits
  Max = 1
  Window = 2
  LastTick = 3
  OtpTtl = 1
  MaxAttempts = 2
  SessionTtl = 1
  StateTtl = 1
INVARIANTS AtMostMaxPerWindow RoomWhenPromised
  GuessesBounded OneSessionEach SignedOutStaysOut LoginsAreHonoured
CHECK_DEADLOCK FALSE
