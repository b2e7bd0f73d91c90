SPECIFICATION FairSpec
CONSTANTS
  c1 = c1  r1 = r1  r2 = r2  r3 = r3
  Calls <- OneCall
  Resolvers <- ThreeResolvers
  Timeouts <- ShortAndLong
INVARIANTS OneRuling AnswersFollowRulings TimedOutRowsAreClosed OnlyLateCallsTimeOut
PROPERTIES CallsAreAnswered GateSpec
