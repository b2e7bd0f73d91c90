SPECIFICATION ResponseSpec
CONSTANTS
  e1 = e1  e2 = e2  e3 = e3  k1 = k1  k2 = k2  w1 = w1  soft = soft  hard = hard
  burst = burst  single = single  t1 = t1  t2 = t2
  Events <- ThreeEvents
  Poison <- OnePoison
  Cycles <- TwoCycles
  Processors <- OneProcessor
  Books <- SoftAndHard
  Actions <- SomeActions
  Concerns <- SomeConcerns
  QueueMax = 2
  Patience = 1
  EnabledPlaybooks <- Both
  Kinds <- BothKinds
  Matches <- AllMatches
  Cooldown <- BothCooldown
  MaxExecutions <- BothMax
  Window <- BothWindow
  Threshold <- BothThreshold
  RecordWindow = 1
  Forever = 3
  Delays <- FreshOrLate
  Tasks <- TwoTasks
  MaxSeen = 4
INVARIANT MinimumTimeBetween
