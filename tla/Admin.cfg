SPECIFICATION Spec
CONSTANTS
  a1 = a1
  a2 = a2
  base = base
  edited = edited
  gateway = gateway
  cli = cli
  m1 = m1
  m2 = m2
  canary = canary
  s1 = s1
  s2 = s2
  o1 = o1
  o2 = o2
  root = root
  owner = owner
  Texts <- SomeTexts
  StartText <- Base
  Agents <- TwoAgents
  NoPolicy = NoPolicy
  LastMs = 1
  MaxChanges = 5
  Gateway = gateway
  Processes <- TwoProcesses
  Markers <- TwoMarkers
  CanaryOf <- OneCanary
  NoKey = NoKey
  Unsigned = Unsigned
  MaxRotations = 2
  MaxSignings = 1
  MaxKeys = 2
  Rules <- SomeRules
  Contexts <- SomeContexts
  Stamps = {0, 2, 5}
  Undefined = Undefined
  LastTick = 3
  MaxEvaluations = 4
  Orgs <- TwoOrgs
  Requesters = {1, 2}
  GlobalAdmins <- Roots
  OrgAdmins <- Owners
  Emails <- TwoEmails
  MaxMemory = 2
  MaxAudits = 3
  MaxOutages = 1
  MaxKeysMinted = 1
  c1 = c1
  c2 = c2
  c3 = c3
  Calls <- ThreeCalls
  Inputs <- SomeInputs
  Sessions <- TwoSessions
  Absent = Absent
  NaN = NaN
  Requests <- SomeRequests
  FinalDay = 2
  MaxRuns = 2
  MaxFaults = 1
INVARIANTS SavedPoliciesAreRecoverable QuarantineSticks SignaturesHold InOrderIsExact AnsweredChangesAreAudited RecentRowsStay RulingsAreOnRecord YoungSessionsKeepCalls
CHECK_DEADLOCK FALSE
