SPECIFICATION FairSpec
CONSTANTS
  r1 = r1
  None = None
  AbsolutePaths <- Absolute
  CredentialFiles <- Credentials
  CredentialDirs <- CredentialFolders
  Requests <- OneRequest
  Inputs <- SomeInputs
  Policies <- FourPolicies
  UpstreamHost = "openai"
  MaxReloads = 1
INVARIANTS ForwardedWasCleared IncidentsAreOnRecord DeliveredMessagesWereTrusted TighteningOpensNothing AnalyzerSeesWhatIsAllowed
PROPERTIES RequestsEnd
CHECK_DEADLOCK FALSE
