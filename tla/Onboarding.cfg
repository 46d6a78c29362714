SPECIFICATION FairSpec
CONSTANTS
  MaxRuns = 3
  MaxIds = 2
  MaxPollErrors = 2
  MaxGrants = 2
CHECK_DEADLOCK FALSE
INVARIANTS RegistrationOwned TrustFitsIdentity
PROPERTIES CancelledRunIsSilent CancelledRunsEnd ConnectingEnds ImplementsTrustLifecycle
