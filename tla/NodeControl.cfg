SPECIFICATION FairSpec
CONSTANTS
  MaxGrants = 2
  Requests = {a, b}
  Starter = startup
  HealthJob = TRUE
  MaxAttempts = 1
CHECK_DEADLOCK FALSE
INVARIANTS OperationalIsDeclared DeclaringIsServed
PROPERTIES KeepsTrustLifecycle RecoveryEnds
