SPECIFICATION FairSpec
CONSTANTS
  Threads = {t1, t2}
  Clients = {t1}
  VramTotal = 12
  VramUse <- MCVramUse
  JobEnds = {"complete"}
  Manual = FALSE
  TextJob = FALSE
  Overlap = TRUE
  MaxFaults = 0
PROPERTIES VisionReturns OperationsEnd
