SPECIFICATION FairSpec
CONSTANTS
  Threads = {t1, t2}
  Clients = {t1}
  VramTotal = 12
  VramUse <- MCVramUse
  JobEnds = {"complete", "keep_warm", "fail"}
  Manual = TRUE
  TextJob = TRUE
  Overlap = FALSE
  MaxFaults = 1
INVARIANTS RoomMadeIsKept
