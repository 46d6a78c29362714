SPECIFICATION LoopSpec
CONSTANTS
  j1 = j1
  j2 = j2
  NoJob = NoJob
  NoClient = NoClient
  Jobs <- TwoJobs
  Queues <- LaneQueues
  Local = "local"
  Cloud = "cloud"
  Visual = "visual_gpu"
  Concurrency <- OneSlot
  Clients = {}
  MaxPending = 0
  CheckAfter = 1
  TTL = 1
  Never = 99
  Requests <- AllLanes
  VisionRequests <- Vision
  ImageRequests <- Image
  MaxTime = 0
  MaxRestarts = 1
  SaveMayFail = FALSE
  WriteMayTear = FALSE
PROPERTIES LanesDoNotDeadlock RunningEnds JobsKeepRunning
