SPECIFICATION Spec
CONSTANTS
  j1 = j1
  j2 = j2
  j3 = j3
  alice = alice
  NoJob = NoJob
  NoClient = NoClient
  Jobs <- TwoJobs
  Queues <- TwoQueues
  Local = "local"
  Cloud = "cloud"
  Concurrency <- OneSlot
  Clients = {alice}
  MaxPending = 0
  CheckAfter = 1
  TTL = 1
  Never = 99
  Requests <- CancellableRequests
  MaxTime = 0
  MaxRestarts = 0
  SaveMayFail = FALSE
  WriteMayTear = FALSE
INVARIANT CancelledRunEnds
