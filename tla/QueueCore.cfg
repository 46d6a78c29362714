SPECIFICATION Spec
CONSTANTS
  j1 = j1
  j2 = j2
  j3 = j3
  alice = alice
  NoJob = NoJob
  NoClient = NoClient
  Jobs <- ThreeJobs
  Queues <- TwoQueues
  Local = "local"
  Cloud = "cloud"
  Concurrency <- OneSlot
  Clients = {alice}
  MaxPending = 1
  CheckAfter = 1
  TTL = 1
  Never = 99
  Requests <- CoreRequests
  MaxTime = 1
  MaxRestarts = 0
  SaveMayFail = FALSE
  WriteMayTear = FALSE
SYMMETRY ThreeJobsSymmetry
INVARIANTS QueueEntriesMatch SlotsAccounted NoStalledQueue
PROPERTIES StartsInOrder
