-------------------------- MODULE MCExecutionQueue --------------------------
(* Instances of ExecutionQueue for TLC. *)
EXTENDS ExecutionQueue, TLC

CONSTANTS j1, j2, j3, alice

ThreeJobs == {j1, j2, j3}
TwoJobs == {j1, j2}
TwoQueues == {"local", "cloud"}
OneSlot == [q \in TwoQueues |-> 1]
ThreeJobsSymmetry == Permutations(ThreeJobs)
TwoJobsSymmetry == Permutations(TwoJobs)

PlainRequest ==
  [queue |-> "local", rank |-> 2, client |-> NoClient, maxWait |-> Never,
   deadlineAt |-> Never, spill |-> FALSE, cancellable |-> FALSE,
   recoverable |-> TRUE]

CancellableRequest == [PlainRequest EXCEPT !.cancellable = TRUE]

(* Urgent, counted against alice's limit, refused when a job is ahead.     *)
UrgentRequest ==
  [PlainRequest EXCEPT !.rank = 0, !.client = alice, !.maxWait = 0]

(* Moves to the cloud queue once its deadline has passed.                  *)
SpilloverRequest ==
  [PlainRequest EXCEPT !.client = alice, !.deadlineAt = 0, !.spill = TRUE]

(* Its runner cannot be rebuilt after a restart.                           *)
OneShotRequest == [PlainRequest EXCEPT !.recoverable = FALSE, !.queue = "cloud"]

CoreRequests == {CancellableRequest, UrgentRequest, SpilloverRequest}
RestartRequests == {CancellableRequest, SpilloverRequest, OneShotRequest}
CancellableRequests == {CancellableRequest}
=============================================================================
