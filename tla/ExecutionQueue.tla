--------------------------- MODULE ExecutionQueue ---------------------------
(***************************************************************************)
(* The node's execution queue: ExecutionQueueService of                    *)
(* runtime/execution_queue.py.  Clients enqueue jobs into named queues;    *)
(* one dispatcher task per queue asks a lane-admission provider (in a      *)
(* worker thread) whether the head job may start, starts it, and retries   *)
(* blocked heads; one asyncio task per started job awaits its runner.      *)
(* Every status poll runs the deadline monitor.  The job records are       *)
(* written to a state file after every change and read back by the next    *)
(* process.                                                                *)
(*                                                                         *)
(* Granularity.  No body of `async with self._lock` awaits anything, so    *)
(* the lock is never contended on the single event loop and a step of the  *)
(* model is the stretch of code between two awaits that really suspend:    *)
(* the admission thread, the retry sleep, the runner, task start-up.       *)
(***************************************************************************)
EXTENDS Naturals, FiniteSets

CONSTANTS
  Jobs,          \* job ids (uuid4: never reused)
  NoJob,         \* "no job" in a dispatcher's local variables
  Queues,        \* keys of self._queues
  Local, Cloud,  \* the two queue keys the deadline monitor names
  Concurrency,   \* [Queues -> Nat \ {0}]: self._queue_concurrency
  Clients,       \* client ids
  NoClient,      \* client_id is None
  MaxPending,    \* max_pending_per_client; 0 switches the limit off
  CheckAfter,    \* check_after_seconds, the estimate for one wave of jobs
  TTL,           \* job_ttl_seconds
  Never,         \* float("inf"), an absent deadline or wait budget
  Requests,      \* the requests clients may enqueue (records, see RequestOK)
  MaxTime,       \* bound: last instant of the model's clock
  MaxRestarts,   \* bound: number of process restarts
  SaveMayFail,   \* TRUE: writing the state file may raise (logged, ignored)
  WriteMayTear   \* TRUE: a crash may leave an unreadable state file

(* A request: the arguments of enqueue that the queue's control flow reads. *)
RequestOK(r) ==
  /\ r.queue \in Queues
  /\ r.rank \in Nat                          \* IMPORTANCE_RANK
  /\ r.client \in Clients \cup {NoClient}
  /\ r.maxWait \in Nat                       \* Never: no wait budget
  /\ r.deadlineAt \in Nat                    \* Never: no deadline_at
  /\ r.spill \in BOOLEAN                     \* allow_cloud_spillover
  /\ r.cancellable \in BOOLEAN               \* running_cancellation_supported
  /\ r.recoverable \in BOOLEAN               \* the recovery factory can rebuild it

ASSUME QueuesAssumption == Local \in Queues /\ Cloud \in Queues /\ Local # Cloud
ASSUME ConcurrencyAssumption == Concurrency \in [Queues -> Nat \ {0}]
ASSUME JobsAssumption == IsFiniteSet(Jobs)
ASSUME NoJobAssumption == NoJob \notin Jobs
ASSUME NoClientAssumption == NoClient \notin Clients
ASSUME NumbersAssumption ==
  /\ MaxPending \in Nat /\ CheckAfter \in Nat /\ TTL \in Nat
  /\ Never \in Nat /\ MaxTime \in Nat /\ MaxRestarts \in Nat
ASSUME SwitchesAssumption == SaveMayFail \in BOOLEAN /\ WriteMayTear \in BOOLEAN
ASSUME RequestsAssumption == \A r \in Requests : RequestOK(r)

VARIABLES
  now,       \* local_now()
  phase,     \* "booted" (records loaded), "serving", "stopping" (asyncio.run teardown)
  restarts,  \* number of processes started so far, minus one
  nextSeq,   \* self._sequence
  jobs,      \* self._jobs
  heap,      \* self._queues: the job ids of each heap (order: Before)
  active,    \* self._active_counts
  disp,      \* self._dispatcher_tasks, with the local variables of _dispatch_loop
  retry,     \* self._blocked_retry_tasks: a retry task is sleeping
  task,      \* the _run_job tasks, as registered in self._running_tasks
  timer,     \* self._record_expiry_handle is armed
  disk,      \* the records in the state file
  runs       \* history: how often a job's runner has been started

vars == <<now, phase, restarts, nextSeq, jobs, heap, active, disp, retry, task,
          timer, disk, runs>>

-----------------------------------------------------------------------------
(* Records *)

Terminal == {"completed", "failed", "cancelled", "expired_wait_budget"}
Pending == {"queued", "running"}

(* "absent": the id was never issued; "deleted": its record was removed.   *)
(* Both read as not_found.                                                 *)
Statuses == {"absent", "deleted"} \cup Pending \cup Terminal

NoRequest == [queue |-> Cloud, rank |-> 0, client |-> NoClient, maxWait |-> Never,
              deadlineAt |-> Never, spill |-> FALSE, cancellable |-> FALSE,
              recoverable |-> FALSE]

NoRecord == [status |-> "absent", queue |-> Cloud, req |-> NoRequest, seq |-> 0,
             queuedAt |-> 0, sort |-> 0, expiresAt |-> 0, acked |-> FALSE]

Deleted == [NoRecord EXCEPT !.status = "deleted"]

JobRecord == [status : Statuses, queue : Queues, req : Requests \cup {NoRequest},
              seq : Nat, queuedAt : Nat, sort : Nat, expiresAt : Nat,
              acked : BOOLEAN]

Idle == [pc |-> "idle", job |-> NoJob]
Scheduled == [pc |-> "scheduled", job |-> NoJob]

(* idle: no task, or a finished one; scheduled: the task has not run yet;  *)
(* asking: it awaits the admission thread about job; allowed, denied: the  *)
(* thread has answered and the task has not resumed.                       *)
DispatcherState == [pc : {"idle", "scheduled", "asking", "allowed", "denied"},
                    job : Jobs \cup {NoJob}]

(* ready: created, first step not run; doomed: cancelled while ready;      *)
(* running: awaiting its runner; cancelling: cancelled while running;      *)
(* dead: the task is done but _run_job's body never ran.                   *)
TaskState == {"none", "ready", "doomed", "running", "cancelling", "dead"}

TypeOK ==
  /\ now \in Nat
  /\ phase \in {"booted", "serving", "stopping"}
  /\ restarts \in Nat
  /\ nextSeq \in Nat
  /\ jobs \in [Jobs -> JobRecord]
  /\ heap \in [Queues -> SUBSET Jobs]
  /\ active \in [Queues -> Nat]
  /\ disp \in [Queues -> DispatcherState]
  /\ retry \in [Queues -> BOOLEAN]
  /\ task \in [Jobs -> TaskState]
  /\ timer \in BOOLEAN
  /\ disk \in [Jobs -> JobRecord]
  /\ runs \in [Jobs -> Nat]

-----------------------------------------------------------------------------
(* Deadlines and the order of a heap *)

(* _deadline_sort_value *)
DeadlineSort(r) ==
  IF r.deadlineAt # Never THEN r.deadlineAt
  ELSE IF r.maxWait # Never THEN now + r.maxWait ELSE Never

(* A queued job is past min(deadline_at, queued_at + max_wait_seconds).    *)
PastDeadline(job) ==
  \/ job.req.deadlineAt # Never /\ now > job.req.deadlineAt
  \/ job.req.maxWait # Never /\ now > job.queuedAt + job.req.maxWait

(* _queue_entry: heap entries compare by rank, deadline, sequence number.  *)
Before(js, j, k) ==
  \/ js[j].req.rank < js[k].req.rank
  \/ /\ js[j].req.rank = js[k].req.rank
     /\ \/ js[j].sort < js[k].sort
        \/ js[j].sort = js[k].sort /\ js[j].seq < js[k].seq

(* queue_entries[0] *)
IsHead(q, j) == j \in heap[q] /\ \A k \in heap[q] \ {j} : Before(jobs, j, k)

(* _estimated_start_seconds_locked for a job joining entries of queue q.   *)
EstimatedStart(q, entries) ==
  LET ahead == active[q] + Cardinality(entries)
  IN  ((ahead + Concurrency[q] - 1) \div Concurrency[q]) * CheckAfter

(* _client_pending_count_locked *)
PendingOf(js, c) == {j \in Jobs : js[j].status \in Pending /\ js[j].req.client = c}

-----------------------------------------------------------------------------
(* Persistence and dispatcher wake-up, used by every operation *)

(* _schedule_next_record_expiry_locked: armed iff a terminal record exists *)
(* (for the earliest expiry).                                              *)
ArmTimer(js) == timer' = \E j \in Jobs : js[j].status \in Terminal

(* _persist_jobs_locked: re-arms the expiry timer, then writes every       *)
(* record; a failed write is logged and the old file stays.                *)
Persist(js) ==
  /\ ArmTimer(js)
  /\ \/ disk' = js
     \/ SaveMayFail /\ disk' = disk

(* _ensure_dispatcher_locked for each queue of qs. *)
Ensure(d, qs) ==
  [q \in Queues |-> IF q \in qs /\ d[q].pc = "idle" THEN Scheduled ELSE d[q]]

-----------------------------------------------------------------------------
(* _monitor_deadlines_locked, with _prune_expired_terminal_jobs_locked.    *)
(* It runs at the start of every API call, so operations are written on    *)
(* top of the monitored records, heaps and dispatchers.                    *)

Due(j) == jobs[j].status \in Terminal /\ jobs[j].expiresAt <= now
Overdue(j) == jobs[j].status = "queued" /\ PastDeadline(jobs[j])
Spills(j) == Overdue(j) /\ jobs[j].queue = Local /\ jobs[j].req.spill

MonitoredJob(j) ==
  IF Due(j) THEN Deleted
  ELSE IF Spills(j)
    THEN [jobs[j] EXCEPT !.queue = Cloud, !.sort = DeadlineSort(jobs[j].req)]
  ELSE IF Overdue(j)
    THEN [jobs[j] EXCEPT !.status = "expired_wait_budget", !.expiresAt = now + TTL]
  ELSE jobs[j]

MonitoredJobs == [j \in Jobs |-> MonitoredJob(j)]

(* A mutant: an expired job keeps its heap entry. *)
MonitoredHeapKeepsExpired ==
  [q \in Queues |->
     {j \in heap[q] : ~(Spills(j) /\ jobs[j].queue = q)}
       \cup IF q = Cloud THEN {j \in Jobs : Spills(j)} ELSE {}]

MonitoredHeap ==
  [q \in Queues |->
     {j \in heap[q] : ~(Overdue(j) /\ jobs[j].queue = q)}
       \cup IF q = Cloud THEN {j \in Jobs : Spills(j)} ELSE {}]

MonitoredDisp ==
  IF \E j \in Jobs : Spills(j) THEN Ensure(disp, {Cloud}) ELSE disp

MonitorChanges == \E j \in Jobs : Due(j) \/ Overdue(j)

(* The monitor on its own: the whole effect of job_status, diagnostics,    *)
(* queue_pressure, queue_start_estimate and of every refused call.         *)
MonitorOnly ==
  /\ jobs' = MonitoredJobs
  /\ heap' = MonitoredHeap
  /\ disp' = MonitoredDisp
  /\ IF MonitorChanges THEN Persist(MonitoredJobs) ELSE UNCHANGED <<disk, timer>>
  /\ UNCHANGED <<now, phase, restarts, nextSeq, active, retry, task, runs>>

-----------------------------------------------------------------------------
(* API operations *)

(* job_status and the read-only calls: the caller sees the monitored state. *)
Poll ==
  /\ phase = "serving"
  /\ MonitorOnly

(* The per-client limit refuses request r. *)
ClientLimitReached(r) ==
  /\ r.client # NoClient
  /\ MaxPending > 0
  /\ Cardinality(PendingOf(MonitoredJobs, r.client)) >= MaxPending

(* The wait budget of request r cannot be met. *)
BudgetUnreachable(r) ==
  /\ r.maxWait # Never
  /\ EstimatedStart(r.queue, MonitoredHeap[r.queue]) > r.maxWait

(* enqueue, refused: queue_client_limit_exceeded or                        *)
(* rejected_deadline_unreachable.  (The sequence number it consumed leaves *)
(* a gap that no comparison can see.)                                      *)
EnqueueRejected(r) ==
  /\ phase = "serving"
  /\ ClientLimitReached(r) \/ BudgetUnreachable(r)
  /\ MonitorOnly

NewJob(r) ==
  [status |-> "queued", queue |-> r.queue, req |-> r, seq |-> nextSeq,
   queuedAt |-> now, sort |-> DeadlineSort(r), expiresAt |-> now + TTL,
   acked |-> FALSE]

(* enqueue, accepted. *)
Enqueue(j, r) ==
  /\ phase = "serving"
  /\ jobs[j].status = "absent"
  /\ ~ClientLimitReached(r)
  /\ ~BudgetUnreachable(r)
  /\ jobs' = [MonitoredJobs EXCEPT ![j] = NewJob(r)]
  /\ heap' = [MonitoredHeap EXCEPT ![r.queue] = @ \cup {j}]
  /\ disp' = Ensure(MonitoredDisp, {r.queue})
  /\ nextSeq' = nextSeq + 1
  /\ Persist(jobs')
  /\ UNCHANGED <<now, phase, restarts, active, retry, task, runs>>

(* acknowledge_artifacts: recorded once, for a completed job; no monitor.  *)
Acknowledge(j) ==
  /\ phase = "serving"
  /\ jobs[j].status = "completed"
  /\ ~jobs[j].acked
  /\ jobs' = [jobs EXCEPT ![j].acked = TRUE]
  /\ Persist(jobs')
  /\ UNCHANGED <<now, phase, restarts, nextSeq, heap, active, disp, retry, task, runs>>

(* A mutant: any record can be cancelled, whatever its status. *)
CancelAnyRecord(j) ==
  /\ phase = "serving"
  /\ MonitoredJobs[j].status \notin {"absent", "deleted"}
  /\ jobs' = [MonitoredJobs EXCEPT ![j].status = "cancelled",
                                   ![j].expiresAt = now + TTL]
  /\ heap' = [MonitoredHeap EXCEPT ![MonitoredJobs[j].queue] = @ \ {j}]
  /\ disp' = MonitoredDisp
  /\ Persist(jobs')
  /\ UNCHANGED <<now, phase, restarts, nextSeq, active, retry, task, runs>>

(* cancel_job of a job that is (still) queued after the monitor ran. *)
CancelQueued(j) ==
  /\ phase = "serving"
  /\ MonitoredJobs[j].status = "queued"
  /\ jobs' = [MonitoredJobs EXCEPT ![j].status = "cancelled",
                                   ![j].expiresAt = now + TTL]
  /\ heap' = [MonitoredHeap EXCEPT ![MonitoredJobs[j].queue] = @ \ {j}]
  /\ disp' = MonitoredDisp
  /\ Persist(jobs')
  /\ UNCHANGED <<now, phase, restarts, nextSeq, active, retry, task, runs>>

(* Task.cancel(): a task that has not run its first step never will. *)
Cancelled(t) ==
  CASE t = "ready" -> "doomed"
    [] t = "running" -> "cancelling"
    [] OTHER -> t

(* cancel_job of a running job that supports it and whose task is not done. *)
CancelRunning(j) ==
  /\ phase = "serving"
  /\ jobs[j].status = "running"
  /\ jobs[j].req.cancellable
  /\ task[j] \in {"ready", "doomed", "running", "cancelling"}
  /\ jobs' = MonitoredJobs
  /\ heap' = MonitoredHeap
  /\ disp' = MonitoredDisp
  /\ task' = [task EXCEPT ![j] = Cancelled(@)]
  /\ Persist(jobs')
  /\ UNCHANGED <<now, phase, restarts, nextSeq, active, retry, runs>>

-----------------------------------------------------------------------------
(* _dispatch_loop *)

(* From the top of the loop to the next await or return, on records js,    *)
(* heaps hs and active counts act.                                         *)
Scan(q, js, hs, act) ==
  LET live == {j \in hs[q] : js[j].status = "queued"}
  IN  \/ /\ act[q] >= Concurrency[q]
         /\ heap' = hs
         /\ disp' = [disp EXCEPT ![q] = Idle]
      \/ /\ act[q] < Concurrency[q]
         /\ live = {}
         /\ heap' = [hs EXCEPT ![q] = {}]
         /\ disp' = [disp EXCEPT ![q] = Idle]
      \/ \E j \in live :
           /\ act[q] < Concurrency[q]
           /\ \A k \in live \ {j} : Before(js, j, k)
           /\ heap' = [hs EXCEPT ![q] = {k \in @ : k = j \/ Before(js, j, k)}]
           /\ disp' = [disp EXCEPT ![q] = [pc |-> "asking", job |-> j]]

(* The dispatcher task's first step. *)
DispatchScan(q) ==
  /\ disp[q].pc = "scheduled"
  /\ Scan(q, jobs, heap, active)
  /\ UNCHANGED <<now, phase, restarts, nextSeq, jobs, active, retry, task, timer,
                 disk, runs>>

(* _lane_admission_for_job, in its thread: the provider may say anything.  *)
AdmissionAnswer(q, allowed) ==
  /\ disp[q].pc = "asking"
  /\ disp' = [disp EXCEPT ![q].pc = IF allowed THEN "allowed" ELSE "denied"]
  /\ UNCHANGED <<now, phase, restarts, nextSeq, jobs, heap, active, retry, task,
                 timer, disk, runs>>

(* A mutant: the job is still queued, but maybe no longer the head.        *)
StillQueued(q) ==
  /\ disp[q].job \in heap[q]
  /\ jobs[disp[q].job].status = "queued"

(* The head the dispatcher asked about is still the head and still queued. *)
StillHead(q) ==
  /\ IsHead(q, disp[q].job)
  /\ jobs[disp[q].job].status = "queued"

(* Resumed with "allowed": pop the head, mark it running, create its task, *)
(* and loop straight on to the next head.                                  *)
DispatchStart(q) ==
  LET j == disp[q].job
      js == [jobs EXCEPT ![j].status = "running"]
      act == [active EXCEPT ![q] = @ + 1]
  IN  /\ disp[q].pc = "allowed"
      /\ StillHead(q)
      /\ jobs' = js
      /\ active' = act
      /\ task' = [task EXCEPT ![j] = "ready"]
      /\ Persist(js)
      /\ Scan(q, js, [heap EXCEPT ![q] = @ \ {j}], act)
      /\ UNCHANGED <<now, phase, restarts, nextSeq, retry, runs>>

(* A mutant: the blocked dispatcher returns without scheduling a retry. *)
DispatchBlockedForGood(q) ==
  /\ disp[q].pc = "denied"
  /\ StillHead(q)
  /\ disp' = [disp EXCEPT ![q] = Idle]
  /\ Persist(jobs)
  /\ UNCHANGED <<now, phase, restarts, nextSeq, jobs, heap, active, retry, task, runs>>

(* Resumed with "denied": record the block, schedule the retry, return.    *)
DispatchBlocked(q) ==
  /\ disp[q].pc = "denied"
  /\ StillHead(q)
  /\ retry' = [retry EXCEPT ![q] = TRUE]
  /\ disp' = [disp EXCEPT ![q] = Idle]
  /\ Persist(jobs)
  /\ UNCHANGED <<now, phase, restarts, nextSeq, jobs, heap, active, task, runs>>

(* Resumed after the head changed or left the queue: look again (popping   *)
(* the asked-about entry if it is the head but no longer queued).          *)
DispatchStale(q) ==
  /\ disp[q].pc \in {"allowed", "denied"}
  /\ ~StillHead(q)
  /\ Scan(q, jobs,
          IF IsHead(q, disp[q].job) THEN [heap EXCEPT ![q] = @ \ {disp[q].job}]
                                    ELSE heap,
          active)
  /\ UNCHANGED <<now, phase, restarts, nextSeq, jobs, active, retry, task, timer,
                 disk, runs>>

(* _retry_blocked_queue, after its sleep. *)
RetryBlocked(q) ==
  /\ retry[q]
  /\ retry' = [retry EXCEPT ![q] = FALSE]
  /\ jobs' = MonitoredJobs
  /\ heap' = MonitoredHeap
  /\ disp' = IF MonitoredHeap[q] # {} THEN Ensure(MonitoredDisp, {q})
                                      ELSE MonitoredDisp
  /\ IF MonitorChanges THEN Persist(MonitoredJobs) ELSE UNCHANGED <<disk, timer>>
  /\ UNCHANGED <<now, phase, restarts, nextSeq, active, task, runs>>

-----------------------------------------------------------------------------
(* _run_job *)

(* First step of the task: the runner starts, provider work begins. *)
RunnerStart(j) ==
  /\ task[j] = "ready"
  /\ task' = [task EXCEPT ![j] = "running"]
  /\ runs' = [runs EXCEPT ![j] = @ + 1]
  /\ UNCHANGED <<now, phase, restarts, nextSeq, jobs, heap, active, disp, retry,
                 timer, disk>>

(* A task cancelled before its first step: asyncio throws CancelledError   *)
(* into the unstarted coroutine, so neither the handlers nor the finally   *)
(* block of _run_job run.                                                  *)
RunnerSkipped(j) ==
  /\ task[j] = "doomed"
  /\ task' = [task EXCEPT ![j] = "dead"]
  /\ UNCHANGED <<now, phase, restarts, nextSeq, jobs, heap, active, disp, retry,
                 timer, disk, runs>>

(* Mutant: the slot of the queue the job was enqueued in is freed, where a *)
(* rerouted job never had one.                                             *)
FreedWhereEnqueued(j) ==
  [active EXCEPT ![jobs[j].req.queue] = IF @ > 0 THEN @ - 1 ELSE 0]

(* The active counts once job j has given up its slot. *)
Freed(j) == [active EXCEPT ![jobs[j].queue] = IF @ > 0 THEN @ - 1 ELSE 0]

(* The runner returns, raises, or lets the cancellation through; the       *)
(* finally block frees the slot and wakes every dispatcher.                *)
RunnerEnd(j, outcome) ==
  /\ task[j] \in {"running", "cancelling"}
  /\ outcome = "cancelled" => task[j] = "cancelling"
  /\ jobs' = [jobs EXCEPT ![j].status = outcome, ![j].expiresAt = now + TTL]
  /\ task' = [task EXCEPT ![j] = "none"]
  /\ active' = Freed(j)
  /\ disp' = Ensure(disp, Queues)
  /\ Persist(jobs')
  /\ UNCHANGED <<now, phase, restarts, nextSeq, heap, retry, runs>>

-----------------------------------------------------------------------------
(* Time, shutdown, crash and recovery *)

Tick ==
  /\ now < MaxTime
  /\ now' = now + 1
  /\ UNCHANGED <<phase, restarts, nextSeq, jobs, heap, active, disp, retry, task,
                 timer, disk, runs>>

(* _expire_due_records, run by the timer of the earliest terminal record.  *)
ExpireDueRecords ==
  /\ timer
  /\ \E j \in Jobs : Due(j)
  /\ MonitorOnly

(* Graceful stop: uvicorn returns and asyncio.run cancels every task.  The *)
(* loop keeps turning until they have ended, and tasks created meanwhile   *)
(* (the dispatchers _run_job's finally block wakes) run as well.           *)
Shutdown ==
  /\ phase = "serving"
  /\ restarts < MaxRestarts
  /\ phase' = "stopping"
  /\ disp' = [q \in Queues |-> Idle]
  /\ retry' = [q \in Queues |-> FALSE]
  /\ task' = [j \in Jobs |-> Cancelled(task[j])]
  /\ UNCHANGED <<now, restarts, nextSeq, jobs, heap, active, timer, disk, runs>>

(* Mutants: a job that was running is replayed; or left as it was. *)
RecoveredReplaying(job) ==
  IF job.status = "running" THEN [job EXCEPT !.status = "queued"] ELSE job

RecoveredAsStored(job) == job

(* _load_persisted_jobs for one record, before pruning. *)
Recovered(job) ==
  IF job.status = "running" THEN [job EXCEPT !.status = "failed"]
  ELSE IF job.status = "queued"
    THEN IF job.req.recoverable THEN [job EXCEPT !.sort = DeadlineSort(job.req)]
                                ELSE [job EXCEPT !.status = "failed"]
  ELSE job

(* A mutant: expires_at prunes pending records as well. *)
LoadedPruningAll(f, j) ==
  LET job == Recovered(f[j])
  IN  IF job.status \in {"absent", "deleted"}
        THEN IF jobs[j].status = "absent" THEN NoRecord ELSE Deleted
      ELSE IF job.expiresAt <= now THEN Deleted
      ELSE job

(* The record of id j after loading file contents f: unknown ids that were *)
(* issued by an earlier process are gone; expired records are pruned.      *)
Loaded(f, j) ==
  LET job == Recovered(f[j])
  IN  IF job.status \in {"absent", "deleted"}
        THEN IF jobs[j].status = "absent" THEN NoRecord ELSE Deleted
      ELSE IF job.status \in Terminal /\ job.expiresAt <= now THEN Deleted
      ELSE job

(* itertools.count(max_sequence + 1) *)
NextSequence(f) ==
  \E m \in 0..nextSeq :
    /\ \A j \in Jobs : f[j].status \notin {"absent", "deleted"} => f[j].seq <= m
    /\ m = 0 \/ \E j \in Jobs : f[j].status \notin {"absent", "deleted"} /\ f[j].seq = m
    /\ nextSeq' = m + 1

(* The process dies (at any point, or at the end of a graceful stop) and a *)
(* new one constructs the service from file contents f.                    *)
Boot(f) ==
  /\ restarts < MaxRestarts
  /\ restarts' = restarts + 1
  /\ phase' = "booted"
  /\ jobs' = [j \in Jobs |-> Loaded(f, j)]
  /\ heap' = [q \in Queues |->
                {j \in Jobs : jobs'[j].status = "queued" /\ jobs'[j].queue = q}]
  /\ NextSequence(f)
  /\ active' = [q \in Queues |-> 0]
  /\ disp' = [q \in Queues |-> Idle]
  /\ retry' = [q \in Queues |-> FALSE]
  /\ task' = [j \in Jobs |-> "none"]
  /\ timer' = FALSE              \* no event loop is running yet
  /\ \/ disk' = jobs'
     \/ SaveMayFail /\ disk' = f
  /\ UNCHANGED <<now, runs>>

Crash == Boot(disk)

(* write_text truncates the file before it writes: a crash in between      *)
(* leaves a file json.loads refuses, and the service starts empty.         *)
CrashTearingFile ==
  /\ WriteMayTear
  /\ Boot([j \in Jobs |-> NoRecord])

(* start_recovered_jobs, from the application's startup hook. *)
StartRecoveredJobs ==
  /\ phase = "booted"
  /\ phase' = "serving"
  /\ jobs' = MonitoredJobs
  /\ heap' = MonitoredHeap
  /\ disp' = Ensure(MonitoredDisp, {q \in Queues : MonitoredHeap[q] # {}})
  /\ ArmTimer(MonitoredJobs)
  /\ IF MonitorChanges
       THEN disk' = MonitoredJobs \/ (SaveMayFail /\ disk' = disk)
       ELSE disk' = disk
  /\ UNCHANGED <<now, restarts, nextSeq, active, retry, task, runs>>

-----------------------------------------------------------------------------
Init ==
  /\ now = 0
  /\ phase = "booted"
  /\ restarts = 0
  /\ nextSeq = 1
  /\ jobs = [j \in Jobs |-> NoRecord]
  /\ heap = [q \in Queues |-> {}]
  /\ active = [q \in Queues |-> 0]
  /\ disp = [q \in Queues |-> Idle]
  /\ retry = [q \in Queues |-> FALSE]
  /\ task = [j \in Jobs |-> "none"]
  /\ timer = FALSE
  /\ disk = [j \in Jobs |-> NoRecord]
  /\ runs = [j \in Jobs |-> 0]

Dispatch(q) ==
  \/ DispatchScan(q)
  \/ DispatchStart(q)
  \/ DispatchBlocked(q)
  \/ DispatchStale(q)

Outcomes == {"completed", "failed", "cancelled"}

Run(j) ==
  \/ RunnerStart(j)
  \/ RunnerSkipped(j)
  \/ \E outcome \in Outcomes : RunnerEnd(j, outcome)

Client(j) ==
  \/ \E r \in Requests : Enqueue(j, r)
  \/ Acknowledge(j)
  \/ CancelQueued(j)
  \/ CancelRunning(j)

(* Everything but the answers of the admission provider. *)
Service ==
  \/ \E j \in Jobs : Client(j) \/ Run(j)
  \/ \E r \in Requests : EnqueueRejected(r)
  \/ Poll
  \/ \E q \in Queues : Dispatch(q) \/ RetryBlocked(q)
  \/ Tick
  \/ ExpireDueRecords
  \/ Shutdown
  \/ Crash
  \/ CrashTearingFile
  \/ StartRecoveredJobs

Next ==
  \/ Service
  \/ \E q \in Queues, allowed \in BOOLEAN : AdmissionAnswer(q, allowed)

Spec == Init /\ [][Next]_vars

-----------------------------------------------------------------------------
(* Safety *)

(* Jobs that occupy a slot of queue q: a _run_job task is registered.      *)
Slots(q) == {j \in Jobs : task[j] # "none" /\ jobs[j].queue = q}

(* A queued job has exactly one heap entry, in the heap of its own queue,  *)
(* and nothing else is in a heap: cancel, expiry, rerouting, dispatch and  *)
(* recovery neither lose nor duplicate an entry.                           *)
QueueEntriesMatch ==
  \A q \in Queues :
    heap[q] = {j \in Jobs : jobs[j].status = "queued" /\ jobs[j].queue = q}

(* _active_counts counts the registered tasks of the queue, and a queue    *)
(* never runs more jobs than its concurrency, although the dispatcher      *)
(* checks the count before it awaits the admission thread and increments   *)
(* it after.                                                               *)
SlotsAccounted ==
  \A q \in Queues :
    active[q] = Cardinality(Slots(q)) /\ active[q] <= Concurrency[q]

(* Only a running job has a task. *)
TasksAreRunning == \A j \in Jobs : task[j] # "none" => jobs[j].status = "running"

(* A dispatcher asks for admission only while its queue has a free slot.   *)
SlotHeldWhileAsking ==
  \A q \in Queues :
    disp[q].pc \in {"asking", "allowed", "denied"} => active[q] < Concurrency[q]

(* The inductive strengthening of QueueEntriesMatch and SlotsAccounted.    *)
QueueInv == QueueEntriesMatch /\ TasksAreRunning /\ SlotsAccounted /\ SlotHeldWhileAsking

(* No lost wake-up: while the service is up, a queue with waiting jobs and *)
(* a free slot has a live dispatcher or a pending retry.                   *)
NoStalledQueue ==
  phase = "serving" =>
    \A q \in Queues :
      heap[q] # {} /\ active[q] < Concurrency[q] => disp[q].pc # "idle" \/ retry[q]

(* A job's provider work is started at most once: not twice in one         *)
(* process (rerouting, stale admission answers), not again after a restart *)
(* (_load_persisted_jobs does not replay running jobs).                    *)
AtMostOnce == \A j \in Jobs : runs[j] <= 1

(* The inductive strengthening of AtMostOnce, when writes do not fail: the *)
(* file is current, and whatever may still be started has not been.        *)
RunsInv ==
  /\ disk = jobs
  /\ \A j \in Jobs :
       jobs[j].status \in {"absent", "queued"} \/ task[j] \in {"ready", "doomed"} =>
         runs[j] = 0
  /\ AtMostOnce

-----------------------------------------------------------------------------
(* Action properties *)

(* A dispatcher never starts a job over a better entry of the same queue,  *)
(* whatever was enqueued, cancelled or rerouted while it awaited the       *)
(* admission thread.                                                       *)
StartsInOrder ==
  [][\A q \in Queues : \A j \in heap[q] :
       jobs'[j].status = "running" =>
         \A k \in heap[q] \ {j} : Before(jobs, j, k)]_vars

(* A restart that finds the state file whole keeps every recoverable       *)
(* queued job queued, in its queue.                                        *)
RestartKeepsQueued ==
  [][Crash =>
       \A j \in Jobs :
         jobs[j].status = "queued" /\ jobs[j].req.recoverable =>
           jobs'[j].status = "queued" /\ j \in heap'[jobs[j].queue]]_vars

(* The abstract specification of a job's life, read off the records. *)
Lifecycle == INSTANCE JobLifecycle WITH
  stage <- [j \in Jobs |-> jobs[j].status],
  started <- {j \in Jobs : runs[j] > 0}

(* Every behaviour of the queue, restarts included, is one of              *)
(* JobLifecycle: in particular an outcome a client has seen never changes. *)
ImplementsLifecycle == Lifecycle!Spec

-----------------------------------------------------------------------------
(* Liveness *)

(* Every job that was started reaches an outcome. *)
RunningEnds == \A j \in Jobs : jobs[j].status = "running" ~> jobs[j].status # "running"

-----------------------------------------------------------------------------
(* What the documentation says and the code does not do.                   *)

(* Cancelling a running job that supports it ends the job and frees its    *)
(* slot: a job whose task is done is not reported as running.              *)
CancelledRunEnds == \A j \in Jobs : jobs[j].status = "running" => task[j] # "dead"
=============================================================================
