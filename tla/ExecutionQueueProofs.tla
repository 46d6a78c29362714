------------------------ MODULE ExecutionQueueProofs ------------------------
(***************************************************************************)
(* Theorems about ExecutionQueue, and about LaneAdmission, the queue with  *)
(* the node's admission rule, for every set of jobs, queues, clients and   *)
(* requests, every concurrency and every bound of the model.               *)
(***************************************************************************)
EXTENDS LaneAdmission, FiniteSetTheorems, TLAPS

-----------------------------------------------------------------------------
(* Types of the helpers *)

(* Every request a record can carry is well formed. *)
LEMMA RequestType == \A r \in Requests \cup {NoRequest} : RequestOK(r)
<1>1. RequestOK(NoRequest)
  BY QueuesAssumption, NumbersAssumption DEF RequestOK, NoRequest
<1> QED
  BY <1>1, RequestsAssumption

(* A sort key is a number. *)
LEMMA DeadlineSortType ==
  ASSUME now \in Nat, NEW r \in Requests \cup {NoRequest}
  PROVE  DeadlineSort(r) \in Nat
<1>1. r.maxWait \in Nat /\ r.deadlineAt \in Nat
  BY RequestType DEF RequestOK
<1> QED
  BY <1>1, NumbersAssumption DEF DeadlineSort

(* The empty and the deleted record are records. *)
LEMMA NoRecordType == NoRecord \in JobRecord /\ Deleted \in JobRecord
  BY QueuesAssumption DEF NoRecord, Deleted, JobRecord, Statuses, Pending, Terminal

(* The dispatcher states the actions assign. *)
LEMMA DispatcherType ==
  /\ Idle \in DispatcherState
  /\ Scheduled \in DispatcherState
  /\ \A j \in Jobs : [pc |-> "asking", job |-> j] \in DispatcherState
  BY DEF Idle, Scheduled, DispatcherState

(* Waking dispatchers yields dispatcher states. *)
LEMMA EnsureType ==
  ASSUME NEW d \in [Queues -> DispatcherState], NEW qs
  PROVE  Ensure(d, qs) \in [Queues -> DispatcherState]
  BY DispatcherType DEF Ensure

(* Persist leaves a type-correct file and timer. *)
LEMMA PersistType ==
  ASSUME NEW js \in [Jobs -> JobRecord], disk \in [Jobs -> JobRecord], Persist(js)
  PROVE  disk' \in [Jobs -> JobRecord] /\ timer' \in BOOLEAN
  BY DEF Persist, ArmTimer

(* The deadline monitor keeps records, heaps and dispatchers well typed. *)
LEMMA MonitoredJobType ==
  ASSUME TypeOK, NEW j \in Jobs
  PROVE  MonitoredJob(j) \in JobRecord
<1>1. jobs[j] \in JobRecord /\ now \in Nat /\ now + TTL \in Nat
  BY NumbersAssumption DEF TypeOK
<1>2. DeadlineSort(jobs[j].req) \in Nat
  BY <1>1, DeadlineSortType DEF JobRecord
<1>3. [jobs[j] EXCEPT !.queue = Cloud, !.sort = DeadlineSort(jobs[j].req)] \in JobRecord
  BY <1>1, <1>2, QueuesAssumption DEF JobRecord
<1>4. [jobs[j] EXCEPT !.status = "expired_wait_budget", !.expiresAt = now + TTL] \in JobRecord
  BY <1>1 DEF JobRecord, Statuses, Terminal
<1> QED
  BY <1>1, <1>3, <1>4, NoRecordType DEF MonitoredJob

(* The monitored records, heaps and dispatchers have their types. *)
LEMMA MonitoredType ==
  ASSUME TypeOK
  PROVE  /\ MonitoredJobs \in [Jobs -> JobRecord]
         /\ MonitoredHeap \in [Queues -> SUBSET Jobs]
         /\ MonitoredDisp \in [Queues -> DispatcherState]
<1>1. MonitoredJobs \in [Jobs -> JobRecord]
  BY MonitoredJobType DEF MonitoredJobs
<1>2. MonitoredHeap \in [Queues -> SUBSET Jobs]
  BY DEF MonitoredHeap, TypeOK
<1>3. MonitoredDisp \in [Queues -> DispatcherState]
  BY EnsureType DEF MonitoredDisp, TypeOK
<1> QED
  BY <1>1, <1>2, <1>3

(* One turn of a dispatcher keeps heaps and dispatchers well typed. *)
LEMMA ScanType ==
  ASSUME TypeOK, NEW q \in Queues, NEW js, NEW act,
         NEW hs \in [Queues -> SUBSET Jobs],
         Scan(q, js, hs, act)
  PROVE  /\ heap' \in [Queues -> SUBSET Jobs]
         /\ disp' \in [Queues -> DispatcherState]
<1> DEFINE live == {j \in hs[q] : js[j].status = "queued"}
<1>1. live \subseteq Jobs
  OBVIOUS
<1>2. disp \in [Queues -> DispatcherState]
  BY DEF TypeOK
<1>3. CASE disp' = [disp EXCEPT ![q] = Idle] /\ (heap' = hs \/ heap' = [hs EXCEPT ![q] = {}])
  BY <1>2, <1>3, DispatcherType
<1>4. CASE \E j \in live :
             /\ heap' = [hs EXCEPT ![q] = {k \in @ : k = j \/ Before(js, j, k)}]
             /\ disp' = [disp EXCEPT ![q] = [pc |-> "asking", job |-> j]]
  BY <1>1, <1>2, <1>4, DispatcherType
<1> QED
  BY <1>3, <1>4 DEF Scan

-----------------------------------------------------------------------------
(* Type correctness *)

(* The deadline monitor on its own. *)
LEMMA MonitorOnlyType ==
  ASSUME TypeOK, MonitorOnly
  PROVE  TypeOK'
<1>1. disk' \in [Jobs -> JobRecord] /\ timer' \in BOOLEAN
  BY MonitoredType, PersistType DEF MonitorOnly, TypeOK
<1> QED
  BY <1>1, MonitoredType DEF MonitorOnly, TypeOK

(* A process boot from any well-typed file. *)
LEMMA BootType ==
  ASSUME TypeOK, NEW f \in [Jobs -> JobRecord], Boot(f)
  PROVE  TypeOK'
<1>1. \A j \in Jobs : Loaded(f, j) \in JobRecord
  <2> SUFFICES ASSUME NEW j \in Jobs
               PROVE  Loaded(f, j) \in JobRecord
    OBVIOUS
  <2>1. f[j] \in JobRecord /\ now \in Nat
    BY DEF TypeOK
  <2>2. DeadlineSort(f[j].req) \in Nat
    BY <2>1, DeadlineSortType DEF JobRecord
  <2>3. /\ [f[j] EXCEPT !.status = "failed"] \in JobRecord
        /\ [f[j] EXCEPT !.sort = DeadlineSort(f[j].req)] \in JobRecord
    BY <2>1, <2>2 DEF JobRecord, Statuses, Terminal
  <2>4. Recovered(f[j]) \in JobRecord
    BY <2>1, <2>3 DEF Recovered
  <2> QED
    BY <2>4, NoRecordType DEF Loaded
<1>2. jobs' \in [Jobs -> JobRecord]
  BY <1>1 DEF Boot
<1>3. nextSeq' \in Nat
  BY DEF Boot, NextSequence, TypeOK
<1>4. disk' \in [Jobs -> JobRecord]
  BY <1>2 DEF Boot
<1>5. heap' \in [Queues -> SUBSET Jobs] /\ disp' \in [Queues -> DispatcherState]
  BY DispatcherType DEF Boot
<1>6. restarts' \in Nat /\ phase' \in {"booted", "serving", "stopping"}
  BY DEF Boot, TypeOK
<1>8. timer' \in BOOLEAN
  BY Zenon DEF Boot
<1>7. /\ active' \in [Queues -> Nat]
      /\ retry' \in [Queues -> BOOLEAN]
      /\ task' \in [Jobs -> TaskState]
      /\ UNCHANGED <<now, runs>>
  BY DEF Boot, TaskState
<1> QED
  BY <1>2, <1>3, <1>4, <1>5, <1>6, <1>7, <1>8 DEF TypeOK

(* Task.cancel() yields a task state. *)
LEMMA CancelledType == \A t \in TaskState : Cancelled(t) \in TaskState
  BY DEF Cancelled, TaskState

(* The client's calls. *)
LEMMA ClientType ==
  ASSUME TypeOK, NEW j \in Jobs, Client(j)
  PROVE  TypeOK'
<1>1. CASE \E r \in Requests : Enqueue(j, r)
  <2>1. PICK r \in Requests : Enqueue(j, r)
    BY <1>1
  <2>2. NewJob(r) \in JobRecord
    <3>1. DeadlineSort(r) \in Nat /\ now \in Nat /\ now + TTL \in Nat /\ nextSeq \in Nat
      BY DeadlineSortType, NumbersAssumption DEF TypeOK
    <3>2. r.queue \in Queues
      BY RequestType DEF RequestOK
    <3> QED
      BY <3>1, <3>2 DEF NewJob, JobRecord, Statuses, Pending
  <2>3. jobs' \in [Jobs -> JobRecord]
    BY <2>1, <2>2, MonitoredType DEF Enqueue
  <2>4. heap' \in [Queues -> SUBSET Jobs]
    BY <2>1, MonitoredType DEF Enqueue
  <2>5. disp' \in [Queues -> DispatcherState]
    BY <2>1, MonitoredType, EnsureType DEF Enqueue
  <2>6. disk' \in [Jobs -> JobRecord] /\ timer' \in BOOLEAN
    BY <2>1, <2>3, PersistType DEF Enqueue, TypeOK
  <2>7. nextSeq' \in Nat /\ UNCHANGED <<now, phase, restarts, active, retry, task, runs>>
    BY <2>1 DEF Enqueue, TypeOK
  <2> QED
    BY <2>3, <2>4, <2>5, <2>6, <2>7 DEF TypeOK
<1>2. CASE Acknowledge(j)
  <2>1. jobs' \in [Jobs -> JobRecord]
    <3>1. jobs[j] \in JobRecord
      BY DEF TypeOK
    <3>2. [jobs[j] EXCEPT !.acked = TRUE] \in JobRecord
      BY <3>1 DEF JobRecord
    <3> QED
      BY <1>2, <3>2 DEF Acknowledge, TypeOK
  <2>2. disk' \in [Jobs -> JobRecord] /\ timer' \in BOOLEAN
    BY <1>2, <2>1, PersistType DEF Acknowledge, TypeOK
  <2> QED
    BY <1>2, <2>1, <2>2 DEF Acknowledge, TypeOK
<1>3. CASE CancelQueued(j)
  <2>1. jobs' \in [Jobs -> JobRecord]
    <3>1. MonitoredJobs[j] \in JobRecord /\ now + TTL \in Nat
      BY MonitoredType, NumbersAssumption DEF TypeOK
    <3>2. [MonitoredJobs[j] EXCEPT !.status = "cancelled", !.expiresAt = now + TTL] \in JobRecord
      BY <3>1 DEF JobRecord, Statuses, Terminal
    <3> QED
      BY <1>3, <3>2, MonitoredType DEF CancelQueued
  <2>2. heap' \in [Queues -> SUBSET Jobs]
    BY <1>3, MonitoredType DEF CancelQueued
  <2>3. disk' \in [Jobs -> JobRecord] /\ timer' \in BOOLEAN
    BY <1>3, <2>1, PersistType DEF CancelQueued, TypeOK
  <2> QED
    BY <1>3, <2>1, <2>2, <2>3, MonitoredType DEF CancelQueued, TypeOK
<1>4. CASE CancelRunning(j)
  <2>1. jobs' \in [Jobs -> JobRecord]
    BY <1>4, MonitoredType DEF CancelRunning
  <2>2. task' \in [Jobs -> TaskState]
    BY <1>4, CancelledType DEF CancelRunning, TypeOK
  <2>3. disk' \in [Jobs -> JobRecord] /\ timer' \in BOOLEAN
    BY <1>4, <2>1, PersistType DEF CancelRunning, TypeOK
  <2> QED
    BY <1>4, <2>1, <2>2, <2>3, MonitoredType DEF CancelRunning, TypeOK
<1> QED
  BY <1>1, <1>2, <1>3, <1>4 DEF Client

(* The steps of a _run_job task. *)
LEMMA RunType ==
  ASSUME TypeOK, NEW j \in Jobs, Run(j)
  PROVE  TypeOK'
<1>1. CASE RunnerStart(j)
  BY <1>1 DEF RunnerStart, TypeOK, TaskState
<1>2. CASE RunnerSkipped(j)
  BY <1>2 DEF RunnerSkipped, TypeOK, TaskState
<1>3. CASE \E outcome \in Outcomes : RunnerEnd(j, outcome)
  <2>1. PICK outcome \in Outcomes : RunnerEnd(j, outcome)
    BY <1>3
  <2>2. jobs' \in [Jobs -> JobRecord]
    <3>1. jobs[j] \in JobRecord /\ now + TTL \in Nat
      BY NumbersAssumption DEF TypeOK
    <3>2. [jobs[j] EXCEPT !.status = outcome, !.expiresAt = now + TTL] \in JobRecord
      BY <3>1 DEF JobRecord, Statuses, Terminal, Outcomes
    <3> QED
      BY <2>1, <3>2 DEF RunnerEnd, Freed, TypeOK
  <2>3. active' \in [Queues -> Nat]
    <3>1. jobs[j].queue \in Queues /\ active[jobs[j].queue] \in Nat
      BY DEF TypeOK, JobRecord
    <3>2. (IF active[jobs[j].queue] > 0 THEN active[jobs[j].queue] - 1 ELSE 0) \in Nat
      BY <3>1
    <3> QED
      BY <2>1, <3>1, <3>2 DEF RunnerEnd, Freed, TypeOK
  <2>4. disp' \in [Queues -> DispatcherState]
    BY <2>1, EnsureType DEF RunnerEnd, Freed, TypeOK
  <2>5. disk' \in [Jobs -> JobRecord] /\ timer' \in BOOLEAN
    BY <2>1, <2>2, PersistType DEF RunnerEnd, Freed, TypeOK
  <2>6. task' \in [Jobs -> TaskState]
    BY <2>1 DEF RunnerEnd, Freed, TypeOK, TaskState
  <2> QED
    BY <2>1, <2>2, <2>3, <2>4, <2>5, <2>6 DEF RunnerEnd, Freed, TypeOK
<1> QED
  BY <1>1, <1>2, <1>3 DEF Run

(* The steps of a dispatcher. *)
LEMMA DispatchType ==
  ASSUME TypeOK, NEW q \in Queues, Dispatch(q)
  PROVE  TypeOK'
<1>1. CASE DispatchScan(q)
  <2>1. heap' \in [Queues -> SUBSET Jobs] /\ disp' \in [Queues -> DispatcherState]
    BY <1>1, ScanType DEF DispatchScan, TypeOK
  <2> QED
    BY <1>1, <2>1 DEF DispatchScan, TypeOK
<1>2. CASE DispatchStart(q)
  <2> DEFINE j == disp[q].job
             js == [jobs EXCEPT ![j].status = "running"]
             act == [active EXCEPT ![q] = @ + 1]
             hs == [heap EXCEPT ![q] = @ \ {j}]
  <2>1. j \in Jobs
    BY <1>2 DEF DispatchStart, StillHead, IsHead, TypeOK
  <2>2. js \in [Jobs -> JobRecord]
    <3>1. jobs \in [Jobs -> JobRecord] /\ jobs[j] \in JobRecord
      BY <2>1 DEF TypeOK
    <3>2. [jobs[j] EXCEPT !.status = "running"] \in JobRecord
      BY <3>1 DEF JobRecord, Statuses, Pending
    <3> QED
      BY <2>1, <3>1, <3>2
  <2>3. act \in [Queues -> Nat]
    BY DEF TypeOK
  <2>4. hs \in [Queues -> SUBSET Jobs]
    BY DEF TypeOK
  <2>5. /\ jobs' = js
        /\ active' = act
        /\ task' = [task EXCEPT ![j] = "ready"]
        /\ Persist(js)
        /\ Scan(q, js, hs, act)
        /\ UNCHANGED <<now, phase, restarts, nextSeq, retry, runs>>
    BY <1>2 DEF DispatchStart
  <2> HIDE DEF j, js, act, hs
  <2>6. heap' \in [Queues -> SUBSET Jobs] /\ disp' \in [Queues -> DispatcherState]
    BY <2>4, <2>5, ScanType
  <2>7. disk' \in [Jobs -> JobRecord] /\ timer' \in BOOLEAN
    BY <2>2, <2>5, PersistType DEF TypeOK
  <2> QED
    BY <2>2, <2>3, <2>5, <2>6, <2>7 DEF TypeOK, TaskState
<1>3. CASE DispatchBlocked(q)
  <2>1. disk' \in [Jobs -> JobRecord] /\ timer' \in BOOLEAN
    BY <1>3, PersistType DEF DispatchBlocked, TypeOK
  <2> QED
    BY <1>3, <2>1, DispatcherType DEF DispatchBlocked, TypeOK
<1>4. CASE DispatchStale(q)
  <2> DEFINE hs == IF IsHead(q, disp[q].job) THEN [heap EXCEPT ![q] = @ \ {disp[q].job}]
                                             ELSE heap
  <2>1. hs \in [Queues -> SUBSET Jobs]
    BY DEF TypeOK
  <2>2. Scan(q, jobs, hs, active)
    BY <1>4 DEF DispatchStale
  <2> HIDE DEF hs
  <2>3. heap' \in [Queues -> SUBSET Jobs] /\ disp' \in [Queues -> DispatcherState]
    BY <2>1, <2>2, ScanType
  <2> QED
    BY <1>4, <2>3 DEF DispatchStale, TypeOK
<1> QED
  BY <1>1, <1>2, <1>3, <1>4 DEF Dispatch

(* Every step keeps the variables well typed. *)
LEMMA TypeStep == TypeOK /\ [Next]_vars => TypeOK'
<1> SUFFICES ASSUME TypeOK, [Next]_vars
             PROVE  TypeOK'
  OBVIOUS
<1>1. ASSUME NEW j \in Jobs, Client(j) \/ Run(j) PROVE TypeOK'
  BY <1>1, ClientType, RunType
<1>2. ASSUME NEW r \in Requests, EnqueueRejected(r) PROVE TypeOK'
  BY <1>2, MonitorOnlyType DEF EnqueueRejected
<1>3. CASE Poll
  BY <1>3, MonitorOnlyType DEF Poll
<1>4. ASSUME NEW q \in Queues, Dispatch(q) PROVE TypeOK'
  BY <1>4, DispatchType
<1>5. ASSUME NEW q \in Queues, RetryBlocked(q) PROVE TypeOK'
  <2>1. disk' \in [Jobs -> JobRecord] /\ timer' \in BOOLEAN
    BY <1>5, MonitoredType, PersistType DEF RetryBlocked, TypeOK
  <2>2. disp' \in [Queues -> DispatcherState]
    BY <1>5, MonitoredType, EnsureType DEF RetryBlocked
  <2> QED
    BY <1>5, <2>1, <2>2, MonitoredType DEF RetryBlocked, TypeOK
<1>6. CASE Tick
  BY <1>6 DEF Tick, TypeOK
<1>7. CASE ExpireDueRecords
  BY <1>7, MonitorOnlyType DEF ExpireDueRecords
<1>8. CASE Shutdown
  BY <1>8, DispatcherType, CancelledType DEF Shutdown, TypeOK
<1>9. CASE Crash
  BY <1>9, BootType DEF Crash, TypeOK
<1>10. CASE CrashTearingFile
  <2>1. [j \in Jobs |-> NoRecord] \in [Jobs -> JobRecord]
    BY NoRecordType
  <2> QED
    BY <1>10, <2>1, BootType DEF CrashTearingFile
<1>11. CASE StartRecoveredJobs
  <2>1. disp' \in [Queues -> DispatcherState]
    BY <1>11, MonitoredType, EnsureType DEF StartRecoveredJobs
  <2>2. disk' \in [Jobs -> JobRecord] /\ timer' \in BOOLEAN
    BY <1>11, MonitoredType DEF StartRecoveredJobs, ArmTimer, TypeOK
  <2> QED
    BY <1>11, <2>1, <2>2, MonitoredType DEF StartRecoveredJobs, TypeOK
<1>12. ASSUME NEW q \in Queues, NEW allowed \in BOOLEAN, AdmissionAnswer(q, allowed)
       PROVE  TypeOK'
  BY SMTT(30), <1>12 DEF AdmissionAnswer, TypeOK, DispatcherState
<1>13. CASE UNCHANGED vars
  BY <1>13 DEF vars, TypeOK
<1> QED
  BY <1>1, <1>2, <1>3, <1>4, <1>5, <1>6, <1>7, <1>8, <1>9, <1>10, <1>11, <1>12, <1>13
     DEF Next, Service

(* The initial state is type-correct. *)
LEMMA TypeInit == Init => TypeOK
<1> SUFFICES ASSUME Init PROVE TypeOK
  OBVIOUS
<1>1. timer \in BOOLEAN /\ retry \in [Queues -> BOOLEAN]
  BY Zenon DEF Init
<1>2. jobs \in [Jobs -> JobRecord] /\ disk \in [Jobs -> JobRecord]
  BY NoRecordType DEF Init
<1>3. disp \in [Queues -> DispatcherState] /\ heap \in [Queues -> SUBSET Jobs]
  BY DispatcherType DEF Init
<1>4. /\ now \in Nat /\ restarts \in Nat /\ nextSeq \in Nat
      /\ phase \in {"booted", "serving", "stopping"}
      /\ active \in [Queues -> Nat] /\ task \in [Jobs -> TaskState]
      /\ runs \in [Jobs -> Nat]
  BY DEF Init, TaskState
<1> QED
  BY <1>1, <1>2, <1>3, <1>4 DEF TypeOK

(* Type correctness of the queue service: records, heaps, counters,        *)
(* dispatcher and task states stay in their domains in every behaviour.    *)
THEOREM TypeCorrect == Spec => []TypeOK
  BY TypeInit, TypeStep, PTL DEF Spec

-----------------------------------------------------------------------------
(* No lost wake-up *)

(* Ensure wakes the queues it is given and stops none. *)
LEMMA EnsureWakes ==
  ASSUME NEW d \in [Queues -> DispatcherState], NEW qs, NEW q \in Queues
  PROVE  /\ q \in qs => Ensure(d, qs)[q].pc # "idle"
         /\ d[q].pc # "idle" => Ensure(d, qs)[q].pc # "idle"
  BY DEF Ensure, Scheduled

(* The monitor stops no dispatcher, and a heap it leaves non-empty was     *)
(* non-empty before or has a live dispatcher now.                          *)
LEMMA MonitorWakes ==
  ASSUME TypeOK, NEW q \in Queues
  PROVE  /\ disp[q].pc # "idle" => MonitoredDisp[q].pc # "idle"
         /\ MonitoredHeap[q] # {} => heap[q] # {} \/ MonitoredDisp[q].pc # "idle"
<1>1. disp \in [Queues -> DispatcherState]
  BY DEF TypeOK
<1>2. CASE \E j \in Jobs : Spills(j)
  <2>1. MonitoredDisp = Ensure(disp, {Cloud})
    BY <1>2 DEF MonitoredDisp
  <2>2. q # Cloud => MonitoredHeap[q] \subseteq heap[q]
    BY DEF MonitoredHeap
  <2> QED
    BY <1>1, <2>1, <2>2, EnsureWakes
<1>3. CASE ~ \E j \in Jobs : Spills(j)
  <2>1. MonitoredDisp = disp
    BY <1>3 DEF MonitoredDisp
  <2>2. MonitoredHeap[q] \subseteq heap[q]
    BY <1>3 DEF MonitoredHeap
  <2> QED
    BY <2>1, <2>2
<1> QED
  BY <1>2, <1>3

(* A dispatcher that returns leaves a full queue or an empty heap behind,  *)
(* and touches no other queue.                                             *)
LEMMA ScanWakes ==
  ASSUME TypeOK, NEW q \in Queues, NEW p \in Queues, NEW js, NEW act,
         NEW hs \in [Queues -> SUBSET Jobs],
         act \in [Queues -> Nat],
         Scan(q, js, hs, act)
  PROVE  /\ p # q => heap'[p] = hs[p] /\ disp'[p] = disp[p]
         /\ heap'[q] # {} /\ act[q] < Concurrency[q] => disp'[q].pc # "idle"
<1>1. disp \in [Queues -> DispatcherState] /\ act[q] \in Nat /\ Concurrency[q] \in Nat
  BY ConcurrencyAssumption DEF TypeOK
<1>2. CASE act[q] >= Concurrency[q] /\ heap' = hs /\ disp' = [disp EXCEPT ![q] = Idle]
  BY <1>1, <1>2
<1>3. CASE heap' = [hs EXCEPT ![q] = {}] /\ disp' = [disp EXCEPT ![q] = Idle]
  BY <1>1, <1>3
<1>4. ASSUME NEW j \in {k \in hs[q] : js[k].status = "queued"},
             heap' = [hs EXCEPT ![q] = {k \in @ : k = j \/ Before(js, j, k)}],
             disp' = [disp EXCEPT ![q] = [pc |-> "asking", job |-> j]]
      PROVE  /\ p # q => heap'[p] = hs[p] /\ disp'[p] = disp[p]
             /\ heap'[q] # {} /\ act[q] < Concurrency[q] => disp'[q].pc # "idle"
  BY <1>1, <1>4
<1> QED
  BY <1>2, <1>3, <1>4 DEF Scan

(* A step of the monitor alone, with the dispatchers it wakes. *)
LEMMA MonitorOnlyStalled ==
  ASSUME TypeOK, NoStalledQueue, MonitorOnly
  PROVE  NoStalledQueue'
  BY MonitorWakes DEF MonitorOnly, NoStalledQueue

(* Every step preserves NoStalledQueue. *)
LEMMA StalledStep == TypeOK /\ NoStalledQueue /\ [Next]_vars => NoStalledQueue'
<1> SUFFICES ASSUME TypeOK, NoStalledQueue, [Next]_vars,
                    phase' = "serving",
                    NEW p \in Queues, heap'[p] # {}, active'[p] < Concurrency'[p]
             PROVE  disp'[p].pc # "idle" \/ retry'[p]
  BY DEF NoStalledQueue
<1> USE DEF NoStalledQueue
<1>0. /\ disp \in [Queues -> DispatcherState]
      /\ MonitoredDisp \in [Queues -> DispatcherState]
      /\ MonitoredHeap \in [Queues -> SUBSET Jobs]
      /\ heap \in [Queues -> SUBSET Jobs]
      /\ active \in [Queues -> Nat]
      /\ retry \in [Queues -> BOOLEAN]
  BY MonitoredType DEF TypeOK
<1>1. ASSUME NEW j \in Jobs, NEW r \in Requests, Enqueue(j, r)
      PROVE  disp'[p].pc # "idle" \/ retry'[p]
  <2>1. /\ disp' = Ensure(MonitoredDisp, {r.queue})
        /\ heap' = [MonitoredHeap EXCEPT ![r.queue] = @ \cup {j}]
        /\ phase = "serving" /\ active' = active /\ retry' = retry
    BY <1>1 DEF Enqueue
  <2>2. p = r.queue => disp'[p].pc # "idle"
    BY <1>0, <2>1, EnsureWakes
  <2>3. p # r.queue => MonitoredHeap[p] # {}
    BY <1>0, <2>1
  <2>4. MonitoredDisp[p].pc # "idle" => disp'[p].pc # "idle"
    BY <1>0, <2>1, EnsureWakes
  <2> QED
    BY <2>1, <2>2, <2>3, <2>4, MonitorWakes
<1>2. ASSUME NEW j \in Jobs, Acknowledge(j) PROVE disp'[p].pc # "idle" \/ retry'[p]
  BY <1>2 DEF Acknowledge
<1>3. ASSUME NEW j \in Jobs, CancelQueued(j) PROVE disp'[p].pc # "idle" \/ retry'[p]
  <2>1. MonitoredHeap[p] # {} /\ disp' = MonitoredDisp
    BY <1>0, <1>3 DEF CancelQueued
  <2> QED
    BY <1>3, <2>1, MonitorWakes DEF CancelQueued
<1>4. ASSUME NEW j \in Jobs, CancelRunning(j) PROVE disp'[p].pc # "idle" \/ retry'[p]
  BY <1>4, MonitorWakes DEF CancelRunning
<1>5. ASSUME NEW j \in Jobs, RunnerStart(j) \/ RunnerSkipped(j)
      PROVE  disp'[p].pc # "idle" \/ retry'[p]
  BY <1>5 DEF RunnerStart, RunnerSkipped
<1>6. ASSUME NEW j \in Jobs, NEW outcome \in Outcomes, RunnerEnd(j, outcome)
      PROVE  disp'[p].pc # "idle" \/ retry'[p]
  BY <1>0, <1>6, EnsureWakes DEF RunnerEnd, Freed
<1>7. ASSUME MonitorOnly PROVE disp'[p].pc # "idle" \/ retry'[p]
  BY <1>7, MonitorOnlyStalled
<1>8. ASSUME NEW q \in Queues, Dispatch(q) PROVE disp'[p].pc # "idle" \/ retry'[p]
  <2>1. CASE DispatchScan(q)
    <3>1. Scan(q, jobs, heap, active)
      BY <2>1 DEF DispatchScan
    <3>2. /\ p # q => heap'[p] = heap[p] /\ disp'[p] = disp[p]
          /\ heap'[q] # {} /\ active[q] < Concurrency[q] => disp'[q].pc # "idle"
      BY <1>0, <3>1, ScanWakes
    <3> QED
      BY <2>1, <3>2 DEF DispatchScan
  <2>2. CASE DispatchStart(q)
    <3> DEFINE j == disp[q].job
               js == [jobs EXCEPT ![j].status = "running"]
               act == [active EXCEPT ![q] = @ + 1]
               hs == [heap EXCEPT ![q] = @ \ {j}]
    <3>1. Scan(q, js, hs, act) /\ active' = act /\ retry' = retry /\ phase' = phase
      BY <2>2 DEF DispatchStart
    <3>2. hs \in [Queues -> SUBSET Jobs] /\ act \in [Queues -> Nat]
      BY <1>0
    <3>3. p # q => hs[p] = heap[p] /\ act[p] = active[p]
      BY <1>0
    <3> HIDE DEF j, js, act, hs
    <3>4. /\ p # q => heap'[p] = hs[p] /\ disp'[p] = disp[p]
          /\ heap'[q] # {} /\ act[q] < Concurrency[q] => disp'[q].pc # "idle"
      BY <3>1, <3>2, ScanWakes
    <3> QED
      BY <3>1, <3>3, <3>4
  <2>3. CASE DispatchBlocked(q)
    BY <1>0, <2>3 DEF DispatchBlocked
  <2>4. CASE DispatchStale(q)
    <3> DEFINE hs == IF IsHead(q, disp[q].job) THEN [heap EXCEPT ![q] = @ \ {disp[q].job}]
                                               ELSE heap
    <3>1. Scan(q, jobs, hs, active) /\ UNCHANGED <<active, retry, phase>>
      BY <2>4 DEF DispatchStale
    <3>2. hs \in [Queues -> SUBSET Jobs]
      BY <1>0
    <3>3. p # q => hs[p] = heap[p]
      BY <1>0
    <3> HIDE DEF hs
    <3>4. /\ p # q => heap'[p] = hs[p] /\ disp'[p] = disp[p]
          /\ heap'[q] # {} /\ active[q] < Concurrency[q] => disp'[q].pc # "idle"
      BY <1>0, <3>1, <3>2, ScanWakes
    <3> QED
      BY <3>1, <3>3, <3>4
  <2> QED
    BY <1>8, <2>1, <2>2, <2>3, <2>4 DEF Dispatch
<1>9. ASSUME NEW q \in Queues, RetryBlocked(q) PROVE disp'[p].pc # "idle" \/ retry'[p]
  <2>1. /\ heap' = MonitoredHeap
        /\ disp' = IF MonitoredHeap[q] # {} THEN Ensure(MonitoredDisp, {q}) ELSE MonitoredDisp
        /\ retry' = [retry EXCEPT ![q] = FALSE]
        /\ active' = active /\ phase = "serving"
    BY <1>9 DEF RetryBlocked
  <2>2. p = q => disp'[p].pc # "idle"
    BY <1>0, <2>1, EnsureWakes
  <2>3. MonitoredDisp[p].pc # "idle" => disp'[p].pc # "idle"
    BY <1>0, <2>1, EnsureWakes
  <2>4. p # q => retry'[p] = retry[p]
    BY <1>0, <2>1
  <2> QED
    BY <2>1, <2>2, <2>3, <2>4, MonitorWakes
<1>10. CASE Tick
  BY <1>10 DEF Tick
<1>11. CASE Shutdown
  BY <1>11 DEF Shutdown
<1>12. ASSUME NEW f, Boot(f) PROVE FALSE
  BY <1>12 DEF Boot
<1>13. CASE StartRecoveredJobs
  BY <1>0, <1>13, EnsureWakes DEF StartRecoveredJobs
<1>14. ASSUME NEW q \in Queues, NEW allowed \in BOOLEAN, AdmissionAnswer(q, allowed)
       PROVE  disp'[p].pc # "idle" \/ retry'[p]
  BY <1>0, <1>14 DEF AdmissionAnswer, DispatcherState
<1>15. CASE UNCHANGED vars
  BY <1>15 DEF vars
<1>16. CASE \E j \in Jobs : Client(j) \/ Run(j)
  BY <1>1, <1>2, <1>3, <1>4, <1>5, <1>6, <1>16 DEF Client, Run
<1> QED
  BY <1>7, <1>8, <1>9, <1>10, <1>11, <1>12, <1>13, <1>14, <1>15, <1>16
     DEF Next, Service, Poll, EnqueueRejected, ExpireDueRecords, Crash, CrashTearingFile

(* While the service is up, a queue that has waiting jobs and a free slot  *)
(* always has a live dispatcher or a pending retry: whatever the order of  *)
(* enqueues, cancellations, reroutings, refusals and job ends, no wake-up  *)
(* of _dispatch_loop is lost.                                              *)
THEOREM NoLostWakeup == Spec => []NoStalledQueue
<1>1. Init => NoStalledQueue
  BY DEF Init, NoStalledQueue
<1> QED
  BY <1>1, TypeCorrect, StalledStep, PTL DEF Spec

-----------------------------------------------------------------------------
(* Heap entries, slots and concurrency *)

(* The monitor leaves running jobs alone and makes no job pending. *)
LEMMA MonitorKeeps ==
  ASSUME TypeOK, NEW j \in Jobs
  PROVE  /\ jobs[j].status \in {"absent", "running"} => MonitoredJobs[j] = jobs[j]
         /\ MonitoredJobs[j].status \in {"absent", "running"} => MonitoredJobs[j] = jobs[j]
         /\ MonitoredJobs[j].status = "queued" => jobs[j].status = "queued"
         /\ MonitoredJobs[j].status = "queued" <=>
              jobs[j].status = "queued" /\ (Spills(j) \/ ~Overdue(j))
         /\ MonitoredJobs[j].queue = IF Spills(j) THEN Cloud
                                     ELSE IF Due(j) THEN Cloud ELSE jobs[j].queue
<1>1. MonitoredJobs[j] = MonitoredJob(j) /\ jobs[j] \in JobRecord
  BY DEF MonitoredJobs, TypeOK
<1>2. CASE Due(j)
  <2>1. MonitoredJob(j) = Deleted /\ Deleted.status = "deleted" /\ Deleted.queue = Cloud
    BY <1>2 DEF MonitoredJob, Deleted, NoRecord
  <2>2. jobs[j].status \in Terminal
    BY <1>2 DEF Due
  <2> QED
    BY <1>1, <1>2, <2>1, <2>2 DEF Terminal, Spills, Overdue
<1>3. CASE ~Due(j) /\ Spills(j)
  <2>1. MonitoredJob(j) = [jobs[j] EXCEPT !.queue = Cloud, !.sort = DeadlineSort(jobs[j].req)]
    BY <1>3 DEF MonitoredJob
  <2>2. MonitoredJob(j).status = jobs[j].status /\ MonitoredJob(j).queue = Cloud
    BY <1>1, <2>1 DEF JobRecord
  <2> QED
    BY <1>1, <1>3, <2>2 DEF Spills, Overdue
<1>4. CASE ~Due(j) /\ ~Spills(j) /\ Overdue(j)
  <2>1. MonitoredJob(j) = [jobs[j] EXCEPT !.status = "expired_wait_budget", !.expiresAt = now + TTL]
    BY <1>4 DEF MonitoredJob
  <2>2. MonitoredJob(j).status = "expired_wait_budget" /\ MonitoredJob(j).queue = jobs[j].queue
    BY <1>1, <2>1 DEF JobRecord
  <2> QED
    BY <1>1, <1>4, <2>2 DEF Overdue
<1>5. CASE ~Due(j) /\ ~Spills(j) /\ ~Overdue(j)
  BY <1>1, <1>5 DEF MonitoredJob
<1> QED
  BY <1>2, <1>3, <1>4, <1>5

(* The monitor keeps heaps and records in step. *)
LEMMA MonitorMatches ==
  ASSUME TypeOK, QueueEntriesMatch, NEW q \in Queues
  PROVE  MonitoredHeap[q] =
           {j \in Jobs : MonitoredJobs[j].status = "queued" /\ MonitoredJobs[j].queue = q}
<1>1. heap[q] = {j \in Jobs : jobs[j].status = "queued" /\ jobs[j].queue = q}
  BY DEF QueueEntriesMatch
<1>2. MonitoredHeap[q] = {j \in heap[q] : ~(Overdue(j) /\ jobs[j].queue = q)}
                           \cup IF q = Cloud THEN {j \in Jobs : Spills(j)} ELSE {}
  BY DEF MonitoredHeap
<1>3. \A j \in Jobs : Spills(j) =>
         Overdue(j) /\ jobs[j].status = "queued" /\ jobs[j].queue = Local
  BY DEF Spills, Overdue
<1>4. \A j \in Jobs : Due(j) => jobs[j].status # "queued"
  BY DEF Due, Terminal
<1>5. ASSUME NEW j \in Jobs
      PROVE  j \in MonitoredHeap[q] <=>
               MonitoredJobs[j].status = "queued" /\ MonitoredJobs[j].queue = q
  BY <1>1, <1>2, <1>3, <1>4, MonitorKeeps, QueuesAssumption
<1>6. MonitoredHeap[q] \subseteq Jobs
  BY MonitoredType
<1> QED
  BY <1>5, <1>6

(* The monitor changes no slot. *)
LEMMA MonitorSlots ==
  ASSUME TypeOK, TasksAreRunning, NEW j \in Jobs, task[j] # "none"
  PROVE  MonitoredJobs[j] = jobs[j]
  BY MonitorKeeps DEF TasksAreRunning

(* When the heap entries are exactly the queued jobs, one turn of a        *)
(* dispatcher pops none of them.                                           *)
LEMMA ScanKeepsHeap ==
  ASSUME NEW q \in Queues, NEW js, NEW act,
         NEW hs \in [Queues -> SUBSET Jobs],
         \A j \in hs[q] : js[j].status = "queued",
         Scan(q, js, hs, act)
  PROVE  heap' = hs
<1> DEFINE live == {j \in hs[q] : js[j].status = "queued"}
<1>1. live = hs[q]
  OBVIOUS
<1>2. CASE heap' = hs
  BY <1>2
<1>3. CASE live = {} /\ heap' = [hs EXCEPT ![q] = {}]
  BY <1>1, <1>3
<1>4. ASSUME NEW j \in live,
             \A k \in live \ {j} : Before(js, j, k),
             heap' = [hs EXCEPT ![q] = {k \in @ : k = j \/ Before(js, j, k)}]
      PROVE  heap' = hs
  <2>1. {k \in hs[q] : k = j \/ Before(js, j, k)} = hs[q]
    BY <1>1, <1>4
  <2> QED
    BY <1>4, <2>1
<1> QED
  BY <1>2, <1>3, <1>4 DEF Scan

(* A dispatcher that goes on asking has a free slot. *)
LEMMA ScanHoldsSlot ==
  ASSUME TypeOK, NEW q \in Queues, NEW js, NEW act,
         NEW hs \in [Queues -> SUBSET Jobs],
         Scan(q, js, hs, act)
  PROVE  /\ disp'[q].pc \in {"asking", "allowed", "denied"} => act[q] < Concurrency[q]
         /\ \A p \in Queues \ {q} : disp'[p] = disp[p]
<1>1. disp \in [Queues -> DispatcherState]
  BY DEF TypeOK
<1>2. CASE disp' = [disp EXCEPT ![q] = Idle]
  BY <1>1, <1>2 DEF Idle
<1>3. ASSUME NEW j, act[q] < Concurrency[q],
             disp' = [disp EXCEPT ![q] = [pc |-> "asking", job |-> j]]
      PROVE  /\ act[q] < Concurrency[q]
             /\ \A p \in Queues \ {q} : disp'[p] = disp[p]
  BY <1>1, <1>3
<1> QED
  BY <1>2, <1>3 DEF Scan

(* Ensure starts no request for admission. *)
LEMMA EnsureHoldsSlot ==
  ASSUME NEW d \in [Queues -> DispatcherState], NEW qs, NEW q \in Queues,
         Ensure(d, qs)[q].pc \in {"asking", "allowed", "denied"}
  PROVE  Ensure(d, qs)[q] = d[q]
  BY DEF Ensure, Scheduled

(* The monitor does not make a dispatcher ask without a slot. *)
LEMMA MonitorHoldsSlot ==
  ASSUME TypeOK, NEW q \in Queues,
         MonitoredDisp[q].pc \in {"asking", "allowed", "denied"}
  PROVE  MonitoredDisp[q] = disp[q]
  BY EnsureHoldsSlot DEF MonitoredDisp, TypeOK

(* Steps that neither register nor unregister a task, and move no job that *)
(* has one, keep the slots accounted for.                                  *)
LEMMA SlotsStay ==
  ASSUME SlotsAccounted, active' = active,
         \A j \in Jobs : task'[j] # "none" <=> task[j] # "none",
         \A j \in Jobs : task[j] # "none" => jobs'[j].queue = jobs[j].queue
  PROVE  SlotsAccounted'
<1>1. \A q \in Queues : Slots(q)' = Slots(q)
  BY DEF Slots
<1> QED
  BY <1>1 DEF SlotsAccounted

(* The deadline monitor preserves the queue invariant, whatever            *)
(* dispatchers are woken with it.                                          *)
LEMMA MonitorStep ==
  ASSUME TypeOK, QueueInv,
         jobs' = MonitoredJobs, heap' = MonitoredHeap, active' = active,
         \A j \in Jobs : task'[j] # "none" <=> task[j] # "none",
         \A q \in Queues : disp'[q].pc \in {"asking", "allowed", "denied"} => disp'[q] = disp[q]
  PROVE  QueueInv'
<1>1. QueueEntriesMatch'
  BY MonitorMatches DEF QueueInv, QueueEntriesMatch
<1>2. TasksAreRunning'
  BY MonitorSlots DEF QueueInv, TasksAreRunning
<1>3. SlotsAccounted'
  BY SlotsStay, MonitorSlots DEF QueueInv
<1>4. SlotHeldWhileAsking'
  BY DEF QueueInv, SlotHeldWhileAsking
<1> QED
  BY <1>1, <1>2, <1>3, <1>4 DEF QueueInv

(* The client's calls preserve it. *)
LEMMA ClientStep ==
  ASSUME TypeOK, QueueInv, NEW j \in Jobs, Client(j)
  PROVE  QueueInv'
<1>0. MonitoredJobs \in [Jobs -> JobRecord] /\ MonitoredHeap \in [Queues -> SUBSET Jobs]
  BY MonitoredType
<1>1. ASSUME NEW r \in Requests, Enqueue(j, r) PROVE QueueInv'
  <2>1. /\ jobs' = [MonitoredJobs EXCEPT ![j] = NewJob(r)]
        /\ heap' = [MonitoredHeap EXCEPT ![r.queue] = @ \cup {j}]
        /\ disp' = Ensure(MonitoredDisp, {r.queue})
        /\ active' = active /\ task' = task
        /\ jobs[j].status = "absent"
    BY <1>1 DEF Enqueue
  <2>2. r.queue \in Queues
    BY RequestType DEF RequestOK
  <2>3. task[j] = "none"
    BY <2>1 DEF QueueInv, TasksAreRunning
  <2>4. jobs'[j].status = "queued" /\ jobs'[j].queue = r.queue
    BY <1>0, <2>1 DEF NewJob
  <2>5. \A k \in Jobs \ {j} : jobs'[k] = MonitoredJobs[k]
    BY <1>0, <2>1
  <2>6. MonitoredJobs[j].status = "absent"
    BY <2>1, MonitorKeeps
  <2>7. QueueEntriesMatch'
    <3> SUFFICES ASSUME NEW q \in Queues
                 PROVE  heap'[q] = {k \in Jobs : jobs'[k].status = "queued" /\ jobs'[k].queue = q}
      BY DEF QueueEntriesMatch
    <3>1. MonitoredHeap[q] =
            {k \in Jobs : MonitoredJobs[k].status = "queued" /\ MonitoredJobs[k].queue = q}
      BY MonitorMatches DEF QueueInv
    <3>2. heap'[q] = IF q = r.queue THEN MonitoredHeap[q] \cup {j} ELSE MonitoredHeap[q]
      BY <1>0, <2>1, <2>2
    <3> QED
      BY <2>4, <2>5, <2>6, <3>1, <3>2
  <2>8. TasksAreRunning'
    BY <2>1, <2>3, <2>5, MonitorSlots DEF QueueInv, TasksAreRunning
  <2>9. SlotsAccounted'
    BY <2>1, <2>3, <2>5, SlotsStay, MonitorSlots DEF QueueInv
  <2>10. SlotHeldWhileAsking'
    BY <2>1, EnsureHoldsSlot, MonitorHoldsSlot, MonitoredType DEF QueueInv, SlotHeldWhileAsking
  <2> QED
    BY <2>7, <2>8, <2>9, <2>10 DEF QueueInv
<1>2. CASE Acknowledge(j)
  <2>1. /\ jobs' = [jobs EXCEPT ![j].acked = TRUE]
        /\ UNCHANGED <<heap, active, disp, task>>
    BY <1>2 DEF Acknowledge
  <2>2. \A k \in Jobs : jobs'[k].status = jobs[k].status /\ jobs'[k].queue = jobs[k].queue
    BY <2>1 DEF TypeOK, JobRecord
  <2>3. QueueEntriesMatch' /\ TasksAreRunning' /\ SlotHeldWhileAsking'
    BY <2>1, <2>2 DEF QueueInv, QueueEntriesMatch, TasksAreRunning, SlotHeldWhileAsking
  <2>4. SlotsAccounted'
    BY <2>1, <2>2, SlotsStay DEF QueueInv
  <2> QED
    BY <2>3, <2>4 DEF QueueInv
<1>3. CASE CancelQueued(j)
  <2>1. /\ jobs' = [MonitoredJobs EXCEPT ![j].status = "cancelled", ![j].expiresAt = now + TTL]
        /\ heap' = [MonitoredHeap EXCEPT ![MonitoredJobs[j].queue] = @ \ {j}]
        /\ disp' = MonitoredDisp
        /\ active' = active /\ task' = task
        /\ MonitoredJobs[j].status = "queued"
    BY <1>3 DEF CancelQueued
  <2>2. jobs[j].status = "queued"
    BY <2>1, MonitorKeeps
  <2>3. task[j] = "none"
    BY <2>2 DEF QueueInv, TasksAreRunning
  <2>4. jobs'[j].status = "cancelled"
    BY <1>0, <2>1 DEF JobRecord
  <2>5. \A k \in Jobs \ {j} : jobs'[k] = MonitoredJobs[k]
    BY <1>0, <2>1
  <2>6. MonitoredJobs[j].queue \in Queues
    BY <1>0 DEF JobRecord
  <2>7. QueueEntriesMatch'
    <3> SUFFICES ASSUME NEW q \in Queues
                 PROVE  heap'[q] = {k \in Jobs : jobs'[k].status = "queued" /\ jobs'[k].queue = q}
      BY DEF QueueEntriesMatch
    <3>1. MonitoredHeap[q] =
            {k \in Jobs : MonitoredJobs[k].status = "queued" /\ MonitoredJobs[k].queue = q}
      BY MonitorMatches DEF QueueInv
    <3>2. heap'[q] = IF q = MonitoredJobs[j].queue THEN MonitoredHeap[q] \ {j} ELSE MonitoredHeap[q]
      BY <1>0, <2>1, <2>6
    <3> QED
      BY <2>4, <2>5, <3>1, <3>2
  <2>8. TasksAreRunning'
    BY ZenonT(60), <2>1, <2>3, <2>5, MonitorSlots DEF QueueInv, TasksAreRunning
  <2>9. SlotsAccounted'
    BY <2>1, <2>3, <2>5, SlotsStay, MonitorSlots DEF QueueInv
  <2>10. SlotHeldWhileAsking'
    BY <2>1, MonitorHoldsSlot DEF QueueInv, SlotHeldWhileAsking
  <2> QED
    BY <2>7, <2>8, <2>9, <2>10 DEF QueueInv
<1>4. CASE CancelRunning(j)
  <2>1. /\ jobs' = MonitoredJobs /\ heap' = MonitoredHeap /\ disp' = MonitoredDisp
        /\ active' = active
        /\ task' = [task EXCEPT ![j] = Cancelled(@)]
        /\ task[j] \in {"ready", "doomed", "running", "cancelling"}
    BY <1>4 DEF CancelRunning
  <2>2. Cancelled(task[j]) # "none"
    BY <2>1 DEF Cancelled
  <2>3. \A k \in Jobs : task'[k] # "none" <=> task[k] # "none"
    BY <2>1, <2>2 DEF TypeOK
  <2> QED
    BY <2>1, <2>3, MonitorStep, MonitorHoldsSlot
<1> QED
  BY <1>1, <1>2, <1>3, <1>4 DEF Client

(* The steps of a _run_job task preserve it. *)
LEMMA RunStep ==
  ASSUME TypeOK, QueueInv, NEW j \in Jobs, Run(j)
  PROVE  QueueInv'
<1>1. CASE RunnerStart(j) \/ RunnerSkipped(j)
  <2>1. /\ UNCHANGED <<jobs, heap, active, disp>>
        /\ \A k \in Jobs : task'[k] # "none" <=> task[k] # "none"
    BY <1>1 DEF RunnerStart, RunnerSkipped, TypeOK
  <2>2. SlotsAccounted'
    BY <2>1, SlotsStay DEF QueueInv
  <2> QED
    BY <2>1, <2>2 DEF QueueInv, QueueEntriesMatch, TasksAreRunning, SlotHeldWhileAsking
<1>2. ASSUME NEW outcome \in Outcomes, RunnerEnd(j, outcome) PROVE QueueInv'
  <2> DEFINE q0 == jobs[j].queue
  <2>1. /\ task[j] \in {"running", "cancelling"}
        /\ jobs' = [jobs EXCEPT ![j].status = outcome, ![j].expiresAt = now + TTL]
        /\ task' = [task EXCEPT ![j] = "none"]
        /\ active' = [active EXCEPT ![q0] = IF @ > 0 THEN @ - 1 ELSE 0]
        /\ disp' = Ensure(disp, Queues)
        /\ heap' = heap
    BY <1>2 DEF RunnerEnd, Freed
  <2>2. q0 \in Queues /\ jobs[j].status = "running" /\ jobs[j] \in JobRecord
    BY <2>1 DEF TypeOK, JobRecord, QueueInv, TasksAreRunning
  <2>3. jobs'[j].status = outcome /\ jobs'[j].queue = q0
    BY <2>1, <2>2 DEF TypeOK, JobRecord
  <2>4. \A k \in Jobs \ {j} : jobs'[k] = jobs[k] /\ task'[k] = task[k]
    BY <2>1 DEF TypeOK
  <2>5. task'[j] = "none"
    BY <2>1 DEF TypeOK
  <2>6. QueueEntriesMatch'
    BY <2>1, <2>2, <2>3, <2>4 DEF QueueInv, QueueEntriesMatch, Outcomes
  <2>7. TasksAreRunning'
    BY <2>4, <2>5 DEF QueueInv, TasksAreRunning
  <2>8. SlotsAccounted'
    <3>1. \A q \in Queues : Slots(q)' = IF q = q0 THEN Slots(q) \ {j} ELSE Slots(q)
      BY <2>3, <2>4, <2>5 DEF Slots
    <3>2. j \in Slots(q0) /\ IsFiniteSet(Slots(q0))
      <4>1. Slots(q0) \subseteq Jobs
        BY DEF Slots
      <4> QED
        BY <2>1, <4>1, JobsAssumption, FS_Subset DEF Slots
    <3>3. Cardinality(Slots(q0) \ {j}) = Cardinality(Slots(q0)) - 1 /\ Cardinality(Slots(q0)) \in Nat
      BY <3>2, FS_RemoveElement, FS_CardinalityType
    <3>4. active[q0] = Cardinality(Slots(q0)) /\ active[q0] <= Concurrency[q0]
      BY <2>2 DEF QueueInv, SlotsAccounted
    <3>5. Slots(q0) # {}
      BY <3>2
    <3>6. Cardinality(Slots(q0)) # 0
      BY <3>2, <3>5, FS_EmptySet
    <3>7. active'[q0] = Cardinality(Slots(q0) \ {j}) /\ active'[q0] <= Concurrency[q0]
      <4> HIDE DEF q0
      <4>1. active'[q0] = IF active[q0] > 0 THEN active[q0] - 1 ELSE 0
        BY <2>1, <2>2 DEF TypeOK
      <4>2. active[q0] > 0 /\ Concurrency[q0] \in Nat
        BY <2>2, <3>3, <3>4, <3>6, ConcurrencyAssumption
      <4> QED
        BY <3>3, <3>4, <4>1, <4>2
    <3>8. \A q \in Queues \ {q0} : active'[q] = active[q]
      BY <2>1 DEF TypeOK
    <3> QED
      BY <3>1, <3>7, <3>8 DEF QueueInv, SlotsAccounted
  <2>9. SlotHeldWhileAsking'
    <3>1. \A q \in Queues : active'[q] <= active[q]
      BY <2>1 DEF TypeOK
    <3>2. \A q \in Queues :
             disp'[q].pc \in {"asking", "allowed", "denied"} => disp'[q] = disp[q]
      BY <2>1, EnsureHoldsSlot DEF TypeOK
    <3>3. active \in [Queues -> Nat] /\ active' \in [Queues -> Nat]
      <4>1. Run(j)
        BY <1>2 DEF Run
      <4> QED
        BY <4>1, RunType DEF TypeOK
    <3>4. \A q \in Queues : active[q] \in Nat /\ active'[q] \in Nat /\ Concurrency[q] \in Nat
      BY <3>3, ConcurrencyAssumption
    <3> QED
      BY <3>1, <3>2, <3>4 DEF QueueInv, SlotHeldWhileAsking
  <2> QED
    BY <2>6, <2>7, <2>8, <2>9 DEF QueueInv
<1> QED
  BY <1>1, <1>2 DEF Run

(* The steps of a dispatcher preserve it.  Between the check of the active *)
(* count and the increment lies the wait for the admission thread:         *)
(* SlotHeldWhileAsking is what carries the check across it.                *)
LEMMA DispatchStep ==
  ASSUME TypeOK, QueueInv, NEW q \in Queues, Dispatch(q)
  PROVE  QueueInv'
<1>0. /\ heap \in [Queues -> SUBSET Jobs]
      /\ \A p \in Queues : \A k \in heap[p] : jobs[k].status = "queued" /\ jobs[k].queue = p
  BY DEF TypeOK, QueueInv, QueueEntriesMatch
<1>1. CASE \/ DispatchScan(q)
           \/ DispatchStale(q)
  <2>1. UNCHANGED <<jobs, active, task>>
    BY <1>1 DEF DispatchScan, DispatchStale
  <2>2. Scan(q, jobs, heap, active)
    <3>1. CASE DispatchScan(q)
      BY <3>1 DEF DispatchScan
    <3>2. CASE DispatchStale(q)
      <4>1. ~IsHead(q, disp[q].job)
        BY <1>0, <3>2 DEF DispatchStale, StillHead, IsHead
      <4> QED
        BY <3>2, <4>1 DEF DispatchStale
    <3> QED
      BY <1>1, <3>1, <3>2
  <2>3. heap' = heap
    BY <1>0, <2>2, ScanKeepsHeap
  <2>4. QueueEntriesMatch' /\ TasksAreRunning'
    BY <2>1, <2>3 DEF QueueInv, QueueEntriesMatch, TasksAreRunning
  <2>5. SlotsAccounted'
    BY <2>1, SlotsStay DEF QueueInv
  <2>6. SlotHeldWhileAsking'
    BY <1>0, <2>1, <2>2, ScanHoldsSlot DEF QueueInv, SlotHeldWhileAsking
  <2> QED
    BY <2>4, <2>5, <2>6 DEF QueueInv
<1>2. CASE DispatchStart(q)
  <2> DEFINE j == disp[q].job
             js == [jobs EXCEPT ![j].status = "running"]
             act == [active EXCEPT ![q] = @ + 1]
             hs == [heap EXCEPT ![q] = @ \ {j}]
  <2>1. /\ disp[q].pc = "allowed"
        /\ j \in heap[q] /\ jobs[j].status = "queued"
        /\ jobs' = js /\ active' = act
        /\ task' = [task EXCEPT ![j] = "ready"]
        /\ Scan(q, js, hs, act)
    BY <1>2 DEF DispatchStart, StillHead, IsHead
  <2>2. j \in Jobs /\ jobs[j].queue = q /\ task[j] = "none"
    BY <1>0, <2>1 DEF QueueInv, TasksAreRunning
  <2> HIDE DEF j
  <2>3. /\ jobs'[j].status = "running" /\ jobs'[j].queue = q
        /\ \A k \in Jobs \ {j} : jobs'[k] = jobs[k] /\ task'[k] = task[k]
        /\ task'[j] = "ready"
    BY <2>1, <2>2 DEF TypeOK, JobRecord
  <2>4. hs \in [Queues -> SUBSET Jobs]
    BY <1>0
  <2>5. \A k \in hs[q] : js[k].status = "queued"
    BY <1>0, <2>1, <2>3
  <2>6. heap' = hs
    <3> HIDE DEF hs, js, act
    <3> QED BY <2>1, <2>4, <2>5, ScanKeepsHeap
  <2>7. QueueEntriesMatch'
    <3> SUFFICES ASSUME NEW p \in Queues
                 PROVE  heap'[p] = {k \in Jobs : jobs'[k].status = "queued" /\ jobs'[k].queue = p}
      BY DEF QueueEntriesMatch
    <3>1. heap[p] = {k \in Jobs : jobs[k].status = "queued" /\ jobs[k].queue = p}
      BY DEF QueueInv, QueueEntriesMatch
    <3>2. heap'[p] = IF p = q THEN heap[p] \ {j} ELSE heap[p]
      BY <1>0, <2>6
    <3> QED
      BY <2>2, <2>3, <3>1, <3>2
  <2>8. TasksAreRunning'
    BY <2>3 DEF QueueInv, TasksAreRunning
  <2>9. /\ active'[q] = active[q] + 1
        /\ \A p \in Queues \ {q} : active'[p] = active[p]
    BY <2>1 DEF TypeOK
  <2>10. active[q] < Concurrency[q] /\ active[q] \in Nat /\ Concurrency[q] \in Nat
    BY <2>1, ConcurrencyAssumption DEF QueueInv, SlotHeldWhileAsking, TypeOK
  <2>11. SlotsAccounted'
    <3>1. \A p \in Queues : Slots(p)' = IF p = q THEN Slots(p) \cup {j} ELSE Slots(p)
      BY <2>2, <2>3 DEF Slots
    <3>2. j \notin Slots(q) /\ IsFiniteSet(Slots(q))
      <4>1. Slots(q) \subseteq Jobs
        BY DEF Slots
      <4> QED
        BY <2>2, <4>1, JobsAssumption, FS_Subset DEF Slots
    <3>3. Cardinality(Slots(q) \cup {j}) = Cardinality(Slots(q)) + 1
      BY <3>2, FS_AddElement
    <3>4. active[q] = Cardinality(Slots(q))
      BY DEF QueueInv, SlotsAccounted
    <3>5. active'[q] = Cardinality(Slots(q) \cup {j}) /\ active'[q] <= Concurrency[q]
      <4>1. active[q] + 1 <= Concurrency[q]
        BY <2>10
      <4> QED
        BY <2>9, <3>3, <3>4, <4>1
    <3> QED
      BY <2>9, <3>1, <3>5 DEF QueueInv, SlotsAccounted
  <2>12. SlotHeldWhileAsking'
    <3>1. /\ disp'[q].pc \in {"asking", "allowed", "denied"} => act[q] < Concurrency[q]
          /\ \A p \in Queues \ {q} : disp'[p] = disp[p]
      <4> HIDE DEF hs, js, act
      <4> QED BY <2>1, <2>4, ScanHoldsSlot
    <3> QED
      BY <2>1, <2>9, <3>1 DEF QueueInv, SlotHeldWhileAsking
  <2> QED
    BY <2>7, <2>8, <2>11, <2>12 DEF QueueInv
<1>3. CASE DispatchBlocked(q)
  <2>1. /\ UNCHANGED <<jobs, heap, active, task>>
        /\ disp' = [disp EXCEPT ![q] = Idle]
    BY <1>3 DEF DispatchBlocked
  <2>2. QueueEntriesMatch' /\ TasksAreRunning'
    BY <2>1 DEF QueueInv, QueueEntriesMatch, TasksAreRunning
  <2>3. SlotsAccounted'
    BY <2>1, SlotsStay DEF QueueInv
  <2>4. SlotHeldWhileAsking'
    BY <2>1 DEF QueueInv, SlotHeldWhileAsking, TypeOK, Idle
  <2> QED
    BY <2>2, <2>3, <2>4 DEF QueueInv
<1> QED
  BY <1>1, <1>2, <1>3 DEF Dispatch

(* A process boot establishes it from any file. *)
LEMMA BootStep ==
  ASSUME NEW f, Boot(f)
  PROVE  QueueInv'
<1>1. QueueEntriesMatch' /\ TasksAreRunning' /\ SlotHeldWhileAsking'
  BY DEF Boot, QueueEntriesMatch, TasksAreRunning, SlotHeldWhileAsking, Idle
<1>2. \A q \in Queues : Slots(q)' = {} /\ active'[q] = 0
  BY DEF Boot, Slots
<1>3. SlotsAccounted'
  BY <1>2, FS_EmptySet, ConcurrencyAssumption DEF SlotsAccounted
<1> QED
  BY <1>1, <1>3 DEF QueueInv

(* Every step preserves QueueInv. *)
LEMMA QueueStep == TypeOK /\ QueueInv /\ [Next]_vars => QueueInv'
<1> SUFFICES ASSUME TypeOK, QueueInv, [Next]_vars
             PROVE  QueueInv'
  OBVIOUS
<1>1. ASSUME NEW j \in Jobs, Client(j) \/ Run(j) PROVE QueueInv'
  BY <1>1, ClientStep, RunStep
<1>2. CASE MonitorOnly
  BY <1>2, MonitorStep, MonitorHoldsSlot DEF MonitorOnly
<1>3. ASSUME NEW q \in Queues, Dispatch(q) PROVE QueueInv'
  BY <1>3, DispatchStep
<1>4. ASSUME NEW q \in Queues, RetryBlocked(q) PROVE QueueInv'
  BY <1>4, MonitorStep, MonitorHoldsSlot, EnsureHoldsSlot, MonitoredType DEF RetryBlocked
<1>5. CASE UNCHANGED <<jobs, heap, active, disp, task>>
  <2>1. SlotsAccounted'
    BY <1>5, SlotsStay DEF QueueInv
  <2> QED
    BY <1>5, <2>1 DEF QueueInv, QueueEntriesMatch, TasksAreRunning, SlotHeldWhileAsking
<1>6. CASE Shutdown
  <2>1. /\ UNCHANGED <<jobs, heap, active>>
        /\ disp' = [q \in Queues |-> Idle]
        /\ task' = [j \in Jobs |-> Cancelled(task[j])]
    BY <1>6 DEF Shutdown
  <2>2. \A j \in Jobs : task'[j] # "none" <=> task[j] # "none"
    BY <2>1 DEF Cancelled
  <2>3. QueueEntriesMatch' /\ TasksAreRunning'
    BY <2>1, <2>2 DEF QueueInv, QueueEntriesMatch, TasksAreRunning
  <2>4. SlotsAccounted'
    BY <2>1, <2>2, SlotsStay DEF QueueInv
  <2>5. SlotHeldWhileAsking'
    BY <2>1 DEF SlotHeldWhileAsking, Idle
  <2> QED
    BY <2>3, <2>4, <2>5 DEF QueueInv
<1>7. CASE Crash \/ CrashTearingFile
  BY <1>7, BootStep DEF Crash, CrashTearingFile
<1>8. CASE StartRecoveredJobs
  BY <1>8, MonitorStep, MonitorHoldsSlot, EnsureHoldsSlot, MonitoredType DEF StartRecoveredJobs
<1>9. ASSUME NEW q \in Queues, NEW allowed \in BOOLEAN, AdmissionAnswer(q, allowed)
      PROVE  QueueInv'
  <2>1. /\ UNCHANGED <<jobs, heap, active, task>>
        /\ disp[q].pc = "asking"
        /\ \A p \in Queues \ {q} : disp'[p] = disp[p]
    BY <1>9 DEF AdmissionAnswer, TypeOK
  <2>2. QueueEntriesMatch' /\ TasksAreRunning'
    BY <2>1 DEF QueueInv, QueueEntriesMatch, TasksAreRunning
  <2>3. SlotsAccounted'
    BY <2>1, SlotsStay DEF QueueInv
  <2>4. SlotHeldWhileAsking'
    BY <2>1 DEF QueueInv, SlotHeldWhileAsking
  <2> QED
    BY <2>2, <2>3, <2>4 DEF QueueInv
<1>10. CASE Tick
  BY <1>5, <1>10 DEF Tick
<1>11. CASE UNCHANGED vars
  BY <1>5, <1>11 DEF vars
<1> QED
  BY <1>1, <1>2, <1>3, <1>4, <1>6, <1>7, <1>8, <1>9, <1>10, <1>11
     DEF Next, Service, Poll, EnqueueRejected, ExpireDueRecords

(* The initial state satisfies QueueInv. *)
LEMMA QueueInit == Init => QueueInv
<1> SUFFICES ASSUME Init PROVE QueueInv
  OBVIOUS
<1>1. QueueEntriesMatch /\ TasksAreRunning /\ SlotHeldWhileAsking
  BY DEF Init, QueueEntriesMatch, TasksAreRunning, SlotHeldWhileAsking, Idle, NoRecord
<1>2. \A q \in Queues : Slots(q) = {} /\ active[q] = 0
  BY DEF Init, Slots
<1>3. SlotsAccounted
  BY <1>2, FS_EmptySet, ConcurrencyAssumption DEF SlotsAccounted
<1> QED
  BY <1>1, <1>3 DEF QueueInv

(* The inductive invariant. *)
THEOREM QueueInvariant == Spec => []QueueInv
  BY QueueInit, QueueStep, TypeCorrect, PTL DEF Spec

(* cancel_job, the deadline monitor, _dispatch_loop and recovery keep the  *)
(* heaps exact: every queued job has one entry, in its own queue, and no   *)
(* entry is left behind by a job that is no longer queued.                 *)
THEOREM HeapsAreExact == Spec => []QueueEntriesMatch
  BY QueueInvariant, PTL DEF QueueInv

(* No queue runs more jobs than its concurrency, and _active_counts is     *)
(* the number of registered tasks, although _dispatch_loop awaits the      *)
(* admission thread between testing the count and raising it.              *)
THEOREM ConcurrencyRespected == Spec => []SlotsAccounted
  BY QueueInvariant, PTL DEF QueueInv

-----------------------------------------------------------------------------
(* At most one start per job *)

(* A save that works leaves the file current. *)
LEMMA PersistCurrent ==
  ASSUME ~SaveMayFail, NEW js, Persist(js)
  PROVE  disk' = js
  BY DEF Persist

(* When nothing is due or overdue the monitor changes no record. *)
LEMMA MonitorIdle ==
  ASSUME TypeOK, ~MonitorChanges
  PROVE  MonitoredJobs = jobs
<1>1. \A j \in Jobs : MonitoredJob(j) = jobs[j]
  BY DEF MonitorChanges, MonitoredJob, Spills
<1> QED
  BY <1>1 DEF MonitoredJobs, TypeOK

(* Steps that make no job startable again and start none. *)
LEMMA RunsStay ==
  ASSUME RunsInv, disk' = jobs', runs' = runs,
         \A j \in Jobs : jobs'[j].status \in {"absent", "queued"} =>
                           jobs[j].status \in {"absent", "queued"},
         \A j \in Jobs : task'[j] \in {"ready", "doomed"} =>
                           \/ task[j] \in {"ready", "doomed"}
                           \/ jobs[j].status = "queued"
  PROVE  RunsInv'
  BY DEF RunsInv, AtMostOnce

(* What a process boot makes of the file. *)
LEMMA LoadedStatus ==
  ASSUME TypeOK, NEW f \in [Jobs -> JobRecord], NEW j \in Jobs
  PROVE  /\ Loaded(f, j).status = "queued" => f[j].status = "queued"
         /\ Loaded(f, j).status = "absent" => jobs[j].status = "absent"
<1>1. f[j] \in JobRecord
  OBVIOUS
<1>2. /\ Recovered(f[j]).status = "queued" => f[j].status = "queued"
      /\ Recovered(f[j]).status # "absent" \/ f[j].status = "absent"
  <2>1. CASE f[j].status = "running"
    BY <1>1, <2>1 DEF Recovered, JobRecord
  <2>2. CASE f[j].status = "queued"
    BY <1>1, <2>2 DEF Recovered, JobRecord
  <2>3. CASE f[j].status # "running" /\ f[j].status # "queued"
    BY <2>3 DEF Recovered
  <2> QED
    BY <2>1, <2>2, <2>3
<1>3. NoRecord.status = "absent" /\ Deleted.status = "deleted"
  BY DEF NoRecord, Deleted
<1> DEFINE job == Recovered(f[j])
<1>4. CASE job.status \in {"absent", "deleted"}
  BY <1>3, <1>4 DEF Loaded
<1>5. CASE job.status \notin {"absent", "deleted"}
  BY <1>2, <1>3, <1>5 DEF Loaded
<1> QED
  BY <1>4, <1>5

(* Every step preserves RunsInv when writes do not fail. *)
LEMMA RunsStep == ~SaveMayFail /\ TypeOK /\ TypeOK' /\ QueueInv /\ RunsInv /\ [Next]_vars => RunsInv'
<1> SUFFICES ASSUME ~SaveMayFail, TypeOK, TypeOK', QueueInv, RunsInv, [Next]_vars
             PROVE  RunsInv'
  OBVIOUS
<1>0. /\ \A j \in Jobs : MonitoredJobs[j].status \in {"absent", "queued"} =>
                           jobs[j].status \in {"absent", "queued"}
      /\ MonitoredJobs \in [Jobs -> JobRecord]
  BY MonitorKeeps, MonitoredType
<1>1. ASSUME NEW j \in Jobs, NEW r \in Requests, Enqueue(j, r) PROVE RunsInv'
  <2>1. disk' = jobs'
    BY <1>1, PersistCurrent DEF Enqueue
  <2>2. \A k \in Jobs \ {j} : jobs'[k] = MonitoredJobs[k]
    BY <1>0, <1>1 DEF Enqueue
  <2> QED
    BY <1>0, <1>1, <2>1, <2>2, RunsStay DEF Enqueue
<1>2. ASSUME NEW j \in Jobs, Acknowledge(j) PROVE RunsInv'
  <2>1. disk' = jobs'
    BY <1>2, PersistCurrent DEF Acknowledge
  <2>2. \A k \in Jobs : jobs'[k].status = jobs[k].status
    BY <1>2 DEF Acknowledge, TypeOK, JobRecord
  <2> QED
    BY <1>2, <2>1, <2>2, RunsStay DEF Acknowledge
<1>3. ASSUME NEW j \in Jobs, CancelQueued(j) PROVE RunsInv'
  <2>1. disk' = jobs'
    BY <1>3, PersistCurrent DEF CancelQueued
  <2>2. \A k \in Jobs \ {j} : jobs'[k] = MonitoredJobs[k]
    BY <1>0, <1>3 DEF CancelQueued
  <2>3. jobs[j].status = "queued"
    BY <1>3, MonitorKeeps DEF CancelQueued
  <2> QED
    BY <1>0, <1>3, <2>1, <2>2, <2>3, RunsStay DEF CancelQueued
<1>4. ASSUME NEW j \in Jobs, CancelRunning(j) PROVE RunsInv'
  <2>1. disk' = jobs'
    BY <1>4, PersistCurrent DEF CancelRunning
  <2>2. \A k \in Jobs : task'[k] \in {"ready", "doomed"} => task[k] \in {"ready", "doomed"}
    BY <1>4 DEF CancelRunning, Cancelled, TypeOK
  <2> QED
    BY <1>0, <1>4, <2>1, <2>2, RunsStay DEF CancelRunning
<1>5. ASSUME NEW j \in Jobs, RunnerStart(j) PROVE RunsInv'
  <2>1. /\ task[j] = "ready" /\ task'[j] = "running" /\ runs'[j] = runs[j] + 1
        /\ \A k \in Jobs \ {j} : task'[k] = task[k] /\ runs'[k] = runs[k]
        /\ disk' = disk /\ jobs' = jobs
    BY <1>5 DEF RunnerStart, TypeOK
  <2>2. jobs[j].status = "running" /\ runs[j] = 0
    BY <2>1 DEF QueueInv, TasksAreRunning, RunsInv
  <2> QED
    BY <2>1, <2>2 DEF RunsInv, AtMostOnce
<1>6. ASSUME NEW j \in Jobs, RunnerSkipped(j) PROVE RunsInv'
  <2>1. \A k \in Jobs : task'[k] \in {"ready", "doomed"} => task[k] \in {"ready", "doomed"}
    BY <1>6 DEF RunnerSkipped, TypeOK
  <2> QED
    BY <1>6, <2>1, RunsStay DEF RunnerSkipped, RunsInv
<1>7. ASSUME NEW j \in Jobs, NEW outcome \in Outcomes, RunnerEnd(j, outcome) PROVE RunsInv'
  <2>1. disk' = jobs'
    BY <1>7, PersistCurrent DEF RunnerEnd
  <2>2. \A k \in Jobs \ {j} : jobs'[k] = jobs[k]
    BY <1>7 DEF RunnerEnd, TypeOK
  <2>3. jobs'[j].status = outcome
    BY <1>7 DEF RunnerEnd, TypeOK, JobRecord
  <2>4. \A k \in Jobs : task'[k] \in {"ready", "doomed"} => task[k] \in {"ready", "doomed"}
    BY <1>7 DEF RunnerEnd, TypeOK
  <2>5. runs' = runs
    BY <1>7 DEF RunnerEnd
  <2> QED
    BY <2>1, <2>2, <2>3, <2>4, <2>5, RunsStay DEF Outcomes
<1>8. CASE MonitorOnly
  <2>1. disk' = jobs'
    BY <1>8, PersistCurrent, MonitorIdle DEF MonitorOnly, RunsInv
  <2> QED
    BY <1>0, <1>8, <2>1, RunsStay DEF MonitorOnly
<1>9. ASSUME NEW q \in Queues, DispatchScan(q) \/ DispatchStale(q) PROVE RunsInv'
  BY <1>9, RunsStay DEF DispatchScan, DispatchStale, RunsInv
<1>10. ASSUME NEW q \in Queues, DispatchStart(q) PROVE RunsInv'
  <2> DEFINE j == disp[q].job
  <2>1. /\ jobs[j].status = "queued" /\ j \in heap[q]
        /\ jobs' = [jobs EXCEPT ![j].status = "running"]
        /\ task' = [task EXCEPT ![j] = "ready"]
        /\ disk' = jobs' /\ runs' = runs
    BY <1>10, PersistCurrent DEF DispatchStart, StillHead, IsHead
  <2> HIDE DEF j
  <2>2. \A k \in Jobs \ {j} : jobs'[k] = jobs[k] /\ task'[k] = task[k]
    BY <2>1 DEF TypeOK
  <2> QED
    BY <2>1, <2>2, RunsStay
<1>11. ASSUME NEW q \in Queues, DispatchBlocked(q) PROVE RunsInv'
  <2>1. disk' = jobs'
    BY <1>11, PersistCurrent DEF DispatchBlocked
  <2> QED
    BY <1>11, <2>1, RunsStay DEF DispatchBlocked
<1>12. ASSUME NEW q \in Queues, RetryBlocked(q) PROVE RunsInv'
  <2>1. disk' = jobs'
    BY <1>12, PersistCurrent, MonitorIdle DEF RetryBlocked, RunsInv
  <2> QED
    BY <1>0, <1>12, <2>1, RunsStay DEF RetryBlocked
<1>13. CASE Shutdown
  <2>1. \A k \in Jobs : task'[k] \in {"ready", "doomed"} => task[k] \in {"ready", "doomed"}
    BY <1>13 DEF Shutdown, Cancelled
  <2> QED
    BY <1>13, <2>1, RunsStay DEF Shutdown, RunsInv
<1>14. ASSUME NEW f \in [Jobs -> JobRecord], Boot(f),
              \A j \in Jobs : f[j].status = "queued" => jobs[j].status = "queued"
       PROVE  RunsInv'
  <2>1. /\ jobs' = [j \in Jobs |-> Loaded(f, j)]
        /\ task' = [j \in Jobs |-> "none"]
        /\ disk' = jobs' /\ runs' = runs
    BY <1>14 DEF Boot
  <2>2. \A j \in Jobs : jobs'[j].status \in {"absent", "queued"} =>
                          jobs[j].status \in {"absent", "queued"}
    BY <1>14, <2>1, LoadedStatus
  <2> QED
    BY <2>1, <2>2, RunsStay
<1>15. CASE Crash
  BY <1>14, <1>15 DEF Crash, RunsInv, TypeOK
<1>16. CASE CrashTearingFile
  <2>1. [j \in Jobs |-> NoRecord] \in [Jobs -> JobRecord]
    BY NoRecordType
  <2>2. NoRecord.status # "queued"
    BY DEF NoRecord
  <2> QED
    BY <1>14, <1>16, <2>1, <2>2 DEF CrashTearingFile
<1>17. CASE StartRecoveredJobs
  <2>1. disk' = jobs'
    BY <1>17, MonitorIdle DEF StartRecoveredJobs, RunsInv
  <2> QED
    BY <1>0, <1>17, <2>1, RunsStay DEF StartRecoveredJobs
<1>18. ASSUME NEW q \in Queues, NEW allowed \in BOOLEAN, AdmissionAnswer(q, allowed)
       PROVE  RunsInv'
  BY <1>18, RunsStay DEF AdmissionAnswer, RunsInv
<1>19. CASE Tick \/ UNCHANGED vars
  BY <1>19, RunsStay DEF Tick, vars, RunsInv
<1> QED
  BY <1>1, <1>2, <1>3, <1>4, <1>5, <1>6, <1>7, <1>8, <1>9, <1>10, <1>11, <1>12, <1>13,
     <1>15, <1>16, <1>17, <1>18, <1>19
     DEF Next, Service, Client, Run, Dispatch, Poll, EnqueueRejected, ExpireDueRecords

(* The file stays current, and what may still be started has not been.    *)
LEMMA RunsInvariant == ~SaveMayFail => (Spec => []RunsInv)
<1> SUFFICES ASSUME ~SaveMayFail
             PROVE  Spec => []RunsInv
  OBVIOUS
<1>1. Init => RunsInv
  BY DEF Init, RunsInv, AtMostOnce
<1>2. TypeOK /\ TypeOK' /\ QueueInv /\ RunsInv /\ [Next]_vars => RunsInv'
  BY RunsStep
<1> QED
  BY <1>1, <1>2, TypeCorrect, QueueInvariant, PTL DEF Spec

(* As long as the state file can be written, a job's provider work is      *)
(* started at most once, over any number of crashes and restarts: the      *)
(* records _load_persisted_jobs finds queued were never started, and a     *)
(* torn file loses jobs but replays none.                                  *)
THEOREM NoReplay == ~SaveMayFail => (Spec => []AtMostOnce)
<1>1. RunsInv => AtMostOnce
  BY DEF RunsInv
<1> QED
  BY <1>1, RunsInvariant, PTL

-----------------------------------------------------------------------------
(* Starts in order *)

(* Only the dispatcher of its own queue starts a queued job, and only as   *)
(* the head.                                                               *)
LEMMA OnlyHeadsStart ==
  ASSUME TypeOK, QueueInv, [Next]_vars,
         NEW q \in Queues, NEW j \in heap[q], jobs'[j].status = "running"
  PROVE  IsHead(q, j)
<1>0. /\ j \in Jobs /\ jobs[j].status = "queued" /\ jobs[j].queue = q
      /\ task[j] = "none"
  BY DEF TypeOK, QueueInv, QueueEntriesMatch, TasksAreRunning
<1>1. MonitoredJobs[j].status # "running" /\ MonitoredJobs \in [Jobs -> JobRecord]
  BY <1>0, MonitorKeeps, MonitoredType
<1>2. ASSUME NEW k \in Jobs, Client(k) PROVE FALSE
  <2>1. ASSUME NEW r \in Requests, Enqueue(k, r) PROVE FALSE
    <3>1. jobs'[j] = IF j = k THEN NewJob(r) ELSE MonitoredJobs[j]
      BY <1>0, <1>1, <2>1 DEF Enqueue
    <3>2. NewJob(r).status = "queued"
      BY DEF NewJob
    <3> QED
      BY <1>1, <3>1, <3>2
  <2>2. CASE Acknowledge(k)
    BY <1>0, <2>2 DEF Acknowledge, TypeOK, JobRecord
  <2>3. CASE CancelQueued(k)
    <3>1. jobs' = [MonitoredJobs EXCEPT ![k].status = "cancelled", ![k].expiresAt = now + TTL]
      BY <2>3 DEF CancelQueued
    <3>2. j # k => jobs'[j] = MonitoredJobs[j]
      BY <1>0, <1>1, <3>1
    <3>3. jobs'[k].status = "cancelled"
      BY <1>1, <3>1 DEF JobRecord
    <3> QED
      BY <1>1, <3>2, <3>3
  <2>4. CASE CancelRunning(k)
    BY <1>1, <2>4 DEF CancelRunning
  <2> QED
    BY <1>2, <2>1, <2>2, <2>3, <2>4 DEF Client
<1>3. ASSUME NEW k \in Jobs, Run(k) PROVE FALSE
  <2>1. CASE RunnerStart(k) \/ RunnerSkipped(k)
    BY <1>0, <2>1 DEF RunnerStart, RunnerSkipped
  <2>2. ASSUME NEW outcome \in Outcomes, RunnerEnd(k, outcome) PROVE FALSE
    <3>1. j # k
      BY <1>0, <2>2 DEF RunnerEnd
    <3> QED
      BY <1>0, <2>2, <3>1 DEF RunnerEnd, TypeOK
  <2> QED
    BY <1>3, <2>1, <2>2 DEF Run
<1>4. ASSUME NEW p \in Queues, Dispatch(p) PROVE IsHead(q, j)
  <2>1. CASE DispatchScan(p) \/ DispatchStale(p) \/ DispatchBlocked(p)
    BY <1>0, <2>1 DEF DispatchScan, DispatchStale, DispatchBlocked
  <2>2. CASE DispatchStart(p)
    <3>1. IsHead(p, disp[p].job) /\ jobs' = [jobs EXCEPT ![disp[p].job].status = "running"]
      BY <2>2 DEF DispatchStart, StillHead
    <3>2. j = disp[p].job
      BY <1>0, <3>1 DEF TypeOK
    <3>3. p = q
      BY <1>0, <3>1, <3>2 DEF IsHead, QueueInv, QueueEntriesMatch
    <3> QED
      BY <3>1, <3>2, <3>3
  <2> QED
    BY <1>4, <2>1, <2>2 DEF Dispatch
<1>5. CASE jobs' = MonitoredJobs
  BY <1>1, <1>5
<1>6. CASE jobs' = jobs
  BY <1>0, <1>6
<1>7. ASSUME NEW f \in [Jobs -> JobRecord], Boot(f) PROVE FALSE
  <2>1. f[j] \in JobRecord /\ jobs'[j] = Loaded(f, j)
    BY <1>0, <1>7 DEF Boot
  <2>2. Recovered(f[j]).status # "running"
    <3>1. CASE f[j].status = "running"
      BY <2>1, <3>1 DEF Recovered, JobRecord
    <3>2. CASE f[j].status = "queued"
      BY <2>1, <3>2 DEF Recovered, JobRecord
    <3>3. CASE f[j].status # "running" /\ f[j].status # "queued"
      BY <3>3 DEF Recovered
    <3> QED
      BY <3>1, <3>2, <3>3
  <2> QED
    BY <2>1, <2>2 DEF Loaded, NoRecord, Deleted
<1>8. CASE Crash \/ CrashTearingFile
  <2>1. [k \in Jobs |-> NoRecord] \in [Jobs -> JobRecord] /\ disk \in [Jobs -> JobRecord]
    BY NoRecordType DEF TypeOK
  <2> QED
    BY <1>7, <1>8, <2>1 DEF Crash, CrashTearingFile
<1> QED
  BY <1>2, <1>3, <1>4, <1>5, <1>6, <1>8
     DEF Next, Service, Poll, EnqueueRejected, ExpireDueRecords, MonitorOnly, RetryBlocked,
         Tick, Shutdown, StartRecoveredJobs, AdmissionAnswer, vars

(* _dispatch_loop never starts a job over a better entry of its queue,     *)
(* whatever was enqueued, cancelled or rerouted while it awaited the       *)
(* admission thread.                                                       *)
THEOREM HeadsStart == Spec => StartsInOrder
<1>1. TypeOK /\ QueueInv /\ [Next]_vars =>
        [\A q \in Queues : \A j \in heap[q] :
           jobs'[j].status = "running" =>
             \A k \in heap[q] \ {j} : Before(jobs, j, k)]_vars
  BY OnlyHeadsStart DEF IsHead
<1> QED
  BY <1>1, TypeCorrect, QueueInvariant, PTL DEF Spec, StartsInOrder

-----------------------------------------------------------------------------
(* Restarts *)

(* _load_persisted_jobs takes a recoverable queued job over: its wait      *)
(* deadline starts anew, its queue stays.                                  *)
LEMMA CrashKeepsQueued ==
  ASSUME TypeOK, RunsInv, Crash, NEW j \in Jobs,
         jobs[j].status = "queued", jobs[j].req.recoverable
  PROVE  jobs'[j].status = "queued" /\ j \in heap'[jobs[j].queue]
<1>1. /\ jobs[j] \in JobRecord /\ jobs[j].queue \in Queues
      /\ jobs'[j] = Loaded(jobs, j)
      /\ heap' = [q \in Queues |-> {k \in Jobs : jobs'[k].status = "queued" /\ jobs'[k].queue = q}]
  BY DEF TypeOK, JobRecord, Crash, Boot, RunsInv
<1>2. Recovered(jobs[j]) = [jobs[j] EXCEPT !.sort = DeadlineSort(jobs[j].req)]
  BY DEF Recovered
<1>3. Recovered(jobs[j]).status = "queued" /\ Recovered(jobs[j]).queue = jobs[j].queue
  BY <1>1, <1>2 DEF JobRecord
<1>4. jobs'[j] = Recovered(jobs[j])
  BY <1>1, <1>3 DEF Loaded, Terminal
<1> QED
  BY <1>1, <1>3, <1>4

(* A restart from a whole state file keeps every recoverable queued job    *)
(* queued, in its queue, as long as the file can be written.               *)
THEOREM QueuedSurvivesRestart == ~SaveMayFail => (Spec => RestartKeepsQueued)
<1> SUFFICES ASSUME ~SaveMayFail
             PROVE  Spec => RestartKeepsQueued
  OBVIOUS
<1>1. TypeOK /\ RunsInv =>
        [Crash =>
           \A j \in Jobs :
             jobs[j].status = "queued" /\ jobs[j].req.recoverable =>
               jobs'[j].status = "queued" /\ j \in heap'[jobs[j].queue]]_vars
  BY CrashKeepsQueued
<1> QED
  BY <1>1, TypeCorrect, RunsInvariant, PTL DEF RestartKeepsQueued

-----------------------------------------------------------------------------
(* Refinement of JobLifecycle *)

(* A move of the abstract life cycle, or none. *)
LegalMove(from, to) == from = to \/ <<from, to>> \in Lifecycle!Moves

(* What a step may do to the status of job j: completion is reported of a  *)
(* job whose runner is at work.                                            *)
StatusStep(j) ==
  /\ LegalMove(jobs[j].status, jobs'[j].status)
  /\ jobs'[j].status = "completed" =>
       jobs[j].status = "completed" \/ task[j] \in {"running", "cancelling"}

LEMMA MonitorMoves ==
  ASSUME TypeOK, NEW j \in Jobs
  PROVE  /\ LegalMove(jobs[j].status, MonitoredJobs[j].status)
         /\ MonitoredJobs[j].status = "completed" => jobs[j].status = "completed"
<1>1. MonitoredJobs[j] = MonitoredJob(j) /\ jobs[j] \in JobRecord
  BY DEF MonitoredJobs, TypeOK
<1>2. CASE Due(j)
  <2>1. MonitoredJob(j).status = "deleted" /\ jobs[j].status \in Terminal
    BY <1>2 DEF MonitoredJob, Deleted, NoRecord, Due
  <2> QED
    BY <1>1, <2>1 DEF LegalMove, Lifecycle!Moves, Terminal
<1>3. CASE ~Due(j) /\ ~Spills(j) /\ Overdue(j)
  <2>1. MonitoredJob(j) = [jobs[j] EXCEPT !.status = "expired_wait_budget", !.expiresAt = now + TTL]
    BY <1>3 DEF MonitoredJob
  <2>2. MonitoredJob(j).status = "expired_wait_budget" /\ jobs[j].status = "queued"
    BY <1>1, <1>3, <2>1 DEF JobRecord, Overdue
  <2> QED
    BY <1>1, <2>2 DEF LegalMove, Lifecycle!Moves
<1>4. CASE ~Due(j) /\ (Spills(j) \/ ~Overdue(j))
  <2>1. MonitoredJob(j).status = jobs[j].status
    BY <1>1, <1>4 DEF MonitoredJob, JobRecord
  <2> QED
    BY <1>1, <2>1 DEF LegalMove
<1> QED
  BY <1>2, <1>3, <1>4

(* Loading the file: f is the current file, or the empty one of a torn     *)
(* write.                                                                  *)
LEMMA LoadedMoves ==
  ASSUME TypeOK, NEW f \in [Jobs -> JobRecord], NEW j \in Jobs,
         f[j] = jobs[j] \/ f[j] = NoRecord
  PROVE  /\ LegalMove(jobs[j].status, Loaded(f, j).status)
         /\ Loaded(f, j).status = "completed" => jobs[j].status = "completed"
<1>1. jobs[j] \in JobRecord /\ f[j] \in JobRecord
  BY DEF TypeOK
<1>2. /\ jobs[j].status \in Statuses
      /\ Statuses = {"absent", "deleted", "queued", "running", "completed", "failed", "cancelled",
                     "expired_wait_budget"}
  BY <1>1 DEF JobRecord, Statuses, Pending, Terminal
<1>3. NoRecord.status = "absent" /\ Deleted.status = "deleted"
  BY DEF NoRecord, Deleted
<1>4. LegalMove(jobs[j].status, IF jobs[j].status = "absent" THEN "absent" ELSE "deleted")
  BY <1>2 DEF LegalMove, Lifecycle!Moves
<1>5. CASE f[j] = NoRecord
  <2>1. Recovered(f[j]) = NoRecord
    BY <1>3, <1>5 DEF Recovered
  <2>2. Loaded(f, j).status = IF jobs[j].status = "absent" THEN "absent" ELSE "deleted"
    BY <1>3, <2>1 DEF Loaded
  <2> QED
    BY <1>4, <2>2
<1>6. CASE f[j] = jobs[j]
  <2>1. /\ jobs[j].status = "running" => Recovered(f[j]).status = "failed"
        /\ jobs[j].status = "queued" => Recovered(f[j]).status \in {"queued", "failed"}
        /\ jobs[j].status \notin {"running", "queued"} => Recovered(f[j]).status = jobs[j].status
    BY <1>1, <1>6 DEF Recovered, JobRecord
  <2>2. \/ Loaded(f, j).status = IF jobs[j].status = "absent" THEN "absent" ELSE "deleted"
        \/ Loaded(f, j).status = Recovered(f[j]).status
    <3>1. Recovered(f[j]).status = "absent" <=> jobs[j].status = "absent"
      BY <1>2, <2>1
    <3> QED
      BY <1>3, <3>1 DEF Loaded, Terminal
  <2>3. LegalMove(jobs[j].status, Recovered(f[j]).status)
    BY <1>2, <2>1 DEF LegalMove, Lifecycle!Moves
  <2> QED
    BY <1>4, <2>1, <2>2, <2>3
<1> QED
  BY <1>5, <1>6

LEMMA StatusSteps ==
  ASSUME TypeOK, QueueInv, RunsInv, [Next]_vars, NEW j \in Jobs
  PROVE  StatusStep(j)
<1>0. jobs[j] \in JobRecord /\ MonitoredJobs \in [Jobs -> JobRecord]
  BY MonitoredType DEF TypeOK
<1>1. CASE jobs' = jobs
  BY <1>1 DEF StatusStep, LegalMove
<1>2. CASE jobs' = MonitoredJobs
  BY <1>2, MonitorMoves DEF StatusStep
<1>3. ASSUME NEW k \in Jobs, Client(k) PROVE StatusStep(j)
  <2>1. ASSUME NEW r \in Requests, Enqueue(k, r) PROVE StatusStep(j)
    <3>1. jobs'[j] = IF j = k THEN NewJob(r) ELSE MonitoredJobs[j]
      BY <1>0, <2>1 DEF Enqueue
    <3>2. CASE j = k
      <4>1. jobs[j].status = "absent" /\ jobs'[j].status = "queued"
        BY <2>1, <3>1, <3>2 DEF Enqueue, NewJob
      <4> QED
        BY <4>1 DEF StatusStep, LegalMove, Lifecycle!Moves
    <3>3. CASE j # k
      BY <3>1, <3>3, MonitorMoves DEF StatusStep
    <3> QED
      BY <3>2, <3>3
  <2>2. CASE Acknowledge(k)
    <3>1. jobs'[j].status = jobs[j].status
      BY <1>0, <2>2 DEF Acknowledge, TypeOK, JobRecord
    <3> QED
      BY <3>1 DEF StatusStep, LegalMove
  <2>3. CASE CancelQueued(k)
    <3>1. jobs' = [MonitoredJobs EXCEPT ![k].status = "cancelled", ![k].expiresAt = now + TTL]
      BY <2>3 DEF CancelQueued
    <3>2. CASE j = k
      <4>1. jobs[j].status = "queued"
        BY <2>3, <3>2, MonitorKeeps DEF CancelQueued
      <4>2. jobs'[j].status = "cancelled"
        BY <1>0, <3>1, <3>2 DEF JobRecord
      <4> QED
        BY <4>1, <4>2 DEF StatusStep, LegalMove, Lifecycle!Moves
    <3>3. CASE j # k
      BY <1>0, <3>1, <3>3, MonitorMoves DEF StatusStep
    <3> QED
      BY <3>2, <3>3
  <2>4. CASE CancelRunning(k)
    BY <1>2, <2>4 DEF CancelRunning
  <2> QED
    BY <1>3, <2>1, <2>2, <2>3, <2>4 DEF Client
<1>4. ASSUME NEW k \in Jobs, Run(k) PROVE StatusStep(j)
  <2>1. CASE RunnerStart(k) \/ RunnerSkipped(k)
    BY <1>1, <2>1 DEF RunnerStart, RunnerSkipped
  <2>2. ASSUME NEW outcome \in Outcomes, RunnerEnd(k, outcome) PROVE StatusStep(j)
    <3>1. /\ task[k] \in {"running", "cancelling"}
          /\ jobs' = [jobs EXCEPT ![k].status = outcome, ![k].expiresAt = now + TTL]
      BY <2>2 DEF RunnerEnd
    <3>2. jobs[k].status = "running"
      BY <3>1 DEF QueueInv, TasksAreRunning
    <3>3. CASE j = k
      <4>1. jobs'[j].status = outcome
        BY <3>1, <3>3 DEF TypeOK, JobRecord
      <4>2. LegalMove("running", outcome)
        BY DEF LegalMove, Lifecycle!Moves, Outcomes
      <4> QED
        BY <3>1, <3>2, <3>3, <4>1, <4>2 DEF StatusStep
    <3>4. CASE j # k
      BY <3>1, <3>4 DEF TypeOK, StatusStep, LegalMove
    <3> QED
      BY <3>3, <3>4
  <2> QED
    BY <1>4, <2>1, <2>2 DEF Run
<1>5. ASSUME NEW p \in Queues, Dispatch(p) PROVE StatusStep(j)
  <2>1. CASE DispatchScan(p) \/ DispatchStale(p) \/ DispatchBlocked(p)
    BY <1>1, <2>1 DEF DispatchScan, DispatchStale, DispatchBlocked
  <2>2. CASE DispatchStart(p)
    <3>1. /\ jobs[disp[p].job].status = "queued"
          /\ jobs' = [jobs EXCEPT ![disp[p].job].status = "running"]
      BY <2>2 DEF DispatchStart, StillHead
    <3>2. CASE j = disp[p].job
      <4>1. jobs[j].status = "queued" /\ jobs'[j].status = "running"
        BY <3>1, <3>2 DEF TypeOK, JobRecord
      <4> QED
        BY <4>1 DEF StatusStep, LegalMove, Lifecycle!Moves
    <3>3. CASE j # disp[p].job
      BY <3>1, <3>3 DEF TypeOK, StatusStep, LegalMove
    <3> QED
      BY <3>2, <3>3
  <2> QED
    BY <1>5, <2>1, <2>2 DEF Dispatch
<1>6. ASSUME NEW f \in [Jobs -> JobRecord], Boot(f), f[j] = jobs[j] \/ f[j] = NoRecord
      PROVE  StatusStep(j)
  <2>1. jobs'[j] = Loaded(f, j)
    BY <1>6 DEF Boot
  <2> QED
    BY <1>6, <2>1, LoadedMoves DEF StatusStep
<1>7. CASE Crash \/ CrashTearingFile
  <2>1. [k \in Jobs |-> NoRecord] \in [Jobs -> JobRecord] /\ disk \in [Jobs -> JobRecord]
    BY NoRecordType DEF TypeOK
  <2> QED
    BY <1>6, <1>7, <2>1 DEF Crash, CrashTearingFile, RunsInv
<1> QED
  BY <1>1, <1>2, <1>3, <1>4, <1>5, <1>7
     DEF Next, Service, Poll, EnqueueRejected, ExpireDueRecords, MonitorOnly, RetryBlocked,
         Tick, Shutdown, StartRecoveredJobs, AdmissionAnswer, vars

(* The runner of a job starts in one place. *)
LEMMA StartSteps ==
  ASSUME TypeOK, [Next]_vars, NEW j \in Jobs
  PROVE  \/ /\ runs'[j] = runs[j]
            /\ task'[j] \in {"running", "cancelling"} => task[j] \in {"running", "cancelling"}
         \/ task[j] = "ready" /\ runs'[j] = runs[j] + 1
<1> DEFINE Same == /\ runs'[j] = runs[j]
                   /\ task'[j] \in {"running", "cancelling"} => task[j] \in {"running", "cancelling"}
<1>1. CASE runs' = runs /\ task' = task
  BY <1>1
<1>2. ASSUME NEW k \in Jobs, CancelRunning(k) PROVE Same
  BY <1>2 DEF CancelRunning, Cancelled, TypeOK
<1>3. ASSUME NEW k \in Jobs, Run(k), ~(RunnerStart(j) /\ k = j) PROVE Same
  <2>1. ASSUME NEW outcome \in Outcomes, RunnerEnd(k, outcome) PROVE Same
    BY <2>1 DEF RunnerEnd, TypeOK
  <2>2. CASE RunnerSkipped(k)
    BY <2>2 DEF RunnerSkipped, TypeOK
  <2>3. CASE RunnerStart(k)
    BY <1>3, <2>3 DEF RunnerStart, TypeOK
  <2> QED
    BY <1>3, <2>1, <2>2, <2>3 DEF Run
<1>4. CASE RunnerStart(j)
  BY <1>4 DEF RunnerStart, TypeOK
<1>5. ASSUME NEW q \in Queues, DispatchStart(q) PROVE Same
  BY <1>5 DEF DispatchStart, TypeOK
<1>6. CASE Shutdown
  BY <1>6 DEF Shutdown, Cancelled
<1>7. ASSUME NEW f, Boot(f) PROVE Same
  BY <1>7 DEF Boot
<1> QED
  BY <1>1, <1>2, <1>3, <1>4, <1>5, <1>6, <1>7
     DEF Next, Service, Client, Enqueue, Acknowledge, CancelQueued, Dispatch, DispatchScan,
         DispatchStale, DispatchBlocked, Poll, EnqueueRejected, ExpireDueRecords, MonitorOnly,
         RetryBlocked, Tick, Crash, CrashTearingFile, StartRecoveredJobs, AdmissionAnswer, vars

(* A runner at work, or one that has completed, has been started. *)
StartedInv ==
  \A j \in Jobs :
    jobs[j].status = "completed" \/ task[j] \in {"running", "cancelling"} => runs[j] > 0

LEMMA StartedStep == TypeOK /\ QueueInv /\ RunsInv /\ StartedInv /\ [Next]_vars => StartedInv'
<1> SUFFICES ASSUME TypeOK, QueueInv, RunsInv, StartedInv, [Next]_vars, NEW j \in Jobs,
                    jobs'[j].status = "completed" \/ task'[j] \in {"running", "cancelling"}
             PROVE  runs'[j] > 0
  BY DEF StartedInv
<1>1. runs[j] \in Nat
  BY DEF TypeOK
<1>2. jobs'[j].status = "completed" =>
        jobs[j].status = "completed" \/ task[j] \in {"running", "cancelling"}
  BY StatusSteps DEF StatusStep
<1> QED
  BY <1>1, <1>2, StartSteps DEF StartedInv

(* A step of the queue, seen as a step of JobLifecycle. *)
LEMMA LifecycleStep ==
  TypeOK /\ TypeOK' /\ QueueInv /\ RunsInv /\ StartedInv /\ [Next]_vars => Lifecycle!Next
<1> SUFFICES ASSUME TypeOK, TypeOK', QueueInv, RunsInv, StartedInv, [Next]_vars
             PROVE  Lifecycle!Next
  OBVIOUS
<1>1. [j \in Jobs |-> jobs[j].status]' \in [Jobs -> Lifecycle!Stages]
  BY DEF TypeOK, JobRecord, Statuses, Pending, Terminal, Lifecycle!Stages
<1>2. \A j \in Jobs : runs[j] > 0 => runs'[j] > 0
  BY StartSteps DEF TypeOK
<1>3. ASSUME NEW j \in Jobs
      PROVE  Lifecycle!StepOf(j)
  <2>1. LegalMove(jobs[j].status, jobs'[j].status)
    BY <1>3, StatusSteps DEF StatusStep
  <2>2. runs'[j] > 0 /\ ~(runs[j] > 0) => jobs[j].status = "running"
    <3>1. runs[j] \in Nat
      BY DEF TypeOK
    <3>2. task[j] = "ready" => jobs[j].status = "running"
      BY DEF QueueInv, TasksAreRunning
    <3> QED
      BY <3>1, <3>2, StartSteps
  <2>3. jobs'[j].status = "completed" => runs[j] > 0
    BY StatusSteps DEF StatusStep, StartedInv
  <2> QED
    BY <2>1, <2>2, <2>3 DEF Lifecycle!StepOf, LegalMove
<1> QED
  BY <1>1, <1>2, <1>3 DEF Lifecycle!Next

(* What a client sees of a job is one of the lives that JobLifecycle       *)
(* allows, over any interleaving of dispatchers, runners, cancellations,   *)
(* polls, crashes and torn files: a reported outcome never changes, and    *)
(* only a job whose work was started completes.  It needs a state file     *)
(* that can be written: an outcome whose write failed is forgotten by a    *)
(* crash.                                                                  *)
THEOREM RefinesLifecycle == ~SaveMayFail => (Spec => ImplementsLifecycle)
<1> SUFFICES ASSUME ~SaveMayFail
             PROVE  Spec => ImplementsLifecycle
  OBVIOUS
<1>1. Init => Lifecycle!Init /\ StartedInv
  <2>1. ASSUME Init
        PROVE  \A j \in Jobs : jobs[j].status = "absent" /\ task[j] = "none" /\ runs[j] = 0
    BY <2>1 DEF Init, NoRecord
  <2>2. ASSUME Init
        PROVE  [j \in Jobs |-> jobs[j].status] = [j \in Jobs |-> "absent"]
    BY <2>1, <2>2
  <2> QED
    BY <2>1, <2>2 DEF Lifecycle!Init, StartedInv
<1>2. TypeOK /\ TypeOK' /\ QueueInv /\ RunsInv /\ StartedInv /\ [Next]_vars =>
        [Lifecycle!Next]_(<<[j \in Jobs |-> jobs[j].status], {j \in Jobs : runs[j] > 0}>>)
  BY LifecycleStep
<1> QED
  BY <1>1, <1>2, StartedStep, TypeCorrect, QueueInvariant, RunsInvariant, PTL
  DEF Spec, ImplementsLifecycle, Lifecycle!Spec

-----------------------------------------------------------------------------
(* The queue with the admission provider of the node is still the queue:   *)
(* whatever the lanes answer and however stale the answer is when the      *)
(* dispatcher acts on it, it is an answer of ExecutionQueue's open         *)
(* admission provider, so everything proved of the queue holds of the      *)
(* composed system.                                                        *)

(* Every answer is a yes or a no.                                          *)
LEMMA AnswersAreAnswers ==
  ASSUME NEW q \in Queues, NEW ready \in BOOLEAN, LaneAnswer(q, ready)
  PROVE  \E allowed \in BOOLEAN : AdmissionAnswer(q, allowed)
<1> DEFINE r == jobs[disp[q].job].req
           free == ActiveImageWork = {}
           clear == VisionWork = {} /\ ready
<1>1. /\ free \in BOOLEAN /\ clear \in BOOLEAN
      /\ AdmissionAnswer(q, CASE r \in VisionRequests -> free
                              [] r \in ImageRequests -> clear
                              [] OTHER -> TRUE)
  BY DEF LaneAnswer
<1> HIDE DEF r, free, clear
<1>2. CASE r \in VisionRequests
  <2>1. r \notin ImageRequests
    <3>1. Visual # Local
      BY LanesAssumption
    <3> QED
      BY <1>2, <3>1, LanesAssumption
  <2>2. AdmissionAnswer(q, free)
    BY <1>1, <1>2, <2>1
  <2> QED
    BY <1>1, <2>2
<1>3. CASE r \notin VisionRequests /\ r \in ImageRequests
  <2>1. AdmissionAnswer(q, clear)
    BY <1>1, <1>3
  <2> QED
    BY <1>1, <2>1
<1>4. CASE r \notin VisionRequests /\ r \notin ImageRequests
  <2>1. AdmissionAnswer(q, TRUE)
    BY <1>1, <1>4
  <2> QED
    BY <2>1
<1> QED
  BY <1>2, <1>3, <1>4

LEMMA LaneStep ==
  ASSUME [LaneNext]_vars
  PROVE  [Next]_vars
<1>1. CASE Service \/ UNCHANGED vars
  BY <1>1 DEF Next
<1>2. ASSUME NEW q \in Queues, NEW ready \in BOOLEAN, LaneAnswer(q, ready)
      PROVE  Next
  BY <1>2, AnswersAreAnswers DEF Next
<1> QED
  BY <1>1, <1>2 DEF LaneNext

(* The composed system implements the queue's specification: the answers   *)
(* of NodeControlState._execution_queue_lane_admission are among those the *)
(* queue is proved for.                                                    *)
THEOREM LanesImplementQueue == LaneSpec => Spec
BY LaneStep, PTL DEF LaneSpec, Spec

(* In the composed system too no entry is lost, no slot is overbooked, no  *)
(* wake-up is missed and the head of every queue starts first, although    *)
(* two dispatchers act on answers each other's starts have made stale.     *)
THEOREM LanesKeepQueue ==
  LaneSpec => [](QueueEntriesMatch /\ SlotsAccounted /\ NoStalledQueue) /\ StartsInOrder
BY LanesImplementQueue, HeapsAreExact, ConcurrencyRespected, NoLostWakeup, HeadsStart, PTL
=============================================================================
