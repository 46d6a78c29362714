--------------------------- MODULE InternalScheduler ---------------------------
(***************************************************************************)
(* The scheduler of the node's recurring jobs (internal_scheduler.py) with *)
(* its state file, and the start and stop of the jobs with the control     *)
(* app: heartbeats, telemetry, provider refresh, the residency of local    *)
(* models, the LoRA dispatcher, output cleanup and operational MQTT        *)
(* health.  Each job is a task of the event loop that sleeps, runs once    *)
(* and records how it went.                                                *)
(*                                                                         *)
(* Every change of a job's entry is saved at once; a save may raise, and   *)
(* then whatever made the change ends there.  Delays, times, results and   *)
(* counts are left out.                                                    *)
(***************************************************************************)
EXTENDS Integers, Sequences

CONSTANTS
  Jobs,           \* the jobs in the order they are started
  MaxUnsaved      \* bound: saves that fail

VARIABLES
  life,           \* "down", "starting", "up" or "stopping" of the control app
  entry,          \* the status of each job in _state
  status,         \* scheduler_status
  file,           \* internal_scheduler_state.json
  handle,         \* the task of each job
  unsaved         \* history: saves that failed, and the jobs of this life that ended with one

vars == <<life, entry, status, file, handle, unsaved>>

Tasks == {Jobs[i] : i \in DOMAIN Jobs}
Alive(t) == handle[t] \in {"new", "sleeping", "running"}
NoEntries == [t \in Tasks |-> "idle"]
NoHandles == [t \in Tasks |-> "none"]

(* _save of what the scheduler then holds.  A save that fails leaves the   *)
(* file as it was; the caller gets the exception.                          *)
Saved == file' = [entry |-> entry', status |-> status'] /\ UNCHANGED unsaved
NotSaved(t) ==
  /\ unsaved.count < MaxUnsaved
  /\ unsaved' = [count |-> unsaved.count + 1, jobs |-> unsaved.jobs \cup {t}]
  /\ UNCHANGED file

(* The task t goes on, or ends with the exception of the save.             *)
MarksThen(t, s, next) ==
  /\ entry' = [entry EXCEPT ![t] = s]
  /\ UNCHANGED <<life, status>>
  /\ \/ Saved /\ handle' = [handle EXCEPT ![t] = next]
     \/ NotSaved(t) /\ handle' = [handle EXCEPT ![t] = "died"]

-----------------------------------------------------------------------------
(* The node starts: the file is read, every job is registered, keeping its *)
(* status, and the jobs are started once the execution queue and the       *)
(* providers were looked at.                                               *)
Load ==
  /\ life = "down"
  /\ entry' = file.entry /\ status' = file.status
  /\ life' = "starting"
  /\ unsaved' = [unsaved EXCEPT !.jobs = {}]
  /\ UNCHANGED <<file, handle>>

StartBackgroundJobs ==
  /\ life = "starting"
  /\ handle' = [t \in Tasks |-> "new"]
  /\ status' = "running" /\ life' = "up"
  /\ UNCHANGED entry
  /\ Saved

(* A save that fails ends the start, and the process with it.              *)
StartFails ==
  /\ life = "starting"
  /\ \E t \in Tasks : NotSaved(t)
  /\ life' = "down" /\ handle' = NoHandles
  /\ UNCHANGED <<entry, status>>

-----------------------------------------------------------------------------
(* _run_interval_task *)
FirstStep(t) == life = "up" /\ handle[t] = "new" /\ MarksThen(t, "scheduled", "sleeping")
Wakes(t) == life = "up" /\ handle[t] = "sleeping" /\ MarksThen(t, "running", "running")

(* The job returns or raises; what it was is recorded, and the task sleeps *)
(* again.  The record of the sleep follows at once.                        *)
EndsFor(t, outcome) ==
  \/ MarksThen(t, "scheduled", "sleeping")
  \/ /\ entry' = [entry EXCEPT ![t] = outcome]
     /\ NotSaved(t) /\ handle' = [handle EXCEPT ![t] = "died"]
     /\ UNCHANGED <<life, status>>

JobReturns(t) == life = "up" /\ handle[t] = "running" /\ EndsFor(t, "healthy")

JobRaisesUncaught(t) ==
  /\ life = "up" /\ handle[t] = "running"
  /\ entry' = [entry EXCEPT ![t] = "failing"]
  /\ handle' = [handle EXCEPT ![t] = "died"]
  /\ UNCHANGED <<life, status>>
  /\ Saved
JobRaises(t) == life = "up" /\ handle[t] = "running" /\ EndsFor(t, "failing")

(* The health of operational MQTT registers its job again, with the        *)
(* interval that now applies; an exception of that save is the job's.      *)
Registers(t) ==
  /\ life = "up" /\ handle[t] = "running"
  /\ UNCHANGED <<life, entry, status, handle>>
  /\ Saved

-----------------------------------------------------------------------------
(* stop_all: the tasks are cancelled; one that runs its job records that,  *)
(* the others end without a word.                                          *)
StopAll ==
  /\ life = "up"
  /\ life' = "stopping"
  /\ entry' = [t \in Tasks |-> IF handle[t] = "running" THEN "stopped" ELSE entry[t]]
  /\ handle' = [t \in Tasks |-> IF Alive(t) THEN "cancelled" ELSE handle[t]]
  /\ UNCHANGED status
  /\ Saved

(* Then they are awaited in turn and recorded as stopped.  The exception   *)
(* of a task that had died, or of a save, ends stop_all there.             *)
Awaited(n) == {Jobs[i] : i \in 1..n}
Stopped(n) == [t \in Tasks |-> IF t \in Awaited(n) THEN "stopped" ELSE entry[t]]
Ended(n) == \A t \in Awaited(n) : handle[t] = "cancelled"

StopEnds ==
  /\ life = "stopping" /\ Ended(Len(Jobs))
  /\ entry' = Stopped(Len(Jobs)) /\ status' = "stopped" /\ life' = "down"
  /\ UNCHANGED handle
  /\ Saved

StopRaises ==
  /\ life = "stopping"
  /\ life' = "down"
  /\ UNCHANGED <<status, handle>>
  /\ \E n \in 0..(Len(Jobs) - 1) :
       /\ Ended(n) /\ entry' = Stopped(n)
       /\ file' = [entry |-> entry', status |-> status]
       /\ \/ handle[Jobs[n + 1]] = "died" /\ UNCHANGED unsaved
          \/ /\ handle[Jobs[n + 1]] = "cancelled" /\ unsaved.count < MaxUnsaved
             /\ unsaved' = [unsaved EXCEPT !.count = @ + 1]

Crash ==
  /\ life # "down"
  /\ life' = "down" /\ handle' = NoHandles
  /\ UNCHANGED <<entry, status, file, unsaved>>

Init ==
  /\ life = "down" /\ entry = NoEntries /\ status = "idle"
  /\ file = [entry |-> NoEntries, status |-> "idle"]
  /\ handle = NoHandles /\ unsaved = [count |-> 0, jobs |-> {}]

JobStep(t) == FirstStep(t) \/ Wakes(t) \/ JobReturns(t) \/ JobRaises(t)
Next ==
  \/ Load \/ StartBackgroundJobs \/ StartFails \/ StopAll \/ StopEnds \/ StopRaises \/ Crash
  \/ \E t \in Tasks : JobStep(t) \/ Registers(t)

(* The event loop runs what is ready, sleeps end, and every job returns or *)
(* raises: its calls have timeouts.                                        *)
Fairness == \A t \in Tasks : WF_vars(JobStep(t))

Spec == Init /\ [][Next]_vars /\ Fairness

-----------------------------------------------------------------------------
(* While the control app is up every job runs again and again, however     *)
(* often jobs raise: only a save of its own state that fails ends a job.   *)
(* The periodic checks of the GPU runtimes, the LoRA dispatcher and the    *)
(* recovery of operational MQTT rest on this.                              *)
JobsKeepRunning ==
  \A t \in Tasks : []<>(handle[t] = "running" \/ life # "up" \/ t \in unsaved.jobs)
=============================================================================
