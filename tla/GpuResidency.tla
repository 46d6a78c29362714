----------------------------- MODULE GpuResidency -----------------------------
(* Who is on the GPU: the text and the vision model, ComfyUI and a LoRA    *)
(* training.  UserSystemdServiceManager moves them under one transition    *)
(* lock, which request_ and release_local_scheduler_component hold, but    *)
(* several callers work outside it: the lease of the image studio, the     *)
(* start and the stop of the Web UI, the prompts, the training.  Threads   *)
(* are the callers: client jobs, admission threads, operators and the      *)
(* background jobs of the node.                                            *)
(*                                                                         *)
(* The desired state of a runtime is kept in a file that get_status        *)
(* rewrites.  For the two resident models it always becomes "running" and  *)
(* nothing waits for the one of training: only ComfyUI's is kept here.     *)
EXTENDS LocalScheduler

CONSTANTS
  Threads,      \* concurrent callers
  Clients,      \* those of them that run client and operator work
  VramTotal,    \* video memory, in GiB
  VramUse,      \* what each component uses while it is resident
  JobEnds,      \* how client jobs end: a subset of {"complete", "keep_warm", "fail"}
  Manual,       \* whether operators start sessions, stop them and train
  TextJob,      \* whether the job that keeps the text model on runs
  Overlap,      \* whether status calls overlap the operations
  MaxFaults     \* bound on failing control scripts

NoLock == "nobody"
NoJob == "nothing"

ASSUME ResidencyAssumption ==
  /\ VramTotal \in Nat /\ VramUse \in [Components -> Nat]
  /\ JobEnds \subseteq {"complete", "keep_warm", "fail"}
  /\ Clients \subseteq Threads /\ Manual \in BOOLEAN /\ Overlap \in BOOLEAN
  /\ TextJob \in BOOLEAN /\ MaxFaults \in Nat /\ NoLock \notin Threads
Desired == {"unloaded", "requested", "loaded", "unloading"}
States == {"none", "starting", "active", "busy", "idle", "closing", "failed"}

VARIABLES
  text,       \* the text model is loaded
  vision,     \* its runtime: "stopped", "unloaded" (no model) or "loaded"
  comfy,      \* "stopped", "ready" (no model) or "loaded"
  training,   \* a training process runs
  prompts,    \* callers with a prompt in ComfyUI's queue
  latest,     \* whose prompts the latest-job file of the image studio names
  session,    \* state of the session file; "busy" is active with an active queue
  bridge,     \* the Web UI bridge process runs
  idle,       \* ComfyUI was not used for longer than the idle limit
  lease,      \* the image studio's GPU lease file is there and not expired
  gate,       \* ComfyUI's vision gate file is there and not too old
  desired,    \* desired state of ComfyUI, on file
  client,     \* whether the last request on file came from a client job
  lock,       \* holder of _local_scheduler_transition_lock
  th,         \* what each thread is doing
  reader,     \* a get_status between reading and writing ComfyUI's file
  faults

models == <<text, vision>>
studio == <<comfy, prompts, latest>>
webui == <<session, bridge, idle, lease, gate>>
files == <<desired, client>>
vars == <<models, studio, training, webui, files, lock, th, reader, faults>>

Rest == [pc |-> "rest", c |-> "vision_llm", client |-> FALSE, unload |-> {}, then |-> "end"]
NoReader == [open |-> FALSE, desired |-> "unloaded", client |-> FALSE]

Goto(t, pc) == th' = [th EXCEPT ![t].pc = pc]
Leaves(t, pc) == th' = [th EXCEPT ![t].pc = pc, ![t].unload = {}]
Ends(t) == th' = [th EXCEPT ![t] = Rest]

(* Thread t goes on with a request or a release of c; "then" is what it    *)
(* does once that is through.                                              *)
Asks(t, pc, c, isClient, then) ==
  th' = [th EXCEPT ![t] = [pc |-> pc, c |-> c, client |-> isClient, unload |-> {}, then |-> then]]

-----------------------------------------------------------------------------
(* What is observed.                                                       *)

VisionLoaded == vision = "loaded"

(* _comfyui_gpu_model_loaded, _comfyui_queue_state  *)
ComfyLoaded == comfy = "loaded"
QueueActive == prompts # {}

(* comfyui_webui_session_status: manual_session_active  *)
SessionActive == session \in {"starting", "closing"} \/ (session \in {"active", "busy", "idle"} /\ bridge)

(* _manual_comfyui_webui_active: without a session file the bridge counts, *)
(* and a session marked for its queue only while the queue is not empty.   *)
WebuiActive ==
  \/ session \in {"starting", "closing"}
  \/ bridge /\ session \in {"active", "idle", "none"}
  \/ bridge /\ session = "busy" /\ QueueActive

(* gpu_exclusive_workload_status: neither model may be loaded.  *)
Blocked == ComfyLoaded \/ WebuiActive \/ gate \/ lease \/ training

(* get_status renews the lease of a session that is in use; when the lease *)
(* is gone it acquires it again, which stops both models.                  *)
SessionTakesGpu == bridge /\ SessionActive /\ (~idle \/ QueueActive)

(* The stops of the two models.  One that fails is logged and its model    *)
(* stays: the lease is held all the same.                                  *)
StopsModels ==
  \/ text' = FALSE /\ vision' = "stopped" /\ UNCHANGED faults
  \/ /\ faults < MaxFaults /\ faults' = faults + 1
     /\ text' \in {FALSE, text} /\ vision' \in {"stopped", vision}
     /\ text' = text \/ vision' = vision

AcquiresLease == lease' = TRUE /\ StopsModels

StatusEffect ==
  IF SessionTakesGpu /\ ~lease THEN AcquiresLease ELSE UNCHANGED <<lease, models, faults>>

Resident(c, x, v) ==
  CASE c = "text_llm" -> x
    [] c = "vision_llm" -> v
    [] c = "visual_gpu" -> ComfyLoaded
    [] c = "training_runtime" -> training

(* observed_component_state and model_residency_from_services, when the    *)
(* text model is (x) and the vision model is (v) loaded.  ComfyUI's queue  *)
(* is only looked at while a session is active.                            *)
StatusOf(x, v) ==
  LET used == SumOf([c \in Components |-> IF Resident(c, x, v) THEN VramUse[c] ELSE 0])
  IN [free |-> IF used > VramTotal THEN 0 ELSE VramTotal - used,
      comp |-> [c \in Components |->
                  [resident |-> Resident(c, x, v),
                   busy |-> c = "visual_gpu" /\ SessionActive /\ QueueActive,
                   vram |-> IF Resident(c, x, v) THEN VramUse[c] ELSE 0]]]

-----------------------------------------------------------------------------
(* request_local_scheduler_component                                       *)

(* Entering the with block; and the same with one lock per component.  *)
LockOfComponentFree(t) == lock # NoLock => th[lock].c # th[t].c
LockFree(t) == lock = NoLock

(* update_desired_state  *)
WritesDesired(t, d) ==
  IF th[t].c = "visual_gpu"
  THEN desired' = d /\ client' = th[t].client
  ELSE UNCHANGED files

(* How the caller goes on once its request or release has returned.  A     *)
(* start that was denied gives the lease back; a client job submits its    *)
(* prompt all the same.                                                    *)
Returns(t, ok) ==
  CASE th[t].then = "restore" -> Asks(t, "request", "vision_llm", FALSE, "end")
    [] th[t].then = "train" -> Leaves(t, "train")
    [] th[t].then \in {"session", "job"} /\ ok -> Leaves(t, "bridge")
    [] th[t].then = "job" /\ ~ok -> Leaves(t, "submit")
    [] OTHER -> Ends(t)

GivesLeaseBack(t) == th[t].then \in {"session", "job"}

(* An exception leaves the with block: the lock is free, the files are as  *)
(* they are, and the caller does not go on.                                *)
Raises(t) == lock' = NoLock /\ Ends(t)

PlanOf(t) == Plan(StatusOf(text', VisionLoaded'), th[t].c)

Refused(t) == PlanOf(t).decision \in {"waiting_for_idle", "insufficient_resources"}

(* The age of a request counts for a runtime without a session.  *)
RequestIsFresh(t) == idle' = (idle /\ (th[t].c # "visual_gpu" \/ SessionActive))

RequestDenied(t) ==
  /\ th[t].pc = "request" /\ LockFree(t)
  /\ IF SessionTakesGpu /\ ~lease THEN StopsModels ELSE UNCHANGED <<models, faults>>
  /\ Refused(t)
  /\ lease' = (~GivesLeaseBack(t) /\ (lease \/ SessionTakesGpu))
  /\ WritesDesired(t, "requested")
  /\ RequestIsFresh(t)
  /\ Returns(t, FALSE)
  /\ UNCHANGED <<studio, training, session, bridge, gate, lock, reader>>

RequestPlanned(t) ==
  /\ th[t].pc = "request" /\ LockFree(t)
  /\ lock' = t
  /\ StatusEffect
  /\ ~Refused(t)
  /\ WritesDesired(t, "requested")
  /\ RequestIsFresh(t)
  /\ th' = [th EXCEPT ![t].pc = "unload", ![t].unload = PlanOf(t).unload]
  /\ UNCHANGED <<studio, training, session, bridge, gate, reader>>

(* _execute_model_residency_unload: the text container is stopped, the     *)
(* other models are unloaded, a training is left alone.                    *)
ComfyWithout(C) == IF "visual_gpu" \in C /\ ComfyLoaded THEN "ready" ELSE comfy

Unloaded(C) ==
  /\ text' = (text /\ "text_llm" \notin C)
  /\ vision' = IF "vision_llm" \in C /\ VisionLoaded THEN "unloaded" ELSE vision
  /\ comfy' = ComfyWithout(C)

(* What is asked for the load: ensure_local_llm_model raises when the GPU  *)
(* is taken, ensure_vision_runtime_resident skips the load and the request *)
(* is answered as if the model were loaded.                                *)
VisionMayLoad == ~Blocked /\ ~VisionLoaded

LoadAllowed(t) ==
  IF th[t].c = "text_llm" /\ Blocked' THEN "raise"
  ELSE IF th[t].c = "vision_llm" /\ ~VisionMayLoad' THEN "skip"
  ELSE "load"

UnloadsAndChecks(t) ==
  /\ th[t].pc = "unload"
  /\ Unloaded(th[t].unload)
  /\ UNCHANGED <<prompts, latest, training, webui>>
  /\ CASE LoadAllowed(t) = "raise" -> Raises(t)
       [] LoadAllowed(t) = "skip" -> Goto(t, "granted") /\ UNCHANGED lock
       [] OTHER -> Goto(t, "load") /\ UNCHANGED lock
  /\ UNCHANGED <<files, reader, faults>>

(* gate_gpu_exclusive_models: the text container is stopped; a vision      *)
(* runtime that is up has its model unloaded, and the file says so, which  *)
(* keeps the model out for a while; otherwise it says that nothing was     *)
(* needed.                                                                 *)
GateOnModels ==
  /\ text' = FALSE
  /\ gate' = (vision # "stopped")
  /\ vision' = IF VisionLoaded THEN "unloaded" ELSE vision

(* The ready command of ComfyUI's control script: it starts the container, *)
(* and goes through the gate, only if the container does not answer.       *)
ComfyReady ==
  IF comfy = "stopped"
  THEN GateOnModels /\ comfy' = "ready"
  ELSE UNCHANGED <<models, comfy, gate>>

(* The script ends early: before or after the text model is stopped, with  *)
(* a gate that was rejected, or with a container that does not come up.    *)
ComfyNotReady ==
  /\ UNCHANGED comfy
  /\ \/ UNCHANGED <<models, gate>>
     \/ comfy = "stopped" /\ text' = FALSE /\ gate' = FALSE /\ UNCHANGED vision
     \/ comfy = "stopped" /\ GateOnModels

(* _execute_model_residency_load, after the check.  The vision model is    *)
(* loaded by the thread that holds the lock: asking the scheduler for it   *)
(* again would wait for the thread itself.                                 *)
LoadVisionAsking(t) == Goto(t, "request") /\ UNCHANGED <<models, comfy, gate>>
LoadVision(t) == vision' = "loaded" /\ Goto(t, "granted") /\ UNCHANGED <<text, comfy, gate>>

Loads(t) ==
  /\ th[t].pc = "load"
  /\ CASE th[t].c = "text_llm" -> text' = TRUE /\ Goto(t, "granted") /\ UNCHANGED <<vision, comfy, gate>>
       [] th[t].c = "vision_llm" -> LoadVision(t)
       [] th[t].c = "visual_gpu" -> ComfyReady /\ Goto(t, "granted")
  /\ UNCHANGED <<prompts, latest, training, session, bridge, idle, lease, files, lock, reader, faults>>

(* One of several unloads fails; and what is left of a load that fails.    *)
UnloadFails(t) ==
  /\ th[t].pc = "unload"
  /\ faults < MaxFaults /\ faults' = faults + 1
  /\ \E done \in SUBSET th[t].unload : Unloaded(done)
  /\ Raises(t)
  /\ UNCHANGED <<prompts, latest, training, webui, files, reader>>

LoadFails(t) ==
  /\ th[t].pc = "load"
  /\ faults < MaxFaults /\ faults' = faults + 1
  /\ CASE th[t].c = "text_llm" -> UNCHANGED <<models, comfy, gate>>
       [] th[t].c = "vision_llm" -> vision' \in {vision, "unloaded"} /\ UNCHANGED <<text, comfy, gate>>
       [] th[t].c = "visual_gpu" -> ComfyNotReady
  /\ Raises(t)
  /\ UNCHANGED <<prompts, latest, training, session, bridge, idle, lease, files, reader>>

(* The answer holds the status, so get_status has its effect once more.    *)
RequestEnds(t) ==
  /\ th[t].pc = "granted"
  /\ WritesDesired(t, "loaded")
  /\ StatusEffect
  /\ lock' = NoLock /\ Returns(t, TRUE)
  /\ UNCHANGED <<studio, training, session, bridge, idle, gate, reader>>

-----------------------------------------------------------------------------
(* release_local_scheduler_component                                       *)

ReleaseBegins(t) ==
  /\ th[t].pc = "release" /\ LockFree(t)
  /\ lock' = t
  /\ WritesDesired(t, "unloading")
  /\ Goto(t, "releasing")
  /\ UNCHANGED <<models, studio, training, webui, reader, faults>>

ReleaseFails(t) ==
  /\ th[t].pc = "releasing"
  /\ faults < MaxFaults /\ faults' = faults + 1
  /\ Raises(t)
  /\ UNCHANGED <<models, studio, training, webui, files, reader>>

(* What callers release is always ComfyUI, which keeps its container.      *)
ReleaseEnds(t) ==
  /\ th[t].pc = "releasing"
  /\ comfy' = ComfyWithout({th[t].c})
  /\ StatusEffect
  /\ WritesDesired(t, "unloaded")
  /\ lock' = NoLock /\ Returns(t, TRUE)
  /\ UNCHANGED <<prompts, latest, training, session, bridge, idle, gate, reader>>

-----------------------------------------------------------------------------
(* The Web UI and the jobs of the image studio                             *)

(* start("comfyui_webui"): the lease first, then the request.  *)
StartWebui(t, isClient, then) ==
  /\ th[t].pc = "rest"
  /\ AcquiresLease
  /\ Asks(t, "request", "visual_gpu", isClient, then)
  /\ UNCHANGED <<studio, training, session, bridge, idle, gate, files, lock, reader>>

(* submit_manual_image_generation of a client job, and of an operator.  *)
ClientJob(t) == StartWebui(t, TRUE, "job")
OperatorStarts(t) == Manual /\ StartWebui(t, FALSE, "session")

Resumes(t) == IF th[t].then = "job" THEN Goto(t, "submit") ELSE Ends(t)

AlreadyRunning(t) ==
  /\ th[t].pc = "bridge" /\ bridge
  /\ Resumes(t)
  /\ UNCHANGED <<models, studio, training, webui, files, lock, reader, faults>>

(* start_comfyui_webui, outside the lock: a container that was not started *)
(* for the Web UI is first stopped.                                        *)
BridgeBegins(t) ==
  /\ th[t].pc = "bridge" /\ ~bridge
  /\ \/ UNCHANGED <<comfy, prompts>>
     \/ comfy # "stopped" /\ comfy' = "stopped" /\ prompts' = {}
  /\ session' = "starting" /\ idle' = FALSE
  /\ Goto(t, "bridging")
  /\ UNCHANGED <<models, latest, training, bridge, lease, gate, files, lock, reader, faults>>

BridgeRuns(t) ==
  /\ th[t].pc = "bridging"
  /\ ComfyReady
  /\ session' = "active" /\ bridge' = TRUE /\ idle' = FALSE
  /\ Resumes(t)
  /\ UNCHANGED <<prompts, latest, training, lease, files, lock, reader, faults>>

BridgeFails(t) ==
  /\ th[t].pc = "bridging"
  /\ faults < MaxFaults /\ faults' = faults + 1
  /\ ComfyReady \/ ComfyNotReady
  /\ session' = "failed" /\ lease' = FALSE
  /\ Ends(t)
  /\ UNCHANGED <<prompts, latest, training, bridge, idle, files, lock, reader>>

(* The models of ComfyUI are freed before the prompt is posted; without a  *)
(* runtime the post fails.                                                 *)
Submits(t) ==
  /\ th[t].pc = "submit"
  /\ IF comfy = "stopped"
     THEN Ends(t) /\ UNCHANGED studio
     ELSE /\ comfy' = "ready" /\ prompts' = prompts \cup {t} /\ latest' = t
          /\ Goto(t, "wait")
  /\ UNCHANGED <<models, training, webui, files, lock, reader, faults>>

(* The job polls the latest-job file: it sees the end of its prompt only   *)
(* while the file names it.  A failed job is not completed.                *)
JobSeesEnd(t) ==
  /\ th[t].pc = "wait" /\ t \notin prompts /\ latest = t
  /\ \E e \in JobEnds : IF e = "fail" THEN Ends(t) ELSE Goto(t, e)
  /\ UNCHANGED <<models, studio, training, webui, files, lock, reader, faults>>

JobTimesOut(t) ==
  /\ th[t].pc = "wait"
  /\ latest # t \/ "fail" \in JobEnds
  /\ Ends(t)
  /\ UNCHANGED <<models, studio, training, webui, files, lock, reader, faults>>

(* complete_comfyui_client_job  *)
QueueBusy == SessionActive /\ QueueActive

CompleteKeeps(t) ==
  /\ th[t].pc \in {"complete", "keep_warm"}
  /\ QueueBusy \/ th[t].pc = "keep_warm"
  /\ IF QueueBusy THEN UNCHANGED <<session, idle>> ELSE session' = "idle" /\ idle' = FALSE
  /\ Ends(t)
  /\ UNCHANGED <<models, studio, training, bridge, lease, gate, files, lock, reader, faults>>

CompleteCloses(t) ==
  /\ th[t].pc = "complete" /\ ~QueueBusy
  /\ session' = "closing" /\ bridge' = FALSE
  /\ Goto(t, "stopping")
  /\ UNCHANGED <<models, studio, training, idle, lease, gate, files, lock, reader, faults>>

(* stop_comfyui_webui, with the scheduler's control but without its lock.  *)
WebuiStopped ==
  /\ comfy' = "stopped" /\ prompts' = {}
  /\ gate' = FALSE /\ session' = "none" /\ lease' = FALSE

Stops(t) ==
  /\ th[t].pc = "stopping"
  /\ WebuiStopped
  /\ Asks(t, "request", "vision_llm", FALSE, "end")
  /\ UNCHANGED <<models, latest, training, bridge, idle, files, lock, reader, faults>>

StopFails(t) ==
  /\ th[t].pc = "stopping"
  /\ faults < MaxFaults /\ faults' = faults + 1
  /\ Ends(t)
  /\ UNCHANGED <<models, studio, training, webui, files, lock, reader>>

(* stop("comfyui_webui") by an operator: the scheduler is not in control,  *)
(* so it is a release of the runtime.                                      *)
OperatorStops(t) ==
  /\ Manual /\ th[t].pc = "rest"
  /\ Asks(t, "release", "visual_gpu", FALSE, "end")
  /\ UNCHANGED <<models, studio, training, webui, files, lock, reader, faults>>

(* _launch_avatar_head_lora_training_job: refused while prompts are        *)
(* queued, then ComfyUI is released and the training process started.      *)
LaunchTraining(t) ==
  /\ Manual /\ th[t].pc = "rest" /\ prompts = {} /\ ~training
  /\ Asks(t, "release", "visual_gpu", FALSE, "train")
  /\ UNCHANGED <<models, studio, training, webui, files, lock, reader, faults>>

TrainingStarts(t) ==
  /\ th[t].pc = "train"
  /\ training' = TRUE
  /\ Ends(t)
  /\ UNCHANGED <<models, studio, webui, files, lock, reader, faults>>

-----------------------------------------------------------------------------
(* The background jobs and the lane admission                              *)

(* _local_llm_always_on_job_once  *)
AlwaysOnJob(t) ==
  /\ TextJob /\ th[t].pc = "rest"
  /\ Asks(t, "request", "text_llm", FALSE, "end")
  /\ UNCHANGED <<models, studio, training, webui, files, lock, reader, faults>>

(* _vision_runtime_residency_job_once: ComfyUI or a training owns the GPU  *)
(* while it is observed there or while it is wanted.                       *)
OwnsResidency == ComfyLoaded \/ training \/ desired \in {"requested", "loaded"}

ResidencyJob(t) ==
  /\ th[t].pc = "rest"
  /\ StatusEffect
  /\ IF OwnsResidency THEN UNCHANGED th ELSE Asks(t, "request", "vision_llm", FALSE, "end")
  /\ UNCHANGED <<studio, training, session, bridge, idle, gate, files, lock, reader>>

(* close_comfyui_webui_if_idle.  The Web UI is stopped through the         *)
(* scheduler, that is, released like any runtime.                          *)
IdleCloseMarksBusy(t) ==
  /\ th[t].pc = "rest" /\ prompts # {}
  /\ SessionActive \/ session \in {"active", "busy", "idle"}
  /\ session' = "busy" /\ idle' = FALSE
  /\ UNCHANGED <<models, studio, training, bridge, lease, gate, files, lock, th, reader, faults>>

IdleCloseJob(t) ==
  /\ th[t].pc = "rest"
  /\ SessionActive \/ session \in {"active", "busy", "idle"}
  /\ prompts = {} /\ idle
  /\ Asks(t, "release", "visual_gpu", FALSE, "restore")
  /\ UNCHANGED <<models, studio, training, webui, files, lock, reader, faults>>

(* release_visual_training_client_jobs_if_idle: what a client job asked    *)
(* for, once it is idle, whatever its desired state.                       *)
ClientIdleIfLoaded == client /\ ~QueueBusy /\ idle /\ comfy = "loaded"
ClientIdle == client /\ ~QueueBusy /\ idle

IdleReleaseJob(t) ==
  /\ th[t].pc = "rest"
  /\ ClientIdle
  /\ StatusEffect
  /\ Asks(t, "release", "visual_gpu", TRUE, "restore")
  /\ UNCHANGED <<studio, training, session, bridge, idle, gate, files, lock, reader>>

(* _execution_queue_lane_admission: the request of a lane's runtime.  *)
LaneAdmission(t) ==
  /\ th[t].pc = "rest"
  /\ Asks(t, "request", "visual_gpu", TRUE, "end")
  /\ UNCHANGED <<models, studio, training, webui, files, lock, reader, faults>>

(* A get_status outside the lock reads ComfyUI's file, looks at the        *)
(* services and writes the file back with the old desired state.           *)
StatusReads ==
  /\ Overlap /\ ~reader.open
  /\ reader' = [open |-> TRUE, desired |-> desired, client |-> client]
  /\ StatusEffect
  /\ UNCHANGED <<studio, training, session, bridge, idle, gate, files, lock, th>>

StatusWrites ==
  /\ reader.open
  /\ reader' = NoReader
  /\ desired' = reader.desired /\ client' = reader.client
  /\ UNCHANGED <<models, studio, training, webui, lock, th, faults>>

-----------------------------------------------------------------------------
(* ComfyUI, the training process and the clock                             *)

ComfyLoads ==
  /\ prompts # {} /\ comfy = "ready"
  /\ comfy' = "loaded"
  /\ UNCHANGED <<models, prompts, latest, training, webui, files, lock, th, reader, faults>>

PromptEnds ==
  /\ comfy = "loaded"
  /\ \E t \in prompts : prompts' = prompts \ {t}
  /\ UNCHANGED <<models, comfy, latest, training, webui, files, lock, th, reader, faults>>

TrainingEnds ==
  /\ training /\ training' = FALSE
  /\ UNCHANGED <<models, studio, webui, files, lock, th, reader, faults>>

LeaseExpires ==
  /\ lease /\ ~SessionTakesGpu
  /\ lease' = FALSE
  /\ UNCHANGED <<models, studio, training, session, bridge, idle, gate, files, lock, th, reader, faults>>

GateAges ==
  /\ gate /\ gate' = FALSE
  /\ UNCHANGED <<models, studio, training, session, bridge, idle, lease, files, lock, th, reader, faults>>

BridgeDies ==
  /\ Manual /\ bridge /\ bridge' = FALSE
  /\ UNCHANGED <<models, studio, training, session, idle, lease, gate, files, lock, th, reader, faults>>

TimePasses ==
  /\ ~idle /\ prompts = {}
  /\ idle' = TRUE
  /\ UNCHANGED <<models, studio, training, session, bridge, lease, gate, files, lock, th, reader, faults>>
-----------------------------------------------------------------------------

Init ==
  /\ text = FALSE /\ vision = "stopped" /\ comfy = "stopped" /\ training = FALSE
  /\ prompts = {} /\ latest = NoJob
  /\ session = "none" /\ bridge = FALSE /\ idle = FALSE /\ lease = FALSE /\ gate = FALSE
  /\ desired = "unloaded" /\ client = FALSE
  /\ lock = NoLock /\ th = [t \in Threads |-> Rest] /\ reader = NoReader /\ faults = 0

NewWork(t) ==
  \/ ClientJob(t) \/ OperatorStarts(t) \/ OperatorStops(t) \/ LaunchTraining(t) \/ LaneAdmission(t)

Job(t) ==
  \/ AlwaysOnJob(t) \/ ResidencyJob(t) \/ IdleCloseMarksBusy(t) \/ IdleCloseJob(t) \/ IdleReleaseJob(t)

(* Waiting for the transition lock.  *)
Locks(t) == RequestDenied(t) \/ RequestPlanned(t) \/ ReleaseBegins(t)

(* The steps of a caller that has begun, other than waiting for the lock.  *)
Goes(t) ==
  \/ UnloadsAndChecks(t) \/ Loads(t) \/ RequestEnds(t) \/ ReleaseEnds(t)
  \/ AlreadyRunning(t) \/ BridgeBegins(t) \/ BridgeRuns(t) \/ Submits(t)
  \/ JobSeesEnd(t) \/ JobTimesOut(t) \/ CompleteKeeps(t) \/ CompleteCloses(t) \/ Stops(t)
  \/ TrainingStarts(t)

Fails(t) == UnloadFails(t) \/ LoadFails(t) \/ ReleaseFails(t) \/ BridgeFails(t) \/ StopFails(t)

World ==
  \/ ComfyLoads \/ PromptEnds \/ TrainingEnds \/ LeaseExpires \/ GateAges \/ TimePasses

Next ==
  \/ \E t \in Clients : NewWork(t)
  \/ \E t \in Threads \ Clients : Job(t)
  \/ \E t \in Threads : Locks(t) \/ Goes(t) \/ Fails(t)
  \/ World \/ BridgeDies \/ StatusReads \/ StatusWrites

Spec == Init /\ [][Next]_vars

(* Threads run, the lock is not kept from a waiting thread for ever, the   *)
(* interval tasks of the internal scheduler come back, processes and the   *)
(* clock go on.                                                            *)
Fairness ==
  /\ \A t \in Threads : WF_vars(Goes(t)) /\ SF_vars(Locks(t))
  /\ SF_vars(\E t \in Threads \ Clients : ResidencyJob(t))
  /\ SF_vars(\E t \in Threads \ Clients : IdleReleaseJob(t))
  /\ WF_vars(ComfyLoads) /\ WF_vars(PromptEnds) /\ WF_vars(TrainingEnds)
  /\ WF_vars(LeaseExpires) /\ WF_vars(GateAges) /\ WF_vars(TimePasses) /\ WF_vars(StatusWrites)

FairSpec == Spec /\ Fairness

-----------------------------------------------------------------------------

TypeOK ==
  /\ text \in BOOLEAN /\ vision \in {"stopped", "unloaded", "loaded"} /\ training \in BOOLEAN
  /\ comfy \in {"stopped", "ready", "loaded"} /\ prompts \subseteq Threads /\ latest \in Threads \cup {NoJob}
  /\ session \in States /\ bridge \in BOOLEAN /\ idle \in BOOLEAN /\ lease \in BOOLEAN /\ gate \in BOOLEAN
  /\ desired \in Desired /\ client \in BOOLEAN /\ lock \in Threads \cup {NoLock} /\ faults \in 0..MaxFaults
  /\ \A t \in Threads : th[t].c \in Components /\ th[t].unload \subseteq Components

(* A vision model that the plan sends away to make room for ComfyUI is     *)
(* still away when ComfyUI is granted, whatever other callers, background  *)
(* jobs and leases did in between: room that was made is not taken.  (A    *)
(* model that the plan leaves, because there is room for both, may stay:   *)
(* the control script sends it away only when it starts the container.)    *)
RoomMadeIsKept ==
  \A t \in Threads :
    th[t].pc \in {"load", "granted"} /\ th[t].c = "visual_gpu" /\ "vision_llm" \in th[t].unload
      => ~VisionLoaded

(* Every caller gets through: no chain of requests, releases and restores  *)
(* waits for itself or for another one for ever.                           *)
OperationsEnd == \A t \in Threads : []<>(th[t].pc = "rest")

(* The vision model comes back by itself once nobody starts anything, no   *)
(* Web UI session is left and ComfyUI was last asked for by a client job   *)
(* or was released: lost writes of the desired state, raising requests and *)
(* skipped loads are all made up for by the two background jobs.           *)
Quiet ==
  /\ \A t \in Clients : th[t].pc = "rest"
  /\ session \in {"none", "failed"} /\ ~bridge
  /\ client \/ desired = "unloaded"
VisionReturns == <>[]Quiet => []<>VisionLoaded
=============================================================================
