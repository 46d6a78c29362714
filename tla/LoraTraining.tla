----------------------------- MODULE LoraTraining -----------------------------
(***************************************************************************)
(* The training of an avatar's LoRA models in runtime/node_control_api.py: *)
(* the upload of a dataset and of ready models, the launch of the trainer  *)
(* as a process of its own, the taking stock of a training by whoever      *)
(* looks at it, and the finalisation that copies the checkpoints into the  *)
(* profile and removes the job's directory.                                *)
(*                                                                         *)
(* The record of a training is a part of profile.json, which the handlers  *)
(* on the event loop, the requests served by the thread pool (GETs and     *)
(* uploads) and the avatar_lora_dispatch thread read, change and write     *)
(* back whole.  The node may crash between any two steps; the trainer goes *)
(* on or dies with it.  A job's id stands for its process, its directory   *)
(* and its copies.                                                         *)
(***************************************************************************)
EXTENDS Integers, Sequences, FiniteSets

CONSTANTS
  MinImages,      \* AVATAR_HEAD_FACE_LORA_DATASET_MIN_APPROVED_PER_POSE
  MinApproved,    \* AVATAR_UPPER_TORSO_BOOTSTRAP_MIN_APPROVED
  UploadSizes,    \* images in a dataset that is uploaded
  MaxJobs,        \* bound: trainings launched
  MaxModels,      \* bound: checkpoints a training saves
  Stories         \* bound: requests that arrive, refreshes by the dispatch thread, crashes

VARIABLES
  file,           \* profile.json
  uploads,        \* images in the upload directory of each section
  external,       \* LoRA models uploaded ready-made
  proc,           \* the trainer of each job
  outputs,        \* checkpoints in the directory of each job
  failedLog,      \* jobs whose log holds a failure marker
  kept,           \* checkpoints copied into the profile, whole
  torn,           \* checkpoints whose copy a crash of the node cut off
  made,           \* every checkpoint a trainer saved
  loras,          \* models copied for ComfyUI
  comfy,          \* ComfyUI is "down", "idle" or "busy"
  worker,         \* the request that runs on the event loop, and one in the thread pool
  awaiting,       \* a handler that awaits the start of ComfyUI
  thread,         \* the refresh of the dispatch thread
  refresher,      \* who holds _avatar_profile_refresh_lock
  left            \* what is still to come of the story

vars == <<file, uploads, external, proc, outputs, failedLog, kept, torn, made, loras, comfy,
          worker, awaiting, thread, refresher, left>>
trainer == <<proc, failedLog, made>>
disk == <<uploads, external, outputs, kept, torn, loras>>

Sections == {"head", "torso"}
Slots == Sections \cup {"bootstrap"}
JobIds == 1..MaxJobs
Models == 1..MaxModels
Model == JobIds \X Models
NoModel == <<0, 0>>

Workers == {"loop", "pool"}

(* copied are the checkpoints the job says are in the profile; home: it    *)
(* knows the directory they were copied to.                                *)
NoJob == [id |-> 0, status |-> "none", copied |-> {}, home |-> FALSE]
EmptyFile ==
  [jobs |-> [s \in Slots |-> NoJob], dataset |-> [sec \in Sections |-> 0],
   active |-> 0, bootstrap |-> NoModel]

Alive(id) == id # 0 /\ proc[id] \in {"running", "zombie"}
ModelsOf(S, id) == {m \in S : m[1] = id}

(* What a handler does, step by step.                                      *)
Do(what, slot) == [do |-> what, slot |-> slot]
StockSteps(sec) ==
  IF sec = "head" THEN <<Do("stock", "head")>> ELSE <<Do("stock", "bootstrap"), Do("stock", "torso")>>
RefreshSteps == <<Do("stock", "head"), Do("stock", "torso"), Do("stock", "bootstrap"), Do("write", "head")>>

Idle == [pc |-> "idle", copy |-> EmptyFile, todo |-> <<>>, files |-> {}, got |-> {}]
Runs(copy, todo) == [Idle EXCEPT !.pc = "run", !.copy = copy, !.todo = todo]
NextIs(w, what) == worker[w].pc = "run" /\ Head(worker[w].todo).do = what
Slot(w) == Head(worker[w].todo).slot
Job(w) == worker[w].copy.jobs[Slot(w)]
GoesOn(w, copy) == worker' = [worker EXCEPT ![w] = Runs(copy, Tail(@.todo))]
WithJob(w, job) == [worker[w].copy EXCEPT !.jobs[Slot(w)] = job]

(* A request that raises writes nothing; a refresh lets go of the lock.    *)
Fails(w) == worker' = [worker EXCEPT ![w] = Idle]
Released(w) == IF refresher = w THEN "none" ELSE refresher

-----------------------------------------------------------------------------
(* Requests *)

Requested(w, op) ==
  /\ worker[w].pc = "idle"
  /\ left.requests # <<>> /\ Head(left.requests).do = op
  /\ left' = [left EXCEPT !.requests = Tail(@)]
  /\ UNCHANGED <<file, external, outputs, kept, torn, loras, trainer, comfy, awaiting, thread,
                 refresher>>
Asked == Head(left.requests).slot

(* upload_avatar_profile_head_lora_dataset: the old images go first, then  *)
(* the new ones come one by one; the manifest and the profile, as it was   *)
(* read at first, are written when all are there.                          *)
Upload(replace) ==
  /\ Requested("pool", "upload")
  /\ uploads' = [uploads EXCEPT ![Asked] = IF replace THEN 0 ELSE @]
  /\ worker' = [worker EXCEPT !["pool"] = Runs(file, <<Do("upload", Asked), Do("write", Asked)>>)]

UploadsImages(w, n, ok) ==
  /\ NextIs(w, "upload")
  /\ uploads' = [uploads EXCEPT ![Slot(w)] = IF @ > n THEN @ ELSE n]
  /\ IF ok THEN GoesOn(w, [worker[w].copy EXCEPT !.dataset[Slot(w)] = n]) ELSE Fails(w)
  /\ UNCHANGED <<file, external, outputs, kept, torn, loras, trainer, comfy, awaiting, thread,
                 refresher, left>>

(* upload_avatar_profile_head_lora.                                        *)
UploadLora ==
  /\ Requested("pool", "upload_lora")
  /\ worker' = [worker EXCEPT !["pool"] = Runs(file, <<Do("lora", Asked), Do("write", Asked)>>)]
  /\ UNCHANGED uploads

UploadsLora(w, activate) ==
  /\ NextIs(w, "lora")
  /\ external' = external + 1
  /\ GoesOn(w, [worker[w].copy EXCEPT !.active = IF activate THEN external + 1 ELSE @])
  /\ UNCHANGED <<file, uploads, outputs, kept, torn, loras, trainer, comfy, awaiting, thread,
                 refresher, left>>

(* The actions of the LoRA dataset that concern its trainings.  The status *)
(* of the section's trainings is taken first, except by generate, which    *)
(* awaits ComfyUI before; approve and the like only write the profile; the *)
(* head's next raises when too few images are approved.                    *)
Program(op, slot) ==
  CASE op = "train" ->
         IF slot = "bootstrap"
         THEN <<Do("stock", slot), Do("launch", slot), Do("stock", "torso"), Do("write", slot)>>
         ELSE StockSteps(slot) \o <<Do("launch", slot), Do("write", slot)>>
    [] op = "epoch_review" ->
         StockSteps(slot) \o <<Do("models", slot), Do("await", slot), Do("write", slot)>>
    [] op = "generate" -> <<Do("await", slot)>> \o StockSteps(slot) \o <<Do("write", slot)>>
    [] op = "approve" -> StockSteps(slot) \o <<Do("write", slot)>>
    [] op = "next" -> StockSteps(slot) \o <<Do("raise", slot)>>

Dataset(op) ==
  /\ Requested("loop", op)
  /\ worker' = [worker EXCEPT !["loop"] = Runs(file, Program(op, Asked))]
  /\ UNCHANGED uploads

(* A request that has written the profile, or a GET, builds the profile's  *)
(* payload: it reads the file and refreshes it under the lock, or not at   *)
(* all when the lock is taken.                                             *)
Poll ==
  /\ worker["pool"].pc = "idle" /\ \E s \in Slots : file.jobs[s].status = "running"
  /\ worker' = [worker EXCEPT !["pool"] = [Idle EXCEPT !.pc = "payload"]]
  /\ UNCHANGED <<file, disk, trainer, comfy, awaiting, thread, refresher, left>>

PayloadReads(w) ==
  /\ worker[w].pc = "payload"
  /\ worker' = [worker EXCEPT ![w].pc = "read", ![w].copy = file]
  /\ UNCHANGED <<file, disk, trainer, comfy, awaiting, thread, refresher, left>>

PayloadRefreshes(w) ==
  /\ worker[w].pc = "read"
  /\ LET due == refresher = "none" /\ \E s \in Slots : worker[w].copy.jobs[s] # NoJob
     IN  /\ worker' = [worker EXCEPT ![w] = IF due THEN Runs(@.copy, RefreshSteps) ELSE Idle]
         /\ refresher' = IF due THEN w ELSE refresher
  /\ UNCHANGED <<file, disk, trainer, comfy, awaiting, thread, left>>

-----------------------------------------------------------------------------
(* _avatar_head_lora_training_job_status.  A training that is over and     *)
(* left checkpoints is finalised, whatever its log says.                   *)
Settled(job) == job = NoJob \/ (job.status = "completed" /\ job.copied # {})
Finalises(job) == ~Settled(job) /\ ModelsOf(outputs, job.id) # {} /\ ~Alive(job.id)
StatusAsRecorded(job) == IF job.id \in failedLog THEN "failed" ELSE job.status
StatusOf(job) ==
  IF job.id \in failedLog THEN "failed"
  ELSE IF Alive(job.id) THEN "running"
  ELSE IF job.status = "running" THEN "failed" ELSE job.status

(* _ensure_avatar_head_lora_epoch_model_for_comfyui: the bootstrap LoRA is *)
(* ready once its model is where ComfyUI finds it; a job that is completed *)
(* without a copy of its own names a model that is gone, and that raises.  *)
LatestModel(ms) == CHOOSE m \in ms : \A x \in ms : x[2] <= m[2]
TakesStock(w, job) ==
  IF Slot(w) # "bootstrap" \/ job.status # "completed"
  THEN GoesOn(w, WithJob(w, job)) /\ UNCHANGED <<loras, refresher>>
  ELSE IF job.copied = {}
  THEN Fails(w) /\ refresher' = Released(w) /\ UNCHANGED loras
  ELSE /\ GoesOn(w, [WithJob(w, job) EXCEPT !.bootstrap = LatestModel(job.copied)])
       /\ loras' = loras \cup {LatestModel(job.copied)}
       /\ UNCHANGED refresher

Stock(w) ==
  /\ NextIs(w, "stock")
  /\ IF Finalises(Job(w))
     THEN /\ worker' = [worker EXCEPT ![w].todo = <<Do("copy", Slot(w))>> \o Tail(@),
                                      ![w].files = ModelsOf(outputs, Job(w).id), ![w].got = {}]
          /\ UNCHANGED <<loras, refresher>>
     ELSE TakesStock(w, IF Settled(Job(w)) THEN Job(w)
                        ELSE [Job(w) EXCEPT !.status = StatusOf(Job(w))])
  /\ UNCHANGED <<file, uploads, external, outputs, kept, torn, trainer, comfy, awaiting, thread, left>>

(* _finalize_avatar_head_lora_training_job_outputs, for the checkpoints    *)
(* the status found: one that is gone is skipped, one whose copy is there  *)
(* and not older is not copied again; then the directory of the job goes.  *)
FirstFile(w) == CHOOSE m \in worker[w].files : \A x \in worker[w].files : m[2] <= x[2]
CopiedIfFirst(m) == IF ModelsOf(kept \cup torn, m[1]) = {} THEN kept \cup {m} ELSE kept
CopiedIfMissing(m) == IF m \in torn THEN kept ELSE kept \cup {m}

CopiesModel(w) ==
  /\ NextIs(w, "copy") /\ worker[w].files # {}
  /\ LET m == FirstFile(w)
     IN  /\ kept' = IF m \in outputs THEN CopiedIfMissing(m) ELSE kept
         /\ worker' = [worker EXCEPT ![w].files = @ \ {m},
                                     ![w].got = IF m \in outputs THEN @ \cup {m} ELSE @]
  /\ UNCHANGED <<file, uploads, external, outputs, torn, loras, trainer, comfy, awaiting,
                 thread, refresher, left>>

RemovesJobDir(w) ==
  /\ NextIs(w, "copy") /\ worker[w].files = {}
  /\ TakesStock(w, [Job(w) EXCEPT !.status = "completed", !.copied = worker[w].got, !.home = TRUE])
  /\ outputs' = outputs \ ModelsOf(outputs, Job(w).id)
  /\ failedLog' = failedLog \ {Job(w).id}
  /\ UNCHANGED <<file, uploads, external, kept, torn, proc, made, comfy, awaiting, thread, left>>

(* _launch_avatar_head_lora_training_job.  Every check raises, and nothing *)
(* the handler changed in its copy is written then; ComfyUI is stopped     *)
(* before the job is prepared.                                             *)
BootstrapReady(approved) == approved >= MinApproved
UploadReady(w) == worker[w].copy.dataset[Slot(w)] >= MinImages /\ uploads[Slot(w)] >= MinImages
Trainable(w, approved) ==
  IF Slot(w) = "bootstrap" THEN BootstrapReady(approved) ELSE UploadReady(w)
NextId == Cardinality({id \in JobIds : proc[id] # "none"}) + 1

Launch(w, approved, prepared) ==
  /\ NextIs(w, "launch")
  /\ IF Trainable(w, approved) /\ Alive(Job(w).id)
     THEN GoesOn(w, WithJob(w, [Job(w) EXCEPT !.status = "running"])) /\ UNCHANGED <<comfy, proc>>
     ELSE IF ~Trainable(w, approved) \/ comfy = "busy"
     THEN Fails(w) /\ UNCHANGED <<comfy, proc>>
     ELSE /\ comfy' = "down"
          /\ IF prepared /\ NextId <= MaxJobs
             THEN /\ GoesOn(w, WithJob(w, [NoJob EXCEPT !.id = NextId, !.status = "running"]))
                  /\ proc' = [proc EXCEPT ![NextId] = "running"]
             ELSE Fails(w) /\ UNCHANGED proc
  /\ UNCHANGED <<file, disk, failedLog, made, awaiting, thread, refresher, left>>

(* _prepare_avatar_head_lora_epoch_review: every checkpoint of the training *)
(* is copied for ComfyUI.                                                   *)
EpochModels(job) ==
  IF job.copied # {} THEN job.copied \cap (kept \cup torn)
  ELSE ModelsOf(IF job.home THEN kept \cup torn ELSE outputs, job.id)

EnsureEpochModels(w) ==
  /\ NextIs(w, "models")
  /\ IF Alive(Job(w).id) \/ Job(w).status = "running" \/ EpochModels(Job(w)) = {}
     THEN Fails(w) /\ UNCHANGED loras
     ELSE GoesOn(w, worker[w].copy) /\ loras' = loras \cup EpochModels(Job(w))
  /\ UNCHANGED <<file, uploads, external, outputs, kept, torn, trainer, comfy, awaiting, thread,
                 refresher, left>>

Raises(w) ==
  /\ NextIs(w, "raise")
  /\ Fails(w)
  /\ UNCHANGED <<file, disk, trainer, comfy, awaiting, thread, refresher, left>>

(* start_service is awaited: other requests are served meanwhile, and the  *)
(* handler goes on with what it read before.                               *)
Awaits(w) ==
  /\ NextIs(w, "await") /\ awaiting = Idle
  /\ awaiting' = Runs(worker[w].copy, Tail(worker[w].todo))
  /\ Fails(w)
  /\ UNCHANGED <<file, disk, trainer, comfy, thread, refresher, left>>

Resumes(ok) ==
  /\ awaiting # Idle /\ worker["loop"].pc = "idle"
  /\ worker' = [worker EXCEPT !["loop"] = IF ok THEN awaiting ELSE Idle]
  /\ awaiting' = Idle
  /\ comfy' = IF ok /\ comfy = "down" THEN "idle" ELSE comfy
  /\ UNCHANGED <<file, disk, trainer, thread, refresher, left>>

(* The refresh ends with its write; a handler answers after it.            *)
Writes(w) ==
  /\ NextIs(w, "write")
  /\ file' = worker[w].copy
  /\ worker' = [worker EXCEPT ![w] = [Idle EXCEPT !.pc = IF refresher = w THEN "idle" ELSE "payload"]]
  /\ refresher' = Released(w)
  /\ UNCHANGED <<disk, trainer, comfy, awaiting, thread, left>>

-----------------------------------------------------------------------------
(* The dispatch thread refreshes images (AvatarBatches) and writes the     *)
(* profile it read before it had the lock.                                 *)
ThreadReads ==
  /\ thread.pc = "idle" /\ left.refreshes > 0
  /\ thread' = [Idle EXCEPT !.pc = "read", !.copy = file]
  /\ left' = [left EXCEPT !.refreshes = @ - 1]
  /\ UNCHANGED <<file, disk, trainer, comfy, worker, awaiting, refresher>>

ThreadLocks ==
  /\ thread.pc = "read"
  /\ IF refresher = "none" THEN refresher' = "thread" /\ thread' = [thread EXCEPT !.pc = "locked"]
     ELSE thread' = Idle /\ UNCHANGED refresher
  /\ UNCHANGED <<file, disk, trainer, comfy, worker, awaiting, left>>

ThreadWrites(changed) ==
  /\ thread.pc = "locked"
  /\ file' = IF changed THEN thread.copy ELSE file
  /\ thread' = Idle /\ refresher' = "none"
  /\ UNCHANGED <<disk, trainer, comfy, worker, awaiting, left>>

(* The trainer saves checkpoints and ends; until the node's next child     *)
(* process its pid still answers.                                          *)
Saves(id) ==
  /\ proc[id] = "running"
  /\ \E k \in Models : /\ Cardinality(ModelsOf(made, id)) = k - 1
                       /\ outputs' = outputs \cup {<<id, k>>} /\ made' = made \cup {<<id, k>>}
  /\ UNCHANGED <<file, uploads, external, kept, torn, loras, proc, failedLog, comfy, worker, awaiting,
                 thread, refresher, left>>

Exits(id, bad) ==
  /\ proc[id] = "running"
  /\ proc' = [proc EXCEPT ![id] = "zombie"]
  /\ failedLog' = IF bad THEN failedLog \cup {id} ELSE failedLog
  /\ UNCHANGED <<file, disk, made, comfy, worker, awaiting, thread, refresher, left>>

Reaped(id) ==
  /\ proc[id] = "zombie"
  /\ proc' = [proc EXCEPT ![id] = "gone"]
  /\ UNCHANGED <<file, disk, failedLog, made, comfy, worker, awaiting, thread, refresher, left>>

ComfyWorks ==
  /\ \/ comfy = "idle" /\ left.busy /\ comfy' = "busy" /\ left' = [left EXCEPT !.busy = FALSE]
     \/ comfy = "busy" /\ comfy' = "idle" /\ UNCHANGED left
  /\ UNCHANGED <<file, disk, trainer, worker, awaiting, thread, refresher>>

(* The node crashes, perhaps in the middle of a copy, and starts again.    *)
Crash(survives) ==
  /\ left.crashes > 0
  /\ left' = [left EXCEPT !.crashes = @ - 1]
  /\ torn' = torn \cup {FirstFile(w) : w \in {v \in Workers : NextIs(v, "copy") /\ worker[v].files # {}
                                                         /\ FirstFile(v) \in outputs \ kept}}
  /\ proc' = [id \in JobIds |->
                CASE proc[id] = "running" -> IF survives THEN "running" ELSE "gone"
                  [] proc[id] = "zombie" -> "gone"
                  [] OTHER -> proc[id]]
  /\ worker' = [w \in Workers |-> Idle] /\ awaiting' = Idle /\ thread' = Idle /\ refresher' = "none"
  /\ UNCHANGED <<file, uploads, external, outputs, kept, loras, failedLog, made, comfy>>

-----------------------------------------------------------------------------
Init ==
  /\ file = EmptyFile
  /\ uploads = [sec \in Sections |-> 0] /\ external = 0
  /\ proc = [id \in JobIds |-> "none"]
  /\ outputs = {} /\ failedLog = {} /\ kept = {} /\ torn = {} /\ made = {} /\ loras = {}
  /\ comfy = "idle" /\ worker = [w \in Workers |-> Idle] /\ awaiting = Idle /\ thread = Idle /\ refresher = "none"
  /\ left \in Stories

Requests ==
  \/ \E replace \in BOOLEAN : Upload(replace)
  \/ UploadLora \/ Poll
  \/ \E op \in {"train", "epoch_review", "generate", "approve", "next"} : Dataset(op)

Steps(w) ==
  \/ PayloadReads(w) \/ PayloadRefreshes(w)
  \/ Stock(w) \/ CopiesModel(w) \/ RemovesJobDir(w) \/ EnsureEpochModels(w) \/ Raises(w)
  \/ Awaits(w) \/ Writes(w)
  \/ \E n \in UploadSizes, ok \in BOOLEAN : UploadsImages(w, n, ok)
  \/ \E activate \in BOOLEAN : UploadsLora(w, activate)
  \/ \E approved \in 0..MinApproved, prepared \in BOOLEAN : Launch(w, approved, prepared)

Others ==
  \/ ThreadReads \/ ThreadLocks \/ \E changed \in BOOLEAN : ThreadWrites(changed)
  \/ \E id \in JobIds : Saves(id) \/ Reaped(id) \/ \E bad \in BOOLEAN : Exits(id, bad)
  \/ ComfyWorks \/ \E survives \in BOOLEAN : Crash(survives)

Next ==
  \/ Requests \/ \E w \in Workers : Steps(w) \/ \E ok \in BOOLEAN : Resumes(ok)
  \/ Others

Spec == Init /\ [][Next]_vars

(* The user interface polls while a training runs, handlers and refreshes  *)
(* come to their end, trainers end, and dead children are reaped.          *)
Fairness ==
  /\ WF_vars(Poll) /\ \A w \in Workers : WF_vars(Steps(w))
  /\ WF_vars(ThreadLocks) /\ WF_vars(\E changed \in BOOLEAN : ThreadWrites(changed))
  /\ \A id \in JobIds : WF_vars(Reaped(id)) /\ WF_vars(\E bad \in BOOLEAN : Exits(id, bad))

FairSpec == Spec /\ Fairness

-----------------------------------------------------------------------------
(* No checkpoint of a training is ever lost: whoever finalises it, on      *)
(* whatever copy of the profile, and wherever the node crashes, each one   *)
(* is in the job's directory or in the profile.  A copy that a crash cut   *)
(* off counts as there, since the code takes it for the newer file.        *)
(* What profile.json calls completed has its checkpoints in the profile,   *)
(* and a bootstrap LoRA it calls ready is there for ComfyUI.               *)
TrainedModelsKept ==
  /\ made \subseteq outputs \cup kept \cup torn
  /\ \A s \in Slots : file.jobs[s].copied \subseteq kept \cup torn
  /\ file.bootstrap # NoModel => file.bootstrap \in loras

(* Once nothing happens any more, no training is called running that is    *)
(* over, whatever crashes and stale writes of the profile came between.    *)
TrainingsSettle ==
  <>[](\A s \in Slots : file.jobs[s].status = "running" => Alive(file.jobs[s].id))
=============================================================================
