----------------------------- MODULE ImageStudio -----------------------------
(***************************************************************************)
(* The image studio of runtime/node_control_api.py: the avatar batches,    *)
(* the LoRA trainings, the manual images and the body-depth profiles, each *)
(* an instance of its own.  No property of one is about the state of       *)
(* another, so in each behaviour one of them is at work while the others   *)
(* rest.                                                                   *)
(***************************************************************************)
EXTENDS AvatarBatches

CONSTANTS
  MinImages, MinApproved, UploadSizes, MaxJobs, MaxModels,   \* LoraTraining
  TrainingStories, RestingTraining,
  Execs, Transparent, LifetimeOf, WeatherMax,                \* ImageJobs
  ImageStories, RestingImages,
  Photos, MaxEvents                                          \* BodyDepth

VARIABLES
  active,         \* the part at work
  file, uploads, external, proc, checkpoints, failedLog, kept, tornCopies, made, loras,
  trainComfy, trainWorker, trainAwaiting, thread, refresher, trainLeft,
  now, latest, imageComfy, outputs, retention, exec, poll, cleanup, deleting, reused, imageLeft,
  refs, torn, cut, maps, job, shown, queue, bodyOutputs, request, refresh, jobs, crashes

trainingVars == <<file, uploads, external, proc, checkpoints, failedLog, kept, tornCopies, made,
                  loras, trainComfy, trainWorker, trainAwaiting, thread, refresher, trainLeft>>
imageVars == <<now, latest, imageComfy, outputs, retention, exec, poll, cleanup, deleting, reused, imageLeft>>
bodyVars == <<refs, torn, cut, maps, job, shown, queue, bodyOutputs, request, refresh, jobs, crashes>>
studioVars == <<active, vars, trainingVars, imageVars, bodyVars>>

-----------------------------------------------------------------------------
Training == INSTANCE LoraTraining WITH
  Stories <- TrainingStories, outputs <- checkpoints, torn <- tornCopies, comfy <- trainComfy, worker <- trainWorker,
  awaiting <- trainAwaiting, left <- trainLeft

Images == INSTANCE ImageJobs WITH
  Stories <- ImageStories, comfy <- imageComfy, left <- imageLeft

Body == INSTANCE BodyDepth WITH outputs <- bodyOutputs

(* A story of the trainings: requests that name a section, refreshes of    *)
(* the dispatch thread, crashes, and whether ComfyUI gets busy.            *)
ASSUME TrainingsAssumption ==
  /\ MaxJobs \in Nat /\ UploadSizes \subseteq Nat
  /\ TrainingStories \subseteq
       [requests : Seq([do : {"upload", "upload_lora", "train", "epoch_review", "generate", "approve", "next"},
                        slot : Training!Slots]),
        refreshes : Nat, crashes : Nat, busy : BOOLEAN]

StudioInit ==
  /\ active \in {"batches", "training", "images", "body"}
  /\ Init /\ Training!Init /\ Images!Init /\ Body!Init
  /\ active = "batches" \/ profile = EmptyProfile
  /\ active = "training" \/ trainLeft = RestingTraining
  /\ active = "images" \/ imageLeft = RestingImages

StudioNext ==
  /\ UNCHANGED active
  /\ \/ active = "batches" /\ Next /\ UNCHANGED <<trainingVars, imageVars, bodyVars>>
     \/ active = "training" /\ Training!Next /\ UNCHANGED <<vars, imageVars, bodyVars>>
     \/ active = "images" /\ Images!Next /\ UNCHANGED <<vars, trainingVars, bodyVars>>
     \/ active = "body" /\ Body!Next /\ UNCHANGED <<vars, trainingVars, imageVars>>

StudioSpec == StudioInit /\ [][StudioNext]_studioVars /\ Fairness /\ Training!Fairness

-----------------------------------------------------------------------------
(* The checkpoints of a training are never lost (LoraTraining).            *)
TrainedModelsKept == Training!TrainedModelsKept

(* A training that is over is not called running for ever (LoraTraining).  *)
TrainingsSettle == Training!TrainingsSettle

(* An execution never delivers an older image (ImageJobs).                 *)
DeliveredIsFresh == Images!DeliveredIsFresh

(* A delivered image keeps its retention record while it is there          *)
(* (ImageJobs).                                                            *)
DeliveredIsRecorded == Images!DeliveredIsRecorded

(* Replacing body photos never loses one (BodyDepth).                      *)
BodyPhotosKept == Body!BodyPhotosKept
=============================================================================
