---------------------------- MODULE LaneAdmission ----------------------------
(***************************************************************************)
(* The execution queue composed with the admission provider the node gives *)
(* it: NodeControlState._execution_queue_lane_admission of                 *)
(* runtime/node_control_api.py.  Local vision jobs (local queue, lane      *)
(* vision_llm) and image jobs (queue and lane visual_gpu) share one GPU:   *)
(* a vision job waits while image work is active, an image job waits while *)
(* vision work is queued or active and then asks the residency scheduler   *)
(* for the Visual Runtime.                                                 *)
(***************************************************************************)
EXTENDS ExecutionQueue

CONSTANTS
  Visual,          \* the visual_gpu queue
  VisionRequests,  \* requests of a vision task family, local queue
  ImageRequests    \* requests of an image task family, visual_gpu queue

ASSUME LanesAssumption ==
  /\ Visual \in Queues \ {Local, Cloud}
  /\ VisionRequests \subseteq Requests /\ ImageRequests \subseteq Requests
  /\ \A r \in VisionRequests : r.queue = Local
  /\ \A r \in ImageRequests : r.queue = Visual

(* matching_work_snapshot_nowait for the vision families of queue local.   *)
VisionWork ==
  {j \in Jobs : /\ jobs[j].queue = Local
                /\ jobs[j].status \in Pending
                /\ jobs[j].req \in VisionRequests}

(* A mutant: a vision job also waits for queued image work. *)
PendingImageWork ==
  {j \in Jobs : /\ jobs[j].queue = Visual
                /\ jobs[j].status \in Pending
                /\ jobs[j].req \in ImageRequests}

(* _local_visual_exclusive_work_snapshot_nowait, active_count > 0.         *)
ActiveImageWork ==
  {j \in Jobs : /\ jobs[j].queue = Visual
                /\ jobs[j].status = "running"
                /\ jobs[j].req \in ImageRequests}

(* The admission thread reads the records and answers.  The residency      *)
(* scheduler behind an image job answers ok or blocked; other lanes need   *)
(* no admission.  The dispatcher acts on the answer later, when the event  *)
(* loop resumes it.                                                        *)
LaneAnswer(q, schedulerReady) ==
  LET r == jobs[disp[q].job].req
  IN  /\ disp[q].pc = "asking"
      /\ AdmissionAnswer(q,
           CASE r \in VisionRequests -> ActiveImageWork = {}
             [] r \in ImageRequests -> VisionWork = {} /\ schedulerReady
             [] OTHER -> TRUE)

LaneNext ==
  \/ Service
  \/ \E q \in Queues, schedulerReady \in BOOLEAN : LaneAnswer(q, schedulerReady)

LaneSpec == Init /\ [][LaneNext]_vars

(* The queue's fairness, but grants are now earned: only the residency     *)
(* scheduler is assumed to become ready again and again.                   *)
LaneFairness ==
  /\ WF_vars(StartRecoveredJobs)
  /\ WF_vars(phase = "stopping" /\ Crash)
  /\ \A q \in Queues :
       /\ WF_vars(Dispatch(q))
       /\ WF_vars(RetryBlocked(q))
       /\ WF_vars(\E ready \in BOOLEAN : LaneAnswer(q, ready))
       /\ SF_vars(LaneAnswer(q, TRUE))
  /\ \A j \in Jobs : WF_vars(Run(j))

FairLaneSpec == LaneSpec /\ LaneFairness

(* Vision and image jobs waiting for each other never block each other for *)
(* good: whichever lane is asked first, every queued job leaves its queue. *)
LanesDoNotDeadlock ==
  \A j \in Jobs : jobs[j].status = "queued" ~> jobs[j].status # "queued"
=============================================================================
