---------------------------- MODULE JobLifecycle ----------------------------
(***************************************************************************)
(* What the execution queue promises a client about each job, without      *)
(* queues, dispatchers, tasks or files.  One step of the service may move  *)
(* several jobs (a status poll expires or deletes every record that is     *)
(* due, a restart fails every running one).                                *)
(***************************************************************************)
EXTENDS Naturals

CONSTANTS Jobs

VARIABLES
  stage,    \* what a poll of the job reports
  started   \* the jobs whose provider work has been started

Stages == {"absent", "queued", "running", "completed", "failed", "cancelled",
           "expired_wait_budget", "deleted"}

(* The moves of a job.  "completed" is reached from "running" only, and    *)
(* nothing leaves a terminal stage but the deletion of the record.         *)
Moves ==
  {<<"absent", "queued">>, <<"queued", "running">>}
    \cup ({"queued"} \X {"cancelled", "expired_wait_budget", "failed", "deleted"})
    \cup ({"running"} \X {"completed", "failed", "cancelled", "deleted"})
    \cup ({"completed", "failed", "cancelled", "expired_wait_budget"} \X {"deleted"})

Init ==
  /\ stage = [j \in Jobs |-> "absent"]
  /\ started = {}

(* Work starts at most once and only while the job is running; a job that  *)
(* completes has been started.                                             *)
StepOf(j) ==
  /\ stage'[j] = stage[j] \/ <<stage[j], stage'[j]>> \in Moves
  /\ j \in started' \ started => stage[j] = "running"
  /\ stage'[j] = "completed" => j \in started

Next ==
  /\ stage' \in [Jobs -> Stages]
  /\ started \subseteq started' /\ started' \subseteq Jobs
  /\ \A j \in Jobs : StepOf(j)

Spec == Init /\ [][Next]_<<stage, started>>
=============================================================================
