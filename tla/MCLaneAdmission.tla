--------------------------- MODULE MCLaneAdmission ---------------------------
(* The work of the event loop, for TLC: the jobs of the lanes and the      *)
(* recurring jobs.  No property of one is about the other's state, so in   *)
(* each behaviour one of them is at work while the other rests.            *)
EXTENDS LaneAdmission, TLC

CONSTANTS j1, j2

TwoJobs == {j1, j2}
LaneQueues == {"local", "cloud", "visual_gpu"}
OneSlot == [q \in LaneQueues |-> 1]

LaneRequest(q) ==
  [queue |-> q, rank |-> 2, client |-> NoClient, maxWait |-> Never,
   deadlineAt |-> Never, spill |-> FALSE, cancellable |-> FALSE,
   recoverable |-> TRUE]

Vision == {[LaneRequest("local") EXCEPT !.rank = 1]}
Image == {LaneRequest("visual_gpu")}
Text == {LaneRequest("local")}
AllLanes == Vision \cup Image \cup Text

-----------------------------------------------------------------------------
VARIABLES
  part,           \* "lanes" or "recurring"
  life, entry, status, file, handle, unsaved

recurringVars == <<life, entry, status, file, handle, unsaved>>

Recurring == INSTANCE InternalScheduler WITH
  Jobs <- <<"health", "dispatch">>, MaxUnsaved <- 2

LoopInit == part \in {"lanes", "recurring"} /\ Init /\ Recurring!Init

(* Where the recurring jobs are at work the queue only starts, empty.      *)
LoopNext ==
  /\ UNCHANGED part
  /\ \/ part = "lanes" /\ LaneNext /\ UNCHANGED recurringVars
     \/ part = "recurring" /\ StartRecoveredJobs /\ UNCHANGED recurringVars
     \/ part = "recurring" /\ Recurring!Next /\ UNCHANGED vars

LoopSpec ==
  /\ LoopInit /\ [][LoopNext]_<<part, vars, recurringVars>>
  /\ LaneFairness /\ Recurring!Fairness

-----------------------------------------------------------------------------
(* While the control app is up every recurring job runs again and again,   *)
(* however often jobs raise (InternalScheduler).                           *)
JobsKeepRunning == Recurring!JobsKeepRunning
=============================================================================
