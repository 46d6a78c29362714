------------------------------ MODULE ImageJobs ------------------------------
(***************************************************************************)
(* Manual image generation in runtime/node_control_api.py and the direct   *)
(* executions that use it.  Every submission overwrites one file, the      *)
(* latest manual job; whoever looks at it (a GET in the thread pool, or    *)
(* the poll of a direct execution in a thread of its own) finds out from   *)
(* the queue of ComfyUI and from the files in the output directory how far *)
(* it is, and writes that back.  The images a client gets have retention   *)
(* records, which the cleanup of the output directory obeys.               *)
(*                                                                         *)
(* Time is a counter of submissions and saved images.  A path is reused    *)
(* once the file with the highest number is deleted.                       *)
(***************************************************************************)
EXTENDS Integers, Sequences, FiniteSets, FiniteSetsExt, Functions

CONSTANTS
  Execs,          \* direct executions
  Transparent,    \* those among them whose template removes the background
  LifetimeOf,     \* what each asks for: "none", "short_lived" or "long_term"
  WeatherMax,     \* weather images the cleanup keeps
  Stories         \* bound: how often each of the other things happens

VARIABLES
  now,            \* submissions and saved images so far
  latest,         \* the file of the latest manual job
  comfy,          \* ComfyUI: its restarts and its queue
  outputs,        \* the output directory: the image at each path
  retention,      \* the retention records: the lifetime of each path
  exec,           \* the direct executions
  poll,           \* the status requests that run, of the executions and of a GET
  cleanup,        \* the cleanup that runs
  deleting,       \* paths whose deletion still has to drop the retention record
  reused,         \* history: images saved where a record was still to be dropped
  left            \* what may still happen

vars == <<now, latest, comfy, outputs, retention, exec, poll, cleanup, deleting, reused, left>>

Gui == "gui"                        \* the GET of the user interface
Pollers == Execs \cup {Gui}
NoImage == [path |-> <<0, FALSE>>, at |-> 0]
NoJob == [prompts |-> {}, at |-> 0, run |-> 0, cutout |-> FALSE, status |-> "none", output |-> NoImage]
NoPoll == [pc |-> "idle", run |-> 0, queue |-> {}, files |-> {}, job |-> NoJob]
NoExec == [pc |-> "idle", prompts |-> {}, at |-> 0, image |-> NoImage, acked |-> FALSE]
NoCleanup == [pc |-> "idle", records |-> <<>>, doomed |-> {}, deleted |-> {}]

(* The bound on everything that may happen any number of times.            *)
Spends(S) ==
  /\ \A what \in S : left[what] > 0
  /\ left' = [what \in DOMAIN left |-> IF what \in S THEN left[what] - 1 ELSE left[what]]
Spend(what) == Spends({what})

-----------------------------------------------------------------------------
(* submit_manual_image_generation: the start of the runtime is awaited     *)
(* before anything is read; then the prompt is posted and the job file     *)
(* overwritten.                                                            *)
Submitted(cutout) ==
  /\ now' = now + 1
  /\ latest' = [prompts |-> {now + 1}, at |-> now + 1, run |-> comfy.run, cutout |-> cutout,
                status |-> "submitted", output |-> NoImage]
  /\ comfy' = [comfy EXCEPT !.queue = Append(@, [prompt |-> now + 1, cutout |-> cutout])]

GuiSubmits(cutout) ==
  /\ Spend("submits")
  /\ Submitted(cutout)
  /\ UNCHANGED <<outputs, retention, exec, poll, cleanup, deleting, reused>>

(* _execute_direct_visual_runtime_now: the takeover and the start are      *)
(* awaited, then it submits, and polls until its job is over.              *)
Starts(e) ==
  /\ exec[e].pc = "idle" /\ Spend("starts")
  /\ Submitted(e \in Transparent)
  /\ exec' = [exec EXCEPT ![e] = [@ EXCEPT !.pc = "wait", !.prompts = {now + 1}, !.at = now + 1]]
  /\ UNCHANGED <<outputs, retention, poll, cleanup, deleting, reused>>

(* ComfyUI saves an image under the next free number; a prompt that        *)
(* removes the background saves the RGB image first, and then, unless the  *)
(* removal fails, the transparent one.                                     *)
NextPath(rgb) ==
  LET taken == {p[1] : p \in {q \in DOMAIN outputs : q[2] = rgb}}
  IN  <<1 + Max(taken \cup {0}), rgb>>
WithImage(path, at) == [p \in DOMAIN outputs \cup {path} |-> IF p = path THEN [at |-> at, age |-> 0] ELSE outputs[p]]

(* The paths whose record a deletion or a cleanup is about to drop.        *)
Pending == deleting \cup cleanup.deleted

Saves(path) ==
  /\ now' = now + 1
  /\ outputs' = WithImage(path, now + 1)
  /\ reused' = IF path \in Pending THEN reused \cup {now + 1} ELSE reused

Renders(cut) ==
  /\ comfy.queue # <<>>
  /\ LET p == Head(comfy.queue)
     IN  /\ Saves(NextPath(p.cutout))
         /\ comfy' = [comfy EXCEPT !.queue = IF p.cutout /\ cut THEN <<[p EXCEPT !.cutout = FALSE]>> \o Tail(@)
                                             ELSE Tail(@)]
  /\ UNCHANGED <<latest, retention, exec, poll, cleanup, deleting, left>>

(* Another image is rendered, of an avatar batch for instance.             *)
OthersRender ==
  /\ Spend("others")
  /\ Saves(NextPath(FALSE))
  /\ UNCHANGED <<latest, comfy, retention, exec, poll, cleanup, deleting>>

Restarts ==
  /\ Spend("restarts")
  /\ comfy' = [run |-> comfy.run + 1, queue |-> <<>>]
  /\ UNCHANGED <<now, latest, outputs, retention, exec, poll, cleanup, deleting, reused>>

-----------------------------------------------------------------------------
(* manual_image_generation_status, in a thread: the queue (which looks     *)
(* empty when it cannot be read), the files, the job.                      *)
PollsQueue(w, blind) ==
  /\ poll[w].pc = "idle"
  /\ w \in Execs => exec[w].pc = "wait"
  /\ Spends((IF w = Gui THEN {"gets"} ELSE {}) \cup (IF blind THEN {"blinds"} ELSE {}))
  /\ poll' = [poll EXCEPT ![w] = [NoPoll EXCEPT !.pc = "files", !.run = comfy.run,
                !.queue = IF blind THEN {} ELSE {comfy.queue[i].prompt : i \in DOMAIN comfy.queue}]]
  /\ UNCHANGED <<now, latest, comfy, outputs, retention, exec, cleanup, deleting, reused>>

ListsFiles(w) ==
  /\ poll[w].pc = "files"
  /\ poll' = [poll EXCEPT ![w].pc = "job",
                ![w].files = {[path |-> p, at |-> outputs[p].at] : p \in DOMAIN outputs}]
  /\ UNCHANGED <<now, latest, comfy, outputs, retention, exec, cleanup, deleting, reused, left>>

(* _manual_image_latest_job: the images since the submission are the       *)
(* job's; without any, a restart of the runtime makes it fail.             *)
Newest(S) == CHOOSE f \in S : \A x \in S : x.at <= f.at
IsRgb(f) == f.path[2]
JobImages(w, job) == {f \in poll[w].files : f.at >= job.at}
RuntimeFailure(w, job) == JobImages(w, job) = {} /\ poll[w].run > job.run
Inactive(w, job) == RuntimeFailure(w, job) \/ job.prompts \cap poll[w].queue = {}

(* The RGB images go once a transparent one is there.                      *)
RgbLeftOver(w, job) ==
  LET rgb == {f \in JobImages(w, job) : IsRgb(f)}
  IN  IF job.cutout /\ rgb # JobImages(w, job) /\ Inactive(w, job) THEN {f.path : f \in rgb} ELSE {}

Refreshed(w, job) ==
  LET images == JobImages(w, job)
      whole == {f \in images : ~IsRgb(f)}
      fallback == job.cutout /\ whole = {} /\ images # {}
      status == CASE RuntimeFailure(w, job) -> "failed"
                  [] ~RuntimeFailure(w, job) /\ ~Inactive(w, job) -> "active"
                  [] Inactive(w, job) /\ images = {} /\ ~RuntimeFailure(w, job) -> "submitted"
                  [] Inactive(w, job) /\ images # {} -> IF fallback THEN "fallback" ELSE "completed"
  IN  [job EXCEPT !.status = status,
         !.output = IF whole # {} THEN Newest(whole) ELSE IF images # {} THEN Newest(images) ELSE NoImage]

Without(f, S) == Restrict(f, DOMAIN f \ S)

ReadsJob(w) ==
  /\ poll[w].pc = "job"
  /\ IF latest = NoJob
     THEN poll' = [poll EXCEPT ![w] = NoPoll] /\ UNCHANGED outputs
     ELSE /\ outputs' = Without(outputs, RgbLeftOver(w, latest))
          /\ poll' = [poll EXCEPT ![w] = [NoPoll EXCEPT !.pc = "write", !.job = Refreshed(w, latest)]]
  /\ UNCHANGED <<now, latest, comfy, retention, exec, cleanup, deleting, reused, left>>

(* The job file is written back, also over that of a newer submission.     *)
WritesJob(w) ==
  /\ poll[w].pc = "write"
  /\ latest' = poll[w].job
  /\ poll' = IF w = Gui THEN [poll EXCEPT ![w] = NoPoll] ELSE [poll EXCEPT ![w].pc = "answer"]
  /\ UNCHANGED <<now, comfy, outputs, retention, exec, cleanup, deleting, reused, left>>

(* The execution looks at the answer: a job of other prompts is not its    *)
(* own; a failed one ends it; an image is delivered.                       *)
AnyJob(e, job) == TRUE
OwnJob(e, job) == job.prompts \cap exec[e].prompts # {}
Keeps(e) == LifetimeOf[e] # "none"
Recorded(path, lifetime) == [p \in DOMAIN retention \cup {path} |-> IF p = path THEN lifetime ELSE retention[p]]

Answered(e) ==
  /\ poll[e].pc = "answer"
  /\ LET job == poll[e].job
         over == OwnJob(e, job) /\ job.status \in {"completed", "fallback"}
     IN  /\ exec' = [exec EXCEPT ![e].pc = IF over THEN "delivered"
                                           ELSE IF OwnJob(e, job) /\ job.status = "failed" THEN "failed"
                                           ELSE "wait",
                                 ![e].image = IF over THEN job.output ELSE @]
         /\ retention' = IF over /\ Keeps(e) THEN Recorded(job.output.path, LifetimeOf[e]) ELSE retention
  /\ poll' = [poll EXCEPT ![e] = NoPoll]
  /\ UNCHANGED <<now, latest, comfy, outputs, cleanup, deleting, reused, left>>

TimesOut(e) ==
  /\ exec[e].pc = "wait" /\ poll[e].pc = "idle" /\ Spend("timeouts")
  /\ exec' = [exec EXCEPT ![e].pc = "timeout"]
  /\ UNCHANGED <<now, latest, comfy, outputs, retention, poll, cleanup, deleting, reused>>

-----------------------------------------------------------------------------
(* delete_manual_image_output, in a thread: the file, then its record.     *)
DeleteOutput(path) ==
  /\ Spend("deletes") /\ path \in DOMAIN outputs
  /\ outputs' = Without(outputs, {path})
  /\ deleting' = deleting \cup {path}
  /\ UNCHANGED <<now, latest, comfy, retention, exec, poll, cleanup, reused>>

DropRecord(path) ==
  /\ path \in deleting
  /\ retention' = Without(retention, {path})
  /\ deleting' = deleting \ {path}
  /\ UNCHANGED <<now, latest, comfy, outputs, exec, poll, cleanup, reused, left>>

(* acknowledge_execution_artifacts: whatever is at the path now goes, and  *)
(* its record with it.                                                     *)
Acknowledge(e) ==
  /\ exec[e].pc = "delivered" /\ ~exec[e].acked /\ Spend("acks")
  /\ exec' = [exec EXCEPT ![e].acked = TRUE]
  /\ IF exec[e].image.path \in DOMAIN outputs
     THEN /\ outputs' = Without(outputs, {exec[e].image.path})
          /\ retention' = Without(retention, {exec[e].image.path})
     ELSE UNCHANGED <<outputs, retention>>
  /\ UNCHANGED <<now, latest, comfy, poll, cleanup, deleting, reused>>

(* Images grow older than the short-lived and weather limits (1), and than *)
(* the general limit (2).                                                  *)
Ages(path) ==
  /\ Spend("ages") /\ path \in DOMAIN outputs /\ outputs[path].age < 2
  /\ outputs' = [outputs EXCEPT ![path].age = @ + 1]
  /\ UNCHANGED <<now, latest, comfy, retention, exec, poll, cleanup, deleting, reused>>

(* cleanup_manual_image_outputs, in a thread: the records, the files, the  *)
(* deletions one by one, and then the records of what was deleted.         *)
(* Images without a record are taken for weather images.                   *)
CleanupReads ==
  /\ cleanup.pc = "idle" /\ Spend("cleanups")
  /\ cleanup' = [NoCleanup EXCEPT !.pc = "list", !.records = retention]
  /\ UNCHANGED <<now, latest, comfy, outputs, retention, exec, poll, deleting, reused>>

Lifetime(p) == IF p \in DOMAIN cleanup.records THEN cleanup.records[p] ELSE "none"
Weather == {p \in DOMAIN outputs : Lifetime(p) = "none"}
Overflow == {p \in Weather : Cardinality({q \in Weather : outputs[q].at > outputs[p].at}) >= WeatherMax}
Doomed ==
  {p \in DOMAIN outputs : \/ outputs[p].age = 2
                          \/ Lifetime(p) # "long_term" /\ outputs[p].age = 1
                          \/ p \in Overflow}

CleanupLists ==
  /\ cleanup.pc = "list"
  /\ cleanup' = [cleanup EXCEPT !.pc = "delete", !.doomed = Doomed]
  /\ UNCHANGED <<now, latest, comfy, outputs, retention, exec, poll, deleting, reused, left>>

CleanupDeletes(path) ==
  /\ cleanup.pc = "delete" /\ path \in cleanup.doomed
  /\ outputs' = Without(outputs, {path})
  /\ cleanup' = [cleanup EXCEPT !.doomed = @ \ {path},
                   !.deleted = IF path \in DOMAIN outputs THEN @ \cup {path} ELSE @]
  /\ UNCHANGED <<now, latest, comfy, retention, exec, poll, deleting, reused, left>>

(* _remove_image_artifact_retention_records reads the records again, under *)
(* their lock.                                                             *)
RecordsOfCopy == Without(cleanup.records, cleanup.deleted)
RecordsAfter == Without(retention, cleanup.deleted)

CleanupEnds ==
  /\ cleanup.pc = "delete" /\ cleanup.doomed = {}
  /\ retention' = IF cleanup.deleted # {} THEN RecordsAfter ELSE retention
  /\ cleanup' = NoCleanup
  /\ UNCHANGED <<now, latest, comfy, outputs, exec, poll, deleting, reused, left>>

-----------------------------------------------------------------------------
Init ==
  /\ now = 0 /\ latest = NoJob /\ comfy = [run |-> 0, queue |-> <<>>]
  /\ outputs = <<>> /\ retention = <<>>
  /\ exec = [e \in Execs |-> NoExec] /\ poll = [w \in Pollers |-> NoPoll]
  /\ cleanup = NoCleanup /\ deleting = {} /\ reused = {} /\ left \in Stories

Next ==
  \/ \E cutout \in BOOLEAN : GuiSubmits(cutout) \/ Renders(cutout)
  \/ OthersRender \/ Restarts
  \/ \E w \in Pollers : ListsFiles(w) \/ ReadsJob(w) \/ WritesJob(w) \/ \E blind \in BOOLEAN : PollsQueue(w, blind)
  \/ \E e \in Execs : Starts(e) \/ Answered(e) \/ TimesOut(e) \/ Acknowledge(e)
  \/ \E path \in DOMAIN outputs : DeleteOutput(path) \/ Ages(path)
  \/ \E path \in deleting : DropRecord(path)
  \/ CleanupReads \/ CleanupLists \/ CleanupEnds \/ \E path \in cleanup.doomed : CleanupDeletes(path)

Spec == Init /\ [][Next]_vars

-----------------------------------------------------------------------------
(* An execution never delivers an image from before its submission, also   *)
(* when polls write a job they read earlier back over a newer one.         *)
DeliveredIsFresh ==
  \A e \in Execs : exec[e].pc = "delivered" => exec[e].image.at >= exec[e].at

IsThere(image) == image.path \in DOMAIN outputs /\ outputs[image.path].at = image.at

(* An image that was delivered to an execution that asked for a lifetime,  *)
(* and that is still in the directory, has its retention record, whatever  *)
(* cleanups, deletions and acknowledgements run meanwhile: they drop no    *)
(* record of an image that they have not deleted.  Except for one case: a  *)
(* record is dropped by path, after the file, so that an image saved at    *)
(* the path in between does lose its record.                               *)
DeliveredIsRecorded ==
  \A e \in Execs :
    LET image == exec[e].image
    IN  exec[e].pc = "delivered" /\ Keeps(e) /\ IsThere(image) /\ image.at \notin reused
          => image.path \in DOMAIN retention
=============================================================================
