------------------------------ MODULE BodyDepth ------------------------------
(***************************************************************************)
(* The body-depth generation of an avatar profile in                       *)
(* runtime/node_control_api.py: a request posts one prompt for each body   *)
(* photo, ComfyUI renders the photo without its background and a depth     *)
(* map, and a refresh of the profile imports both and then deletes the     *)
(* photo they replace.  The job is one file, which a request overwrites    *)
(* and a refresh, in a GET of the thread pool, reads and writes back.  The *)
(* node may crash between any two steps.                                   *)
(***************************************************************************)
EXTENDS Integers, Sequences, FiniteSets

CONSTANTS
  Photos,         \* the body photos of the profile
  MaxEvents       \* bound: requests that generate, and crashes of the node

VARIABLES
  refs,           \* files in refs/body_depth that are whole
  torn,           \* files in refs/body_depth whose copy was cut off
  cut,            \* files whose sidecar says background_removed
  maps,           \* depth maps in refs/body_depth_map
  job,            \* the job file
  shown,          \* the status of the job in profile.json
  queue,          \* the prompts ComfyUI holds
  outputs,        \* ComfyUI's output files
  request,        \* the handler that awaits the start of ComfyUI
  refresh,        \* the refresh that runs
  jobs,           \* requests so far
  crashes         \* crashes so far

vars == <<refs, torn, cut, maps, job, shown, queue, outputs, request, refresh, jobs, crashes>>
files == <<refs, torn, cut, maps>>

(* A file is named after its photo and the jobs it went through.           *)
(* BodyImage is the profile's own picture, outside refs.                   *)
BodyImage == <<"body_image", <<>>>>
Sides == {"body", "depth"}

NoJob == [items |-> {}, status |-> "none", replace |-> FALSE]
NoRequest == [pc |-> "none", sources |-> {}, replace |-> FALSE]
NoItem == [source |-> BodyImage, id |-> 0, imported |-> FALSE]
NoRefresh ==
  [pc |-> "idle", job |-> NoJob, active |-> FALSE, todo |-> {}, item |-> NoItem, steps |-> <<>>]

Target(item) == <<item.source[1], Append(item.source[2], item.id)>>
Output(item, side) == <<side, Target(item)>>

(* _avatar_body_depth_profile_sources.                                     *)
Sources(selected) ==
  LET uncut == (refs \cup torn) \ cut
  IN  IF selected # {} THEN selected
      ELSE IF uncut # {} THEN uncut ELSE {BodyImage}

(* generate_avatar_body_depth_profile: the photos are chosen before the    *)
(* start of ComfyUI is awaited; then one prompt for each is posted and the *)
(* job file, whatever it held, is overwritten.                             *)
Generate(selected, replace) ==
  /\ request = NoRequest /\ jobs + crashes < MaxEvents
  /\ request' = [pc |-> "start", sources |-> Sources(selected), replace |-> replace]
  /\ UNCHANGED <<files, job, shown, queue, outputs, refresh, jobs, crashes>>

Submits ==
  /\ request.pc = "start"
  /\ jobs' = jobs + 1
  /\ LET items == {[source |-> s, id |-> jobs + 1, imported |-> FALSE] : s \in request.sources}
     IN  /\ job' = [items |-> items, status |-> "submitted", replace |-> request.replace]
         /\ queue' = queue \cup {[item |-> i, saved |-> {}] : i \in items}
  /\ shown' = "submitted"
  /\ request' = NoRequest
  /\ UNCHANGED <<files, outputs, refresh, crashes>>

StartFails ==
  /\ request.pc = "start"
  /\ request' = NoRequest
  /\ UNCHANGED <<files, job, shown, queue, outputs, refresh, jobs, crashes>>

(* A prompt needs its photo, saves one file after the other and then       *)
(* leaves the queue; a stop of ComfyUI drops it.                           *)
Renders(p, side) ==
  /\ p.item.source \in refs \cup {BodyImage}
  /\ p.saved = IF side = "body" THEN {} ELSE {"body"}
  /\ outputs' = outputs \cup {Output(p.item, side)}
  /\ queue' = (queue \ {p}) \cup {[p EXCEPT !.saved = @ \cup {side}]}
  /\ UNCHANGED <<files, job, shown, request, refresh, jobs, crashes>>

Leaves(p) ==
  /\ queue' = queue \ {p}
  /\ UNCHANGED <<files, job, shown, outputs, request, refresh, jobs, crashes>>

-----------------------------------------------------------------------------
(* _refresh_avatar_body_depth_profile_job: the job and the queue are read, *)
(* then each item that is not imported is looked at.                       *)
Reads ==
  /\ refresh.pc = "idle" /\ job.status \in {"submitted", "active"}
  /\ refresh' = [NoRefresh EXCEPT !.pc = "items", !.job = job, !.active = \E p \in queue : p.item \in job.items,
                                  !.todo = {i \in job.items : ~i.imported}]
  /\ UNCHANGED <<files, job, shown, queue, outputs, request, jobs, crashes>>

(* _import_avatar_body_depth_profile_outputs: both copies, their sidecars, *)
(* the deletion of the two outputs, and last that of the photo.            *)
SourceFirst == <<"delete_source", "copy_body", "copy_depth", "sidecars", "delete_outputs">>
ImportSteps == <<"copy_body", "copy_depth", "sidecars", "delete_outputs", "delete_source">>
HasOutputs(item) == \A side \in Sides : Output(item, side) \in outputs

LooksAt(item) ==
  /\ refresh.pc = "items" /\ item \in refresh.todo
  /\ refresh' = [refresh EXCEPT !.todo = @ \ {item}, !.item = item,
                    !.steps = ImportSteps, !.pc = IF HasOutputs(item) THEN "import" ELSE "items"]
  /\ UNCHANGED <<files, job, shown, queue, outputs, request, jobs, crashes>>

(* The last step makes the item imported.                                  *)
Step(step) == refresh.pc = "import" /\ Head(refresh.steps) = step
Stepped ==
  IF Len(refresh.steps) > 1 THEN [refresh EXCEPT !.steps = Tail(@)]
  ELSE [refresh EXCEPT !.pc = "items", !.steps = <<>>,
          !.job.items = (@ \ {refresh.item}) \cup {[refresh.item EXCEPT !.imported = TRUE]}]

CopiesBody ==
  /\ Step("copy_body")
  /\ refs' = refs \cup {Target(refresh.item)} /\ torn' = torn \ {Target(refresh.item)}
  /\ refresh' = Stepped
  /\ UNCHANGED <<cut, maps, job, shown, queue, outputs, request, jobs, crashes>>

CopiesDepth ==
  /\ Step("copy_depth")
  /\ maps' = maps \cup {Target(refresh.item)}
  /\ refresh' = Stepped
  /\ UNCHANGED <<refs, torn, cut, job, shown, queue, outputs, request, jobs, crashes>>

WritesSidecars ==
  /\ Step("sidecars")
  /\ cut' = cut \cup {Target(refresh.item)}
  /\ refresh' = Stepped
  /\ UNCHANGED <<refs, torn, maps, job, shown, queue, outputs, request, jobs, crashes>>

(* _delete_imported_manual_output, of the body and then of the depth map.  *)
DeletesOutputs ==
  /\ Step("delete_outputs")
  /\ LET body == Output(refresh.item, "body")
     IN  IF body \in outputs
         THEN outputs' = outputs \ {body} /\ UNCHANGED refresh
         ELSE outputs' = outputs \ {Output(refresh.item, "depth")} /\ refresh' = Stepped
  /\ UNCHANGED <<files, job, shown, queue, request, jobs, crashes>>

Replaces == refresh.job.replace /\ refresh.item.source # BodyImage
DeletesSource ==
  /\ Step("delete_source")
  /\ LET gone == IF Replaces THEN {refresh.item.source} ELSE {}
     IN  refs' = refs \ gone /\ torn' = torn \ gone /\ cut' = cut \ gone
  /\ refresh' = Stepped
  /\ UNCHANGED <<maps, job, shown, queue, outputs, request, jobs, crashes>>

(* The job and the profile are written; a job out of the queue with        *)
(* outputs missing fails once it is old enough.                            *)
StatusOf(r, aged) ==
  IF \A i \in r.job.items : i.imported THEN "completed"
  ELSE IF r.active THEN "active"
  ELSE IF aged THEN "failed" ELSE "submitted"

WritesJob(aged) ==
  /\ refresh.pc = "items" /\ refresh.todo = {}
  /\ job' = [refresh.job EXCEPT !.status = StatusOf(refresh, aged)]
  /\ shown' = StatusOf(refresh, aged)
  /\ refresh' = NoRefresh
  /\ UNCHANGED <<files, queue, outputs, request, jobs, crashes>>

(* The node crashes, perhaps in the middle of a copy.                      *)
Crash ==
  /\ jobs + crashes < MaxEvents
  /\ crashes' = crashes + 1
  /\ LET half == IF Step("copy_body") THEN {Target(refresh.item)} ELSE {}
     IN  refs' = refs \ half /\ torn' = torn \cup half
  /\ request' = NoRequest /\ refresh' = NoRefresh
  /\ UNCHANGED <<cut, maps, job, shown, queue, outputs, jobs>>

-----------------------------------------------------------------------------
Init ==
  /\ refs = Photos \X {<<>>} /\ torn = {} /\ cut = {} /\ maps = {}
  /\ job = NoJob /\ shown = "none"
  /\ queue = {} /\ outputs = {}
  /\ request = NoRequest /\ refresh = NoRefresh
  /\ jobs = 0 /\ crashes = 0

Next ==
  \/ \E selected \in SUBSET (refs \cup torn), replace \in BOOLEAN : Generate(selected, replace)
  \/ Submits \/ StartFails
  \/ \E p \in queue : Leaves(p) \/ \E side \in Sides : Renders(p, side)
  \/ Reads \/ \E item \in refresh.todo : LooksAt(item)
  \/ CopiesBody \/ CopiesDepth \/ WritesSidecars \/ DeletesOutputs \/ DeletesSource
  \/ \E aged \in BOOLEAN : WritesJob(aged)
  \/ Crash

Spec == Init /\ [][Next]_vars

-----------------------------------------------------------------------------
(* Replacing photos never loses one: whatever requests overwrite the job   *)
(* of a refresh that is importing, and wherever the node crashes in an     *)
(* import, each body photo is in refs/body_depth, as it was uploaded or    *)
(* without its background, and whole.                                      *)
BodyPhotosKept == \A photo \in Photos : \E f \in refs : f[1] = photo
=============================================================================
