---------------------------- MODULE AvatarBatches ----------------------------
(***************************************************************************)
(* The image batches of an avatar profile in runtime/node_control_api.py:  *)
(* the seed batch, the jitter batch of LoRA seed candidates, the poses of  *)
(* the LoRA dataset with their vision review and cut-outs, the epoch       *)
(* review, the same of the upper torso, and single previews.  All of them  *)
(* live in one file, profile.json, that API handlers on the event loop,    *)
(* GETs in the thread pool and the avatar_lora_dispatch thread read,       *)
(* change and write back without a common lock; only the refresh of the    *)
(* images is serialised, by _avatar_profile_refresh_lock, which all of     *)
(* them try without waiting.  ComfyUI renders; it may be stopped and       *)
(* started at any time and then forgets its queue.                         *)
(*                                                                         *)
(* A seed stands for an image: it is drawn fresh and names the output file *)
(* of ComfyUI, the placeholder and the imported image.                     *)
(***************************************************************************)
EXTENDS Integers, Sequences, FiniteSets, SequencesExt

CONSTANTS
  NumPoses,       \* poses of the LoRA dataset
  BatchSize,      \* images of a pose
  Required,       \* approved images a pose needs before the next one
  BatchTarget,    \* images of a seed or jitter batch
  MinSeeds,       \* approved jitter images that make a seed set
  Limit,          \* AVATAR_HEAD_FACE_SEED_BATCH_SUBMISSION_LIMIT
  CutoutLimit,    \* background removals a refresh keeps submitted
  Epochs,         \* images of an epoch review
  Scenarios,      \* bound: profiles to start from, each with the requests that arrive,
                  \*   the stops of ComfyUI and whether a queue request may fail
  MaxSeeds        \* bound: seeds drawn

VARIABLES
  profile,        \* profile.json
  images,         \* seeds whose image is in the profile directory, and LastPng
  placeholders,   \* seeds whose placeholder is in the profile directory
  cutouts,        \* seeds whose cut-out is in the profile directory
  comfy,          \* ComfyUI: is it up, its queue, its output files
  lock,           \* who holds _avatar_profile_refresh_lock
  worker,         \* the refresh of the event loop, of a GET and of the dispatch thread
  awaiting,       \* a handler that awaits the start of ComfyUI
  drawn,          \* seeds drawn so far
  script,         \* the requests still to arrive
  stops,          \* the stops of ComfyUI still to come
  blinds          \* a queue request "may" still fail, it "was" so, or "never"

vars == <<profile, images, placeholders, cutouts, comfy, lock, worker, awaiting,
          drawn, script, stops, blinds>>
files == <<images, placeholders, cutouts>>

Workers == {"loop", "pool", "thread"}
Sections == {"head", "torso"}
Kinds == {"preview", "seed", "jitter", "dataset", "review"}
LastPng == 0                    \* refs/upper_torso/last.png, the anchor of the torso's images
Seeds == 1..MaxSeeds
NoPrompt == 0
Prompts == 1..(3 * MaxSeeds)
Statuses == {"local_queued", "pending", "submitted", "rendered_pending_import", "completed"}

Item ==
  [seed : Seeds, kind : Kinds, status : Statuses, prompt : Prompts \cup {NoPrompt},
   file : {"none", "placeholder", "image"}, kept : BOOLEAN, approved : BOOLEAN,
   rejected : BOOLEAN, vision : {"pending", "judged", "failed"}]

(* _avatar_head_face_seed_batch_local_preview.                             *)
LocalPreview(seed, kind) ==
  [seed |-> seed, kind |-> kind, status |-> "local_queued", prompt |-> NoPrompt,
   file |-> "none", kept |-> FALSE, approved |-> FALSE, rejected |-> FALSE,
   vision |-> "pending"]

EmptyPose == [items |-> <<>>, records |-> <<>>]
EmptyProfile ==
  [seed |-> <<>>, jitter |-> <<>>, poses |-> [p \in 1..NumPoses |-> EmptyPose],
   previews |-> [sec \in Sections |-> <<>>], review |-> [sec \in Sections |-> <<>>],
   torso |-> <<>>, selected |-> 0, seedSet |-> {}, active |-> 1]

IsDone(it) == it.status = "completed"
Waiting(it) == it.status \in {"local_queued", "pending"} /\ it.prompt = NoPrompt
InFlight(it) == it.status \in {"pending", "submitted"} /\ it.prompt # NoPrompt

DatasetItems(prof) == FlattenSeq([p \in 1..NumPoses |-> prof.poses[p].items])
LoraItems(prof, sec) ==
  (IF sec = "head" THEN DatasetItems(prof) ELSE prof.torso) \o prof.review[sec]

(* What a refresh of a section looks at, batch by batch.                   *)
Batches(prof, sec) ==
  IF sec = "head"
  THEN <<prof.previews["head"], prof.seed, prof.jitter, DatasetItems(prof), prof.review["head"]>>
  ELSE <<prof.previews["torso"], prof.torso, prof.review["torso"]>>
SectionItems(prof, sec) == FlattenSeq(Batches(prof, sec))
AllItems(prof) == SectionItems(prof, "head") \o SectionItems(prof, "torso")

(* _avatar_profile_active_lora_sections: is there LoRA work to refresh?    *)
ActiveLoraWork(prof, sec) == \E it \in ToSet(LoraItems(prof, sec)) : ~IsDone(it)

(* The seeds are bounded, and of a profile to start from ComfyUI has no     *)
(* more images in its queue than the batches may submit.                   *)
ASSUME BatchesAssumption ==
  /\ MaxSeeds \in Nat /\ Limit \in Nat
  /\ \A sc \in Scenarios :
       LET sent == {it \in ToSet(AllItems(sc.profile)) : it.status = "submitted"}
       IN  IsFiniteSet(sent) /\ Cardinality(sent) <= Limit

-----------------------------------------------------------------------------
(* ComfyUI *)

Entry == [prompt : Prompts \cup {NoPrompt}, seed : Seeds, what : {"preview", "render", "cutout"}]
ComfyState == [up : BOOLEAN, queue : SUBSET Entry, outputs : SUBSET Seeds, cut : SUBSET Seeds]

(* ComfyUI gives a prompt an id that nothing names any more.               *)
NamedPrompts ==
  UNION {{it.prompt : it \in ToSet(AllItems(prof))} :
           prof \in {profile, awaiting.copy} \cup {worker[w].copy : w \in Workers}}
FreshPrompt(queue) ==
  LET free == Prompts \ (NamedPrompts \cup {e.prompt : e \in queue})
  IN  CHOOSE p \in free : \A r \in free : p <= r

(* _avatar_head_face_seed_batch_queue_snapshot: is ComfyUI there, the      *)
(* prompts in its queue and the room left.  A /queue request that fails    *)
(* (blind) looks like an empty queue.                                      *)
Snapshot(queue, blind) == [up |-> comfy.up, queue |-> IF blind THEN {} ELSE queue]
ActivePrompts(snap) == {e.prompt : e \in snap.queue}
Room(snap) == IF Cardinality(snap.queue) >= Limit THEN 0 ELSE Limit - Cardinality(snap.queue)

(* The output file of a prompt appears before the prompt leaves the queue. *)
ComfyRenders ==
  /\ comfy.up
  /\ \E e \in comfy.queue :
       comfy' = [comfy EXCEPT !.queue = @ \ {e},
                   !.outputs = IF e.what # "cutout" THEN @ \cup {e.seed} ELSE @,
                   !.cut = IF e.what = "cutout" THEN @ \cup {e.seed} ELSE @]
  /\ UNCHANGED <<profile, files, lock, worker, awaiting, drawn, script, stops, blinds>>

ComfyStops ==
  /\ comfy.up /\ stops > 0
  /\ comfy' = [comfy EXCEPT !.up = FALSE, !.queue = {}]
  /\ stops' = stops - 1
  /\ UNCHANGED <<profile, files, lock, worker, awaiting, drawn, script, blinds>>

ComfyStarts ==
  /\ ~comfy.up /\ \A w \in Workers : worker[w].pc # "vision"
  /\ comfy' = [comfy EXCEPT !.up = TRUE]
  /\ UNCHANGED <<profile, files, lock, worker, awaiting, drawn, script, stops, blinds>>

-----------------------------------------------------------------------------
(* The refresh of a section, _refresh_avatar_head_face_preview_outputs or  *)
(* _refresh_avatar_upper_torso_preview_outputs, works on a copy of the     *)
(* profile.  Its intermediate state is a record st: the copy's previews    *)
(* before (prev) and after (upd), what it changed on disk and in ComfyUI,  *)
(* and whether it changed anything (dirty).                                *)

NoSnapshot == [up |-> FALSE, queue |-> {}]
IdleWorker ==
  [pc |-> "idle", section |-> "head", copy |-> EmptyProfile, dirty |-> FALSE,
   snap |-> NoSnapshot, able |-> FALSE]

(* _submit_avatar_head_face_seed_batch_preview.                            *)
Submit(st, k) ==
  LET p == FreshPrompt(st.queue)
  IN  [st EXCEPT !.prev[k] = [@ EXCEPT !.status = "submitted", !.prompt = p],
                 !.queue = @ \cup {[prompt |-> p, seed |-> st.prev[k].seed, what |-> "render"]},
                 !.room = @ - 1, !.submitted = TRUE, !.dirty = TRUE]

(* _dispatch_next_avatar_batch_preview_before_import: keep ComfyUI busy    *)
(* while a finished image of the batch is imported.                        *)
NextBeforeImport(st, i) ==
  LET next == {k \in DOMAIN st.prev : k # i /\ Waiting(st.prev[k])}
      first == CHOOSE x \in next : \A y \in next : x <= y
      snap == Snapshot(st.queue, st.blind)
  IN  IF /\ st.prev[i].kind # "preview" /\ st.prev[i].prompt # NoPrompt
         /\ snap.up /\ Room(snap) > 0
         /\ st.prev[i].prompt \notin ActivePrompts(snap)
         /\ next # {} /\ st.accepts
      THEN Submit(st, first)
      ELSE st

(* _avatar_lora_batches_ready_for_import: every image of a LoRA batch is   *)
(* imported or at least rendered.                                          *)
BulkReady(items, outputs) == \A it \in ToSet(items) : IsDone(it) \/ it.seed \in outputs

(* One preview of the loop over the history.                               *)
ScanItem(st, i) ==
  LET it == st.prev[i]
      s == it.seed
      next == NextBeforeImport(st, i)
      rendered == [it EXCEPT !.status = "rendered_pending_import"]
      missing == [it EXCEPT !.status = "pending", !.file = "placeholder"]
      imported == [it EXCEPT !.status = "completed", !.file = "image"]
  IN  IF it.file = "image" /\ s \in st.images
      THEN [st EXCEPT !.upd = Append(@, imported), !.dirty = @ \/ ~IsDone(it)]
      ELSE IF s \notin st.outputs
      THEN IF it.file = "placeholder" /\ s \in st.placeholders
           THEN [st EXCEPT !.upd = Append(@, it)]
           ELSE [st EXCEPT !.upd = Append(@, missing), !.placeholders = @ \cup {s}, !.dirty = TRUE]
      ELSE IF ~st.bulk /\ it.kind \in {"dataset", "review"}
      THEN [next EXCEPT !.upd = Append(@, rendered), !.dirty = TRUE]
      ELSE [next EXCEPT !.upd = Append(@, imported),
                        !.images = @ \cup {s} \cup (IF st.torso /\ it.kind = "preview" THEN {LastPng} ELSE {}),
                        !.placeholders = @ \ {s}, !.outputs = @ \ {s}, !.dirty = TRUE]

(* The previews are scanned one after the other (no batch has more than    *)
(* MaxSeeds), and so are the batches.                                      *)
ScanStart(st, items) == [st EXCEPT !.prev = items, !.upd = <<>>, !.bulk = BulkReady(items, st.outputs)]
ScanBatch(st, items) ==
  LET after[i \in 0..MaxSeeds] ==
        IF i = 0 THEN ScanStart(st, items)
        ELSE IF i \in DOMAIN items THEN ScanItem(after[i - 1], i) ELSE after[i - 1]
      done == after[MaxSeeds]
  IN  [done EXCEPT !.batches = Append(@, done.upd)]
ScanBatches(st, batches) ==
  LET after[i \in 0..Len(batches)] == IF i = 0 THEN st ELSE ScanBatch(after[i - 1], batches[i])
  IN  after[Len(batches)]

(* _dispatch_avatar_head_face_seed_batch_previews: prompts ComfyUI has     *)
(* forgotten are queued again; nothing is submitted while an image of the  *)
(* batch is in flight; otherwise waiting images fill the room.  An output  *)
(* is looked for where the head's are, so that of the torso's dataset,     *)
(* in avatar_body_lora, is not found.                                      *)
LostAfterSubmission(st, it) ==
  /\ it.status = "submitted" /\ it.file = "placeholder" /\ st.aged
  /\ it.prompt \notin ActivePrompts(st.snap)
  /\ it.seed \notin st.outputs
Lost(st, it) ==
  /\ InFlight(it) /\ it.file = "placeholder" /\ st.aged
  /\ it.prompt \notin ActivePrompts(st.snap)
  /\ it.seed \notin st.outputs \/ (st.torso /\ it.kind = "dataset")
Requeued(st, it) ==
  IF Lost(st, it) THEN [it EXCEPT !.status = "local_queued", !.prompt = NoPrompt] ELSE it

SubmitIfRoom(st, k) ==
  IF ~(st.room > 0 /\ k \in DOMAIN st.prev /\ Waiting(st.prev[k])) THEN st
  ELSE IF st.accepts THEN Submit(st, k) ELSE [st EXCEPT !.dirty = TRUE]
SubmitWaiting(st) ==
  LET after[i \in 0..MaxSeeds] == IF i = 0 THEN st ELSE SubmitIfRoom(after[i - 1], i)
  IN  after[MaxSeeds]

DispatchBatch(st, items) ==
  LET recovered == [i \in DOMAIN items |-> Requeued(st, items[i])]
      st1 == [st EXCEPT !.prev = recovered, !.room = Room(st.snap),
                        !.dirty = @ \/ recovered # items]
  IN  IF ~st.snap.up \/ st.submitted THEN [st EXCEPT !.prev = items]
      ELSE IF \E it \in ToSet(recovered) : InFlight(it) THEN st1
      ELSE SubmitWaiting(st1)

(* The poses' items in one sequence, and back.                             *)
Offset(prof, p) == Len(FlattenSeq([q \in 1..(p - 1) |-> prof.poses[q].items]))
WithDataset(prof, items) ==
  [prof EXCEPT !.poses =
     [p \in 1..NumPoses |->
        [@[p] EXCEPT !.items = SubSeq(items, Offset(prof, p) + 1, Offset(prof, p) + Len(@))]]]

FreshScan(w, blind, aged, accepts) ==
  [prev |-> <<>>, upd |-> <<>>, batches |-> <<>>, bulk |-> FALSE, dirty |-> worker[w].dirty,
   torso |-> worker[w].section = "torso",
   snap |-> worker[w].snap, queue |-> comfy.queue, outputs |-> comfy.outputs,
   images |-> images, placeholders |-> placeholders, room |-> 0, submitted |-> FALSE,
   blind |-> blind, aged |-> aged, accepts |-> accepts]

WithBatches(prof, sec, b) ==
  IF sec = "head"
  THEN [WithDataset(prof, b[4]) EXCEPT !.previews["head"] = b[1], !.seed = b[2], !.jitter = b[3],
                                       !.review["head"] = b[5]]
  ELSE [prof EXCEPT !.previews["torso"] = b[1], !.torso = b[2], !.review["torso"] = b[3]]

(* The dispatch thread reads the profile before it tries the lock; the     *)
(* event loop, answering a request, reads it again after its write, and a  *)
(* GET only refreshes it.                                                  *)
ThreadReads ==
  /\ worker["thread"].pc = "idle" /\ \E sec \in Sections : ActiveLoraWork(profile, sec)
  /\ worker' = [worker EXCEPT !["thread"] = [IdleWorker EXCEPT !.pc = "read", !.copy = profile]]
  /\ UNCHANGED <<profile, files, comfy, lock, awaiting, drawn, script, stops, blinds>>

PayloadReads(w) ==
  /\ worker[w].pc = "payload"
  /\ worker' = [worker EXCEPT ![w] = [IdleWorker EXCEPT !.pc = "read", !.copy = profile]]
  /\ UNCHANGED <<profile, files, comfy, lock, awaiting, drawn, script, stops, blinds>>

(* The thread refreshes the sections with LoRA work.                       *)
FirstSection(w) ==
  IF w = "thread" /\ ~ActiveLoraWork(worker[w].copy, "head") THEN "torso" ELSE "head"

TakeLockAlways(w) ==
  /\ worker[w].pc = "read"
  /\ lock' = w
  /\ worker' = [worker EXCEPT ![w].pc = "scan", ![w].section = FirstSection(w)]
  /\ UNCHANGED <<profile, files, comfy, awaiting, drawn, script, stops, blinds>>
TakeLock(w) ==
  /\ worker[w].pc = "read"
  /\ IF lock = "none"
     THEN /\ lock' = w
          /\ worker' = [worker EXCEPT ![w].pc = "scan", ![w].section = FirstSection(w)]
     ELSE /\ worker' = [worker EXCEPT ![w] = IdleWorker]
          /\ UNCHANGED lock
  /\ UNCHANGED <<profile, files, comfy, awaiting, drawn, script, stops, blinds>>

CountBlind(blind) ==
  /\ blind => blinds = "may"
  /\ blinds' = IF blind THEN "was" ELSE blinds

(* The loop over the history: imports, placeholders, early submissions.    *)
Scan(w, blind, accepts) ==
  /\ worker[w].pc = "scan"
  /\ CountBlind(blind)
  /\ LET c == worker[w].copy
         sec == worker[w].section
         st == ScanBatches(FreshScan(w, blind, FALSE, accepts), Batches(c, sec))
     IN  /\ worker' = [worker EXCEPT ![w] =
              [@ EXCEPT !.pc = "look", !.dirty = st.dirty, !.copy = WithBatches(c, sec, st.batches)]]
         /\ comfy' = [comfy EXCEPT !.queue = st.queue, !.outputs = st.outputs]
         /\ images' = st.images /\ placeholders' = st.placeholders
  /\ UNCHANGED <<profile, cutouts, lock, awaiting, drawn, script, stops>>

(* The queue is read, and prompts are posted afterwards.                   *)
Look(w, blind) ==
  /\ worker[w].pc = "look"
  /\ CountBlind(blind)
  /\ worker' = [worker EXCEPT ![w].pc = "dispatch", ![w].snap = Snapshot(comfy.queue, blind)]
  /\ UNCHANGED <<profile, files, comfy, lock, awaiting, drawn, script, stops>>

(* Previews were submitted by their request.  Of the head's batches each   *)
(* is dispatched only when the ones before it submitted nothing; the       *)
(* torso's two look at the queue once more in between.                     *)
DispatchNext(st, items) ==
  LET ready == IF st.torso /\ st.submitted
               THEN [st EXCEPT !.submitted = FALSE, !.snap = Snapshot(st.queue, FALSE)] ELSE st
      done == DispatchBatch(ready, items)
  IN  [done EXCEPT !.batches = Append(@, done.prev)]
DispatchBatches(st, batches) ==
  LET after[i \in 0..(Len(batches) - 1)] ==
        IF i = 0 THEN [st EXCEPT !.batches = <<batches[1]>>] ELSE DispatchNext(after[i - 1], batches[i + 1])
  IN  after[Len(batches) - 1]

Dispatch(w, aged, accepts) ==
  /\ worker[w].pc = "dispatch"
  /\ accepts => comfy.up
  /\ LET c == worker[w].copy
         sec == worker[w].section
         st == DispatchBatches(FreshScan(w, FALSE, aged, accepts), Batches(c, sec))
     IN  /\ worker' = [worker EXCEPT ![w] =
              [@ EXCEPT !.pc = IF sec = "head" THEN "records" ELSE "write",
                        !.dirty = st.dirty, !.snap = NoSnapshot,
                        !.able = worker[w].snap.up /\ aged /\ accepts,
                        !.copy = WithBatches(c, sec, st.batches)]]
         /\ comfy' = [comfy EXCEPT !.queue = st.queue]
  /\ UNCHANGED <<profile, files, lock, awaiting, drawn, script, stops, blinds>>

-----------------------------------------------------------------------------
(* Cut-outs of approved images and the vision review of a pose.            *)

(* _submit_avatar_head_lora_approved_background_removal.                   *)
CutoutEntries(seeds) == {[prompt |-> NoPrompt, seed |-> s, what |-> "cutout"] : s \in seeds}
CutoutAccepted(s, accepts) == comfy.up /\ s \in images /\ accepts

(* _refresh_avatar_head_lora_approved_dataset_outputs, one record.         *)
RefreshRecord(st, rec) ==
  CASE rec.status = "ready" -> [st EXCEPT !.recs = Append(@, rec)]
    [] rec.status # "ready" /\ rec.seed \in st.cut ->
         [st EXCEPT !.recs = Append(@, [rec EXCEPT !.status = "ready"]), !.dirty = TRUE,
                    !.cut = @ \ {rec.seed}, !.cutouts = @ \cup {rec.seed}]
    [] rec.status = "pending" /\ rec.seed \notin st.cut /\ st.capacity > 0 ->
         [st EXCEPT !.recs = Append(@, IF CutoutAccepted(rec.seed, st.accepts)
                                       THEN [rec EXCEPT !.status = "submitted"] ELSE rec),
                    !.capacity = @ - 1, !.dirty = TRUE]
    [] OTHER -> [st EXCEPT !.recs = Append(@, rec)]

RefreshPoseRecords(st, pose) ==
  LET done == FoldLeft(RefreshRecord, [st EXCEPT !.recs = <<>>], pose.records)
  IN  [done EXCEPT !.poses = Append(@, [pose EXCEPT !.records = done.recs])]

Records(poses) == FlattenSeq([p \in 1..NumPoses |-> poses[p].records])
RecordCount(prof, status) == Len(SelectSeq(Records(prof.poses), LAMBDA r : r.status = status))
SeedsWith(status, records) == {s \in Seeds : \E r \in ToSet(records) : r.seed = s /\ r.status = status}

(* _maybe_review_avatar_head_lora_dataset_pose_with_vision: a pose whose   *)
(* whole batch is imported and out of the queue is reviewed.               *)
Reviewable(it) ==
  /\ ~it.rejected /\ IsDone(it) /\ it.file = "image" /\ it.seed \in images
  /\ it.prompt = NoPrompt \/ it.prompt \notin ActivePrompts(comfy)
Unreviewed(pose) == {it \in ToSet(pose.items) : Reviewable(it) /\ it.vision = "pending"}
ReviewDue(pose) ==
  /\ Len(SelectSeq(pose.items, Reviewable)) >= BatchSize
  /\ Unreviewed(pose) # {}

(* The cut-outs are refreshed, then, unless an image was imported too      *)
(* recently, ComfyUI is stopped to make room for the vision model.         *)
RefreshRecords(w, accepts, settled) ==
  /\ worker[w].pc = "records"
  /\ LET c == worker[w].copy
         submitted == RecordCount(c, "submitted")
         st == FoldLeft(RefreshPoseRecords,
                 [recs |-> <<>>, poses |-> <<>>, dirty |-> worker[w].dirty,
                  cut |-> comfy.cut, cutouts |-> cutouts,
                  capacity |-> IF submitted >= CutoutLimit THEN 0 ELSE CutoutLimit - submitted,
                  accepts |-> accepts], c.poses)
         sent == SeedsWith("pending", Records(c.poses)) \cap SeedsWith("submitted", Records(st.poses))
         review == settled /\ \E p \in 1..NumPoses : ReviewDue(c.poses[p])
     IN  /\ worker' = [worker EXCEPT ![w] =
              [@ EXCEPT !.pc = IF review THEN "vision" ELSE "write", !.dirty = st.dirty,
                        !.able = FALSE, !.copy = [c EXCEPT !.poses = st.poses]]]
         /\ cutouts' = st.cutouts
         /\ comfy' = IF review THEN [comfy EXCEPT !.up = FALSE, !.queue = {}, !.cut = st.cut]
                     ELSE [comfy EXCEPT !.queue = @ \cup CutoutEntries(sent), !.cut = st.cut]
  /\ UNCHANGED <<profile, images, placeholders, lock, awaiting, drawn, script, stops, blinds>>

(* Every unreviewed image gets an answer, or failed when the vision model  *)
(* does not come up; ComfyUI is started again, if it can be.               *)
VisionEnds(w, verdict, restarts) ==
  /\ worker[w].pc = "vision"
  /\ LET Reviewed(pose) ==
           IF ReviewDue(pose)
           THEN [pose EXCEPT !.items =
                   [i \in DOMAIN @ |-> IF @[i] \in Unreviewed(pose)
                                       THEN [@[i] EXCEPT !.vision = verdict] ELSE @[i]]]
           ELSE pose
     IN  worker' = [worker EXCEPT ![w] =
           [@ EXCEPT !.pc = "write", !.dirty = TRUE,
                     !.copy.poses = [p \in 1..NumPoses |-> Reviewed(@[p])]]]
  /\ comfy' = [comfy EXCEPT !.up = restarts]
  /\ UNCHANGED <<profile, files, lock, awaiting, drawn, script, stops, blinds>>

(* The copy is written back, over whatever the file holds by now.  After   *)
(* the head comes the torso; the trainings, last in an answer, are in      *)
(* LoraTraining.                                                           *)
TorsoDue(w) ==
  /\ worker[w].section = "head"
  /\ IF w = "thread" THEN ActiveLoraWork(worker[w].copy, "torso")
     ELSE SectionItems(worker[w].copy, "torso") # <<>>

WriteBack(w) ==
  /\ worker[w].pc = "write"
  /\ profile' = IF worker[w].dirty THEN worker[w].copy ELSE profile
  /\ lock' = IF TorsoDue(w) THEN w ELSE "none"
  /\ worker' = [worker EXCEPT ![w] =
       IF TorsoDue(w)
       THEN [@ EXCEPT !.pc = "scan", !.section = "torso", !.dirty = FALSE, !.able = FALSE]
       ELSE IdleWorker]
  /\ UNCHANGED <<files, comfy, awaiting, drawn, script, stops, blinds>>

-----------------------------------------------------------------------------
(* The handlers.  Each reads the profile, writes a new one and then builds *)
(* its answer, which refreshes the images.  The event loop runs one at a   *)
(* time; only a start of ComfyUI is awaited in the middle of one.          *)

Fresh(n, kind) == [i \in 1..n |-> LocalPreview(drawn + i, kind)]
Filled(items, target, kind) == items \o Fresh(target - Len(items), kind)
Truncated(items, n) == SubSeq(items, 1, IF Len(items) < n THEN Len(items) ELSE n)
Has(items, s) == \E it \in ToSet(items) : it.seed = s

Arrives(op) ==
  /\ script # <<>> /\ Head(script) = op
  /\ script' = Tail(script)
Called(op) == worker["loop"].pc = "idle" /\ Arrives(op)
Answer(prof, used) ==
  /\ drawn + used <= MaxSeeds
  /\ profile' = prof /\ drawn' = drawn + used
  /\ worker' = [worker EXCEPT !["loop"].pc = "payload"]

GetProfile ==
  /\ worker["pool"].pc = "idle" /\ Arrives("get")
  /\ worker' = [worker EXCEPT !["pool"].pc = "payload"]
  /\ UNCHANGED <<profile, files, comfy, lock, awaiting, drawn, stops, blinds>>

(* _avatar_head_face_seed_batch_preview_is_usable.                         *)
Usable(it) == IsDone(it) /\ it.file = "image"

(* create_avatar_profile_head_seed_batch: the images that stay, and fresh  *)
(* ones for the rest.                                                      *)
KeptPreviews(mode, keep, replaced) ==
  LET Marked(items, kept) == [i \in DOMAIN items |-> [items[i] EXCEPT !.kept = @ \/ items[i].seed \in kept]]
      Unmarked(items) == [i \in DOMAIN items |-> [items[i] EXCEPT !.kept = FALSE]]
  IN  CASE mode = "preserve" -> Truncated(Marked(Unmarked(profile.seed), keep), BatchTarget)
        [] mode = "replace" ->
             Truncated(Marked(SelectSeq(profile.seed, LAMBDA it : Usable(it) /\ it.seed \in keep), keep),
                       BatchTarget)
        [] mode = "manual" ->  \* an image with a seed that the user typed in takes replaced's place
             Append(Truncated(Marked(SelectSeq(profile.seed, LAMBDA it : it.seed # replaced), keep),
                              BatchTarget - 1),
                    LocalPreview(drawn + 1, "seed"))

(* With nothing kept, a batch for an anchor image starts with its seed.    *)
SeedBatch(mode, keep, replaced, anchored, choice) ==
  /\ Called("seed_batch")
  /\ LET kept == KeptPreviews(mode, keep, replaced)
         typed == IF mode = "manual" THEN 1 ELSE 0
         fresh == [i \in 1..(BatchTarget - Len(kept)) |->
                     [LocalPreview(drawn + typed + i, "seed") EXCEPT
                        !.kept = anchored /\ kept = <<>> /\ i = 1]]
         batch == kept \o fresh
     IN  Answer([profile EXCEPT !.seed = batch,
                                !.selected = IF Has(batch, choice) THEN choice ELSE 0],
                typed + Len(fresh))
  /\ UNCHANGED <<files, comfy, lock, awaiting, stops, blinds>>

(* create_avatar_profile_head_jitter_batch: the anchor, the approved       *)
(* candidates, then the seed batch (the first time) or the candidates      *)
(* that were not rejected; a seed only once.                               *)
AppendCandidate(batch, it) ==
  IF Has(batch, it.seed) \/ Len(batch) >= BatchTarget THEN batch ELSE Append(batch, it)

Candidates(approved, rejected, preserve) ==
  LET AsJitter(it) ==
        [it EXCEPT !.kind = "jitter", !.rejected = FALSE,
                   !.approved = it.seed = profile.selected \/ it.seed \in approved]
      anchor == SelectSeq(profile.seed, LAMBDA it : it.seed = profile.selected)
      liked == SelectSeq(profile.jitter, LAMBDA it : it.seed \in approved \ rejected)
      rest == IF profile.jitter = <<>> /\ ~preserve THEN profile.seed
              ELSE SelectSeq(profile.jitter, LAMBDA it : it.seed \notin approved \cup rejected)
      all == anchor \o liked \o rest
  IN  FoldLeft(AppendCandidate, <<>>, [i \in DOMAIN all |-> AsJitter(all[i])])

ApprovedSeeds(items) == {it.seed : it \in {x \in ToSet(items) : x.approved}}

JitterBatch(approved, rejected, preserve, save) ==
  /\ Called("jitter_batch")
  /\ profile.selected # 0
  /\ LET old == Candidates(approved, rejected, preserve)
         batch == Filled(old, BatchTarget, "jitter")
     IN  /\ save => Cardinality(ApprovedSeeds(batch)) >= MinSeeds
         /\ Answer([profile EXCEPT !.jitter = batch,
                                   !.seedSet = IF save THEN ApprovedSeeds(batch) ELSE @],
                   BatchTarget - Len(old))
  /\ UNCHANGED <<files, comfy, lock, awaiting, stops, blinds>>

(* update_avatar_profile_head_lora_dataset.  The seeds of the dataset are  *)
(* the saved set, else the kept and the selected images of the seed batch. *)
DatasetSeeds(prof) ==
  IF prof.seedSet # {} THEN prof.seedSet
  ELSE {it.seed : it \in {x \in ToSet(prof.seed) : x.kept \/ x.seed = prof.selected}}

(* A pose's approved cut-outs suffice when the seeds are gone.             *)
Prepared(prof) ==
  \E p \in 1..NumPoses :
    Len(SelectSeq(prof.poses[p].records, LAMBDA r : r.status = "ready")) >= Required

ApprovedItems(pose) == SelectSeq(pose.items, LAMBDA it : it.approved /\ ~it.rejected)

(* Action generate: approved images stay, the files of the others go, and  *)
(* fresh images fill the pose.                                             *)
GeneratePose(prof, p) ==
  LET kept == ApprovedItems(prof.poses[p])
      gone == {it.seed : it \in ToSet(prof.poses[p].items) \ ToSet(kept)}
  IN  /\ DatasetSeeds(prof) # {}
      /\ Answer([prof EXCEPT !.active = p, !.poses[p].items = Filled(kept, BatchSize, "dataset")],
                BatchSize - Len(kept))
      /\ images' = images \ gone /\ placeholders' = placeholders \ gone

NoCall == [op |-> "none", pose |-> 1, section |-> "head", copy |-> EmptyProfile]

(* ComfyUI is started, and awaited, when it is not running.                *)
Generate(p) ==
  /\ Called("generate")
  /\ comfy.up /\ GeneratePose(profile, p)
  /\ UNCHANGED <<cutouts, comfy, lock, awaiting, stops, blinds>>

GenerateAwaits(p) ==
  /\ Called("generate")
  /\ ~comfy.up /\ awaiting.op = "none"
  /\ awaiting' = [NoCall EXCEPT !.op = "generate", !.pose = p, !.copy = profile]
  /\ UNCHANGED <<profile, files, comfy, lock, worker, drawn, stops, blinds>>

GenerateResumes ==
  /\ awaiting.op = "generate" /\ comfy.up /\ worker["loop"].pc = "idle"
  /\ GeneratePose(awaiting.copy, awaiting.pose)
  /\ awaiting' = NoCall
  /\ UNCHANGED <<cutouts, comfy, lock, script, stops, blinds>>

(* Action generate_epoch_review: existing previews stay, missing ones are  *)
(* queued; then ComfyUI's start is awaited, and the profile that was read  *)
(* before is written.                                                      *)
ReviewAwaits(sec) ==
  /\ awaiting.op = "none" /\ drawn + Epochs - Len(profile.review[sec]) <= MaxSeeds
  /\ awaiting' = [NoCall EXCEPT !.op = "epoch_review",
                    !.copy = [profile EXCEPT !.review[sec] = Filled(@, Epochs, "review")]]
  /\ drawn' = drawn + Epochs - Len(profile.review[sec])
  /\ UNCHANGED <<profile, files, comfy, lock, worker, stops, blinds>>

HeadEpochReview == Called("epoch_review") /\ ReviewAwaits("head")
TorsoEpochReview == Called("torso_epoch_review") /\ ReviewAwaits("torso")

ReviewResumes ==
  /\ awaiting.op = "epoch_review" /\ comfy.up /\ worker["loop"].pc = "idle"
  /\ Answer(awaiting.copy, 0)
  /\ awaiting' = NoCall
  /\ UNCHANGED <<files, comfy, lock, script, stops, blinds>>

(* A single preview: ComfyUI is started, then the prompt is posted         *)
(* whatever the queue holds, and the profile that was read before is       *)
(* written with the preview.                                               *)
PreviewAwaits(sec) ==
  /\ awaiting.op = "none"
  /\ awaiting' = [NoCall EXCEPT !.op = "preview", !.section = sec, !.copy = profile]
  /\ UNCHANGED <<profile, placeholders, cutouts, comfy, lock, worker, drawn, stops, blinds>>

PreviewResumes(sec) ==
  /\ awaiting.op = "preview" /\ awaiting.section = sec /\ comfy.up /\ worker["loop"].pc = "idle"
  /\ LET p == FreshPrompt(comfy.queue)
         it == [LocalPreview(drawn + 1, "preview") EXCEPT !.status = "submitted", !.prompt = p]
     IN  /\ Answer([awaiting.copy EXCEPT !.previews[sec] = Append(@, it)], 1)
         /\ comfy' = [comfy EXCEPT !.queue =
              @ \cup {[prompt |-> p, seed |-> drawn + 1, what |-> "preview"]}]
  /\ awaiting' = NoCall
  /\ UNCHANGED <<files, lock, script, stops, blinds>>

HeadPreview == Called("preview") /\ PreviewAwaits("head") /\ UNCHANGED images
HeadPreviewPosted == PreviewResumes("head")

(* The torso's forgets last.png first.                                     *)
TorsoPreview == Called("torso_preview") /\ PreviewAwaits("torso") /\ images' = images \ {LastPng}
TorsoPreviewPosted == PreviewResumes("torso")

(* The start of ComfyUI fails: the request fails.                          *)
StartFails ==
  /\ awaiting.op # "none" /\ ~comfy.up
  /\ awaiting' = NoCall
  /\ UNCHANGED <<profile, files, comfy, lock, worker, drawn, script, stops, blinds>>

(* Action reset_pose.                                                      *)
ResetPose(p) ==
  /\ Called("reset_pose")
  /\ Answer([profile EXCEPT !.poses[p] = EmptyPose, !.active = p], 0)
  /\ LET gone == {it.seed : it \in ToSet(profile.poses[p].items)}
                  \cup {r.seed : r \in ToSet(profile.poses[p].records)}
     IN  images' = images \ gone /\ placeholders' = placeholders \ gone /\ cutouts' = cutouts \ gone
  /\ UNCHANGED <<comfy, lock, awaiting, stops, blinds>>

(* Actions approve and reject.                                             *)
ReviewItem(p, i, approve) ==
  /\ Called("review_item")
  /\ approve \/ DatasetSeeds(profile) # {} \/ Prepared(profile)
  /\ Answer([profile EXCEPT !.poses[p].items[i] = [@ EXCEPT !.approved = approve,
                                                           !.rejected = ~approve]], 0)
  /\ UNCHANGED <<files, comfy, lock, awaiting, stops, blinds>>

(* Action retry_vision.                                                    *)
RetryVision(p) ==
  /\ Called("retry_vision")
  /\ LET Retried(it) == IF it.vision = "failed" THEN [it EXCEPT !.vision = "pending"] ELSE it
     IN  Answer([profile EXCEPT !.poses[p].items = [i \in DOMAIN @ |-> Retried(@[i])]], 0)
  /\ UNCHANGED <<files, comfy, lock, awaiting, stops, blinds>>

PoseAfter(p) == IF p < NumPoses THEN p + 1 ELSE NumPoses

(* Action next: _prepare_avatar_head_lora_pose_approved_dataset makes a    *)
(* record, and submits the cut-out, of every approved image that has none. *)
NextPose(accepts) ==
  /\ Called("next")
  /\ DatasetSeeds(profile) # {} \/ Prepared(profile)
  /\ LET pose == profile.poses[profile.active]
         new == SelectSeq(ApprovedItems(pose), LAMBDA it : ~Has(pose.records, it.seed))
         Record(it) == [seed |-> it.seed,
                        status |-> IF CutoutAccepted(it.seed, accepts) THEN "submitted" ELSE "pending"]
         records == [i \in DOMAIN new |-> Record(new[i])]
     IN  /\ Len(ApprovedItems(pose)) >= Required
         /\ Answer([profile EXCEPT !.poses[profile.active].records = @ \o records,
                                   !.active = PoseAfter(@)], 0)
         /\ comfy' = [comfy EXCEPT !.queue = @ \cup CutoutEntries(SeedsWith("submitted", records))]
  /\ UNCHANGED <<files, lock, awaiting, stops, blinds>>

(* Action select_epoch_review.                                             *)
SelectReview(sec, i) ==
  /\ Answer([profile EXCEPT !.review[sec] = [k \in DOMAIN @ |-> [@[k] EXCEPT !.kept = k = i]]], 0)
  /\ UNCHANGED <<files, comfy, lock, awaiting, stops, blinds>>

HeadSelectReview(i) == Called("select_review") /\ SelectReview("head", i)
TorsoSelectReview(i) == Called("torso_select_review") /\ SelectReview("torso", i)

(* update_avatar_profile_upper_torso_lora_dataset, of one pose.  Action    *)
(* generate: without the anchor image nothing is generated; approved       *)
(* images stay and fresh ones fill the pose.                               *)
TorsoGenerates(prof) ==
  LET kept == SelectSeq(prof.torso, LAMBDA it : it.approved /\ ~it.rejected)
      gone == {it.seed : it \in ToSet(prof.torso) \ ToSet(kept)}
  IN  IF prof.previews["torso"] # <<>> /\ LastPng \in images
      THEN /\ Answer([prof EXCEPT !.torso = Filled(kept, BatchSize, "dataset")], BatchSize - Len(kept))
           /\ images' = images \ gone /\ placeholders' = placeholders \ gone
      ELSE /\ Answer(prof, 0)
           /\ UNCHANGED <<images, placeholders>>

TorsoGenerate ==
  /\ Called("torso_generate")
  /\ comfy.up /\ TorsoGenerates(profile)
  /\ UNCHANGED <<cutouts, comfy, lock, awaiting, stops, blinds>>

TorsoGenerateAwaits ==
  /\ Called("torso_generate")
  /\ ~comfy.up /\ awaiting.op = "none"
  /\ awaiting' = [NoCall EXCEPT !.op = "torso_generate", !.copy = profile]
  /\ UNCHANGED <<profile, files, comfy, lock, worker, drawn, stops, blinds>>

TorsoGenerateResumes ==
  /\ awaiting.op = "torso_generate" /\ comfy.up /\ worker["loop"].pc = "idle"
  /\ TorsoGenerates(awaiting.copy)
  /\ awaiting' = NoCall
  /\ UNCHANGED <<cutouts, comfy, lock, script, stops, blinds>>

(* Actions approve, reject and reset_pose, which leaves the files.         *)
TorsoReviewItem(i, approve) ==
  /\ Called("torso_review_item")
  /\ Answer([profile EXCEPT !.torso[i] = [@ EXCEPT !.approved = approve, !.rejected = ~approve]], 0)
  /\ UNCHANGED <<files, comfy, lock, awaiting, stops, blinds>>

TorsoReset ==
  /\ Called("torso_reset")
  /\ Answer([profile EXCEPT !.torso = <<>>], 0)
  /\ UNCHANGED <<files, comfy, lock, awaiting, stops, blinds>>

-----------------------------------------------------------------------------

Init ==
  /\ \E sc \in Scenarios : /\ profile = sc.profile /\ script = sc.requests
                            /\ stops = sc.stops /\ blinds = sc.blinds
  /\ images = {it.seed : it \in {x \in ToSet(AllItems(profile)) : x.file = "image"}}
               \cup (IF \E it \in ToSet(profile.previews["torso"]) : it.file = "image" THEN {LastPng} ELSE {})
  /\ placeholders = {it.seed : it \in {x \in ToSet(AllItems(profile)) : x.file = "placeholder"}}
  /\ cutouts = {}
  /\ comfy = [up |-> TRUE, cut |-> {},
               queue |-> {[prompt |-> it.prompt, seed |-> it.seed, what |-> "render"] :
                            it \in {x \in ToSet(AllItems(profile)) : x.status = "submitted"}},
               outputs |-> {it.seed : it \in {x \in ToSet(AllItems(profile)) :
                                                 x.status = "rendered_pending_import"}}]
  /\ lock = "none" /\ worker = [w \in Workers |-> IdleWorker]
  /\ awaiting = NoCall
  /\ drawn = Cardinality({it.seed : it \in ToSet(AllItems(profile))})

SeedsOf(items) == {it.seed : it \in ToSet(items)}

Handlers ==
  \/ GetProfile
  \/ \E mode \in {"preserve", "replace", "manual"}, keep \in SUBSET SeedsOf(profile.seed),
        replaced \in SeedsOf(profile.seed), choice \in SeedsOf(profile.seed), anchored \in BOOLEAN :
          SeedBatch(mode, keep, replaced, anchored, choice)
  \/ \E ok \in SUBSET SeedsOf(profile.jitter), no \in SUBSET SeedsOf(profile.jitter),
        preserve, save \in BOOLEAN : JitterBatch(ok, no, preserve, save)
  \/ \E p \in 1..NumPoses : Generate(p) \/ GenerateAwaits(p) \/ ResetPose(p) \/ RetryVision(p)
  \/ \E p \in 1..NumPoses : \E i \in DOMAIN profile.poses[p].items, approve \in BOOLEAN :
        ReviewItem(p, i, approve)
  \/ \E accepts \in BOOLEAN : NextPose(accepts)
  \/ GenerateResumes \/ ReviewResumes \/ TorsoGenerateResumes \/ StartFails
  \/ HeadEpochReview \/ TorsoEpochReview
  \/ HeadPreview \/ HeadPreviewPosted \/ TorsoPreview \/ TorsoPreviewPosted
  \/ \E i \in DOMAIN profile.review["head"] : HeadSelectReview(i)
  \/ \E i \in DOMAIN profile.review["torso"] : TorsoSelectReview(i)
  \/ TorsoGenerate \/ TorsoGenerateAwaits \/ TorsoReset
  \/ \E i \in DOMAIN profile.torso, approve \in BOOLEAN : TorsoReviewItem(i, approve)

Refresh(w) ==
  \/ TakeLock(w) \/ WriteBack(w)
  \/ \E blind, accepts \in BOOLEAN : Scan(w, blind, accepts)
  \/ \E blind \in BOOLEAN : Look(w, blind)
  \/ \E aged, accepts \in BOOLEAN : Dispatch(w, aged, accepts)
  \/ \E accepts, settled \in BOOLEAN : RefreshRecords(w, accepts, settled)
  \/ \E verdict \in {"judged", "failed"}, restarts \in BOOLEAN :
        VisionEnds(w, verdict, restarts)

Next ==
  \/ Handlers
  \/ ThreadReads \/ \E w \in Workers : PayloadReads(w) \/ Refresh(w)
  \/ ComfyRenders \/ ComfyStops \/ ComfyStarts

Spec == Init /\ [][Next]_vars

(* The interval task runs the dispatch thread again and again, a refresh   *)
(* comes to its end, prompts age, ComfyUI can be read, accepts prompts,    *)
(* renders and is started again.                                           *)
Fairness ==
  /\ WF_vars(ThreadReads)
  /\ \A w \in Workers : []<>(worker[w].pc = "idle")
  /\ \A sec \in Sections :
       LET Dispatched == worker["thread"].pc \in {"records", "write"} /\ worker["thread"].section = sec
       IN  []<>Dispatched => []<>(Dispatched /\ worker["thread"].able)
  /\ WF_vars(ComfyRenders) /\ WF_vars(ComfyStarts)

FairSpec == Spec /\ Fairness

-----------------------------------------------------------------------------
RecordType == [seed : Seeds, status : {"pending", "submitted", "ready"}]
ProfileOK(prof) ==
  /\ AllItems(prof) \in Seq(Item)
  /\ \A p \in 1..NumPoses : prof.poses[p].records \in Seq(RecordType)
  /\ prof.selected \in Seeds \cup {0} /\ prof.seedSet \subseteq Seeds
  /\ prof.active \in 1..NumPoses

(* The type invariant. *)
TypeOK ==
  /\ ProfileOK(profile) /\ ProfileOK(awaiting.copy)
  /\ \A w \in Workers : /\ ProfileOK(worker[w].copy)
                         /\ worker[w].pc \in {"idle", "payload", "read", "scan", "look", "dispatch",
                                              "records", "vision", "write"}
  /\ images \subseteq Seeds \cup {LastPng} /\ placeholders \subseteq Seeds /\ cutouts \subseteq Seeds
  /\ comfy \in ComfyState /\ lock \in Workers \cup {"none"}
  /\ drawn \in 0..MaxSeeds /\ stops \in Nat /\ blinds \in {"never", "may", "was"}

(* However refreshes of handlers, GETs and the dispatch thread, early      *)
(* submissions and recoveries of lost prompts interleave, ComfyUI never    *)
(* holds more than Limit images of the batches, as long as its queue can   *)
(* be read.                                                                *)
OneRenderInFlight ==
  blinds # "was" => Cardinality({e \in comfy.queue : e.what = "render"}) <= Limit

(* Every image of the datasets and of the epoch reviews is imported in the *)
(* end: prompts that ComfyUI forgot, submissions and imports that a stale  *)
(* write-back undid, and images whose files were deleted are all redone.   *)
(* The one exception is a batch with a stranded image: a stale write-back  *)
(* says it is rendered and waits for its import, another refresh has       *)
(* imported its output, and a placeholder keeps it from being pending.     *)
Stranded(it) ==
  /\ it.status = "rendered_pending_import"
  /\ it.seed \notin comfy.outputs /\ it.seed \in placeholders
ImagesArrive ==
  <>[](\A sec \in Sections :
         \/ \A it \in ToSet(LoraItems(profile, sec)) : IsDone(it)
         \/ \E it \in ToSet(LoraItems(profile, sec)) : Stranded(it))
=============================================================================
