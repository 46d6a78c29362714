-------------------------- MODULE GpuResidencyProofs --------------------------
(* The transition lock of the local scheduler: from the plan of a request  *)
(* for ComfyUI to its answer no other caller, and nothing that runs        *)
(* without the lock, brings back a vision model that the plan sent away.   *)
EXTENDS GpuResidency, TLAPS

USE DEF NoLock, NoJob

(* The runtimes that anyone asks for, and what a caller may be doing.      *)
Asked == {"text_llm", "vision_llm", "visual_gpu"}
Points ==
  {"rest", "request", "unload", "load", "granted", "release", "releasing", "bridge",
   "bridging", "submit", "wait", "complete", "keep_warm", "fail", "stopping", "train"}
Sequels == {"end", "restore", "train", "session", "job"}

Callers ==
  [pc : Points, c : Asked, client : BOOLEAN, unload : SUBSET Components, then : Sequels]

(* The callers' records, with the rest of the state they act on.           *)
Shaped ==
  /\ th \in [Threads -> Callers]
  /\ reader \in [open : BOOLEAN, desired : Desired, client : BOOLEAN]

(* What a caller does with the scheduler's lock in its hands.              *)
Held == {"unload", "load", "granted", "releasing"}

(* Mutual exclusion: a caller between the plan and the answer is the       *)
(* holder of the lock.                                                     *)
LockHeld == \A t \in Threads : th[t].pc \in Held => lock = t

(* The condition of RoomMadeIsKept for one caller.                         *)
HasRoom(t) ==
  th[t].pc \in {"load", "granted"} /\ th[t].c = "visual_gpu" /\ "vision_llm" \in th[t].unload
    => ~VisionLoaded

Settled == Shaped /\ LockHeld /\ RoomMadeIsKept

(* A step that does not load the vision model.                             *)
NoVisionLoad == VisionLoaded' => VisionLoaded

-----------------------------------------------------------------------------
(* What is unloaded is always made of known components.                    *)
LEMMA PlanUnloads ==
  ASSUME NEW s, NEW c
  PROVE  Plan(s, c).unload \subseteq Components
<1>1. Residents(s) \subseteq Components
  BY DEF Residents
<1>2. Victims(s, c) \subseteq Components
  BY <1>1 DEF Victims
<1>3. Affected(s, c) \subseteq Components
  BY <1>1, <1>2 DEF Affected
<1> QED
  BY <1>3 DEF Plan

(* The ways in which a caller goes on leave the others alone.              *)
LEMMA CallerMoves ==
  ASSUME Shaped, NEW t \in Threads, NEW pc \in Points, Goto(t, pc)
  PROVE  /\ th' \in [Threads -> Callers]
         /\ th'[t].pc = pc /\ th'[t].c = th[t].c /\ th'[t].unload = th[t].unload
         /\ \A u \in Threads \ {t} : th'[u] = th[u]
BY DEF Shaped, Goto, Callers

LEMMA CallerLeaves ==
  ASSUME Shaped, NEW t \in Threads, NEW pc \in Points, Leaves(t, pc)
  PROVE  /\ th' \in [Threads -> Callers]
         /\ th'[t].pc = pc
         /\ \A u \in Threads \ {t} : th'[u] = th[u]
<1>1. {} \in SUBSET Components
  OBVIOUS
<1> QED
  BY <1>1 DEF Shaped, Leaves, Callers

LEMMA CallerAsks ==
  ASSUME Shaped, NEW t \in Threads, NEW pc \in Points, NEW c \in Asked,
         NEW b \in BOOLEAN, NEW then \in Sequels, Asks(t, pc, c, b, then)
  PROVE  /\ th' \in [Threads -> Callers]
         /\ th'[t].pc = pc /\ th'[t].c = c
         /\ \A u \in Threads \ {t} : th'[u] = th[u]
BY DEF Shaped, Asks, Callers

LEMMA CallerEnds ==
  ASSUME Shaped, NEW t \in Threads, Ends(t)
  PROVE  /\ th' \in [Threads -> Callers]
         /\ th'[t].pc = "rest" /\ th'[t].c = "vision_llm"
         /\ \A u \in Threads \ {t} : th'[u] = th[u]
BY DEF Shaped, Ends, Callers, Rest, Points, Asked, Sequels

(* A caller whose request or release is through does not hold the lock.    *)
LEMMA CallerReturns ==
  ASSUME Shaped, NEW t \in Threads, NEW ok \in BOOLEAN, Returns(t, ok)
  PROVE  /\ th' \in [Threads -> Callers]
         /\ th'[t].pc \in {"rest", "request", "train", "bridge", "submit"}
         /\ \A u \in Threads \ {t} : th'[u] = th[u]
<1>1. CASE Asks(t, "request", "vision_llm", FALSE, "end")
  <2>1. "request" \in Points /\ "vision_llm" \in Asked /\ "end" \in Sequels
    BY DEF Points, Asked, Sequels
  <2> QED
    BY <1>1, <2>1, CallerAsks
<1>2. CASE Ends(t)
  BY <1>2, CallerEnds
<1>3. ASSUME NEW pc \in {"train", "bridge", "submit"}, Leaves(t, pc)
      PROVE  /\ th' \in [Threads -> Callers]
             /\ th'[t].pc \in {"rest", "request", "train", "bridge", "submit"}
             /\ \A u \in Threads \ {t} : th'[u] = th[u]
  <2>1. pc \in Points
    BY DEF Points
  <2> QED
    BY <1>3, <2>1, CallerLeaves
<1>4. \/ Asks(t, "request", "vision_llm", FALSE, "end") \/ Ends(t)
      \/ Leaves(t, "train") \/ Leaves(t, "bridge") \/ Leaves(t, "submit")
  BY DEF Returns
<1> QED
  BY <1>1, <1>2, <1>3, <1>4

-----------------------------------------------------------------------------
(* The four kinds of steps of a caller, by what becomes of the lock.       *)
OthersStay(t) ==
  /\ th' \in [Threads -> Callers]
  /\ \A u \in Threads \ {t} : th'[u] = th[u]
ReaderShaped == reader' \in [open : BOOLEAN, desired : Desired, client : BOOLEAN]

(* Nothing the caller does without the lock loads the vision model.        *)
LEMMA StepsOutside ==
  ASSUME Settled, NEW t \in Threads, OthersStay(t), ReaderShaped,
         th'[t].pc \notin Held, lock' = lock, NoVisionLoad
  PROVE  Settled'
BY DEF Settled, Shaped, LockHeld, RoomMadeIsKept, OthersStay, ReaderShaped, Held,
       NoVisionLoad

LEMMA GivesLockBack ==
  ASSUME Settled, NEW t \in Threads, OthersStay(t), ReaderShaped,
         th[t].pc \in Held, th'[t].pc \notin Held
  PROVE  Settled'
<1>1. \A u \in Threads \ {t} : th'[u].pc \notin Held
  BY DEF Settled, LockHeld, OthersStay
<1> QED
  BY <1>1 DEF Settled, Shaped, LockHeld, RoomMadeIsKept, OthersStay, ReaderShaped, Held

LEMMA TakesLock ==
  ASSUME Settled, NEW t \in Threads, OthersStay(t), ReaderShaped,
         lock = NoLock, lock' = t, th'[t].pc \notin {"load", "granted"}
  PROVE  Settled'
<1>1. \A u \in Threads \ {t} : th'[u].pc \notin Held
  BY ResidencyAssumption DEF Settled, LockHeld, OthersStay
<1> QED
  BY <1>1 DEF Settled, Shaped, LockHeld, RoomMadeIsKept, OthersStay, ReaderShaped, Held

LEMMA KeepsLock ==
  ASSUME Settled, NEW t \in Threads, OthersStay(t), ReaderShaped,
         th[t].pc \in Held, lock' = lock,
         HasRoom(t)'
  PROVE  Settled'
<1>1. \A u \in Threads \ {t} : th'[u].pc \notin Held
  BY DEF Settled, LockHeld, OthersStay
<1>2. lock = t
  BY DEF Settled, LockHeld
<1> QED
  BY <1>1, <1>2
  DEF Settled, Shaped, LockHeld, RoomMadeIsKept, HasRoom, OthersStay, ReaderShaped, Held

(* Without a caller: the world, and a status outside the lock.             *)
LEMMA NobodyMoves ==
  ASSUME Settled, UNCHANGED <<th, lock>>, ReaderShaped, NoVisionLoad
  PROVE  Settled'
BY DEF Settled, Shaped, LockHeld, RoomMadeIsKept, ReaderShaped, NoVisionLoad

(* Neither the stops of a lease, nor a status call, nor ComfyUI's control  *)
(* script, whether it succeeds or not, ever loads the vision model.        *)
LEMMA StopsOnlyStop ==
  ASSUME StopsModels
  PROVE  NoVisionLoad
BY DEF StopsModels, NoVisionLoad, VisionLoaded

LEMMA StillModels ==
  ASSUME UNCHANGED models
  PROVE  NoVisionLoad
BY DEF models, NoVisionLoad, VisionLoaded

LEMMA StatusOnlyStops ==
  ASSUME StatusEffect
  PROVE  NoVisionLoad
<1>1. StopsModels \/ UNCHANGED models
  BY DEF StatusEffect, AcquiresLease
<1> QED
  BY <1>1, StopsOnlyStop, StillModels

LEMMA ScriptOnlyUnloads ==
  ASSUME ComfyReady \/ ComfyNotReady
  PROVE  NoVisionLoad
<1>1. GateOnModels \/ vision' = vision
  BY DEF ComfyReady, ComfyNotReady, models
<1> QED
  BY <1>1 DEF GateOnModels, NoVisionLoad, VisionLoaded

-----------------------------------------------------------------------------
(* The operations under the lock.                                          *)
LEMMA LocksKeepsRoom ==
  ASSUME Settled, NEW t \in Threads, Locks(t)
  PROVE  Settled'
<1> USE DEF ReaderShaped
<1>1. CASE RequestDenied(t)
  <2>1. Returns(t, FALSE) /\ reader' = reader /\ lock' = lock
    BY <1>1 DEF RequestDenied
  <2>3. StopsModels \/ UNCHANGED models
    BY <1>1 DEF RequestDenied
  <2>4. NoVisionLoad
    BY <2>3, StopsOnlyStop, StillModels
  <2>2. OthersStay(t) /\ th'[t].pc \notin Held
    BY <2>1, CallerReturns DEF Settled, OthersStay, Held
  <2> QED
    BY <2>1, <2>2, <2>4, StepsOutside DEF Settled, Shaped
<1>2. CASE RequestPlanned(t)
  <2>1. /\ lock = NoLock /\ lock' = t /\ reader' = reader
        /\ th' = [th EXCEPT ![t].pc = "unload", ![t].unload = PlanOf(t).unload]
    BY <1>2 DEF RequestPlanned, LockFree
  <2>2. PlanOf(t).unload \in SUBSET Components
    BY PlanUnloads DEF PlanOf
  <2>3. "unload" \in Points
    BY DEF Points
  <2>4. OthersStay(t) /\ th'[t].pc = "unload"
    BY <2>1, <2>2, <2>3 DEF OthersStay, Settled, Shaped, Callers
  <2> QED
    BY <2>1, <2>4, TakesLock DEF Settled, Shaped
<1>3. CASE ReleaseBegins(t)
  <2>1. lock = NoLock /\ lock' = t /\ reader' = reader /\ Goto(t, "releasing")
    BY <1>3 DEF ReleaseBegins, LockFree
  <2>2. "releasing" \in Points
    BY DEF Points
  <2>3. OthersStay(t) /\ th'[t].pc = "releasing"
    BY <2>1, <2>2, CallerMoves DEF OthersStay, Settled
  <2> QED
    BY <2>1, <2>3, TakesLock DEF Settled, Shaped
<1> QED
  BY <1>1, <1>2, <1>3 DEF Locks

(* The request with the lock: unload, check, load, answer.  Here the       *)
(* vision model may be loaded, but then it is what was asked for.          *)
LEMMA RequestKeepsRoom ==
  ASSUME Settled, NEW t \in Threads,
         UnloadsAndChecks(t) \/ Loads(t) \/ RequestEnds(t) \/ ReleaseEnds(t)
  PROVE  Settled'
<1> USE DEF ReaderShaped
<1>g. "granted" \in Points /\ "load" \in Points
  BY DEF Points
<1>1. CASE UnloadsAndChecks(t)
  <2>1. th[t].pc \in Held /\ reader' = reader
    BY <1>1 DEF UnloadsAndChecks, Held
  <2>5. "vision_llm" \in th[t].unload => ~VisionLoaded'
    BY <1>1 DEF UnloadsAndChecks, Unloaded, VisionLoaded
  <2>2. CASE LoadAllowed(t) = "raise" /\ Raises(t)
    <3>1. OthersStay(t) /\ th'[t].pc \notin Held
      BY <2>2, CallerEnds DEF Raises, OthersStay, Settled, Held
    <3> QED
      BY <2>1, <3>1, GivesLockBack DEF Settled, Shaped
  <2>3. CASE LoadAllowed(t) = "skip" /\ Goto(t, "granted") /\ UNCHANGED lock
    <3>1. OthersStay(t) /\ th'[t].unload = th[t].unload
      BY <1>g, <2>3, CallerMoves DEF OthersStay, Settled
    <3>2. HasRoom(t)'
      BY <2>5, <3>1 DEF HasRoom
    <3> QED
      BY <2>1, <2>3, <3>1, <3>2, KeepsLock DEF Settled, Shaped
  <2>4. CASE Goto(t, "load") /\ UNCHANGED lock
    <3>1. OthersStay(t) /\ th'[t].unload = th[t].unload
      BY <1>g, <2>4, CallerMoves DEF OthersStay, Settled
    <3>2. HasRoom(t)'
      BY <2>5, <3>1 DEF HasRoom
    <3> QED
      BY <2>1, <2>4, <3>1, <3>2, KeepsLock DEF Settled, Shaped
  <2> QED
    BY <1>1, <2>2, <2>3, <2>4 DEF UnloadsAndChecks
<1>2. CASE Loads(t)
  <2>1. th[t].pc \in Held /\ reader' = reader /\ lock' = lock
    BY <1>2 DEF Loads, Held
  <2>2. th[t].c \in Asked
    BY DEF Settled, Shaped, Callers
  <2>3. Goto(t, "granted") /\ (th[t].c = "visual_gpu" => NoVisionLoad)
    BY <1>2, <2>2, ScriptOnlyUnloads DEF Loads, LoadVision, Asked
  <2>4. OthersStay(t) /\ th'[t].c = th[t].c /\ th'[t].unload = th[t].unload
    BY <1>g, <2>3, CallerMoves DEF OthersStay, Settled
  <2>5. HasRoom(t)
    BY DEF Settled, RoomMadeIsKept, HasRoom
  <2>6. HasRoom(t)'
    BY <1>2, <2>3, <2>4, <2>5 DEF HasRoom, Loads, NoVisionLoad
  <2> QED
    BY <2>1, <2>3, <2>4, <2>6, KeepsLock DEF Settled, Shaped
<1>3. CASE RequestEnds(t) \/ ReleaseEnds(t)
  <2>1. th[t].pc \in Held /\ reader' = reader /\ Returns(t, TRUE)
    BY <1>3 DEF RequestEnds, ReleaseEnds, Held
  <2>2. OthersStay(t) /\ th'[t].pc \notin Held
    BY <2>1, CallerReturns DEF Settled, OthersStay, Held
  <2> QED
    BY <2>1, <2>2, GivesLockBack DEF Settled, Shaped
<1> QED
  BY <1>1, <1>2, <1>3

-----------------------------------------------------------------------------
(* Everything that callers do without the lock.                            *)
Outside == Points \ Held

GoesOutside(t) ==
  \/ Ends(t)
  \/ \E pc \in Outside : Goto(t, pc)
  \/ \E pc \in Outside, c \in Asked, b \in BOOLEAN, then \in Sequels : Asks(t, pc, c, b, then)

LEMMA OutsideKeepsRoom ==
  ASSUME Settled, NEW t \in Threads, GoesOutside(t),
         reader' = reader, lock' = lock, NoVisionLoad
  PROVE  Settled'
<1>1. OthersStay(t) /\ th'[t].pc \notin Held
  <2>1. CASE Ends(t)
    BY <2>1, CallerEnds DEF Settled, OthersStay, Held
  <2>2. ASSUME NEW pc \in Outside, Goto(t, pc)
        PROVE  OthersStay(t) /\ th'[t].pc \notin Held
    <3>1. pc \in Points /\ pc \notin Held
      BY DEF Outside
    <3> QED
      BY <2>2, <3>1, CallerMoves DEF Settled, OthersStay
  <2>3. ASSUME NEW pc \in Outside, NEW c \in Asked, NEW b \in BOOLEAN,
               NEW then \in Sequels, Asks(t, pc, c, b, then)
        PROVE  OthersStay(t) /\ th'[t].pc \notin Held
    <3>1. pc \in Points /\ pc \notin Held
      BY DEF Outside
    <3> QED
      BY <2>3, <3>1, CallerAsks DEF Settled, OthersStay
  <2> QED
    BY <2>1, <2>2, <2>3 DEF GoesOutside
<1> QED
  BY <1>1, StepsOutside DEF Settled, Shaped, ReaderShaped

(* The Web UI, the jobs of the image studio and the training.              *)
LEMMA StudioKeepsRoom ==
  ASSUME Settled, NEW t \in Threads,
         \/ AlreadyRunning(t) \/ BridgeBegins(t) \/ BridgeRuns(t) \/ Submits(t)
         \/ JobSeesEnd(t) \/ JobTimesOut(t) \/ CompleteKeeps(t) \/ CompleteCloses(t)
         \/ Stops(t) \/ TrainingStarts(t)
  PROVE  Settled'
<1>o. /\ {"bridging", "submit", "wait", "stopping", "request"} \subseteq Outside
      /\ {"complete", "keep_warm", "fail"} \subseteq Outside
  BY DEF Outside, Points, Held
<1>a. "vision_llm" \in Asked /\ "end" \in Sequels
  BY DEF Asked, Sequels
<1>1. reader' = reader /\ lock' = lock
  BY DEF AlreadyRunning, BridgeBegins, BridgeRuns, Submits, JobSeesEnd, JobTimesOut,
         CompleteKeeps, CompleteCloses, Stops, TrainingStarts
<1>v. NoVisionLoad
  <2>1. CASE BridgeRuns(t)
    BY <2>1, ScriptOnlyUnloads DEF BridgeRuns
  <2>2. CASE ~BridgeRuns(t)
    <3>1. UNCHANGED models
      BY <2>2 DEF AlreadyRunning, BridgeBegins, Submits, JobSeesEnd, JobTimesOut,
                  CompleteKeeps, CompleteCloses, Stops, TrainingStarts
    <3> QED
      BY <3>1, StillModels
  <2> QED
    BY <2>1, <2>2
<1>2. GoesOutside(t)
  <2>1. CASE AlreadyRunning(t) \/ BridgeRuns(t)
    BY <1>o, <2>1 DEF GoesOutside, AlreadyRunning, BridgeRuns, Resumes
  <2>2. CASE BridgeBegins(t) \/ Submits(t) \/ CompleteCloses(t)
    BY <1>o, <2>2 DEF GoesOutside, BridgeBegins, Submits, CompleteCloses
  <2>3. CASE JobSeesEnd(t)
    BY <1>o, <2>3, ResidencyAssumption DEF GoesOutside, JobSeesEnd
  <2>4. CASE JobTimesOut(t) \/ CompleteKeeps(t) \/ TrainingStarts(t)
    BY <2>4 DEF GoesOutside, JobTimesOut, CompleteKeeps, TrainingStarts
  <2>5. CASE Stops(t)
    <3>1. Asks(t, "request", "vision_llm", FALSE, "end")
      BY <2>5 DEF Stops
    <3> QED
      BY <1>o, <1>a, <3>1 DEF GoesOutside
  <2> QED
    BY <2>1, <2>2, <2>3, <2>4, <2>5
<1> QED
  BY <1>1, <1>v, <1>2, OutsideKeepsRoom

(* A failing control script frees the lock if its caller has it.           *)
LEMMA FailsKeepsRoom ==
  ASSUME Settled, NEW t \in Threads, Fails(t)
  PROVE  Settled'
<1>1. CASE UnloadFails(t) \/ LoadFails(t) \/ ReleaseFails(t)
  <2>1. th[t].pc \in Held /\ reader' = reader /\ Ends(t)
    BY <1>1 DEF UnloadFails, LoadFails, ReleaseFails, Raises, Held
  <2>2. OthersStay(t) /\ th'[t].pc \notin Held
    BY <2>1, CallerEnds DEF Settled, OthersStay, Held
  <2> QED
    BY <2>1, <2>2, GivesLockBack DEF Settled, Shaped, ReaderShaped
<1>2. CASE BridgeFails(t) \/ StopFails(t)
  <2>1. Ends(t) /\ reader' = reader /\ lock' = lock
    BY <1>2 DEF BridgeFails, StopFails
  <2>2. NoVisionLoad
    BY <1>2, ScriptOnlyUnloads, StillModels DEF BridgeFails, StopFails
  <2> QED
    BY <2>1, <2>2, OutsideKeepsRoom DEF GoesOutside
<1> QED
  BY <1>1, <1>2 DEF Fails

(* The beginnings: client jobs, operators, lane admission.                 *)
LEMMA NewWorkKeepsRoom ==
  ASSUME Settled, NEW t \in Threads, NewWork(t)
  PROVE  Settled'
<1>o. "request" \in Outside /\ "release" \in Outside
  BY DEF Outside, Points, Held
<1>a. "visual_gpu" \in Asked /\ {"end", "train", "session", "job"} \subseteq Sequels
  BY DEF Asked, Sequels
<1>1. reader' = reader /\ lock' = lock
  BY DEF NewWork, ClientJob, OperatorStarts, StartWebui, OperatorStops, LaunchTraining, LaneAdmission
<1>m. AcquiresLease \/ UNCHANGED models
  BY DEF NewWork, ClientJob, OperatorStarts, StartWebui, OperatorStops, LaunchTraining, LaneAdmission
<1>v. NoVisionLoad
  BY <1>m, StopsOnlyStop, StillModels DEF AcquiresLease
<1>2. \E pc \in {"request", "release"}, b \in BOOLEAN, then \in {"end", "train", "session", "job"} :
        Asks(t, pc, "visual_gpu", b, then)
  BY DEF NewWork, ClientJob, OperatorStarts, StartWebui, OperatorStops, LaunchTraining, LaneAdmission
<1>3. GoesOutside(t)
  BY <1>o, <1>a, <1>2 DEF GoesOutside
<1> QED
  BY <1>1, <1>v, <1>3, OutsideKeepsRoom

(* The background jobs.                                                    *)
LEMMA JobKeepsRoom ==
  ASSUME Settled, NEW t \in Threads, Job(t)
  PROVE  Settled'
<1>o. "request" \in Outside /\ "release" \in Outside
  BY DEF Outside, Points, Held
<1>a. /\ {"text_llm", "vision_llm", "visual_gpu"} \subseteq Asked
      /\ {"end", "restore"} \subseteq Sequels
  BY DEF Asked, Sequels
<1>1. reader' = reader /\ lock' = lock
  BY DEF Job, AlwaysOnJob, ResidencyJob, IdleCloseMarksBusy, IdleCloseJob, IdleReleaseJob
<1>m. StatusEffect \/ UNCHANGED models
  BY DEF Job, AlwaysOnJob, ResidencyJob, IdleCloseMarksBusy, IdleCloseJob, IdleReleaseJob
<1>v. NoVisionLoad
  BY <1>m, StatusOnlyStops, StillModels
<1>2. CASE th' = th
  BY <1>1, <1>v, <1>2, NobodyMoves DEF Settled, Shaped, ReaderShaped
<1>3. CASE th' # th
  <2>1. \E pc \in {"request", "release"}, c \in {"text_llm", "vision_llm", "visual_gpu"},
           b \in BOOLEAN, then \in {"end", "restore"} : Asks(t, pc, c, b, then)
    BY <1>3
       DEF Job, AlwaysOnJob, ResidencyJob, IdleCloseMarksBusy, IdleCloseJob, IdleReleaseJob
  <2>2. GoesOutside(t)
    BY <1>o, <1>a, <2>1 DEF GoesOutside
  <2> QED
    BY <1>1, <1>v, <2>2, OutsideKeepsRoom
<1> QED
  BY <1>2, <1>3

(* Statuses outside the lock, processes and the clock.                     *)
LEMMA WorldKeepsRoom ==
  ASSUME TypeOK, Settled, World \/ BridgeDies \/ StatusReads \/ StatusWrites
  PROVE  Settled'
<1>1. UNCHANGED <<th, lock>>
  BY DEF World, ComfyLoads, PromptEnds, TrainingEnds, LeaseExpires, GateAges, TimePasses,
         BridgeDies, StatusReads, StatusWrites
<1>m. StatusEffect \/ UNCHANGED models
  BY DEF World, ComfyLoads, PromptEnds, TrainingEnds, LeaseExpires, GateAges, TimePasses,
         BridgeDies, StatusReads, StatusWrites
<1>v. NoVisionLoad
  BY <1>m, StatusOnlyStops, StillModels
<1>2. ReaderShaped
  <2>1. CASE StatusReads
    BY <2>1 DEF StatusReads, ReaderShaped, TypeOK
  <2>2. CASE StatusWrites
    BY <2>2 DEF StatusWrites, ReaderShaped, NoReader, Desired
  <2>3. CASE World \/ BridgeDies
    <3>1. reader' = reader
      BY <2>3 DEF World, ComfyLoads, PromptEnds, TrainingEnds, LeaseExpires, GateAges,
                  TimePasses, BridgeDies
    <3> QED
      BY <3>1 DEF ReaderShaped, Settled, Shaped
  <2> QED
    BY <2>1, <2>2, <2>3
<1> QED
  BY <1>1, <1>2, <1>v, NobodyMoves

-----------------------------------------------------------------------------
(* The types of the other variables.                                       *)
VisionStates == {"stopped", "unloaded", "loaded"}

StateTyped ==
  /\ text \in BOOLEAN /\ vision \in VisionStates /\ training \in BOOLEAN
  /\ comfy \in {"stopped", "ready", "loaded"}
  /\ prompts \subseteq Threads /\ latest \in Threads \cup {NoJob}
  /\ session \in States /\ bridge \in BOOLEAN /\ idle \in BOOLEAN
  /\ lease \in BOOLEAN /\ gate \in BOOLEAN
  /\ desired \in Desired /\ client \in BOOLEAN
  /\ lock \in Threads \cup {NoLock} /\ faults \in 0..MaxFaults

LEMMA TypesSplit == Settled => (TypeOK <=> StateTyped)
BY DEF Settled, Shaped, Callers, Asked, Components, TypeOK, StateTyped, VisionStates

LEMMA WritesTyped ==
  ASSUME StateTyped, Shaped, NEW t \in Threads, NEW d \in Desired, WritesDesired(t, d)
  PROVE  desired' \in Desired /\ client' \in BOOLEAN
BY DEF StateTyped, Shaped, Callers, WritesDesired, files

ModelsTyped == text' \in BOOLEAN /\ vision' \in VisionStates /\ faults' \in 0..MaxFaults

(* One more failure is still within the bound.                             *)
LEMMA FaultsBounded ==
  ASSUME StateTyped,
         UNCHANGED faults \/ (faults < MaxFaults /\ faults' = faults + 1)
  PROVE  faults' \in 0..MaxFaults
<1>1. MaxFaults \in Nat
  BY ResidencyAssumption
<1>2. faults \in 0..MaxFaults
  BY DEF StateTyped
<1> QED
  BY <1>1, <1>2

LEMMA StopsTyped ==
  ASSUME StateTyped, StopsModels
  PROVE  ModelsTyped
<1>1. faults' \in 0..MaxFaults
  BY FaultsBounded DEF StopsModels
<1> QED
  BY <1>1 DEF StateTyped, StopsModels, ModelsTyped, VisionStates

LEMMA ScriptTyped ==
  ASSUME StateTyped, ComfyReady \/ ComfyNotReady
  PROVE  /\ text' \in BOOLEAN /\ vision' \in VisionStates /\ gate' \in BOOLEAN
         /\ comfy' \in {"stopped", "ready", "loaded"}
<1>1. CASE GateOnModels
  <2>1. text' \in BOOLEAN /\ vision' \in VisionStates /\ gate' \in BOOLEAN
    BY <1>1 DEF GateOnModels, StateTyped, VisionStates
  <2>2. comfy' \in {"stopped", "ready", "loaded"}
    BY DEF ComfyReady, ComfyNotReady, StateTyped
  <2> QED
    BY <2>1, <2>2
<1>2. CASE ~GateOnModels
  BY <1>2 DEF ComfyReady, ComfyNotReady, StateTyped, models
<1> QED
  BY <1>1, <1>2

LEMMA StatusTyped ==
  ASSUME StateTyped, StatusEffect
  PROVE  lease' \in BOOLEAN /\ ModelsTyped
<1>1. CASE StopsModels /\ lease' = TRUE
  BY <1>1, StopsTyped
<1>2. CASE UNCHANGED <<lease, models, faults>>
  BY <1>2 DEF StateTyped, ModelsTyped, models
<1> QED
  BY <1>1, <1>2 DEF StatusEffect, AcquiresLease

LEMMA LocksTyped ==
  ASSUME StateTyped, Shaped, NEW t \in Threads, Locks(t)
  PROVE  StateTyped'
<1>r. "requested" \in Desired
  BY DEF Desired
<1>c. th[t].client \in BOOLEAN
  BY DEF Shaped, Callers
<1>1. CASE RequestDenied(t)
  <2>1. ModelsTyped
    <3>1. CASE StopsModels
      BY <3>1, StopsTyped
    <3>2. CASE UNCHANGED <<models, faults>>
      BY <3>2 DEF StateTyped, ModelsTyped, models
    <3> QED
      BY <1>1, <3>1, <3>2 DEF RequestDenied
  <2>2. desired' \in Desired /\ client' \in BOOLEAN
    BY <1>1, <1>r, WritesTyped DEF RequestDenied
  <2>3. lease' \in BOOLEAN
    BY <1>1 DEF RequestDenied
  <2>4. idle' \in BOOLEAN
    BY <1>1 DEF RequestDenied, RequestIsFresh
  <2>5. UNCHANGED <<studio, training, session, bridge, gate, lock>>
    BY <1>1 DEF RequestDenied
  <2> QED
    BY <2>1, <2>2, <2>3, <2>4, <2>5 DEF StateTyped, ModelsTyped, studio
<1>2. CASE RequestPlanned(t)
  <2>1. lease' \in BOOLEAN /\ ModelsTyped
    BY <1>2, StatusTyped DEF RequestPlanned
  <2>2. desired' \in Desired /\ client' \in BOOLEAN
    BY <1>2, <1>r, WritesTyped DEF RequestPlanned
  <2>3. idle' \in BOOLEAN
    BY <1>2 DEF RequestPlanned, RequestIsFresh
  <2>4. UNCHANGED <<studio, training, session, bridge, gate>> /\ lock' = t
    BY <1>2 DEF RequestPlanned
  <2> QED
    BY <2>1, <2>2, <2>3, <2>4 DEF StateTyped, ModelsTyped, studio
<1>3. CASE ReleaseBegins(t)
  BY <1>3, <1>c DEF StateTyped, ReleaseBegins, WritesDesired, Desired, models, studio, webui, files
<1> QED
  BY <1>1, <1>2, <1>3 DEF Locks

LEMMA UnloadedTyped ==
  ASSUME StateTyped, NEW C, Unloaded(C)
  PROVE  text' \in BOOLEAN /\ vision' \in VisionStates /\ comfy' \in {"stopped", "ready", "loaded"}
BY DEF StateTyped, Unloaded, ComfyWithout, VisionStates

LEMMA RequestTyped ==
  ASSUME StateTyped, Shaped, NEW t \in Threads,
         UnloadsAndChecks(t) \/ Loads(t) \/ RequestEnds(t) \/ ReleaseEnds(t)
  PROVE  StateTyped'
<1>c. th[t].client \in BOOLEAN /\ th[t].c \in Asked
  BY DEF Shaped, Callers
<1>1. CASE UnloadsAndChecks(t)
  <2>1. text' \in BOOLEAN /\ vision' \in VisionStates /\ comfy' \in {"stopped", "ready", "loaded"}
    BY <1>1, UnloadedTyped DEF UnloadsAndChecks
  <2>2. lock' \in Threads \cup {NoLock}
    BY <1>1 DEF StateTyped, UnloadsAndChecks, Raises
  <2>3. UNCHANGED <<prompts, latest, training, webui, files, faults>>
    BY <1>1 DEF UnloadsAndChecks
  <2> QED
    BY <2>1, <2>2, <2>3 DEF StateTyped, webui, files
<1>2. CASE Loads(t)
  <2>1. CASE th[t].c = "text_llm"
    BY <1>2, <2>1 DEF StateTyped, Loads, files
  <2>2. CASE th[t].c = "vision_llm"
    BY <1>2, <2>2 DEF StateTyped, VisionStates, Loads, LoadVision, files
  <2>3. CASE th[t].c = "visual_gpu"
    <3>1. ComfyReady /\ UNCHANGED <<prompts, latest, training, session, bridge, idle, lease, files, lock, faults>>
      BY <1>2, <2>3 DEF Loads
    <3> QED
      BY <3>1, ScriptTyped DEF StateTyped, files
  <2> QED
    BY <1>c, <2>1, <2>2, <2>3 DEF Asked
<1>3. CASE RequestEnds(t)
  <2>1. desired' \in Desired /\ client' \in BOOLEAN
    <3>1. WritesDesired(t, "loaded") /\ "loaded" \in Desired
      BY <1>3 DEF RequestEnds, Desired
    <3> QED
      BY <3>1, WritesTyped
  <2>2. lease' \in BOOLEAN /\ ModelsTyped
    BY <1>3, StatusTyped DEF RequestEnds
  <2> QED
    BY <1>3, <2>1, <2>2 DEF StateTyped, ModelsTyped, RequestEnds, studio
<1>4. CASE ReleaseEnds(t)
  <2>1. desired' \in Desired /\ client' \in BOOLEAN
    <3>1. WritesDesired(t, "unloaded") /\ "unloaded" \in Desired
      BY <1>4 DEF ReleaseEnds, Desired
    <3> QED
      BY <3>1, WritesTyped
  <2>2. lease' \in BOOLEAN /\ ModelsTyped
    BY <1>4, StatusTyped DEF ReleaseEnds
  <2>3. comfy' \in {"stopped", "ready", "loaded"}
    BY <1>4 DEF StateTyped, ReleaseEnds, ComfyWithout
  <2> QED
    BY <1>4, <2>1, <2>2, <2>3 DEF StateTyped, ModelsTyped, ReleaseEnds
<1> QED
  BY <1>1, <1>2, <1>3, <1>4

LEMMA StudioTyped ==
  ASSUME StateTyped, Shaped, NEW t \in Threads,
         \/ AlreadyRunning(t) \/ BridgeBegins(t) \/ BridgeRuns(t) \/ Submits(t)
         \/ JobSeesEnd(t) \/ JobTimesOut(t) \/ CompleteKeeps(t) \/ CompleteCloses(t)
         \/ Stops(t) \/ TrainingStarts(t)
  PROVE  StateTyped'
<1> USE DEF StateTyped, States, models, studio, webui, files
<1>1. CASE AlreadyRunning(t) \/ JobSeesEnd(t) \/ JobTimesOut(t)
  BY <1>1 DEF AlreadyRunning, JobSeesEnd, JobTimesOut
<1>2. CASE BridgeBegins(t)
  BY <1>2 DEF BridgeBegins
<1>3. CASE BridgeRuns(t)
  BY <1>3, ScriptTyped DEF BridgeRuns
<1>4. CASE Submits(t)
  BY <1>4 DEF Submits
<1>5. CASE CompleteKeeps(t)
  <2>1. session' \in States /\ idle' \in BOOLEAN
    BY <1>5 DEF CompleteKeeps
  <2>2. UNCHANGED <<models, studio, training, bridge, lease, gate, files, lock, reader, faults>>
    BY <1>5 DEF CompleteKeeps
  <2> QED
    BY <2>1, <2>2
<1>7. CASE CompleteCloses(t)
  BY ZenonT(60), <1>7 DEF CompleteCloses
<1>8. CASE TrainingStarts(t)
  BY <1>8 DEF TrainingStarts
<1>6. CASE Stops(t)
  BY <1>6 DEF Stops, WebuiStopped
<1> QED
  BY <1>1, <1>2, <1>3, <1>4, <1>5, <1>6, <1>7, <1>8

LEMMA FailsTyped ==
  ASSUME StateTyped, Shaped, NEW t \in Threads, Fails(t)
  PROVE  StateTyped'
<1>1. faults' \in 0..MaxFaults
  BY FaultsBounded DEF Fails, UnloadFails, LoadFails, ReleaseFails, BridgeFails, StopFails
<1>2. CASE ReleaseFails(t)
  BY <1>1, <1>2 DEF StateTyped, ReleaseFails, Raises, models, studio, webui, files
<1>5. CASE UnloadFails(t)
  <2>1. text' \in BOOLEAN /\ vision' \in VisionStates /\ comfy' \in {"stopped", "ready", "loaded"}
    BY <1>5, UnloadedTyped DEF UnloadFails
  <2>2. lock' = NoLock /\ UNCHANGED <<prompts, latest, training, webui, files>>
    BY <1>5 DEF UnloadFails, Raises
  <2> QED
    BY <1>1, <2>1, <2>2 DEF StateTyped, webui, files
<1>6. CASE LoadFails(t)
  <2>1. /\ text' \in BOOLEAN /\ vision' \in VisionStates /\ gate' \in BOOLEAN
        /\ comfy' \in {"stopped", "ready", "loaded"}
    <3>1. CASE th[t].c = "text_llm"
      BY <1>6, <3>1 DEF StateTyped, LoadFails, models
    <3>2. CASE th[t].c = "vision_llm"
      BY <1>6, <3>2 DEF StateTyped, VisionStates, LoadFails
    <3>3. CASE th[t].c = "visual_gpu"
      BY <1>6, <3>3, ScriptTyped DEF LoadFails
    <3>4. th[t].c \in Asked
      BY DEF Shaped, Callers
    <3> QED
      BY <3>1, <3>2, <3>3, <3>4 DEF Asked
  <2>2. /\ lock' = NoLock
        /\ UNCHANGED <<prompts, latest, training, session, bridge, idle, lease, files>>
    BY <1>6 DEF LoadFails, Raises
  <2> QED
    BY <1>1, <2>1, <2>2 DEF StateTyped, files
<1>3. CASE BridgeFails(t)
  <2>1. /\ text' \in BOOLEAN /\ vision' \in VisionStates /\ gate' \in BOOLEAN
        /\ comfy' \in {"stopped", "ready", "loaded"}
    BY <1>3, ScriptTyped DEF BridgeFails
  <2>2. /\ session' = "failed" /\ lease' = FALSE
        /\ UNCHANGED <<prompts, latest, training, bridge, idle, files, lock>>
    BY <1>3 DEF BridgeFails
  <2> QED
    BY <1>1, <2>1, <2>2 DEF StateTyped, States, files
<1>4. CASE StopFails(t)
  BY <1>1, <1>4 DEF StateTyped, StopFails, models, studio, webui, files
<1> QED
  BY <1>2, <1>3, <1>4, <1>5, <1>6 DEF Fails

LEMMA WorkTyped ==
  ASSUME StateTyped, NEW t \in Threads, NewWork(t) \/ Job(t)
  PROVE  StateTyped'
<1> USE DEF StateTyped, States, models, studio, webui, files
<1>1. CASE ClientJob(t) \/ OperatorStarts(t)
  <2>1. /\ lease' = TRUE /\ StopsModels
        /\ UNCHANGED <<studio, training, session, bridge, idle, gate, files, lock>>
    BY <1>1 DEF ClientJob, OperatorStarts, StartWebui, AcquiresLease
  <2> QED
    BY <2>1, StopsTyped DEF ModelsTyped
<1>2. CASE OperatorStops(t) \/ LaunchTraining(t) \/ LaneAdmission(t) \/ AlwaysOnJob(t) \/ IdleCloseJob(t)
  <2>1. UNCHANGED <<models, studio, training, webui, files, lock, reader, faults>>
    BY <1>2 DEF OperatorStops, LaunchTraining, LaneAdmission, AlwaysOnJob, IdleCloseJob
  <2> QED
    BY <2>1
<1>3. CASE ResidencyJob(t) \/ IdleReleaseJob(t)
  <2>1. StatusEffect /\ UNCHANGED <<studio, training, session, bridge, idle, gate, files, lock>>
    BY <1>3 DEF ResidencyJob, IdleReleaseJob
  <2> QED
    BY <2>1, StatusTyped DEF ModelsTyped
<1>4. CASE IdleCloseMarksBusy(t)
  BY ZenonT(60), <1>4 DEF IdleCloseMarksBusy
<1> QED
  BY <1>1, <1>2, <1>3, <1>4 DEF NewWork, Job

LEMMA WorldTyped ==
  ASSUME StateTyped, Shaped, World \/ BridgeDies \/ StatusReads \/ StatusWrites
  PROVE  StateTyped'
<1> USE DEF StateTyped, models, studio, webui, files
<1>1. CASE World \/ BridgeDies
  <2>1. CASE ComfyLoads
    BY <2>1 DEF ComfyLoads
  <2>2. CASE PromptEnds
    BY <2>2 DEF PromptEnds
  <2>3. CASE TrainingEnds
    BY ZenonT(60), <2>3 DEF TrainingEnds
  <2>4. CASE LeaseExpires
    BY <2>4 DEF LeaseExpires
  <2>5. CASE GateAges
    BY <2>5 DEF GateAges
  <2>6. CASE TimePasses
    BY <2>6 DEF TimePasses
  <2>7. CASE BridgeDies
    BY ZenonT(60), <2>7 DEF BridgeDies
  <2> QED
    BY <1>1, <2>1, <2>2, <2>3, <2>4, <2>5, <2>6, <2>7 DEF World
<1>2. CASE StatusReads
  <2>1. StatusEffect /\ UNCHANGED <<studio, training, session, bridge, idle, gate, files, lock>>
    BY <1>2 DEF StatusReads
  <2> QED
    BY <2>1, StatusTyped DEF ModelsTyped
<1>3. CASE StatusWrites
  BY <1>3 DEF StatusWrites, Shaped
<1> QED
  BY <1>1, <1>2, <1>3

-----------------------------------------------------------------------------
LEMMA ResidencyInvariant == Spec => [](StateTyped /\ Settled)
<1>1. Init => StateTyped /\ Settled
  <2> SUFFICES ASSUME Init PROVE StateTyped /\ Settled
    OBVIOUS
  <2>1. StateTyped
    <3>1. 0 \in 0..MaxFaults
      BY ResidencyAssumption
    <3> QED
      BY <3>1 DEF Init, StateTyped, States, Desired, VisionStates
  <2>2. Rest \in Callers /\ Rest.pc \notin Held
    BY DEF Rest, Callers, Points, Asked, Sequels, Held
  <2>3. NoReader \in [open : BOOLEAN, desired : Desired, client : BOOLEAN]
    BY DEF NoReader, Desired
  <2>4. \A t \in Threads : th[t].pc \notin Held
    BY <2>2 DEF Init
  <2>5. Shaped
    BY <2>2, <2>3 DEF Init, Shaped
  <2> QED
    BY <2>1, <2>4, <2>5 DEF Settled, LockHeld, RoomMadeIsKept, Held
<1>2. StateTyped /\ Settled /\ [Next]_vars => StateTyped' /\ Settled'
  <2> SUFFICES ASSUME StateTyped, Settled, [Next]_vars PROVE StateTyped' /\ Settled'
    OBVIOUS
  <2>0. Shaped /\ TypeOK
    BY TypesSplit DEF Settled
  <2>1. ASSUME NEW t \in Threads, NewWork(t) \/ Job(t) PROVE StateTyped' /\ Settled'
    BY <2>1, WorkTyped, NewWorkKeepsRoom, JobKeepsRoom
  <2>2. ASSUME NEW t \in Threads, Locks(t) PROVE StateTyped' /\ Settled'
    BY <2>0, <2>2, LocksTyped, LocksKeepsRoom
  <2>3. ASSUME NEW t \in Threads, Fails(t) PROVE StateTyped' /\ Settled'
    BY <2>0, <2>3, FailsTyped, FailsKeepsRoom
  <2>4. ASSUME NEW t \in Threads, Goes(t) PROVE StateTyped' /\ Settled'
    <3>1. CASE UnloadsAndChecks(t) \/ Loads(t) \/ RequestEnds(t) \/ ReleaseEnds(t)
      BY <2>0, <3>1, RequestTyped, RequestKeepsRoom
    <3>2. CASE \/ AlreadyRunning(t) \/ BridgeBegins(t) \/ BridgeRuns(t) \/ Submits(t)
               \/ JobSeesEnd(t) \/ JobTimesOut(t) \/ CompleteKeeps(t) \/ CompleteCloses(t)
               \/ Stops(t) \/ TrainingStarts(t)
      BY <2>0, <3>2, StudioTyped, StudioKeepsRoom
    <3> QED
      BY <2>4, <3>1, <3>2 DEF Goes
  <2>5. CASE World \/ BridgeDies \/ StatusReads \/ StatusWrites
    BY <2>0, <2>5, WorldTyped, WorldKeepsRoom
  <2>6. CASE UNCHANGED vars
    <3>1. StateTyped'
      BY <2>6 DEF StateTyped, vars, models, studio, webui, files
    <3>2. Settled'
      BY <2>6 DEF Settled, Shaped, LockHeld, RoomMadeIsKept, VisionLoaded, vars, models
    <3> QED
      BY <3>1, <3>2
  <2>7. Clients \subseteq Threads
    BY ResidencyAssumption
  <2> QED
    BY <2>1, <2>2, <2>3, <2>4, <2>5, <2>6, <2>7 DEF Next
<1> QED
  BY <1>1, <1>2, PTL DEF Spec

(* Every variable of the residency model keeps its type, whatever callers, *)
(* background jobs and failing control scripts interleave.                 *)
THEOREM TypeCorrect == Spec => []TypeOK
<1>1. StateTyped /\ Settled => TypeOK
  BY TypesSplit
<1> QED
  BY <1>1, ResidencyInvariant, PTL

(* For any number of client jobs, operators and background jobs, any sizes *)
(* of the models and any failing control scripts: when the plan of a       *)
(* request for ComfyUI (UserSystemdServiceManager                          *)
(* .request_local_scheduler_component, under                               *)
(* _local_scheduler_transition_lock) sent the vision model away, nobody    *)
(* has loaded it again when the script of ComfyUI runs and when the        *)
(* request is answered.                                                    *)
THEOREM RoomKept == Spec => []RoomMadeIsKept
<1>1. Settled => RoomMadeIsKept
  BY DEF Settled
<1> QED
  BY <1>1, ResidencyInvariant, PTL
=============================================================================
