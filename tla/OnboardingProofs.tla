-------------------------- MODULE OnboardingProofs --------------------------
(* Proofs about Onboarding, for any bounds on runs, identities, polls and  *)
(* approvals.                                                              *)
EXTENDS Onboarding, TLAPS

-----------------------------------------------------------------------------
(* Types *)

(* Zero is in every range. *)
LEMMA Zeros ==
  0 \in 0..MaxRuns /\ 0 \in 0..MaxIds /\ 0 \in 0..MaxPollErrors - 1 /\ 0 \in 0..MaxGrants
  BY OnboardingBounds

LEMMA NoRunType == NoRun \in RunRecord /\ [NoRun EXCEPT !.pc = "start"] \in RunRecord
  BY Zeros DEF NoRun, RunRecord, RunStates

LEMMA NoTrustType == NoTrust \in [node : 0..MaxIds, grant : 0..MaxGrants]
  BY Zeros DEF NoTrust

(* The lifecycle stays in its domain whatever state is entered. *)
LEMMA EnterType ==
  ASSUME NEW to \in LifecycleStates, Enter(to)
  PROVE  /\ state' \in LifecycleStates
         /\ deadline' \in {"none", "armed", "due"} /\ lostArm' \in BOOLEAN
  BY DEF Enter, OnTransition

LEMMA StayType ==
  ASSUME TypeOK, Stay
  PROVE  /\ state' \in LifecycleStates
         /\ deadline' \in {"none", "armed", "due"} /\ lostArm' \in BOOLEAN
  BY DEF TypeOK, Stay, lifecycle

(* The updates of a registration thread. *)
LEMMA RunPcType ==
  ASSUME TypeOK, NEW r \in Runs, NEW pc \in RunStates
  PROVE  [run EXCEPT ![r].pc = pc] \in [Runs -> RunRecord]
<1>1. run \in [Runs -> RunRecord]
  BY DEF TypeOK
<1>2. [run[r] EXCEPT !.pc = pc] \in RunRecord
  BY <1>1 DEF RunRecord
<1> QED
  BY <1>1, <1>2

LEMMA RunIdType ==
  ASSUME TypeOK, NEW r \in Runs, NEW pc \in RunStates, NEW id \in 0..MaxIds
  PROVE  /\ [run EXCEPT ![r].pc = pc, ![r].id = id] \in [Runs -> RunRecord]
         /\ [run EXCEPT ![r].retried = TRUE, ![r].id = id] \in [Runs -> RunRecord]
<1>1. run \in [Runs -> RunRecord]
  BY DEF TypeOK
<1>2. /\ [run[r] EXCEPT !.pc = pc, !.id = id] \in RunRecord
      /\ [run[r] EXCEPT !.retried = TRUE, !.id = id] \in RunRecord
  BY <1>1 DEF RunRecord
<1> QED
  BY <1>1, <1>2

LEMMA RunErrorsType ==
  ASSUME TypeOK, NEW r \in Runs, NEW pc \in RunStates
  PROVE  /\ [run EXCEPT ![r].pc = pc, ![r].errors = 0] \in [Runs -> RunRecord]
         /\ ErrorsLeft(r) => [run EXCEPT ![r].pc = pc, ![r].errors = @ + 1] \in [Runs -> RunRecord]
<1>1. /\ run \in [Runs -> RunRecord]
      /\ run[r] \in RunRecord /\ run[r].errors \in 0..MaxPollErrors - 1
  BY DEF TypeOK, RunRecord
<1>2. [run[r] EXCEPT !.pc = pc, !.errors = 0] \in RunRecord
  BY <1>1, Zeros DEF RunRecord
<1>3. ErrorsLeft(r) => run[r].errors + 1 \in 0..MaxPollErrors - 1
  BY <1>1, OnboardingBounds DEF ErrorsLeft
<1>4. ErrorsLeft(r) => [run[r] EXCEPT !.pc = pc, !.errors = @ + 1] \in RunRecord
  BY <1>1, <1>3 DEF RunRecord
<1> QED
  BY <1>1, <1>2, <1>4

(* A registration thread that ends keeps the types of the runs. *)
LEMMA ReleaseType ==
  ASSUME TypeOK, NEW r \in Runs, Release(r)
  PROVE  run' \in [Runs -> RunRecord] /\ inflight' \in BOOLEAN
<1>1. "ended" \in RunStates
  BY DEF RunStates
<1>2. run' \in [Runs -> RunRecord]
  BY <1>1, RunPcType DEF Release, Ended
<1>3. inflight' \in BOOLEAN
  BY DEF Release
<1> QED
  BY <1>2, <1>3

(* Nor does a failing one. *)
LEMMA RunFailsType ==
  ASSUME TypeOK, NEW r \in Runs, RunFails(r)
  PROVE  /\ state' \in LifecycleStates
         /\ deadline' \in {"none", "armed", "due"} /\ lostArm' \in BOOLEAN
         /\ run' \in [Runs -> RunRecord] /\ inflight' \in BOOLEAN
<1>1. "degraded" \in LifecycleStates
  BY DEF LifecycleStates
<1> QED
  BY <1>1, EnterType, StayType, ReleaseType DEF RunFails, EnterIf

(* A step of a registration thread.                                        *)
LEMMA RunStepType ==
  ASSUME TypeOK, NEW r \in Runs, RunStep(r)
  PROVE  TypeOK'
<1>1. /\ {"registration_pending", "pending_approval", SetupPending} \subseteq LifecycleStates
      /\ RunStates = {"none", "start", "registering", "polling", "polled", "approved", "ended"}
      /\ nodeId \in 0..MaxIds
      /\ run \in [Runs -> RunRecord]
  BY DEF LifecycleStates, RunStates, TypeOK
<1>2. CASE RunStarts(r)
  <2>1. UNCHANGED <<up, setup, granted, identity, nodeId, runId, allowDup, pending, ids, asked>>
    BY <1>2 DEF RunStarts
  <2>2. /\ state' \in LifecycleStates
        /\ deadline' \in {"none", "armed", "due"} /\ lostArm' \in BOOLEAN
        /\ run' \in [Runs -> RunRecord] /\ inflight' \in BOOLEAN
    <3>1. \/ /\ Enter("registration_pending") /\ inflight' = inflight
             /\ run' = [run EXCEPT ![r].pc = "registering", ![r].id = nodeId]
          \/ RunFails(r)
          \/ Stay /\ Release(r)
      BY <1>2 DEF RunStarts
    <3>2. [run EXCEPT ![r].pc = "registering", ![r].id = nodeId] \in [Runs -> RunRecord]
      BY <1>1, RunIdType
    <3> QED
      BY <1>1, <3>1, <3>2, EnterType, StayType, RunFailsType, ReleaseType DEF TypeOK
  <2> QED
    BY <2>1, <2>2 DEF TypeOK, setup, granted
<1>3. CASE SessionOpened(r)
  <2>1. UNCHANGED <<up, setup, granted, identity, nodeId, runId, ids, asked>> /\ allowDup' \in BOOLEAN
    BY <1>3 DEF SessionOpened
  <2>2. /\ state' \in LifecycleStates
        /\ deadline' \in {"none", "armed", "due"} /\ lostArm' \in BOOLEAN
        /\ run' \in [Runs -> RunRecord] /\ inflight' \in BOOLEAN
        /\ pending' \in 0..MaxRuns
    <3>1. \/ Stay /\ Release(r) /\ pending' = pending
          \/ /\ Enter("pending_approval") /\ inflight' = inflight /\ pending' \in {r, pending}
             /\ run' = [run EXCEPT ![r].pc = "polling"]
          \/ RunFails(r) /\ pending' = pending
      BY <1>3 DEF SessionOpened
    <3>2. [run EXCEPT ![r].pc = "polling"] \in [Runs -> RunRecord]
      BY <1>1, RunPcType
    <3>3. r \in 0..MaxRuns
      BY OnboardingBounds DEF Runs
    <3> QED
      BY <1>1, <3>1, <3>2, <3>3, EnterType, StayType, RunFailsType, ReleaseType DEF TypeOK
  <2> QED
    BY <2>1, <2>2 DEF TypeOK, setup, granted
<1>4. CASE RegistrationFails(r)
  BY ZenonT(60), <1>4, RunFailsType DEF RegistrationFails, TypeOK, setup, granted
<1>5. CASE DuplicateIdentity(r)
  <2>1. ids + 1 \in 0..MaxIds /\ 0 \in 0..MaxRuns
    BY <1>5, OnboardingBounds DEF DuplicateIdentity, TypeOK
  <2>2. run' \in [Runs -> RunRecord]
    BY <1>1, <1>5, <2>1, RunIdType DEF DuplicateIdentity
  <2> QED
    BY <1>5, <2>1, <2>2 DEF DuplicateIdentity, TypeOK, lifecycle, setup, granted
<1>6. CASE PollStarts(r)
  <2>1. run' \in [Runs -> RunRecord] /\ inflight' \in BOOLEAN
    BY ZenonT(60), <1>1, <1>6, RunPcType, ReleaseType DEF PollStarts, TypeOK
  <2> QED
    BY <1>6, <2>1 DEF PollStarts, TypeOK, lifecycle, setup, granted
<1>7. CASE PollPending(r)
  <2>1. run' \in [Runs -> RunRecord]
    BY <1>1, <1>7, RunErrorsType DEF PollPending
  <2> QED
    BY <1>7, <2>1 DEF PollPending, TypeOK, lifecycle, setup, granted
<1>8. CASE PollFails(r)
  <2>1. /\ state' \in LifecycleStates
        /\ deadline' \in {"none", "armed", "due"} /\ lostArm' \in BOOLEAN
        /\ run' \in [Runs -> RunRecord] /\ inflight' \in BOOLEAN
    <3>1. \/ /\ ErrorsLeft(r) /\ Stay /\ inflight' = inflight
             /\ run' = [run EXCEPT ![r].pc = "polling", ![r].errors = @ + 1]
          \/ RunFails(r)
      BY <1>8 DEF PollFails
    <3>2. ErrorsLeft(r) => [run EXCEPT ![r].pc = "polling", ![r].errors = @ + 1] \in [Runs -> RunRecord]
      BY <1>1, RunErrorsType
    <3> QED
      BY <3>1, <3>2, RunFailsType, StayType DEF TypeOK
  <2> QED
    BY <1>8, <2>1 DEF PollFails, TypeOK, setup, granted
<1>9. CASE PollRejected(r)
  BY <1>9, RunFailsType DEF PollRejected, TypeOK, setup, granted
<1>10. CASE PollApproved(r)
  <2>1. UNCHANGED <<up, setup, identity, nodeId, runId, allowDup, pending, ids, asked>>
    BY <1>10 DEF PollApproved
  <2>2. CASE IdMatches(r)
    <3>1. run[r].id \in 0..MaxIds /\ grants + 1 \in 0..MaxGrants
      BY <1>1, <1>10, OnboardingBounds DEF PollApproved, TypeOK, RunRecord
    <3>2. trust' \in [node : 0..MaxIds, grant : 0..MaxGrants] /\ grants' \in 0..MaxGrants
      BY <1>10, <2>2, <3>1 DEF PollApproved
    <3>3. lateGrant' \in BOOLEAN
      BY <1>10, <2>2 DEF PollApproved
    <3>4. run' \in [Runs -> RunRecord] /\ Stay /\ inflight' = inflight
      BY <1>1, <1>10, <2>2, RunPcType DEF PollApproved
    <3> QED
      BY <2>1, <3>2, <3>3, <3>4, StayType DEF TypeOK, setup
  <2>3. CASE ~IdMatches(r)
    BY <1>10, <2>1, <2>3, RunFailsType DEF PollApproved, TypeOK, setup, granted
  <2> QED
    BY <2>2, <2>3
<1>11. CASE Activates(r)
  <2>1. UNCHANGED <<up, setup, granted, identity, nodeId, runId, allowDup, ids, asked>>
    BY <1>11 DEF Activates
  <2>2. /\ state' \in LifecycleStates
        /\ deadline' \in {"none", "armed", "due"} /\ lostArm' \in BOOLEAN
        /\ run' \in [Runs -> RunRecord] /\ inflight' \in BOOLEAN
        /\ pending' \in 0..MaxRuns
    BY <1>1, <1>11, EnterType, RunFailsType, ReleaseType, Zeros DEF Activates, TypeOK
  <2> QED
    BY <2>1, <2>2 DEF TypeOK, setup, granted
<1> QED
  BY <1>2, <1>3, <1>4, <1>5, <1>6, <1>7, <1>8, <1>9, <1>10, <1>11 DEF RunStep

(* Every step keeps the types. *)
LEMMA OnboardingType == TypeOK /\ [Next]_vars => TypeOK'
<1> SUFFICES ASSUME TypeOK, [Next]_vars
             PROVE  TypeOK'
  OBVIOUS
<1>1. /\ {"unconfigured", Connecting, "bootstrap_connected", "core_discovered",
          "registration_pending", "pending_approval", SetupPending, "operational",
          "degraded"} \subseteq LifecycleStates
      /\ run \in [Runs -> RunRecord]
  BY DEF LifecycleStates, TypeOK
<1>2. ASSUME NEW r \in Runs, RunStep(r)
      PROVE  TypeOK'
  BY <1>2, RunStepType
<1>3. CASE ClientConnects \/ ClientDrops
  BY <1>1, <1>3, EnterType, StayType
  DEF ClientConnects, ClientDrops, TypeOK, EnterIf, lifecycle, setup, runtime, granted
<1>4. CASE ClientMessage
  <2>1. UNCHANGED <<up, setup, granted, identity, asked, nodeId, allowDup, pending, ids>>
    BY <1>4 DEF ClientMessage, OnCoreDiscovered, StartRun, runtime
  <2>2. runId + 1 \in Runs /\ runId + 1 \in 0..MaxRuns
    BY <1>4, OnboardingBounds DEF ClientMessage, Runs, TypeOK
  <2>4. runId' \in 0..MaxRuns /\ inflight' \in BOOLEAN /\ run' \in [Runs -> RunRecord]
    BY <1>1, <1>4, <2>2, NoRunType DEF ClientMessage, OnCoreDiscovered, StartRun, runtime, TypeOK
  <2>5. /\ state' \in LifecycleStates
        /\ deadline' \in {"none", "armed", "due"} /\ lostArm' \in BOOLEAN
    BY <1>1, <1>4, EnterType DEF ClientMessage
  <2> QED
    BY <2>1, <2>4, <2>5 DEF TypeOK, setup, granted
<1>5. CASE DeadlinePasses \/ MonitorFires \/ MonitorClears
  <2>1. CASE DeadlinePasses
    BY <2>1 DEF DeadlinePasses, TypeOK, setup, runtime, granted
  <2>2. CASE MonitorFires
    BY <1>1, <2>2, EnterType, StayType DEF MonitorFires, TypeOK, EnterIf, runtime, granted
  <2>3. CASE MonitorClears
    BY <2>3 DEF MonitorClears, TypeOK, runtime, granted
  <2> QED
    BY <1>5, <2>1, <2>2, <2>3
<1>6. CASE InitiateOnboarding
  BY <1>1, <1>6, EnterType DEF InitiateOnboarding, TypeOK, granted, runtime
<1>7. CASE RestartSetup
  <2>1. runId + 1 \in 0..MaxRuns
    BY <1>7, OnboardingBounds DEF RestartSetup, TypeOK
  <2> QED
    BY <1>1, <1>7, <2>1, Zeros, EnterType DEF RestartSetup, CancelRuns, TypeOK, granted
<1>8. CASE RerequestTrust
  <2>1. runId + 1 \in 0..MaxRuns
    BY <1>8, OnboardingBounds DEF RerequestTrust, TypeOK
  <2> QED
    BY <1>1, <1>8, <2>1, NoTrustType, Zeros, EnterType DEF RerequestTrust, CancelRuns, TypeOK
<1>9. CASE AskSupportStatus \/ StillSupported
  <2>1. UNCHANGED <<up, lifecycle, setup, granted, identity, runtime>> /\ asked' \in BOOLEAN
    BY <1>9 DEF AskSupportStatus, StillSupported
  <2> QED
    BY <2>1 DEF TypeOK, lifecycle, setup, granted, runtime
<1>10. CASE ResetForCoreRemoval
  <2>1. runId + 1 \in 0..MaxRuns
    BY <1>10, OnboardingBounds DEF ResetForCoreRemoval, TypeOK
  <2> QED
    BY <1>1, <1>10, <2>1, NoTrustType, Zeros, EnterType DEF ResetForCoreRemoval, CancelRuns, TypeOK
<1>11. CASE Boot
  <2>1. LoadIdentity \in 0..MaxIds
    BY <1>11, OnboardingBounds DEF Boot, LoadIdentity, TypeOK
  <2>2. /\ identity' \in 0..MaxIds /\ ids' \in 0..MaxIds
        /\ UNCHANGED <<monitor, configFile, trust, grants, lateGrant, asked>>
    BY <1>11, <2>1 DEF Boot, TypeOK, granted
  <2>3. CASE StartRefused(identity')
    BY <1>11, <2>2, <2>3 DEF Boot, TypeOK, lifecycle
  <2>4. CASE ~StartRefused(identity')
    <3>1. FreshRuntime(identity')
      BY <1>11, <2>4 DEF Boot
    <3>2. /\ nodeId' \in 0..MaxIds /\ runId' \in 0..MaxRuns /\ pending' \in 0..MaxRuns
          /\ inflight' \in BOOLEAN /\ allowDup' \in BOOLEAN
          /\ run' \in [Runs -> RunRecord]
      BY <2>2, <3>1, NoRunType, Zeros DEF FreshRuntime
    <3>3. /\ state' \in LifecycleStates
          /\ deadline' \in {"none", "armed", "due"} /\ lostArm' \in BOOLEAN
      BY <1>1, <1>11, <2>4, EnterType DEF Boot, EnterIf, Stay, lifecycle, TypeOK
    <3>4. /\ up' \in {"syncing", "serving"} /\ config' \in BOOLEAN
          /\ client' \in {"off", "connecting", "subscribed"}
      BY <1>11, <2>4 DEF Boot, TypeOK
    <3> QED
      BY <2>2, <3>2, <3>3, <3>4 DEF TypeOK
  <2> QED
    BY <2>3, <2>4
<1>12. CASE StartupEnds
  BY <1>12 DEF StartupEnds, TypeOK, lifecycle, setup, runtime, granted
<1>13. CASE Crash
  <2>1. run' \in [Runs -> RunRecord]
    BY <1>13, NoRunType DEF Crash
  <2> QED
    BY <1>1, <1>13, <2>1, Zeros DEF Crash, TypeOK, granted
<1>14. CASE RunnerMoves
  BY <1>1, <1>14, EnterType DEF RunnerMoves, TypeOK, setup, runtime, granted
<1>15. CASE UNCHANGED vars
  BY <1>15 DEF vars, TypeOK, lifecycle, setup, runtime, granted
<1> QED
  BY <1>2, <1>3, <1>4, <1>5, <1>6, <1>7, <1>8, <1>9, <1>10, <1>11, <1>12, <1>13, <1>14, <1>15
  DEF Next

LEMMA OnboardingTypeInit == Init => TypeOK
  BY Zeros, NoRunType, NoTrustType DEF Init, TypeOK, LifecycleStates

(* The setup state, the registration threads and the trust state of a node *)
(* stay in their domains.                                                  *)
THEOREM TypeCorrect == Spec => []TypeOK
  BY OnboardingType, OnboardingTypeInit, PTL DEF Spec

-----------------------------------------------------------------------------
(* Who owns the registration *)

Working == RunStates \ {"none", "ended"}

(* Before the API serves no thread, no question to Core and no onboarding  *)
(* is under way; a run id that was not given out has no thread; the slot   *)
(* is held by a live thread, and a registration state means that it is     *)
(* held.  No step parks the node in a state of the capability runner.      *)
SetupInv ==
  /\ up # "serving" =>
       /\ ~asked /\ ~inflight /\ state \notin OnboardingStates
       /\ \A r \in Runs : run[r].pc = "none"
  /\ up \in {"down", "refused"} => state = "unconfigured"
  /\ state \in OnboardingStates \cup {"unconfigured", SetupPending, "operational", "degraded"}
  /\ \A r \in Runs : r > runId => run[r].pc = "none"
  /\ inflight => runId \in Runs /\ run[runId].pc \in Working
  /\ state \in RegistrationStates => inflight

(* What a step of thread r does to the slot and to the lifecycle.          *)
RunMoves(r) ==
  \/ state' = state
  \/ Active(r) /\ state \in RegistrationStates /\ state' \in RegistrationStates
  \/ Active(r) /\ state \in RegistrationStates /\ state' = "degraded"
  \/ /\ run[r].pc = "approved" /\ state \in {"unconfigured", "pending_approval"}
     /\ state' = SetupPending

KeepsSlot(r) == inflight' = inflight /\ run'[r].pc \in Working

GivesSlotBack(r) ==
  /\ inflight' = (inflight /\ ~Active(r)) /\ run'[r].pc = "ended"
  /\ Active(r) => state' \notin RegistrationStates

LEMMA ReleaseEffect ==
  ASSUME TypeOK, NEW r \in Runs, Release(r)
  PROVE  /\ \A s \in Runs \ {r} : run'[s] = run[s]
         /\ inflight' = (inflight /\ ~Active(r)) /\ run'[r].pc = "ended"
<1>1. run \in [Runs -> RunRecord] /\ run' = [run EXCEPT ![r].pc = "ended"]
  BY DEF TypeOK, Release, Ended
<1>2. inflight' = (inflight /\ ~Active(r))
  BY DEF Release
<1> QED
  BY <1>1, <1>2 DEF RunRecord

(* A failing thread degrades the node only if it is the current one, and   *)
(* then the registration is over.                                          *)
LEMMA RunFailsEffect ==
  ASSUME TypeOK, NEW r \in Runs, RunFails(r)
  PROVE  /\ \A s \in Runs \ {r} : run'[s] = run[s]
         /\ RunMoves(r) /\ GivesSlotBack(r)
<1>1. Release(r)
  BY DEF RunFails
<1>2. \/ Active(r) /\ state \in RegistrationStates /\ state' = "degraded"
      \/ ~(Active(r) /\ state \in RegistrationStates) /\ state' = state
  BY DEF RunFails, EnterIf, Enter, Stay, lifecycle, DegradedByFailure
<1> QED
  BY <1>1, <1>2, ReleaseEffect DEF RunMoves, GivesSlotBack, RegistrationStates

LEMMA RunEffect ==
  ASSUME TypeOK, NEW r \in Runs, RunStep(r)
  PROVE  /\ run[r].pc \in Working
         /\ UNCHANGED <<up, asked, runId>>
         /\ \A s \in Runs \ {r} : run'[s] = run[s]
         /\ RunMoves(r)
         /\ KeepsSlot(r) \/ GivesSlotBack(r)
<1> DEFINE Effect ==
             /\ run[r].pc \in Working
             /\ UNCHANGED <<up, asked, runId>>
             /\ \A s \in Runs \ {r} : run'[s] = run[s]
             /\ RunMoves(r)
             /\ KeepsSlot(r) \/ GivesSlotBack(r)
<1>1. run \in [Runs -> RunRecord] /\ run[r] \in RunRecord
  BY DEF TypeOK
<1>2. Working = {"start", "registering", "polling", "polled", "approved"}
  BY DEF Working, RunStates
<1>3. CASE RunStarts(r)
  <2>1. run[r].pc \in Working /\ UNCHANGED <<up, asked, runId>>
    BY <1>2, <1>3 DEF RunStarts
  <2>2. CASE Active(r) /\ CanTransition(state, "registration_pending")
    <3>1. /\ state = "core_discovered" /\ state' = "registration_pending" /\ inflight' = inflight
          /\ run' = [run EXCEPT ![r].pc = "registering", ![r].id = nodeId]
      BY <1>3, <2>2 DEF RunStarts, CanTransition, AllowedTransitions, Enter, Connecting,
         SetupPending, InProgress, DeclAccepted, FailedRetry
    <3> QED
      BY <1>1, <1>2, <2>1, <2>2, <3>1 DEF RunMoves, KeepsSlot, RegistrationStates, RunRecord
  <2>3. CASE Active(r) /\ ~CanTransition(state, "registration_pending")
    BY <1>3, <2>1, <2>3, RunFailsEffect DEF RunStarts
  <2>4. CASE ~Active(r)
    <3>1. Stay /\ Release(r)
      BY <1>3, <2>4 DEF RunStarts
    <3> QED
      BY <2>1, <2>4, <3>1, ReleaseEffect DEF Stay, lifecycle, RunMoves, GivesSlotBack
  <2> QED
    BY <2>2, <2>3, <2>4
<1>4. CASE SessionOpened(r)
  <2>1. run[r].pc \in Working /\ UNCHANGED <<up, asked, runId>>
    BY <1>2, <1>4 DEF SessionOpened
  <2>2. CASE ~Active(r)
    <3>1. Stay /\ Release(r)
      BY <1>4, <2>2 DEF SessionOpened, SessionMayProceed
    <3> QED
      BY <2>1, <2>2, <3>1, ReleaseEffect DEF Stay, lifecycle, RunMoves, GivesSlotBack
  <2>3. CASE Active(r) /\ CanTransition(state, "pending_approval")
    <3>1. /\ state = "registration_pending" /\ state' = "pending_approval" /\ inflight' = inflight
          /\ run' = [run EXCEPT ![r].pc = "polling"]
      BY <1>4, <2>3 DEF SessionOpened, SessionMayProceed, CanTransition, AllowedTransitions, Enter,
         Connecting, SetupPending, InProgress, DeclAccepted, FailedRetry
    <3> QED
      BY <1>1, <1>2, <2>1, <2>3, <3>1 DEF RunMoves, KeepsSlot, RegistrationStates, RunRecord
  <2>4. CASE Active(r) /\ ~CanTransition(state, "pending_approval")
    BY <1>4, <2>1, <2>4, RunFailsEffect DEF SessionOpened, SessionMayProceed
  <2> QED
    BY <2>2, <2>3, <2>4
<1>5. CASE RegistrationFails(r)
  BY <1>2, <1>5, RunFailsEffect DEF RegistrationFails
<1>6. CASE DuplicateIdentity(r)
  <2>1. /\ run' = [run EXCEPT ![r].retried = TRUE, ![r].id = ids + 1]
        /\ run[r].pc = "registering"
        /\ UNCHANGED <<up, state, inflight, asked, runId>>
    BY <1>6 DEF DuplicateIdentity, lifecycle
  <2> QED
    BY <1>1, <1>2, <2>1 DEF RunMoves, KeepsSlot, RunRecord
<1>7. CASE PollStarts(r)
  <2>1. run[r].pc \in Working /\ UNCHANGED <<up, asked, runId, state>>
    BY <1>2, <1>7 DEF PollStarts, lifecycle
  <2>2. CASE Active(r)
    BY <1>1, <1>2, <1>7, <2>1, <2>2 DEF PollStarts, PollMayGo, RunMoves, KeepsSlot, RunRecord
  <2>3. CASE ~Active(r)
    BY <1>7, <2>1, <2>3, ReleaseEffect DEF PollStarts, PollMayGo, RunMoves, GivesSlotBack
  <2> QED
    BY <2>2, <2>3
<1>8. CASE PollPending(r)
  BY <1>1, <1>2, <1>8 DEF PollPending, lifecycle, RunMoves, KeepsSlot, RunRecord
<1>9. CASE PollFails(r)
  <2>1. run[r].pc \in Working /\ UNCHANGED <<up, asked, runId>>
    BY <1>2, <1>9 DEF PollFails
  <2>2. CASE ErrorsLeft(r)
    <3>1. /\ run' = [run EXCEPT ![r].pc = "polling", ![r].errors = @ + 1]
          /\ UNCHANGED <<state, inflight>>
      BY <1>9, <2>2 DEF PollFails, Stay, lifecycle
    <3> QED
      BY <1>1, <1>2, <2>1, <3>1 DEF RunMoves, KeepsSlot, RunRecord
  <2>3. CASE ~ErrorsLeft(r)
    BY <1>9, <2>1, <2>3, RunFailsEffect DEF PollFails
  <2> QED
    BY <2>2, <2>3
<1>10. CASE PollRejected(r)
  BY <1>2, <1>10, RunFailsEffect DEF PollRejected
<1>11. CASE PollApproved(r)
  <2>1. run[r].pc \in Working /\ UNCHANGED <<up, asked, runId>>
    BY <1>2, <1>11 DEF PollApproved
  <2>2. CASE IdMatches(r)
    <3>1. /\ run' = [run EXCEPT ![r].pc = "approved"]
          /\ UNCHANGED <<state, inflight>>
      BY <1>11, <2>2 DEF PollApproved, Stay, lifecycle
    <3> QED
      BY <1>1, <1>2, <2>1, <3>1 DEF RunMoves, KeepsSlot, RunRecord
  <2>3. CASE ~IdMatches(r)
    BY <1>11, <2>1, <2>3, RunFailsEffect DEF PollApproved
  <2> QED
    BY <2>2, <2>3
<1>12. CASE Activates(r)
  <2>1. run[r].pc = "approved" /\ run[r].pc \in Working /\ UNCHANGED <<up, asked, runId>>
    BY <1>2, <1>12 DEF Activates
  <2>2. CASE CanTransition(state, "trusted")
    <3>1. state \in {"unconfigured", "pending_approval"} /\ state' = SetupPending /\ Release(r)
      BY <1>12, <2>2 DEF Activates, CanTransition, AllowedTransitions, Enter,
         Connecting, SetupPending, InProgress, DeclAccepted, FailedRetry
    <3> QED
      BY <2>1, <3>1, ReleaseEffect DEF RunMoves, GivesSlotBack, RegistrationStates, SetupPending
  <2>3. CASE ~CanTransition(state, "trusted")
    BY <1>12, <2>1, <2>3, RunFailsEffect DEF Activates
  <2> QED
    BY <2>2, <2>3
<1> QED
  BY <1>3, <1>4, <1>5, <1>6, <1>7, <1>8, <1>9, <1>10, <1>11, <1>12 DEF RunStep

(* Entering a state that belongs to no registration. *)
LEMMA SetupStep == TypeOK /\ SetupInv /\ [Next]_vars => SetupInv'
<1> SUFFICES ASSUME TypeOK, SetupInv, [Next]_vars
             PROVE  SetupInv'
  OBVIOUS
<1> USE DEF RegistrationStates, OnboardingStates, Connecting, SetupPending
<1>1. /\ run \in [Runs -> RunRecord] /\ runId \in 0..MaxRuns
      /\ Working = {"start", "registering", "polling", "polled", "approved"}
  BY DEF TypeOK, Working, RunStates
<1>2. ASSUME NEW r \in Runs, RunStep(r)
      PROVE  SetupInv'
  <2>1. /\ run[r].pc \in Working
        /\ UNCHANGED <<up, asked, runId>>
        /\ \A s \in Runs \ {r} : run'[s] = run[s]
        /\ RunMoves(r)
        /\ KeepsSlot(r) \/ GivesSlotBack(r)
    BY <1>2, RunEffect
  <2>2. up = "serving" /\ ~(r > runId)
    BY <1>1, <2>1 DEF SetupInv
  <2>3. state' \in OnboardingStates \cup {"unconfigured", SetupPending, "operational", "degraded"}
    BY <2>1 DEF SetupInv, RunMoves
  <2>4. \A s \in Runs : s > runId' => run'[s].pc = "none"
    BY <2>1, <2>2 DEF SetupInv
  <2>5. inflight' => runId' \in Runs /\ run'[runId'].pc \in Working
    <3>1. CASE KeepsSlot(r)
      BY <2>1, <3>1 DEF SetupInv, KeepsSlot
    <3>2. CASE GivesSlotBack(r)
      BY <2>1, <3>2 DEF SetupInv, GivesSlotBack, Active
    <3> QED
      BY <2>1, <3>1, <3>2
  <2>6. state' \in RegistrationStates => inflight'
    <3>1. state' \in RegistrationStates => state \in RegistrationStates
      BY <2>1 DEF RunMoves
    <3>2. CASE KeepsSlot(r)
      BY <3>1, <3>2 DEF SetupInv, KeepsSlot
    <3>3. CASE GivesSlotBack(r)
      BY <3>1, <3>3 DEF SetupInv, GivesSlotBack
    <3> QED
      BY <2>1, <3>2, <3>3
  <2> QED
    BY <2>1, <2>2, <2>3, <2>4, <2>5, <2>6 DEF SetupInv
<1>3. CASE ClientConnects
  BY <1>3 DEF ClientConnects, EnterIf, Enter, Stay, lifecycle, runtime, SetupInv
<1>4. CASE ClientDrops
  BY <1>4 DEF ClientDrops, lifecycle, runtime, SetupInv
<1>5. CASE ClientMessage
  <2>1. /\ up = "serving" /\ up' = "serving" /\ state' = "core_discovered" /\ asked' = asked
    BY <1>5 DEF ClientMessage, Enter, SetupInv
  <2>2. CASE inflight
    BY <1>5, <2>1, <2>2 DEF ClientMessage, OnCoreDiscovered, runtime, SetupInv
  <2>3. CASE ~inflight
    <3>1. /\ runId' = runId + 1 /\ runId + 1 \in Runs /\ inflight'
          /\ run' = [run EXCEPT ![runId + 1] = [NoRun EXCEPT !.pc = "start"]]
      BY <1>1, <1>5, <2>3, OnboardingBounds
      DEF ClientMessage, OnCoreDiscovered, StartRun, TypeOK, Runs
    <3>2. run'[runId'].pc = "start"
      BY <1>1, <3>1 DEF NoRun
    <3>3. \A s \in Runs : s > runId' => run'[s].pc = "none"
      BY <1>1, <3>1, OnboardingBounds DEF SetupInv, Runs
    <3> QED
      BY <1>1, <2>1, <3>1, <3>2, <3>3 DEF SetupInv
  <2> QED
    BY <2>2, <2>3
<1>6. CASE DeadlinePasses \/ MonitorClears
  BY <1>6 DEF DeadlinePasses, MonitorClears, runtime, SetupInv
<1>7. CASE MonitorFires
  BY <1>7 DEF MonitorFires, GivesUp, EnterIf, Enter, Stay, lifecycle, runtime, SetupInv
<1>8. CASE InitiateOnboarding
  BY <1>8 DEF InitiateOnboarding, Enter, runtime, SetupInv
<1>9. CASE RestartSetup \/ RerequestTrust \/ ResetForCoreRemoval
  <2>1. /\ up = "serving" /\ up' = "serving" /\ runId' = runId + 1 /\ ~inflight' /\ run' = run
        /\ state' \in {"unconfigured", Connecting}
    BY <1>9 DEF RestartSetup, RerequestTrust, ResetForCoreRemoval, CancelRuns, Enter, SetupInv
  <2>2. \A s \in Runs : s > runId' => run'[s].pc = "none"
    BY <1>1, <2>1, OnboardingBounds DEF SetupInv, Runs
  <2> QED
    BY <2>1, <2>2 DEF SetupInv
<1>10. CASE AskSupportStatus \/ StillSupported
  BY <1>10 DEF AskSupportStatus, StillSupported, lifecycle, runtime, SetupInv
<1>11. CASE Boot
  <2>1. state = "unconfigured" /\ ~asked /\ asked' = asked
    BY <1>11 DEF Boot, SetupInv
  <2>2. CASE StartRefused(identity')
    BY <1>11, <2>1, <2>2 DEF Boot, lifecycle, SetupInv
  <2>3. CASE ~StartRefused(identity')
    <3>1. /\ \A r \in Runs : run'[r].pc = "none"
          /\ ~inflight'
      BY <1>11, <2>3 DEF Boot, FreshRuntime, NoRun
    <3>2. \/ up' = "syncing" /\ state' = SetupPending
          \/ up' = "serving" /\ state' \in {"unconfigured", Connecting}
      BY <1>11, <2>1, <2>3 DEF Boot, EnterIf, Enter, Stay, lifecycle
    <3> QED
      BY <2>1, <3>1, <3>2 DEF SetupInv
  <2> QED
    BY <2>2, <2>3
<1>12. CASE StartupEnds
  BY <1>12 DEF StartupEnds, lifecycle, runtime, SetupInv
<1>13. CASE Crash
  BY <1>13 DEF Crash, NoRun, SetupInv
<1>14. CASE RunnerMoves
  BY <1>14 DEF RunnerMoves, Enter, runtime, SetupInv
<1>15. CASE UNCHANGED vars
  BY <1>15 DEF vars, lifecycle, runtime, SetupInv
<1> QED
  BY <1>2, <1>3, <1>4, <1>5, <1>6, <1>7, <1>8, <1>9, <1>10, <1>11, <1>12, <1>13, <1>14, <1>15
  DEF Next

LEMMA SetupInit == Init => SetupInv
  BY DEF Init, SetupInv, NoRun, OnboardingStates, RegistrationStates, Connecting

LEMMA SetupInvariant == Spec => []SetupInv
  BY OnboardingType, OnboardingTypeInit, SetupStep, SetupInit, PTL DEF Spec

(* A registration state always has its owner: while the lifecycle says     *)
(* that a registration is under way, a live run that was not cancelled     *)
(* holds the slot, whatever was cancelled, restarted or answered late.     *)
THEOREM RegistrationHasOwner == Spec => []RegistrationOwned
<1>1. SetupInv => RegistrationOwned
  BY DEF SetupInv, RegistrationOwned, Live, Working, RunStates
<1> QED
  BY <1>1, SetupInvariant, PTL

(* What a step does to a cancelled run that has nothing to finish. *)
LEMMA CancelledSilence ==
  ASSUME TypeOK, SetupInv, [Next]_vars, NEW r \in Runs,
         Live(r), ~Active(r), run[r].pc # "approved", run'[r] # run[r], up' # "down"
  PROVE  state' = state
<1>1. run[r].pc \in Working
  BY DEF Live, TypeOK, RunRecord, Working
<1>2. up = "serving" /\ ~(r > runId)
  BY <1>1 DEF SetupInv, Working
<1>3. \E s \in Runs : RunStep(s)
  <2>1. run' # run /\ up' # "down"
    OBVIOUS
  <2>2. ~ClientMessage
    <3>1. SUFFICES ASSUME ClientMessage PROVE FALSE
      OBVIOUS
    <3>2. run' = [run EXCEPT ![runId + 1] = [NoRun EXCEPT !.pc = "start"]]
      BY <2>1, <3>1 DEF ClientMessage, OnCoreDiscovered, StartRun, runtime
    <3>3. r # runId + 1
      BY <1>2, OnboardingBounds DEF TypeOK, Runs
    <3> QED
      BY <3>2, <3>3 DEF TypeOK
  <2>3. ~Boot
    BY <1>2 DEF Boot
  <2> QED
    BY <2>1, <2>2, <2>3
    DEF Next, vars, ClientConnects, ClientDrops, DeadlinePasses, MonitorFires, MonitorClears,
        InitiateOnboarding, RestartSetup, RerequestTrust, CancelRuns, AskSupportStatus,
        StillSupported, ResetForCoreRemoval, StartupEnds, Crash, RunnerMoves, runtime
<1>4. PICK s \in Runs : RunStep(s)
  BY <1>3
<1>5. s = r
  BY <1>4, RunEffect
<1> QED
  BY <1>4, <1>5, RunEffect DEF RunMoves

(* A cancelled run neither shows its session nor degrades the node: it     *)
(* moves the lifecycle only by finishing an approval it has already        *)
(* stored.                                                                 *)
THEOREM CancelledRunsAreSilent == Spec => CancelledRunIsSilent
<1>1. TypeOK /\ SetupInv /\ [Next]_vars =>
        [\A r \in Runs : Live(r) /\ ~Active(r) /\ run[r].pc # "approved"
           /\ run'[r] # run[r] /\ up' # "down" => state' = state]_vars
  BY CancelledSilence
<1> QED
  BY <1>1, TypeCorrect, SetupInvariant, PTL DEF Spec, CancelledRunIsSilent

-----------------------------------------------------------------------------
(* Trust and identity *)

(* The strengthening of TrustFitsIdentity.  The process works under the    *)
(* stored identity, if there is one; only a node without trust may change  *)
(* its identity, unless a late approval was stored; and the permission is  *)
(* used up before the current run can be approved.                         *)
TrustInv ==
  /\ TrustFitsIdentity
  /\ up \in {"syncing", "serving"} => nodeId = identity \/ identity = 0
  /\ allowDup => trust = NoTrust \/ lateGrant
  /\ runId \in Runs /\ run[runId].pc \in {"polling", "polled"} => ~allowDup

(* A step that touches neither trust nor identities, and brings no current *)
(* run to its polls.                                                       *)
LEMMA TrustStays ==
  ASSUME TrustInv,
         UNCHANGED <<trust, identity, nodeId, allowDup, lateGrant>>,
         up' \in {"syncing", "serving"} => up \in {"syncing", "serving"},
         runId' \in Runs /\ run'[runId'].pc \in {"polling", "polled"} =>
           runId \in Runs /\ run[runId].pc \in {"polling", "polled"}
  PROVE  TrustInv'
  BY DEF TrustInv, TrustFitsIdentity

LEMMA TrustRunStep ==
  ASSUME TypeOK, SetupInv, TrustInv, NEW r \in Runs, RunStep(r)
  PROVE  TrustInv'
<1>1. /\ run \in [Runs -> RunRecord]
      /\ Working = {"start", "registering", "polling", "polled", "approved"}
  BY DEF TypeOK, Working, RunStates
<1>2. /\ run[r].pc \in Working
      /\ UNCHANGED <<up, runId>>
      /\ \A s \in Runs \ {r} : run'[s] = run[s]
      /\ up = "serving"
  BY RunEffect DEF SetupInv, Working
<1>3. CASE RunStarts(r) \/ PollRejected(r) \/ Activates(r)
  <2>1. UNCHANGED <<trust, identity, nodeId, allowDup, lateGrant>>
    BY <1>3 DEF RunStarts, PollRejected, Activates, granted
  <2>2. run'[r].pc \in {"registering", "ended"}
    BY <1>1, <1>3
    DEF RunStarts, PollRejected, Activates, RunFails, Release, Ended, RunRecord
  <2> QED
    BY <1>2, <2>1, <2>2, TrustStays
<1>4. CASE SessionOpened(r)
  BY <1>2, <1>4 DEF SessionOpened, TrustInv, TrustFitsIdentity, granted
<1>5. CASE RegistrationFails(r)
  <2>1. UNCHANGED <<trust, identity, nodeId, lateGrant>> /\ allowDup' \in {allowDup, FALSE}
    BY <1>5 DEF RegistrationFails, granted
  <2>2. run'[r].pc = "ended"
    BY <1>1, <1>5 DEF RegistrationFails, RunFails, Release, Ended, RunRecord
  <2> QED
    <3>1. CASE allowDup' = allowDup
      BY <1>2, <2>1, <2>2, <3>1, TrustStays
    <3>2. CASE allowDup' = FALSE
      BY <1>2, <2>1, <2>2, <3>2 DEF TrustInv, TrustFitsIdentity
    <3> QED
      BY <2>1, <3>1, <3>2
<1>6. CASE DuplicateIdentity(r)
  <2>1. /\ allowDup /\ allowDup' = allowDup /\ run[r].pc = "registering"
        /\ UNCHANGED <<trust, lateGrant>> /\ nodeId' = identity'
        /\ run' = [run EXCEPT ![r].retried = TRUE, ![r].id = ids + 1]
    BY <1>6 DEF DuplicateIdentity, MayRotate, granted
  <2>2. run'[r].pc = "registering"
    BY <1>1, <2>1 DEF RunRecord
  <2> QED
    BY <1>2, <2>1, <2>2 DEF TrustInv, TrustFitsIdentity
<1>7. CASE PollStarts(r) \/ PollPending(r) \/ PollFails(r)
  <2>1. UNCHANGED <<trust, identity, nodeId, allowDup, lateGrant>>
    BY <1>7 DEF PollStarts, PollPending, PollFails, granted
  <2>2. run[r].pc \in {"polling", "polled"}
    BY <1>7 DEF PollStarts, PollPending, PollFails
  <2> QED
    BY <1>2, <2>1, <2>2, TrustStays
<1>8. CASE PollApproved(r)
  <2>1. UNCHANGED <<identity, nodeId, allowDup>> /\ run[r].pc = "polled"
    BY <1>8 DEF PollApproved
  <2>2. CASE IdMatches(r)
    <3>1. /\ trust' = [node |-> nodeId, grant |-> grants + 1]
          /\ lateGrant' = (lateGrant \/ ~Active(r))
          /\ run' = [run EXCEPT ![r].pc = "approved"]
      BY <1>8, <2>2 DEF PollApproved, IdMatches
    <3>2. run'[r].pc = "approved" /\ trust'.node = nodeId
      BY <1>1, <3>1 DEF RunRecord
    <3>3. Active(r) => ~allowDup
      BY <2>1 DEF Active, TrustInv
    <3> QED
      BY <1>2, <2>1, <3>1, <3>2, <3>3 DEF TrustInv, TrustFitsIdentity, Active
  <2>3. CASE ~IdMatches(r)
    <3>1. UNCHANGED <<trust, lateGrant>> /\ RunFails(r)
      BY <1>8, <2>3 DEF PollApproved, granted
    <3>2. run'[r].pc = "ended"
      BY <1>1, <3>1 DEF RunFails, Release, Ended, RunRecord
    <3> QED
      BY <1>2, <2>1, <3>1, <3>2, TrustStays
  <2> QED
    BY <2>2, <2>3
<1> QED
  BY <1>3, <1>4, <1>5, <1>6, <1>7, <1>8 DEF RunStep

LEMMA TrustStep == TypeOK /\ SetupInv /\ TrustInv /\ [Next]_vars => TrustInv'
<1> SUFFICES ASSUME TypeOK, SetupInv, TrustInv, [Next]_vars
             PROVE  TrustInv'
  OBVIOUS
<1>1. run \in [Runs -> RunRecord] /\ runId \in 0..MaxRuns
  BY DEF TypeOK
<1>2. ASSUME NEW r \in Runs, RunStep(r)
      PROVE  TrustInv'
  BY <1>2, TrustRunStep
<1>3. CASE ClientConnects \/ ClientDrops \/ DeadlinePasses \/ MonitorFires \/ MonitorClears
           \/ InitiateOnboarding \/ AskSupportStatus \/ StillSupported
  <2>1. UNCHANGED <<up, granted, identity, runtime>>
    BY <1>3 DEF ClientConnects, ClientDrops, DeadlinePasses, MonitorFires, MonitorClears,
         InitiateOnboarding, AskSupportStatus, StillSupported
  <2> QED
    BY <2>1, TrustStays DEF granted, runtime
<1>4. CASE ClientMessage
  <2>1. UNCHANGED <<up, trust, identity, nodeId, allowDup, lateGrant>>
    BY <1>4 DEF ClientMessage, OnCoreDiscovered, StartRun, runtime, granted
  <2>2. CASE inflight
    BY <1>4, <2>1, <2>2, TrustStays DEF ClientMessage, OnCoreDiscovered, runtime
  <2>3. CASE ~inflight
    <3>1. /\ runId' = runId + 1 /\ runId + 1 \in Runs
          /\ run' = [run EXCEPT ![runId + 1] = [NoRun EXCEPT !.pc = "start"]]
      BY <1>1, <1>4, <2>3, OnboardingBounds DEF ClientMessage, OnCoreDiscovered, StartRun, Runs
    <3>2. run'[runId'].pc = "start"
      BY <1>1, <3>1 DEF NoRun
    <3> QED
      BY <2>1, <3>2, TrustStays
  <2> QED
    BY <2>2, <2>3
<1>5. CASE RestartSetup \/ RerequestTrust \/ ResetForCoreRemoval
  <2>1. /\ up = "serving" /\ up' = "serving" /\ runId' = runId + 1 /\ run' = run
        /\ UNCHANGED <<nodeId, lateGrant>>
    BY <1>5 DEF RestartSetup, RerequestTrust, ResetForCoreRemoval, CancelRuns, SetupInv, granted
  <2>2. runId' \in Runs => run'[runId'].pc = "none"
    BY <1>1, <2>1, OnboardingBounds DEF SetupInv, Runs
  <2>3. \/ UNCHANGED <<trust, identity>> /\ ~allowDup'
        \/ trust' = NoTrust /\ identity' \in {identity, 0}
    BY <1>5 DEF RestartSetup, RerequestTrust, ResetForCoreRemoval, CancelRuns, granted
  <2> QED
    BY <2>1, <2>2, <2>3 DEF TrustInv, TrustFitsIdentity
<1>6. CASE Boot
  <2>1. UNCHANGED <<trust, lateGrant>> /\ identity' = LoadIdentity
    BY <1>6 DEF Boot, granted
  <2>2. ~lateGrant' /\ trust' # NoTrust /\ identity' # 0 => trust'.node = identity'
    BY <2>1 DEF LoadIdentity, TrustInv, TrustFitsIdentity
  <2>3. CASE StartRefused(identity')
    BY <1>6, <2>1, <2>2, <2>3 DEF Boot, TrustInv, TrustFitsIdentity
  <2>4. CASE ~StartRefused(identity')
    <3>1. nodeId' = identity' /\ ~allowDup'
      BY <1>6, <2>4 DEF Boot, FreshRuntime
    <3> QED
      BY <2>1, <2>2, <3>1 DEF TrustInv, TrustFitsIdentity
  <2> QED
    BY <2>3, <2>4
<1>7. CASE StartupEnds \/ RunnerMoves
  BY <1>7, TrustStays DEF StartupEnds, RunnerMoves, granted, runtime
<1>8. CASE Crash
  BY <1>8 DEF Crash, granted, TrustInv, TrustFitsIdentity
<1>9. CASE UNCHANGED vars
  BY <1>9, TrustStays DEF vars, granted, runtime
<1> QED
  BY <1>2, <1>3, <1>4, <1>5, <1>6, <1>7, <1>8, <1>9 DEF Next

LEMMA TrustInitially == Init => TrustInv
  BY DEF Init, TrustInv, TrustFitsIdentity

(* The stored trust belongs to the stored identity, whatever is cancelled, *)
(* rotated, removed or restarted, unless the approval of a cancelled run   *)
(* was stored: so the next start of the node is not refused.               *)
THEOREM TrustMatchesIdentity == Spec => []TrustFitsIdentity
<1>1. TrustInv => TrustFitsIdentity
  BY DEF TrustInv
<1> QED
  BY <1>1, TrustStep, TrustInitially, TypeCorrect, SetupInvariant, PTL DEF Spec

-----------------------------------------------------------------------------
(* Refinement of TrustLifecycle *)

(* A stored trust state has the number of its approval. *)
GrantNumbered == trust = NoTrust \/ trust.grant # 0

LEMMA GrantStep == TypeOK /\ GrantNumbered /\ [Next]_vars => GrantNumbered'
<1> SUFFICES ASSUME TypeOK, GrantNumbered, [Next]_vars
             PROVE  GrantNumbered'
  OBVIOUS
<1>1. \/ trust' = trust \/ trust' = NoTrust
      \/ \E r \in Runs : PollApproved(r) /\ IdMatches(r)
  BY DEF Next, vars, granted, RunStep, ClientConnects, ClientDrops, ClientMessage, DeadlinePasses,
     MonitorFires, MonitorClears, RunStarts, SessionOpened, RegistrationFails, DuplicateIdentity,
     PollStarts, PollPending, PollFails, PollRejected, PollApproved, Activates, InitiateOnboarding,
     RestartSetup, RerequestTrust, AskSupportStatus, StillSupported, ResetForCoreRemoval, Boot,
     StartupEnds, Crash, RunnerMoves
<1>2. ASSUME NEW r \in Runs, PollApproved(r), IdMatches(r)
      PROVE  trust'.grant = grants + 1 /\ grants + 1 # 0
  BY <1>2, OnboardingBounds DEF PollApproved, TypeOK
<1> QED
  BY <1>1, <1>2 DEF GrantNumbered

(* The phase of the node, as the abstract specification sees it. *)
Phase == IF state \in OnboardingStates THEN "onboarding" ELSE state

AbstractUnchanged == UNCHANGED <<up, Phase, trust.grant, grants>>

(* A step of a registration thread is a failure of the setup, an approval, *)
(* an activation or nothing.                                               *)
LEMMA RunRefines ==
  ASSUME TypeOK, SetupInv, NEW r \in Runs, RunStep(r)
  PROVE  Trust!SetupFails \/ Trust!TrustStored \/ Trust!Activated \/ AbstractUnchanged
<1>1. up = "serving" /\ up' = up /\ RunMoves(r)
  BY RunEffect DEF SetupInv, Working
<1>2. CASE PollApproved(r) /\ IdMatches(r)
  <2>1. /\ grants < MaxGrants /\ grants' = grants + 1 /\ state' = state
        /\ trust' = [node |-> run[r].id, grant |-> grants + 1]
    BY <1>2 DEF PollApproved, Stay, lifecycle
  <2> QED
    BY <1>1, <2>1 DEF Trust!TrustStored
<1>3. CASE ~(PollApproved(r) /\ IdMatches(r))
  <2>1. UNCHANGED <<trust, grants>>
    BY <1>3 DEF RunStep, granted, RunStarts, SessionOpened, RegistrationFails, DuplicateIdentity,
       PollStarts, PollPending, PollFails, PollRejected, PollApproved, Activates
  <2>2. CASE state' = state
    BY <1>1, <2>1, <2>2 DEF AbstractUnchanged, Phase
  <2>3. CASE state \in RegistrationStates /\ state' \in RegistrationStates
    BY <1>1, <2>1, <2>3 DEF AbstractUnchanged, Phase, OnboardingStates
  <2>4. CASE state \in RegistrationStates /\ state' = "degraded"
    BY <1>1, <2>1, <2>4
    DEF Trust!SetupFails, Trust!Serving, OnboardingStates, RegistrationStates, Connecting
  <2>5. CASE state \in {"unconfigured", "pending_approval"} /\ state' = SetupPending
    BY <1>1, <2>1, <2>5
    DEF Trust!Activated, Trust!Serving, Trust!SetupPending, OnboardingStates, RegistrationStates,
        Connecting, SetupPending
  <2> QED
    BY <1>1, <2>2, <2>3, <2>4, <2>5 DEF RunMoves
<1> QED
  BY <1>2, <1>3

LEMMA StepRefines ==
  TypeOK /\ SetupInv /\ GrantNumbered /\ [Next]_vars => [Trust!TrustNext]_(Trust!trustVars)
<1> SUFFICES ASSUME TypeOK, SetupInv, GrantNumbered, [Next]_vars
             PROVE  Trust!TrustNext \/ AbstractUnchanged
  BY DEF AbstractUnchanged, Phase, Trust!trustVars
<1> USE DEF OnboardingStates, RegistrationStates, Connecting, SetupPending, Trust!SetupPending, Trust!Serving
<1>1. ASSUME NEW r \in Runs, RunStep(r)
      PROVE  Trust!TrustNext \/ AbstractUnchanged
  BY <1>1, RunRefines DEF Trust!TrustNext, Trust!Onboards
<1>2. CASE ClientConnects \/ ClientMessage
  BY <1>2 DEF ClientConnects, ClientMessage, EnterIf, Enter, Stay, lifecycle, granted,
     AbstractUnchanged, Phase
<1>3. CASE ClientDrops \/ DeadlinePasses \/ MonitorClears \/ AskSupportStatus \/ StillSupported
  BY <1>3 DEF ClientDrops, DeadlinePasses, MonitorClears, AskSupportStatus, StillSupported,
     lifecycle, granted, AbstractUnchanged, Phase
<1>4. CASE MonitorFires
  <2>1. CASE GivesUp
    <3>1. up = "serving"
      BY <2>1 DEF GivesUp, SetupInv
    <3>2. Trust!SetupFails
      BY <1>4, <2>1, <3>1 DEF MonitorFires, GivesUp, EnterIf, Enter, granted, Trust!SetupFails
    <3> QED
      BY <3>2 DEF Trust!TrustNext, Trust!Onboards
  <2>2. CASE ~GivesUp
    BY <1>4, <2>2 DEF MonitorFires, EnterIf, Stay, lifecycle, granted, AbstractUnchanged, Phase
  <2> QED
    BY <2>1, <2>2
<1>5. CASE InitiateOnboarding
  <2>1. Trust!BeginSetup
    BY <1>5 DEF InitiateOnboarding, Enter, granted, Trust!BeginSetup
  <2> QED
    BY <2>1 DEF Trust!TrustNext, Trust!Onboards
<1>6. CASE RestartSetup
  <2>1. Trust!SetupRestarted
    BY <1>6 DEF RestartSetup, Enter, granted, Trust!SetupRestarted
  <2> QED
    BY <2>1 DEF Trust!TrustNext, Trust!Onboards
<1>7. CASE RerequestTrust
  <2>1. state \notin OnboardingStates /\ state # "onboarding"
    BY <1>7 DEF RerequestTrust, MayRerequest, SetupInv
  <2>2. Trust!TrustRerequested
    BY <1>7, <2>1 DEF RerequestTrust, Enter, NoTrust, Trust!TrustRerequested
  <2> QED
    BY <2>2 DEF Trust!TrustNext
<1>8. CASE ResetForCoreRemoval
  <2>1. up = "serving"
    BY <1>8 DEF ResetForCoreRemoval, SetupInv
  <2>2. Trust!CoreRemovedNode
    BY <1>8, <2>1 DEF ResetForCoreRemoval, Enter, NoTrust, Trust!CoreRemovedNode
  <2> QED
    BY <2>2 DEF Trust!TrustNext
<1>9. CASE Boot
  <2>1. /\ up \in {"down", "refused"} /\ state = "unconfigured"
        /\ UNCHANGED <<trust, grants>>
    BY <1>9 DEF Boot, granted, SetupInv
  <2>2. trust # NoTrust <=> trust.grant # 0
    BY DEF GrantNumbered, NoTrust
  <2>3. CASE StartRefused(identity')
    BY <1>9, <2>1, <2>2, <2>3
    DEF Boot, StartRefused, lifecycle, Trust!ProcessStarts, Trust!TrustNext
  <2>4. CASE ~StartRefused(identity') /\ trust # NoTrust
    BY <1>9, <2>1, <2>2, <2>4 DEF Boot, Enter, Trust!ProcessStarts, Trust!TrustNext
  <2>5. CASE ~StartRefused(identity') /\ trust = NoTrust
    BY <1>9, <2>1, <2>2, <2>5
    DEF Boot, EnterIf, Enter, Stay, lifecycle, Trust!ProcessStarts, Trust!TrustNext
  <2> QED
    BY <2>3, <2>4, <2>5
<1>10. CASE StartupEnds
  BY <1>10 DEF StartupEnds, lifecycle, granted, Trust!StartupEnds, Trust!TrustNext
<1>11. CASE Crash
  BY <1>11 DEF Crash, granted, Trust!ProcessDies, Trust!TrustNext
<1>12. CASE RunnerMoves
  <2>1. UNCHANGED <<up, trust, grants>> /\ up \in {"syncing", "serving"}
    BY <1>12 DEF RunnerMoves, granted
  <2>2. \/ state = SetupPending /\ state' = "operational"
        \/ state = "degraded" /\ state' \in {SetupPending, "operational"}
        \/ state \in DegradableStates /\ state' = "degraded"
    BY <1>12 DEF RunnerMoves, Enter
  <2>3. CASE state \in OnboardingStates
    <3>1. up = "serving" /\ state' = "degraded"
      BY <2>2, <2>3 DEF SetupInv
    <3>2. Trust!SetupFails
      BY <2>1, <2>3, <3>1 DEF Trust!SetupFails
    <3> QED
      BY <3>2 DEF Trust!TrustNext, Trust!Onboards
  <2>4. CASE state \notin OnboardingStates
    <3>1. state \in {SetupPending, "operational", "degraded"}
      BY <2>2, <2>4 DEF SetupInv, DegradableStates
    <3>2. Trust!RunnerMoves
      BY <2>1, <2>2, <2>4, <3>1 DEF Trust!RunnerMoves, Trust!ActiveStates
    <3> QED
      BY <3>2 DEF Trust!TrustNext
  <2> QED
    BY <2>3, <2>4
<1>13. CASE UNCHANGED vars
  BY <1>13 DEF vars, lifecycle, granted, AbstractUnchanged, Phase
<1> QED
  BY <1>1, <1>2, <1>3, <1>4, <1>5, <1>6, <1>7, <1>8, <1>9, <1>10, <1>11, <1>12, <1>13 DEF Next

(* Onboarding does no more to the lifecycle and to the trust state than    *)
(* the abstract specification that NodeControl is composed with: every     *)
(* step of clients, threads, operators and restarts is one of its steps or *)
(* a stutter.                                                              *)
THEOREM RefinesTrustLifecycle == Spec => ImplementsTrustLifecycle
<1>1. Init => Trust!TrustInit /\ GrantNumbered
  BY DEF Init, NoTrust, Trust!TrustInit, GrantNumbered, OnboardingStates, RegistrationStates, Connecting
<1> QED
  BY <1>1, GrantStep, StepRefines, TypeCorrect, SetupInvariant, PTL
  DEF Spec, ImplementsTrustLifecycle, Trust!TrustSpec
=============================================================================
