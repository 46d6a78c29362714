----------------------------- MODULE Onboarding -----------------------------
(***************************************************************************)
(* How the node obtains its trust: the bootstrap MQTT client, the monitor  *)
(* thread of the connect timeout, the registration threads (one per        *)
(* discovery, told apart by a run id) and the operations of the control    *)
(* API that start over.  A call to Core is two steps, the question and the *)
(* answer, so that everything else may happen in between; the code between *)
(* two such points is one step.  Files (trust, identity, setup) survive a  *)
(* crash.                                                                  *)
(***************************************************************************)
EXTENDS NodeLifecycle, Naturals, FiniteSets

CONSTANTS
  MaxRuns,        \* bound on run ids used by one process
  MaxIds,         \* bound on node identities ever created
  MaxPollErrors,  \* consecutive failed polls that end a run (30 in the code)
  MaxGrants       \* bound on approvals of Core

ASSUME OnboardingBounds ==
  /\ MaxRuns \in Nat /\ MaxIds \in Nat \ {0} /\ MaxPollErrors \in Nat \ {0}
  /\ MaxGrants \in Nat

VARIABLES
  up,        \* the process: "down", "refused", "syncing", "serving"
  state,     \* NodeLifecycle._state
  deadline,  \* BootstrapConnectTimeoutMonitor._deadline: "none", "armed", "due"
  monitor,   \* its thread: "idle", or "late" between the timeout and the clearing
  client,    \* the bootstrap MQTT client: "off", "connecting", "subscribed"
  config,    \* a bootstrap configuration is held in memory
  configFile, \* and in its file
  trust,     \* the trust state file
  identity,  \* the node id of the identity file, 0 when there is none
  nodeId,    \* OnboardingRuntime._node_id
  runId,     \* OnboardingRuntime._run_id
  inflight,  \* OnboardingRuntime._inflight
  allowDup,  \* OnboardingRuntime._allow_duplicate_identity_reset
  pending,   \* the run whose approval URL and session are shown, 0 for none
  run,       \* the registration threads, by run id
  asked,     \* a support status request is in flight
  ids,       \* history: identities created so far
  grants,    \* history: approvals of Core so far
  lateGrant, \* history: a cancelled run has stored its trust state
  lostArm    \* history: the monitor's late clearing dropped a newer deadline

lifecycle == <<state, deadline, lostArm>>
setup == <<monitor, client, config, configFile>>
runtime == <<nodeId, runId, inflight, allowDup, pending, run, ids>>
granted == <<trust, grants, lateGrant>>
vars == <<up, lifecycle, setup, identity, runtime, asked, granted>>

NoTrust == [node |-> 0, grant |-> 0]
NoRun == [pc |-> "none", id |-> 0, retried |-> FALSE, errors |-> 0]
Runs == 1..MaxRuns
Live(r) == r \in Runs /\ run[r].pc \notin {"none", "ended"}
Active(r) == r = runId

(* transition_to with its callback: the monitor arms a deadline on the way *)
(* to Connecting and drops it on the way to any other state.               *)
OnTransition(to) == IF to = Connecting THEN "armed" ELSE "none"
Enter(to) ==
  /\ state' = to
  /\ deadline' = OnTransition(to)
  /\ lostArm' = FALSE
Stay == UNCHANGED lifecycle
EnterIf(cond, to) == IF cond THEN Enter(to) ELSE Stay

-----------------------------------------------------------------------------
(* The bootstrap client and the connect timeout *)

(* _on_connect *)
ClientConnects ==
  /\ client = "connecting"
  /\ client' = "subscribed"
  /\ EnterIf(state = Connecting, "bootstrap_connected")
  /\ UNCHANGED <<up, monitor, config, configFile, granted, identity, runtime, asked>>

(* The broker connection is lost; the client's loop reconnects. *)
ClientDrops ==
  /\ client = "subscribed"
  /\ client' = "connecting"
  /\ UNCHANGED <<up, lifecycle, monitor, config, configFile, granted, identity, runtime, asked>>

(* on_core_discovered: one registration thread per discovery. *)
StartRun ==
  /\ inflight' = TRUE
  /\ runId' = runId + 1
  /\ run' = [run EXCEPT ![runId + 1] = [NoRun EXCEPT !.pc = "start"]]
  /\ UNCHANGED <<nodeId, allowDup, pending, ids>>
OnCoreDiscovered == IF inflight THEN UNCHANGED runtime ELSE StartRun

(* _on_message with a valid bootstrap payload. *)
ClientMessage ==
  /\ client = "subscribed"
  /\ state = "bootstrap_connected"
  /\ runId < MaxRuns
  /\ Enter("core_discovered")
  /\ OnCoreDiscovered
  /\ UNCHANGED <<up, setup, granted, identity, asked>>

(* The clock passes the deadline; not between two statements of the        *)
(* monitor, since the timeout is seconds long.                             *)
DeadlinePasses ==
  /\ monitor = "idle"
  /\ deadline = "armed"
  /\ deadline' = "due"
  /\ UNCHANGED <<up, state, setup, lostArm, granted, identity, runtime, asked>>

(* The monitor's pass: it has read a due deadline, gives the connection up *)
(* if the node is still connecting, and clears the deadline afterwards, in *)
(* a second critical section.                                              *)
GivesUpWithoutClient == state = Connecting /\ client = "off"
GivesUp == state = Connecting
MonitorFires ==
  /\ monitor = "idle"
  /\ deadline = "due"
  /\ monitor' = "late"
  /\ EnterIf(GivesUp, "unconfigured")
  /\ UNCHANGED <<up, client, config, configFile, granted, identity, runtime, asked>>

MonitorClears ==
  /\ monitor = "late"
  /\ monitor' = "idle"
  /\ deadline' = "none"
  /\ lostArm' = (deadline = "armed")
  /\ UNCHANGED <<up, state, client, config, configFile, granted, identity, runtime, asked>>

-----------------------------------------------------------------------------
(* The registration threads *)

Ended(r) == [run EXCEPT ![r].pc = "ended"]

(* The finally block: only the current run gives the slot back. *)
Release(r) ==
  /\ run' = Ended(r)
  /\ inflight' = (inflight /\ ~Active(r))

(* _run_registration's handler: a cancelled run says nothing. *)
DegradedBeforeApproval == {"core_discovered", "registration_pending"}
DegradedByFailure == RegistrationStates
RunFails(r) ==
  /\ EnterIf(Active(r) /\ state \in DegradedByFailure, "degraded")
  /\ Release(r)

(* The first lines of the thread, up to the POST of the registration.      *)
RunStarts(r) ==
  /\ run[r].pc = "start"
  /\ IF Active(r) /\ CanTransition(state, "registration_pending")
       THEN /\ Enter("registration_pending")
            /\ run' = [run EXCEPT ![r].pc = "registering", ![r].id = nodeId]
            /\ UNCHANGED inflight
       ELSE IF Active(r) THEN RunFails(r) ELSE Stay /\ Release(r)
  /\ UNCHANGED <<up, setup, granted, identity, nodeId, runId, allowDup, pending, ids, asked>>

(* Core opens a session: the run is checked again before it is shown.      *)
SessionUnchecked(r) == CanTransition(state, "pending_approval")
SessionMayProceed(r) == Active(r)
SessionOpened(r) ==
  /\ run[r].pc = "registering"
  /\ allowDup' = FALSE
  /\ IF ~SessionMayProceed(r)
       THEN Stay /\ Release(r) /\ UNCHANGED pending
       ELSE IF CanTransition(state, "pending_approval")
         THEN /\ Enter("pending_approval")
              /\ pending' = IF Active(r) THEN r ELSE pending
              /\ run' = [run EXCEPT ![r].pc = "polling"]
              /\ UNCHANGED inflight
         ELSE RunFails(r) /\ UNCHANGED pending
  /\ UNCHANGED <<up, setup, granted, identity, nodeId, runId, ids, asked>>

(* The registration is refused, or answered with something else.          *)
RegistrationFails(r) ==
  /\ run[r].pc = "registering"
  /\ allowDup' \in {allowDup, FALSE}
  /\ RunFails(r)
  /\ UNCHANGED <<up, setup, granted, identity, nodeId, runId, pending, ids, asked>>

(* Core reports the identity as a duplicate and the retry is allowed: a    *)
(* new identity is written and the registration sent once more.  The flag  *)
(* is the runtime's, not the run's.                                        *)
MayRotate(r) == ~run[r].retried /\ allowDup
DuplicateIdentity(r) ==
  /\ run[r].pc = "registering"
  /\ MayRotate(r)
  /\ ids < MaxIds
  /\ ids' = ids + 1
  /\ identity' = ids + 1
  /\ nodeId' = ids + 1
  /\ pending' = 0
  /\ run' = [run EXCEPT ![r].retried = TRUE, ![r].id = ids + 1]
  /\ UNCHANGED <<up, lifecycle, setup, granted, runId, inflight, allowDup, asked>>

(* _wait_for_finalize: the run is checked before every poll. *)
PollAlways(r) == TRUE
PollMayGo(r) == Active(r)
PollStarts(r) ==
  /\ run[r].pc = "polling"
  /\ IF PollMayGo(r)
       THEN run' = [run EXCEPT ![r].pc = "polled"] /\ UNCHANGED inflight
       ELSE Release(r)
  /\ UNCHANGED <<up, lifecycle, setup, granted, identity, nodeId, runId, allowDup, pending, ids, asked>>

PollPending(r) ==
  /\ run[r].pc = "polled"
  /\ run' = [run EXCEPT ![r].pc = "polling", ![r].errors = 0]
  /\ UNCHANGED <<up, lifecycle, setup, granted, identity, nodeId, runId, inflight, allowDup, pending, ids, asked>>

(* A poll fails: the last of MaxPollErrors failures in a row ends the run. *)
ErrorsLeft(r) == run[r].errors + 1 < MaxPollErrors
PollFails(r) ==
  /\ run[r].pc = "polled"
  /\ IF ErrorsLeft(r)
       THEN /\ run' = [run EXCEPT ![r].pc = "polling", ![r].errors = @ + 1]
            /\ Stay /\ UNCHANGED inflight
       ELSE RunFails(r)
  /\ UNCHANGED <<up, setup, granted, identity, nodeId, runId, allowDup, pending, ids, asked>>

PollRejected(r) ==
  /\ run[r].pc = "polled"
  /\ RunFails(r)
  /\ UNCHANGED <<up, setup, granted, identity, nodeId, runId, allowDup, pending, ids, asked>>

(* _finalize_approved, first half: the activation is for the id that was   *)
(* registered; it is stored if the runtime still has that id.  The run id  *)
(* is not looked at.                                                       *)
IdUnchecked(r) == TRUE
IdMatches(r) == run[r].id = nodeId
PollApproved(r) ==
  /\ run[r].pc = "polled"
  /\ grants < MaxGrants
  /\ IF IdMatches(r)
       THEN /\ trust' = [node |-> run[r].id, grant |-> grants + 1]
            /\ grants' = grants + 1
            /\ lateGrant' = (lateGrant \/ ~Active(r))
            /\ run' = [run EXCEPT ![r].pc = "approved"]
            /\ Stay /\ UNCHANGED inflight
       ELSE RunFails(r) /\ UNCHANGED <<granted>>
  /\ UNCHANGED <<up, setup, identity, nodeId, runId, allowDup, pending, ids, asked>>

(* Second half: the lifecycle moves on to the setup of the capabilities.   *)
Activates(r) ==
  /\ run[r].pc = "approved"
  /\ IF CanTransition(state, "trusted")
       THEN Enter(SetupPending) /\ Release(r) /\ pending' = 0
       ELSE RunFails(r) /\ UNCHANGED pending
  /\ UNCHANGED <<up, setup, granted, identity, nodeId, runId, allowDup, ids, asked>>

RunStep(r) ==
  \/ RunStarts(r) \/ SessionOpened(r) \/ RegistrationFails(r) \/ DuplicateIdentity(r)
  \/ PollStarts(r) \/ PollPending(r) \/ PollFails(r) \/ PollRejected(r)
  \/ PollApproved(r) \/ Activates(r)

-----------------------------------------------------------------------------
(* Operations of the control API that start over *)

(* OnboardingRuntime.cancel, and prepare_retrust when a retry with another *)
(* identity is allowed.                                                    *)
CancelRuns(allowAfter) ==
  /\ runId' = runId + 1
  /\ inflight' = FALSE
  /\ pending' = 0
  /\ allowDup' = allowAfter
  /\ UNCHANGED <<nodeId, run, ids>>

InitiateOnboarding ==
  /\ up = "serving"
  /\ state = "unconfigured"
  /\ config' = TRUE /\ configFile' = TRUE
  /\ Enter(Connecting)
  /\ client' = "connecting"
  /\ UNCHANGED <<up, monitor, granted, identity, runtime, asked>>

(* Setup starts over; trust, identity and capability files stay. *)
RestartSetup ==
  /\ up = "serving"
  /\ runId < MaxRuns
  /\ client' = "off"
  /\ CancelRuns(FALSE)
  /\ config' = FALSE /\ configFile' = FALSE
  /\ Enter("unconfigured")
  /\ UNCHANGED <<up, monitor, granted, identity, asked>>

(* The old trust is dropped and a new one is asked for. *)
MayAlwaysRerequest == TRUE
MayRerequest == state \notin OnboardingStates
RerequestTrust ==
  /\ up = "serving"
  /\ MayRerequest
  /\ trust # NoTrust \/ config
  /\ runId < MaxRuns
  /\ CancelRuns(TRUE)
  /\ config' = TRUE /\ configFile' = TRUE
  /\ trust' = NoTrust
  /\ Enter(Connecting)
  /\ client' = "connecting"
  /\ UNCHANGED <<up, monitor, identity, asked, grants, lateGrant>>

(* A status page asks Core whether the node is still supported ...        *)
AskSupportStatus ==
  /\ up = "serving"
  /\ ~asked
  /\ trust # NoTrust
  /\ state \notin OnboardingStates \cup {"unconfigured"}
  /\ asked' = TRUE
  /\ UNCHANGED <<up, lifecycle, setup, granted, identity, runtime>>

(* ... and forgets everything when it has been removed, whatever has       *)
(* happened since the question.                                            *)
StillSupported ==
  /\ asked
  /\ asked' = FALSE
  /\ UNCHANGED <<up, lifecycle, setup, granted, identity, runtime>>

ResetForCoreRemoval ==
  /\ asked
  /\ asked' = FALSE
  /\ runId < MaxRuns
  /\ client' = "off"
  /\ CancelRuns(FALSE)
  /\ config' = FALSE /\ configFile' = FALSE
  /\ trust' = NoTrust
  /\ identity' = 0
  /\ Enter("unconfigured")
  /\ UNCHANGED <<up, monitor, grants, lateGrant>>

-----------------------------------------------------------------------------
(* Start-up, stop and crash *)

(* load_or_create: an existing identity wins, then the trust's, then a new one. *)
LoadIdentity ==
  CASE identity # 0 -> identity
    [] identity = 0 /\ trust # NoTrust -> trust.node
    [] OTHER -> ids + 1

StartRefused(id) == trust # NoTrust /\ trust.node # id

(* A fresh process's view of the registration runtime. *)
FreshRuntime(id) ==
  /\ nodeId' = id
  /\ runId' = 0 /\ inflight' = FALSE /\ allowDup' = FALSE /\ pending' = 0
  /\ run' = [r \in Runs |-> NoRun]

(* main.run up to the control API: a node with trust resumes, one with a   *)
(* stored setup starts to connect, and an identity that contradicts the    *)
(* trust ends the process.                                                 *)
Boot ==
  /\ up \in {"down", "refused"}
  /\ LoadIdentity <= MaxIds
  /\ identity' = LoadIdentity
  /\ ids' = IF LoadIdentity > ids THEN LoadIdentity ELSE ids
  /\ IF StartRefused(identity')
       THEN up' = "refused" /\ UNCHANGED <<lifecycle, client, config, nodeId, runId, inflight, allowDup, pending, run>>
       ELSE /\ FreshRuntime(identity')
            /\ IF trust # NoTrust
                 THEN up' = "syncing" /\ Enter(SetupPending) /\ UNCHANGED <<config, client>>
                 ELSE /\ up' = "serving"
                      /\ EnterIf(configFile, Connecting)
                      /\ config' = configFile
                      /\ client' = IF configFile THEN "connecting" ELSE "off"
  /\ UNCHANGED <<monitor, configFile, granted, asked>>

(* synchronize_trusted_startup is over and the API serves. *)
StartupEnds ==
  /\ up = "syncing"
  /\ up' = "serving"
  /\ UNCHANGED <<lifecycle, setup, identity, runtime, asked, granted>>

(* The process dies: what is only in memory is gone. *)
Crash ==
  /\ up # "down"
  /\ up' = "down"
  /\ state' = "unconfigured" /\ deadline' = "none" /\ monitor' = "idle" /\ lostArm' = FALSE
  /\ client' = "off" /\ config' = FALSE /\ asked' = FALSE
  /\ nodeId' = 0 /\ runId' = 0 /\ inflight' = FALSE /\ allowDup' = FALSE /\ pending' = 0
  /\ run' = [r \in Runs |-> NoRun]
  /\ UNCHANGED <<configFile, identity, ids, granted>>

(* The capability runner and the health monitor move an active node (see   *)
(* NodeControl): to operational and out of degraded; and into degraded     *)
(* from every state that can be degraded, since a late answer of a health  *)
(* check finds the node in a state that it did not ask in.                 *)
RunnerMoves ==
  /\ up \in {"syncing", "serving"}
  /\ \/ state = SetupPending /\ Enter("operational")
     \/ state = "degraded" /\ \E to \in {SetupPending, "operational"} : Enter(to)
     \/ state \in DegradableStates /\ Enter("degraded")
  /\ UNCHANGED <<up, setup, identity, runtime, asked, granted>>

-----------------------------------------------------------------------------
Init ==
  /\ up = "down" /\ state = "unconfigured"
  /\ deadline = "none" /\ monitor = "idle" /\ lostArm = FALSE
  /\ client = "off" /\ config = FALSE /\ configFile = FALSE
  /\ trust = NoTrust /\ identity = 0
  /\ nodeId = 0 /\ runId = 0 /\ inflight = FALSE /\ allowDup = FALSE /\ pending = 0
  /\ run = [r \in Runs |-> NoRun]
  /\ asked = FALSE /\ ids = 0 /\ grants = 0 /\ lateGrant = FALSE

Next ==
  \/ ClientConnects \/ ClientDrops \/ ClientMessage
  \/ DeadlinePasses \/ MonitorFires \/ MonitorClears
  \/ \E r \in Runs : RunStep(r)
  \/ InitiateOnboarding \/ RestartSetup \/ RerequestTrust
  \/ AskSupportStatus \/ StillSupported \/ ResetForCoreRemoval
  \/ Boot \/ StartupEnds \/ Crash \/ RunnerMoves

(* Threads go on: each call to Core is answered or times out.  Nothing is  *)
(* assumed of operators, of the broker or of Core's answers.               *)
Spec == Init /\ [][Next]_vars
FairSpec ==
  /\ Spec
  /\ \A r \in Runs : WF_vars(RunStep(r))
  /\ WF_vars(MonitorFires) /\ WF_vars(MonitorClears) /\ WF_vars(DeadlinePasses)

(* The abstract view: one state for the onboarding, and the approval's     *)
(* number for the trust state.                                             *)
Trust == INSTANCE TrustLifecycle WITH state <- IF state \in OnboardingStates THEN "onboarding" ELSE state,
                                      trust <- trust.grant
-----------------------------------------------------------------------------
(* Properties *)

RunStates == {"none", "start", "registering", "polling", "polled", "approved", "ended"}

RunRecord ==
  [pc : RunStates, id : 0..MaxIds, retried : BOOLEAN, errors : 0..MaxPollErrors - 1]

TypeOK ==
  /\ up \in {"down", "refused", "syncing", "serving"}
  /\ state \in LifecycleStates
  /\ deadline \in {"none", "armed", "due"} /\ monitor \in {"idle", "late"}
  /\ client \in {"off", "connecting", "subscribed"}
  /\ config \in BOOLEAN /\ configFile \in BOOLEAN
  /\ inflight \in BOOLEAN /\ allowDup \in BOOLEAN
  /\ asked \in BOOLEAN /\ lateGrant \in BOOLEAN /\ lostArm \in BOOLEAN
  /\ trust \in [node : 0..MaxIds, grant : 0..MaxGrants]
  /\ identity \in 0..MaxIds /\ nodeId \in 0..MaxIds /\ ids \in 0..MaxIds
  /\ runId \in 0..MaxRuns /\ pending \in 0..MaxRuns
  /\ run \in [Runs -> RunRecord]
  /\ grants \in 0..MaxGrants

(* While the lifecycle says that a registration is under way, a live       *)
(* registration run that was not cancelled owns it: these states are left  *)
(* by that run only (OnboardingRuntime, run ids and _inflight).            *)
RegistrationOwned ==
  state \in RegistrationStates => inflight /\ Live(runId)

(* A trust state that is stored belongs to the stored identity, so the     *)
(* next start is not refused, unless an approval of a cancelled run was    *)
(* stored (_finalize_approved does not look at the run id).                *)
TrustFitsIdentity ==
  ~lateGrant /\ trust # NoTrust /\ identity # 0 => trust.node = identity

(* A cancelled run moves the lifecycle only by finishing an approval: it   *)
(* neither shows its session nor degrades the node.                        *)
CancelledRunIsSilent ==
  [][\A r \in Runs : Live(r) /\ ~Active(r) /\ run[r].pc # "approved"
       /\ run'[r] # run[r] /\ up' # "down" => state' = state]_vars

(* A cancelled run ends: it asks before each poll whether it is current.   *)
CancelledRunsEnd == \A r \in Runs : Live(r) /\ ~Active(r) ~> ~Live(r) \/ Active(r)

(* Onboarding does no more to the lifecycle and to the trust state than    *)
(* the abstract specification that NodeControl is composed with.           *)
ImplementsTrustLifecycle == Trust!TrustSpec

(* A node does not stay in bootstrap_connecting: it is connected, or the   *)
(* timeout gives up, unless a deadline was lost.                           *)
ConnectingEnds == state = Connecting ~> state # Connecting \/ lostArm
=============================================================================
