---------------------------- MODULE NodeControl ----------------------------
(***************************************************************************)
(* The node once it is trusted, composed with what onboarding promises of  *)
(* its trust (TrustLifecycle): the declaration of capabilities, the governance bundle, the  *)
(* health monitor of the operational MQTT channel with its bounded         *)
(* restarts, and start-up.  A runner operation is a coroutine: one step    *)
(* per piece of code between two awaits.  A profile or a bundle is known   *)
(* by the grant (the approval of Core) whose token was used to obtain it.  *)
(***************************************************************************)
EXTENDS TrustLifecycle, FiniteSets

CONSTANTS
  Requests,     \* API requests that may run a runner operation at the same time
  Starter,      \* the start-up, which runs such operations before the API serves
  HealthJob,    \* the scheduler runs the MQTT health job
  MaxAttempts   \* restarts the health monitor may ask for

ASSUME ControlConstants == Starter \notin Requests /\ HealthJob \in BOOLEAN /\ MaxAttempts \in Nat \ {0}

VARIABLES
  profile,    \* grant of the accepted capability profile (file and memory), 0 for none
  gov,        \* grant of the governance bundle (file and memory), 0 for none
  govAged,    \* the bundle is past its max_stale_seconds
  govStatus,  \* the runner's cached freshness: "unknown", "fresh", "stale"
  op,         \* the runner operations in flight
  health,     \* the health monitor's coroutine
  recovery,   \* the operational MQTT recovery record (a file)
  overtaken,  \* history: local state was cleared under an operation in flight
  stranded    \* history: an operation died while the node was declaring

runner == <<profile, gov, govAged, govStatus>>
monitoring == <<health, recovery>>
histories == <<overtaken, stranded>>
vars == <<trustVars, runner, op, monitoring, histories>>

Callers == Requests \cup {Starter}
Idle == [pc |-> "idle", grant |-> 0]
At(pc) == [pc |-> pc, grant |-> trust]
InFlight == {c \in Callers : op[c].pc # "idle"}
Declaring == {c \in Callers : op[c].pc \in {"manifest", "governance", "providers"}}
DeclarableStates == {SetupPending, FailedRetry}
NotChecking == [pc |-> "idle", degraded |-> FALSE, recovering |-> FALSE]
NoRecovery == [active |-> FALSE, attempts |-> 0, exhausted |-> FALSE]

(* evaluate_governance_freshness *)
Freshness(bundle, aged) ==
  IF bundle = 0 THEN "unknown" ELSE IF aged THEN "stale" ELSE "fresh"

Enter(to) == state' = to
(* transition_to's test; from every state of an onboarding only degraded   *)
(* can be reached by what this module asks for.                            *)
MayAlwaysTransition(to) == TRUE
MayTransition(to) ==
  CanTransition(IF state = "onboarding" THEN "pending_approval" ELSE state, to)
Stay == UNCHANGED state
trustKept == <<up, trust, grants>>

-----------------------------------------------------------------------------
(* Capability declaration *)

(* The declaration gate of the API, over what the model keeps of it. *)
DeclarationAllowed == state \in DeclarableStates /\ trust # 0

(* submit_once up to the first await. *)
SubmitBegins(c) ==
  /\ Enter(InProgress)
  /\ op' = [op EXCEPT ![c] = At("manifest")]
  /\ UNCHANGED <<trustKept, runner>>

Declare(c) ==
  /\ Serving /\ op[c] = Idle
  /\ DeclarationAllowed
  /\ SubmitBegins(c)
  /\ UNCHANGED <<monitoring, histories>>

Finished(c) == [op EXCEPT ![c] = Idle]

ManifestAccepted(c) ==
  /\ op[c].pc = "manifest"
  /\ profile' = op[c].grant
  /\ op' = [op EXCEPT ![c].pc = "governance"]
  /\ UNCHANGED <<trustVars, gov, govAged, govStatus, monitoring, histories>>

(* The manifest is refused, or governance cannot be fetched: the node goes *)
(* through the retry state to degraded; from any other state than the one  *)
(* the operation left it in the transition raises and ends the operation.  *)
FailSilently == Stay
FailDeclaration == IF MayTransition(FailedRetry) THEN Enter("degraded") ELSE Stay

ManifestRefused(c) ==
  /\ op[c].pc = "manifest"
  /\ op' = Finished(c)
  /\ FailDeclaration
  /\ UNCHANGED <<trustKept, runner, monitoring, histories>>

GovernanceUnavailable(c) ==
  /\ op[c].pc = "governance"
  /\ op' = Finished(c)
  /\ FailDeclaration
  /\ UNCHANGED <<trustKept, runner, monitoring, histories>>

(* A bundle is stored and its freshness cached. *)
SaveGovernance(grant) ==
  /\ gov' = grant /\ govAged' = FALSE
  /\ govStatus' = Freshness(grant, FALSE)

GovernanceSynced(c) ==
  /\ op[c].pc = "governance"
  /\ SaveGovernance(op[c].grant)
  /\ op' = [op EXCEPT ![c].pc = "providers"]
  /\ UNCHANGED <<trustVars, profile, monitoring, histories>>

(* Providers are refreshed, readiness is checked (and only noted), and the *)
(* node becomes operational.                                               *)
DeclarationEnds(c) ==
  /\ op[c].pc = "providers"
  /\ op' = Finished(c)
  /\ IF MayTransition(DeclAccepted)
       THEN Enter("operational") ELSE Stay
  /\ UNCHANGED <<trustKept, runner, monitoring, histories>>

(* The refresh of the providers raises: nothing catches it. *)
ProvidersRaise(c) ==
  /\ op[c].pc = "providers"
  /\ op' = Finished(c)
  /\ stranded' = (stranded \/ state = InProgress)
  /\ UNCHANGED <<trustVars, runner, monitoring, overtaken>>

(* redeclare_if_needed outside of the setup states (in them it is Declare). *)
Redeclare(c) ==
  /\ Serving /\ op[c] = Idle
  /\ state \notin DeclarableStates
  /\ profile # 0 /\ trust # 0
  /\ op' = [op EXCEPT ![c] = At("redeclare")]
  /\ UNCHANGED <<trustVars, runner, monitoring, histories>>

RedeclareAnswered(c, accepted) ==
  /\ op[c].pc = "redeclare"
  /\ profile' = IF accepted THEN op[c].grant ELSE profile
  /\ op' = Finished(c)
  /\ UNCHANGED <<trustVars, gov, govAged, govStatus, monitoring, histories>>

-----------------------------------------------------------------------------
(* Governance *)

RefreshGovernance(c) ==
  /\ Serving /\ op[c] = Idle
  /\ trust # 0
  /\ op' = [op EXCEPT ![c] = At("refresh")]
  /\ UNCHANGED <<trustVars, runner, monitoring, histories>>

(* The answer, also of the refresh that start-up makes before it resumes. *)
RefreshAnswered(c, synced) ==
  /\ op[c].pc \in {"refresh", "startup_refresh"}
  /\ IF synced THEN SaveGovernance(op[c].grant)
     ELSE govStatus' = Freshness(gov, govAged) /\ UNCHANGED <<gov, govAged>>
  /\ op' = IF synced /\ op[c].pc = "startup_refresh" THEN [op EXCEPT ![c].pc = "resume"] ELSE Finished(c)
  /\ UNCHANGED <<trustVars, profile, monitoring, histories>>

(* Time passes: the bundle outlives its freshness; the cached status does  *)
(* not notice.                                                             *)
GovernanceAges ==
  /\ gov # 0 /\ ~govAged
  /\ govAged' = TRUE
  /\ UNCHANGED <<trustVars, profile, gov, govStatus, op, monitoring, histories>>

-----------------------------------------------------------------------------
(* Recovery from degraded *)

RecoveryTargetUnchecked == "operational"
RecoveryTarget == IF profile # 0 /\ govStatus = "fresh" THEN "operational" ELSE SetupPending

Recover ==
  /\ Enter(RecoveryTarget)
  /\ UNCHANGED <<trustKept, runner>>

RecoverFromDegraded ==
  /\ Serving
  /\ state = "degraded"
  /\ Recover
  /\ UNCHANGED <<op, monitoring, histories>>

-----------------------------------------------------------------------------
(* The operational MQTT health monitor *)

MonitorableStates == {"trusted", SetupPending, DeclAccepted, "operational", "degraded"}

Cleared == recovery' = NoRecovery
KeepRecord == UNCHANGED recovery

RecoveringUnlessExhausted == recovery.active /\ ~recovery.exhausted
Recovering == recovery.active \/ recovery.exhausted

(* A pass begins: state and record are read before the await. *)
HealthSkipped ==
  /\ HealthJob /\ Serving /\ health.pc = "idle"
  /\ state \notin MonitorableStates
  /\ recovery.active
  /\ Cleared
  /\ UNCHANGED <<trustVars, runner, op, health, histories>>

HealthBegins ==
  /\ HealthJob /\ Serving /\ health.pc = "idle"
  /\ state \in MonitorableStates
  /\ trust # 0
  /\ health' = [pc |-> "checking", degraded |-> state = "degraded",
              recovering |-> Recovering]
  /\ UNCHANGED <<trustVars, runner, op, recovery, histories>>

(* The channel works: a recovery that was under way is over. *)
HealthGood ==
  /\ health.pc = "checking"
  /\ health' = NotChecking
  /\ IF health.recovering THEN Cleared ELSE KeepRecord
  /\ IF health.recovering /\ health.degraded /\ state = "degraded"
       THEN Recover ELSE UNCHANGED <<trustVars, runner>>
  /\ UNCHANGED <<op, histories>>

DegradeUnhealthy ==
  IF ~health.degraded /\ MayTransition("degraded") THEN Enter("degraded") ELSE Stay

(* note_unhealthy, mark_exhausted and record_restart_requested on the record. *)
Exhausted == [active |-> TRUE, attempts |-> MaxAttempts, exhausted |-> TRUE]
WithRestart(rec) ==
  [active |-> TRUE, attempts |-> rec.attempts + 1, exhausted |-> rec.attempts + 1 >= MaxAttempts]
RestartsLeft == recovery.attempts < MaxAttempts

(* The channel does not work and no restart is left, or none can be        *)
(* scheduled.                                                              *)
HealthBadGivesUp ==
  /\ health.pc = "checking"
  /\ DegradeUnhealthy
  /\ recovery' = Exhausted
  /\ health' = NotChecking
  /\ UNCHANGED <<trustKept, runner, op, histories>>

(* A restart of the backend is scheduled and counted; the monitor sleeps   *)
(* until it comes.                                                         *)
HealthBadRestarts ==
  /\ health.pc = "checking"
  /\ RestartsLeft
  /\ DegradeUnhealthy
  /\ recovery' = WithRestart(recovery)
  /\ health' = [NotChecking EXCEPT !.pc = "sleeping"]
  /\ UNCHANGED <<trustKept, runner, op, histories>>

(* The restart did not come. *)
HealthWakes ==
  /\ health.pc = "sleeping"
  /\ health' = NotChecking
  /\ UNCHANGED <<trustVars, runner, op, recovery, histories>>

-----------------------------------------------------------------------------
(* Starting over *)

(* clear_local_state_for_reonboarding, with the governance file. *)
ClearLocalState ==
  /\ profile' = 0 /\ gov' = 0 /\ govAged' = FALSE /\ govStatus' = "unknown"
  /\ overtaken' = (overtaken \/ InFlight # {})

NodeRerequestsTrust ==
  TrustRerequested /\ ClearLocalState /\ UNCHANGED <<op, monitoring, stranded>>
NodeRemoved ==
  CoreRemovedNode /\ ClearLocalState /\ UNCHANGED <<op, monitoring, stranded>>

(* Processes *)

ForgetProcess ==
  /\ ProcessDies
  /\ op' = [c \in Callers |-> Idle]
  /\ health' = NotChecking
  /\ govStatus' = "unknown"
  /\ UNCHANGED <<profile, gov, govAged, recovery, overtaken, stranded>>

(* The restart that the health monitor scheduled, or a crash. *)
ProcessEnds == up # "down" /\ ForgetProcess

NodeBoots ==
  /\ ProcessStarts
  /\ govStatus' = Freshness(gov, govAged)
  /\ op' = IF up' = "syncing" THEN [op EXCEPT ![Starter] = [pc |-> "startup", grant |-> trust]] ELSE op
  /\ UNCHANGED <<profile, gov, govAged, monitoring, histories>>

(* synchronize_trusted_startup: declare, refresh governance first, or      *)
(* resume with what was stored.                                            *)
StartupDecides ==
  /\ op[Starter].pc = "startup"
  /\ IF profile = 0 THEN SubmitBegins(Starter)
     ELSE /\ op' = [op EXCEPT ![Starter].pc = IF govStatus = "fresh" THEN "resume" ELSE "startup_refresh"]
          /\ UNCHANGED <<trustVars, runner>>
  /\ UNCHANGED <<monitoring, histories>>

StartupResumes ==
  /\ op[Starter].pc = "resume"
  /\ op' = Finished(Starter)
  /\ Enter("operational")
  /\ UNCHANGED <<trustKept, runner, monitoring, histories>>

NodeServes ==
  /\ StartupEnds /\ op[Starter] = Idle
  /\ UNCHANGED <<runner, op, monitoring, histories>>

-----------------------------------------------------------------------------
Init ==
  /\ TrustInit
  /\ profile = 0 /\ gov = 0 /\ govAged = FALSE /\ govStatus = "unknown"
  /\ op = [c \in Callers |-> Idle]
  /\ health = NotChecking /\ recovery = NoRecovery
  /\ overtaken = FALSE /\ stranded = FALSE

NodeOnboards ==
  /\ Onboards
  /\ UNCHANGED <<runner, op, monitoring, histories>>

RunnerAnswers(c) ==
  \/ ManifestAccepted(c) \/ ManifestRefused(c) \/ GovernanceSynced(c) \/ GovernanceUnavailable(c)
  \/ DeclarationEnds(c) \/ ProvidersRaise(c)
  \/ \E yes \in BOOLEAN : RedeclareAnswered(c, yes) \/ RefreshAnswered(c, yes)

Startup == NodeBoots \/ StartupDecides \/ StartupResumes \/ NodeServes
HealthStep == HealthSkipped \/ HealthBegins \/ HealthGood \/ HealthBadGivesUp \/ HealthBadRestarts

Next ==
  \/ NodeOnboards \/ Startup \/ HealthStep \/ HealthWakes \/ ProcessEnds
  \/ NodeRerequestsTrust \/ NodeRemoved \/ RecoverFromDegraded \/ GovernanceAges
  \/ \E c \in Requests : Declare(c) \/ Redeclare(c) \/ RefreshGovernance(c)
  \/ \E c \in Callers : RunnerAnswers(c)

Spec == Init /\ [][Next]_vars

(* Threads and coroutines go on: a call to Core is answered or times out,  *)
(* the scheduler runs the health job again and again, the service manager  *)
(* starts a dead backend.  Nothing is assumed of operators or of Core's    *)
(* answers.                                                                *)
Fairness ==
  /\ \A c \in Callers : WF_vars(RunnerAnswers(c))
  /\ WF_vars(Startup)
  /\ WF_vars(HealthStep)
  /\ WF_vars(HealthWakes)
FairSpec == Spec /\ Fairness

-----------------------------------------------------------------------------
(* Properties *)

TypeOK ==
  /\ up \in {"down", "refused", "syncing", "serving"}
  /\ state \in PhaseStates
  /\ trust \in 0..MaxGrants
  /\ {profile, gov, grants} \subseteq 0..MaxGrants
  /\ {govAged, overtaken, stranded} \subseteq BOOLEAN
  /\ govStatus \in {"unknown", "fresh", "stale"}
  /\ op \in [Callers -> [pc : {"idle", "manifest", "governance", "providers", "redeclare", "refresh",
                               "startup", "startup_refresh", "resume"}, grant : 0..MaxGrants]]
  /\ health \in [pc : {"idle", "checking", "sleeping"}, degraded : BOOLEAN, recovering : BOOLEAN]
  /\ recovery \in [active : BOOLEAN, attempts : 0..MaxAttempts, exhausted : BOOLEAN]

(* An operational node has an accepted profile and a governance bundle,    *)
(* unless they were cleared under an operation that was in flight.         *)
OperationalIsDeclared == state = "operational" /\ ~overtaken => profile # 0 /\ gov # 0

(* The node says that it is declaring only while an operation is on its    *)
(* way to end that, unless the refresh of the providers raised.            *)
DeclaringIsServed == state = InProgress /\ ~stranded => Declaring # {}

(* The runner and the health monitor move the lifecycle only as            *)
(* TrustLifecycle lets them, which is what Onboarding assumes of them: an  *)
(* answer that comes after the node started over does not carry it past    *)
(* the onboarding.                                                         *)
KeepsTrustLifecycle == TrustSpec

(* Once the channel and the process work for good, a recovery that is under way ends (or  *)
(* the trust is given up): the record is not kept for ever.                *)
RecoveryEnds ==
  <>[][~(HealthBadGivesUp \/ HealthBadRestarts \/ ProcessEnds)]_vars =>
    (recovery.active /\ trust # 0 /\ up # "refused"
       ~> ~recovery.active \/ trust = 0 \/ up = "refused")
=============================================================================
