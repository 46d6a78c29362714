-------------------------- MODULE NodeControlProofs --------------------------
(* Proofs about NodeControl, for any number of concurrent requests, any    *)
(* number of approvals and any bound on restarts.                          *)
EXTENDS NodeControl, TLAPS

-----------------------------------------------------------------------------
(* Types *)

Pcs == {"idle", "manifest", "governance", "providers", "redeclare", "refresh", "startup", "startup_refresh", "resume"}
Ops == [pc : Pcs, grant : 0..MaxGrants]
Records == [active : BOOLEAN, attempts : 0..MaxAttempts, exhausted : BOOLEAN]
Checks == [pc : {"idle", "checking", "sleeping"}, degraded : BOOLEAN, recovering : BOOLEAN]
States == {"unconfigured", "onboarding", SetupPending, InProgress, "operational", "degraded"}

(* The type invariant, taken apart for the provers.                        *)
Typed ==
  /\ up \in {"down", "refused", "syncing", "serving"}
  /\ state \in States
  /\ trust \in 0..MaxGrants /\ profile \in 0..MaxGrants /\ gov \in 0..MaxGrants /\ grants \in 0..MaxGrants
  /\ govAged \in BOOLEAN /\ overtaken \in BOOLEAN /\ stranded \in BOOLEAN
  /\ govStatus \in {"unknown", "fresh", "stale"}
  /\ op \in [Callers -> Ops]
  /\ health \in Checks
  /\ recovery \in Records

LEMMA TypedIsTypeOK == Typed <=> TypeOK
BY DEF Typed, TypeOK, States, PhaseStates, ActiveStates, Ops, Pcs, Records, Checks

LEMMA Bounds == 0 \in 0..MaxGrants /\ 0 \in 0..MaxAttempts /\ MaxAttempts \in 0..MaxAttempts
BY GrantBound, ControlConstants

LEMMA ConstantTypes == Idle \in Ops /\ NotChecking \in Checks /\ NoRecovery \in Records /\ Exhausted \in Records
BY Bounds DEF Idle, Ops, Pcs, NotChecking, Checks, NoRecovery, Records, Exhausted

(* An operation that begins, goes on or ends.                              *)
LEMMA OpTypes ==
  ASSUME Typed, NEW c \in Callers, NEW pc \in Pcs
  PROVE  /\ At(pc) \in Ops
         /\ [op EXCEPT ![c] = At(pc)] \in [Callers -> Ops]
         /\ [op EXCEPT ![c].pc = pc] \in [Callers -> Ops]
         /\ Finished(c) \in [Callers -> Ops]
<1>1. At(pc) \in Ops BY DEF At, Ops, Typed
<1>2. [op EXCEPT ![c] = At(pc)] \in [Callers -> Ops] BY <1>1 DEF Typed
<1>3. [op[c] EXCEPT !.pc = pc] \in Ops BY DEF Typed, Ops
<1>4. [op EXCEPT ![c].pc = pc] \in [Callers -> Ops] BY <1>3 DEF Typed
<1>5. Finished(c) \in [Callers -> Ops] BY ConstantTypes DEF Finished, Typed
<1> QED BY <1>1, <1>2, <1>4, <1>5

LEMMA TrustStepsTyped ==
  ASSUME Typed, Onboards \/ TrustRerequested \/ CoreRemovedNode \/ ProcessDies \/ ProcessStarts \/ StartupEnds
  PROVE  /\ up' \in {"down", "refused", "syncing", "serving"} /\ state' \in States
         /\ trust' \in 0..MaxGrants /\ grants' \in 0..MaxGrants
<1> USE DEF Typed, States
<1>1. CASE TrustStored
  BY <1>1, GrantBound DEF TrustStored
<1>2. CASE BeginSetup \/ SetupFails \/ Activated \/ SetupRestarted
  BY <1>2 DEF BeginSetup, SetupFails, Activated, SetupRestarted
<1>3. CASE TrustRerequested \/ CoreRemovedNode
  BY <1>3, Bounds DEF TrustRerequested, CoreRemovedNode
<1>4. CASE ProcessDies \/ ProcessStarts \/ StartupEnds
  BY <1>4 DEF ProcessDies, ProcessStarts, StartupEnds
<1> QED BY <1>1, <1>2, <1>3, <1>4 DEF Onboards

(* The transitions that the runner and the monitor ask for.                *)
LEMMA Transitions ==
  ASSUME state \in States
  PROVE  /\ MayTransition(FailedRetry) <=> state \in {InProgress, "degraded"}
         /\ MayTransition(DeclAccepted) <=> state = InProgress
         /\ MayTransition("degraded") <=> state \in {"onboarding", SetupPending, InProgress, "operational"}
         /\ state \in DeclarableStates <=> state = SetupPending
         /\ {SetupPending, InProgress, "operational", "degraded"} = ActiveStates
BY DEF MayTransition, CanTransition, AllowedTransitions, DegradableStates, LifecycleStates, States, DeclarableStates,
       ActiveStates, FailedRetry, InProgress, DeclAccepted, SetupPending, Connecting

LEMMA FreshnessType ==
  ASSUME NEW bundle, NEW aged \in BOOLEAN
  PROVE  /\ Freshness(bundle, aged) \in {"unknown", "fresh", "stale"}
         /\ Freshness(bundle, aged) = "fresh" => bundle # 0
BY DEF Freshness

(* What every answer of the runner keeps.                                  *)
LEMMA RunnerTyped ==
  ASSUME Typed, NEW c \in Callers, RunnerAnswers(c)
  PROVE  Typed'
<1>0. op[c].grant \in 0..MaxGrants /\ {"governance", "providers", "resume"} \subseteq Pcs BY DEF Typed, Ops, Pcs
<1>1. CASE ManifestAccepted(c)
  <2>1. op' \in [Callers -> Ops] BY <1>0, <1>1, OpTypes DEF ManifestAccepted
  <2> QED BY <1>0, <1>1, <2>1 DEF ManifestAccepted, Typed, trustVars, monitoring, histories
<1>2. CASE ManifestRefused(c) \/ GovernanceUnavailable(c)
  <2>1. op' \in [Callers -> Ops] BY <1>0, <1>2, OpTypes DEF ManifestRefused, GovernanceUnavailable
  <2>2. state' \in States BY <1>2 DEF ManifestRefused, GovernanceUnavailable, FailDeclaration, Enter, Stay, Typed, States
  <2> QED BY <1>2, <2>1, <2>2 DEF ManifestRefused, GovernanceUnavailable, Typed, trustKept, runner, monitoring, histories
<1>3. CASE GovernanceSynced(c)
  <2>1. op' \in [Callers -> Ops] BY <1>0, <1>3, OpTypes DEF GovernanceSynced
  <2> QED BY <1>0, <1>3, <2>1, FreshnessType DEF GovernanceSynced, SaveGovernance, Typed, trustVars, monitoring, histories
<1>4. CASE DeclarationEnds(c)
  <2>1. op' \in [Callers -> Ops] BY <1>0, <1>4, OpTypes DEF DeclarationEnds
  <2>2. state' \in States BY <1>4 DEF DeclarationEnds, Enter, Stay, Typed, States
  <2> QED BY <1>4, <2>1, <2>2 DEF DeclarationEnds, Typed, trustKept, runner, monitoring, histories
<1>5. CASE ProvidersRaise(c)
  <2>1. op' \in [Callers -> Ops] BY <1>0, <1>5, OpTypes DEF ProvidersRaise
  <2> QED BY <1>5, <2>1 DEF ProvidersRaise, Typed, trustVars, runner, monitoring
<1>6. ASSUME NEW yes \in BOOLEAN, RedeclareAnswered(c, yes) PROVE Typed'
  <2>1. op' \in [Callers -> Ops] BY <1>0, <1>6, OpTypes DEF RedeclareAnswered
  <2>2. profile' \in 0..MaxGrants BY <1>0, <1>6 DEF RedeclareAnswered, Typed
  <2> QED BY <1>6, <2>1, <2>2 DEF RedeclareAnswered, Typed, trustVars, monitoring, histories
<1>7. ASSUME NEW yes \in BOOLEAN, RefreshAnswered(c, yes) PROVE Typed'
  <2>1. op' \in [Callers -> Ops] BY <1>0, <1>7, OpTypes DEF RefreshAnswered
  <2>2. gov' \in 0..MaxGrants /\ govAged' \in BOOLEAN /\ govStatus' \in {"unknown", "fresh", "stale"}
    BY <1>0, <1>7, FreshnessType DEF RefreshAnswered, SaveGovernance, Typed
  <2> QED BY <1>7, <2>1, <2>2 DEF RefreshAnswered, Typed, trustVars, monitoring, histories
<1> QED BY <1>1, <1>2, <1>3, <1>4, <1>5, <1>6, <1>7 DEF RunnerAnswers

LEMMA RequestsTyped ==
  ASSUME Typed, NEW c \in Requests, Declare(c) \/ Redeclare(c) \/ RefreshGovernance(c)
  PROVE  Typed'
<1>0. c \in Callers /\ {"manifest", "redeclare", "refresh"} \subseteq Pcs BY DEF Callers, Pcs
<1>1. op' \in [Callers -> Ops]
  <2>1. PICK pc \in Pcs : op' = [op EXCEPT ![c] = At(pc)]
    BY <1>0 DEF Declare, SubmitBegins, Redeclare, RefreshGovernance
  <2> QED BY <1>0, <2>1, OpTypes
<1>2. state' \in States BY DEF Declare, SubmitBegins, Redeclare, RefreshGovernance, Enter, States, Typed, trustVars
<1> QED BY <1>1, <1>2 DEF Declare, SubmitBegins, Redeclare, RefreshGovernance, Typed, trustVars, trustKept, runner,
                          monitoring, histories

LEMMA HealthTyped ==
  ASSUME Typed, HealthStep \/ HealthWakes
  PROVE  Typed'
<1>1. CASE HealthSkipped
  BY <1>1, ConstantTypes DEF HealthSkipped, Cleared, Typed, trustVars, runner, histories
<1>2. CASE HealthBegins
  <2>1. health' \in Checks BY <1>2 DEF HealthBegins, Checks, Recovering, Typed, Records
  <2> QED BY <1>2, <2>1 DEF HealthBegins, Typed, trustVars, runner, histories
<1>3. CASE HealthGood
  <2>1. recovery' \in Records /\ health' \in Checks
    BY <1>3, ConstantTypes DEF HealthGood, Cleared, KeepRecord, Typed
  <2>2. state' \in States /\ UNCHANGED <<trustKept, runner>>
    BY <1>3 DEF HealthGood, Recover, Enter, RecoveryTarget, States, Typed, trustVars, trustKept
  <2> QED BY <1>3, <2>1, <2>2 DEF HealthGood, Typed, trustKept, runner, histories
<1>4. CASE HealthBadGivesUp
  <2>1. state' \in States BY <1>4 DEF HealthBadGivesUp, DegradeUnhealthy, Enter, Stay, States, Typed
  <2> QED BY <1>4, <2>1, ConstantTypes DEF HealthBadGivesUp, Typed, trustKept, runner, histories
<1>5. CASE HealthBadRestarts
  <2>1. state' \in States BY <1>5 DEF HealthBadRestarts, DegradeUnhealthy, Enter, Stay, States, Typed
  <2>2. recovery.attempts + 1 \in 0..MaxAttempts
    BY <1>5, ControlConstants DEF HealthBadRestarts, RestartsLeft, Typed, Records
  <2>3. recovery' \in Records BY <1>5, <2>2 DEF HealthBadRestarts, WithRestart, Records
  <2>4. health' \in Checks BY <1>5 DEF HealthBadRestarts, NotChecking, Checks
  <2> QED BY <1>5, <2>1, <2>3, <2>4 DEF HealthBadRestarts, Typed, trustKept, runner, histories
<1>6. CASE HealthWakes
  BY <1>6, ConstantTypes DEF HealthWakes, Typed, trustVars, runner, histories
<1> QED BY <1>1, <1>2, <1>3, <1>4, <1>5, <1>6 DEF HealthStep

LEMMA StartupTyped ==
  ASSUME Typed, Startup
  PROVE  Typed'
<1>0. Starter \in Callers /\ {"startup", "manifest", "resume", "startup_refresh"} \subseteq Pcs BY DEF Callers, Pcs
<1>1. CASE NodeBoots
  <2>1. [pc |-> "startup", grant |-> trust] \in Ops BY DEF Ops, Pcs, Typed
  <2>2. op' \in [Callers -> Ops] BY <1>0, <1>1, <2>1 DEF NodeBoots, Typed
  <2>3. govStatus' \in {"unknown", "fresh", "stale"} BY <1>1, FreshnessType DEF NodeBoots, Typed
  <2>4. /\ up' \in {"down", "refused", "syncing", "serving"} /\ state' \in States
        /\ trust' \in 0..MaxGrants /\ grants' \in 0..MaxGrants
    BY <1>1, TrustStepsTyped DEF NodeBoots
  <2> QED BY <1>1, <2>2, <2>3, <2>4 DEF NodeBoots, Typed, monitoring, histories
<1>2. CASE StartupDecides
  <2>1. PICK pc \in Pcs : op' = [op EXCEPT ![Starter] = At(pc)] \/ op' = [op EXCEPT ![Starter].pc = pc]
    BY <1>0, <1>2 DEF StartupDecides, SubmitBegins
  <2>3. op' \in [Callers -> Ops] BY ZenonT(60), <1>0, <2>1, OpTypes
  <2>2. state' \in States /\ UNCHANGED <<trustKept, runner>>
    BY <1>2 DEF StartupDecides, SubmitBegins, Enter, States, Typed, trustVars, trustKept
  <2> QED BY <1>2, <2>2, <2>3 DEF StartupDecides, Typed, trustKept, runner, monitoring, histories
<1>3. CASE StartupResumes
  <2>1. op' \in [Callers -> Ops] BY <1>0, <1>3, OpTypes DEF StartupResumes
  <2> QED BY <1>3, <2>1 DEF StartupResumes, Enter, Typed, States, trustKept, runner, monitoring, histories
<1>4. CASE NodeServes
  BY <1>4, TrustStepsTyped DEF NodeServes, Typed, runner, monitoring, histories
<1> QED BY <1>1, <1>2, <1>3, <1>4 DEF Startup

LEMMA TypedStep ==
  ASSUME Typed, [Next]_vars
  PROVE  Typed'
<1>1. CASE NodeOnboards
  BY <1>1, TrustStepsTyped DEF NodeOnboards, Typed, runner, monitoring, histories
<1>2. CASE NodeRerequestsTrust \/ NodeRemoved
  <2>1. /\ up' \in {"down", "refused", "syncing", "serving"} /\ state' \in States
        /\ trust' \in 0..MaxGrants /\ grants' \in 0..MaxGrants
    BY <1>2, TrustStepsTyped DEF NodeRerequestsTrust, NodeRemoved
  <2>2. overtaken' \in BOOLEAN BY <1>2 DEF NodeRerequestsTrust, NodeRemoved, ClearLocalState, Typed
  <2> QED BY <1>2, <2>1, <2>2, Bounds DEF NodeRerequestsTrust, NodeRemoved, ClearLocalState, Typed, monitoring
<1>3. CASE ProcessEnds
  <2>1. op' \in [Callers -> Ops] BY <1>3, ConstantTypes DEF ProcessEnds, ForgetProcess
  <2>2. /\ up' \in {"down", "refused", "syncing", "serving"} /\ state' \in States
        /\ trust' \in 0..MaxGrants /\ grants' \in 0..MaxGrants
    BY <1>3, TrustStepsTyped DEF ProcessEnds, ForgetProcess
  <2> QED BY <1>3, <2>1, <2>2, ConstantTypes DEF ProcessEnds, ForgetProcess, Typed
<1>4. CASE RecoverFromDegraded
  BY <1>4 DEF RecoverFromDegraded, Recover, Enter, RecoveryTarget, Typed, States, trustKept, runner, monitoring, histories
<1>5. CASE GovernanceAges
  BY <1>5 DEF GovernanceAges, Typed, trustVars, monitoring, histories
<1>6. CASE UNCHANGED vars
  BY <1>6 DEF vars, trustVars, runner, monitoring, histories, Typed
<1> QED BY <1>1, <1>2, <1>3, <1>4, <1>5, <1>6, StartupTyped, HealthTyped, RequestsTyped, RunnerTyped DEF Next

LEMMA InitTyped == Init => Typed
BY Bounds, ConstantTypes DEF Init, TrustInit, Typed, States

(* The types of NodeControl's variables are kept.                          *)
THEOREM TypeCorrect == Spec => []TypeOK
<1>1. Spec => []Typed
  BY InitTyped, TypedStep, PTL DEF Spec
<1> QED BY <1>1, TypedIsTypeOK, PTL

-----------------------------------------------------------------------------
(* Who runs when *)

(* Operations run in a process that is up, with the approval they were     *)
(* given; start-up ends before the API serves, and has trust; the health   *)
(* monitor runs while the API serves.                                      *)
ProcessInv ==
  /\ up = "syncing" => trust # 0 /\ state \in ActiveStates
  /\ \A c \in Callers : op[c].pc # "idle" => op[c].grant # 0 /\ up \in {"syncing", "serving"}
  /\ op[Starter].pc # "idle" => up = "syncing"
  /\ \A c \in Requests : op[c].pc \notin {"startup", "startup_refresh", "resume"}
  /\ health.pc # "idle" => up = "serving"

(* What a step does to the operations, as seen from one of them.           *)
Begun(c, pc) == \A d \in Callers : op'[d] = IF d = c THEN At(pc) ELSE op[d]
Moved(c, pc) ==
  \A d \in Callers : /\ op'[d].pc = IF d = c THEN pc ELSE op[d].pc
                     /\ op'[d].grant = op[d].grant
Over(c) == \A d \in Callers : op'[d] = IF d = c THEN Idle ELSE op[d]

LEMMA OpShapes ==
  ASSUME Typed, NEW c \in Callers
  PROVE  /\ \A pc : op' = [op EXCEPT ![c] = At(pc)] => Begun(c, pc)
         /\ \A pc : op' = [op EXCEPT ![c].pc = pc] => Moved(c, pc)
         /\ op' = Finished(c) => Over(c)
<1>1. op \in [Callers -> Ops] BY DEF Typed
<1>2. \A pc : op' = [op EXCEPT ![c] = At(pc)] => Begun(c, pc) BY <1>1 DEF Begun
<1>3. \A pc : op' = [op EXCEPT ![c].pc = pc] => Moved(c, pc) BY <1>1 DEF Moved, Ops
<1>4. op' = Finished(c) => Over(c) BY <1>1 DEF Over, Finished
<1> QED BY <1>2, <1>3, <1>4

(* Steps of the runner: the point an operation has reached changes, and    *)
(* the process and its trust do not.                                       *)
LEMMA RunnerShape ==
  ASSUME Typed, NEW c \in Callers, RunnerAnswers(c)
  PROVE  /\ UNCHANGED <<trustKept, health>> /\ op[c].pc # "idle"
         /\ \/ Over(c)
            \/ op[c].pc = "manifest" /\ Moved(c, "governance") /\ UNCHANGED state
            \/ op[c].pc = "governance" /\ Moved(c, "providers") /\ UNCHANGED state
            \/ op[c].pc = "startup_refresh" /\ Moved(c, "resume") /\ UNCHANGED state
         /\ \/ UNCHANGED state
            \/ state' = "degraded" /\ MayTransition(FailedRetry)
            \/ state' = "operational" /\ MayTransition(DeclAccepted)
<1> USE OpShapes DEF trustVars, trustKept, monitoring, Enter, Stay
<1>1. CASE ManifestAccepted(c) BY <1>1 DEF ManifestAccepted
<1>2. CASE ManifestRefused(c) BY <1>2 DEF ManifestRefused, FailDeclaration
<1>3. CASE GovernanceUnavailable(c) BY <1>3 DEF GovernanceUnavailable, FailDeclaration
<1>4. CASE GovernanceSynced(c) BY <1>4 DEF GovernanceSynced
<1>5. CASE DeclarationEnds(c) BY <1>5 DEF DeclarationEnds
<1>6. CASE ProvidersRaise(c) BY <1>6 DEF ProvidersRaise
<1>7. CASE \E yes \in BOOLEAN : RedeclareAnswered(c, yes) BY <1>7 DEF RedeclareAnswered
<1>8. CASE \E yes \in BOOLEAN : RefreshAnswered(c, yes) BY <1>8 DEF RefreshAnswered
<1> QED BY <1>1, <1>2, <1>3, <1>4, <1>5, <1>6, <1>7, <1>8 DEF RunnerAnswers

LEMMA RequestShape ==
  ASSUME Typed, NEW c \in Requests, Declare(c) \/ Redeclare(c) \/ RefreshGovernance(c)
  PROVE  /\ UNCHANGED <<trustKept, monitoring, profile, gov, govStatus, histories>> /\ Serving /\ trust # 0 /\ op[c] = Idle
         /\ \/ Begun(c, "manifest") /\ state \in DeclarableStates /\ state' = InProgress
            \/ (Begun(c, "redeclare") \/ Begun(c, "refresh")) /\ UNCHANGED state
<1> USE OpShapes DEF trustVars, trustKept, Callers, runner
<1>1. CASE Declare(c) BY <1>1 DEF Declare, DeclarationAllowed, SubmitBegins, Enter
<1>2. CASE Redeclare(c) BY <1>2 DEF Redeclare
<1>3. CASE RefreshGovernance(c) BY <1>3 DEF RefreshGovernance
<1> QED BY <1>1, <1>2, <1>3

LEMMA HealthShape ==
  ASSUME Typed, HealthStep \/ HealthWakes
  PROVE  /\ UNCHANGED <<trustKept, profile, gov, govStatus, op, histories>>
         /\ health'.pc # "idle" => Serving \/ health.pc # "idle"
         /\ \/ UNCHANGED state
            \/ /\ health.pc = "checking"
               /\ \/ state = "degraded" /\ state' = RecoveryTarget
                  \/ MayTransition("degraded") /\ state' = "degraded"
<1> USE DEF trustVars, trustKept, runner, NotChecking
<1>1. CASE HealthSkipped BY <1>1 DEF HealthSkipped
<1>2. CASE HealthBegins BY <1>2 DEF HealthBegins
<1>3. CASE HealthGood BY <1>3 DEF HealthGood, Recover, Enter
<1>4. CASE HealthBadGivesUp BY <1>4 DEF HealthBadGivesUp, DegradeUnhealthy, Enter, Stay
<1>5. CASE HealthBadRestarts
  <2>1. health.pc = "checking" /\ DegradeUnhealthy /\ UNCHANGED <<trustKept, runner, op, histories>>
    BY <1>5 DEF HealthBadRestarts
  <2> QED BY <2>1 DEF DegradeUnhealthy, Enter, Stay
<1>6. CASE HealthWakes BY <1>6 DEF HealthWakes
<1> QED BY <1>1, <1>2, <1>3, <1>4, <1>5, <1>6 DEF HealthStep

LEMMA StartupShape ==
  ASSUME Typed, Startup
  PROVE  \/ /\ NodeBoots /\ UNCHANGED <<profile, gov, monitoring, histories>>
            /\ IF up' = "syncing" THEN \A d \in Callers : op'[d] = IF d = Starter THEN [pc |-> "startup", grant |-> trust] ELSE op[d]
               ELSE UNCHANGED op
         \/ /\ op[Starter].pc = "startup" /\ UNCHANGED <<trustKept, monitoring, profile, gov, govStatus, histories>>
            /\ \/ Begun(Starter, "manifest") /\ state' = InProgress /\ profile = 0
               \/ Moved(Starter, "resume") /\ UNCHANGED state /\ profile # 0 /\ govStatus = "fresh"
               \/ Moved(Starter, "startup_refresh") /\ UNCHANGED state /\ profile # 0
         \/ /\ op[Starter].pc = "resume" /\ Over(Starter) /\ state' = "operational"
            /\ UNCHANGED <<trustKept, monitoring, profile, gov, govStatus, histories>>
         \/ NodeServes
<1>0. Starter \in Callers BY DEF Callers
<1>1. CASE NodeBoots
  <2>1. UNCHANGED <<profile, gov, monitoring, histories>> BY <1>1 DEF NodeBoots
  <2>2. IF up' = "syncing" THEN op' = [op EXCEPT ![Starter] = [pc |-> "startup", grant |-> trust]] ELSE UNCHANGED op
    BY <1>1 DEF NodeBoots
  <2>3. up' = "syncing" => \A d \in Callers : op'[d] = IF d = Starter THEN [pc |-> "startup", grant |-> trust] ELSE op[d]
    BY <1>0, <2>2 DEF Typed
  <2> QED BY <1>1, <2>1, <2>2, <2>3
<1>2. CASE StartupDecides
  <2>1. op[Starter].pc = "startup" /\ UNCHANGED <<trustKept, monitoring, profile, gov, govStatus, histories>>
    BY <1>2 DEF StartupDecides, SubmitBegins, trustVars, trustKept, runner
  <2>2. \/ op' = [op EXCEPT ![Starter] = At("manifest")] /\ state' = InProgress /\ profile = 0
        \/ op' = [op EXCEPT ![Starter].pc = "resume"] /\ UNCHANGED state /\ profile # 0 /\ govStatus = "fresh"
        \/ op' = [op EXCEPT ![Starter].pc = "startup_refresh"] /\ UNCHANGED state /\ profile # 0
    BY <1>2 DEF StartupDecides, SubmitBegins, Enter, trustVars
  <2> QED BY <1>0, <2>1, <2>2, OpShapes
<1>3. CASE StartupResumes
  BY <1>0, <1>3, OpShapes DEF StartupResumes, Enter, runner
<1> QED BY <1>1, <1>2, <1>3 DEF Startup

(* A step of a process ending: nothing runs any more.                      *)
LEMMA ProcessEndsShape ==
  ASSUME ProcessEnds
  PROVE  /\ up' = "down" /\ state' = "unconfigured" /\ \A c \in Callers : op'[c] = Idle
         /\ health' = NotChecking /\ govStatus' = "unknown"
         /\ UNCHANGED <<trust, profile, gov, histories>>
BY DEF ProcessEnds, ForgetProcess, ProcessDies, histories

(* A step of an operator, of Core or of the onboarding, while the API      *)
(* serves.                                                                 *)
LEMMA OutsideShape ==
  ASSUME Typed, NodeOnboards \/ NodeRerequestsTrust \/ NodeRemoved \/ RecoverFromDegraded \/ GovernanceAges
  PROVE  /\ UNCHANGED <<up, op, health, stranded>>
         /\ trust' = trust \/ Serving \/ trust' = grants + 1
         /\ \/ UNCHANGED state
            \/ Serving /\ (state' \in {"unconfigured", "onboarding", "degraded", SetupPending}
                           \/ (state = "degraded" /\ state' = RecoveryTarget))
         /\ state' = "operational" => state = "operational" \/ (profile # 0 /\ govStatus = "fresh")
         /\ state' = InProgress => state = InProgress
         /\ \/ UNCHANGED <<profile, gov, govStatus, overtaken>>
            \/ ClearLocalState /\ state' \in {"unconfigured", "onboarding"}
<1> USE DEF trustVars, trustKept, runner, monitoring, histories
<1>0. /\ RecoveryTarget \in {"operational", SetupPending}
      /\ RecoveryTarget = "operational" => profile # 0 /\ govStatus = "fresh"
  BY DEF RecoveryTarget, SetupPending
<1>1. CASE NodeOnboards
  BY <1>1 DEF NodeOnboards, Onboards, BeginSetup, SetupFails, TrustStored, Activated, SetupRestarted, SetupPending, InProgress
<1>2. CASE NodeRerequestsTrust \/ NodeRemoved
  BY <1>2 DEF NodeRerequestsTrust, NodeRemoved, TrustRerequested, CoreRemovedNode, InProgress
<1>3. CASE RecoverFromDegraded
  BY <1>0, <1>3 DEF RecoverFromDegraded, Recover, Enter, SetupPending, InProgress
<1>4. CASE GovernanceAges
  BY <1>4 DEF GovernanceAges
<1> QED BY <1>1, <1>2, <1>3, <1>4

LEMMA ProcessStep ==
  ASSUME Typed, ProcessInv, [Next]_vars
  PROVE  ProcessInv'
<1>0. /\ Starter \in Callers /\ \A c \in Requests : c \in Callers /\ c # Starter
      /\ \A c \in Callers : c = Starter \/ c \in Requests
  BY ControlConstants DEF Callers
<1>1. Idle.pc = "idle" /\ NotChecking.pc = "idle" BY DEF Idle, NotChecking
<1>2. \A pc : At(pc).pc = pc /\ At(pc).grant = trust BY DEF At
<1>3. ASSUME NEW c \in Callers, RunnerAnswers(c) PROVE ProcessInv'
  <2>1. /\ UNCHANGED <<trustKept, health>> /\ op[c].pc # "idle"
        /\ \/ Over(c)
           \/ op[c].pc = "manifest" /\ Moved(c, "governance") /\ UNCHANGED state
           \/ op[c].pc = "governance" /\ Moved(c, "providers") /\ UNCHANGED state
           \/ op[c].pc = "startup_refresh" /\ Moved(c, "resume") /\ UNCHANGED state
        /\ \/ UNCHANGED state
           \/ state' = "degraded" /\ MayTransition(FailedRetry)
           \/ state' = "operational" /\ MayTransition(DeclAccepted)
    BY <1>3, RunnerShape
  <2>2. up' = "syncing" => trust' # 0 /\ state' \in ActiveStates
    BY <2>1, Transitions DEF ProcessInv, Typed, trustKept
  <2>3. \A d \in Callers : op'[d].pc # "idle" => op[d].pc # "idle" /\ op'[d].grant = op[d].grant
    BY <1>1, <2>1 DEF Over, Moved
  <2>4. \A d \in Requests : op'[d].pc \notin {"startup", "startup_refresh", "resume"}
    BY <1>0, <1>1, <2>1 DEF Over, Moved, ProcessInv
  <2> QED BY <1>0, <2>1, <2>2, <2>3, <2>4 DEF ProcessInv, trustKept
<1>4. ASSUME NEW c \in Requests, Declare(c) \/ Redeclare(c) \/ RefreshGovernance(c) PROVE ProcessInv'
  <2>1. /\ UNCHANGED <<trustKept, monitoring>> /\ Serving /\ trust # 0 /\ c \in Callers
        /\ \E pc \in {"manifest", "redeclare", "refresh"} : Begun(c, pc)
    BY <1>0, <1>4, RequestShape
  <2>2. up' = "serving" /\ health' = health /\ trust' # 0 BY <2>1 DEF Serving, trustKept, monitoring
  <2>3. \A d \in Callers : op'[d] = op[d] \/ (d = c /\ op'[d].grant = trust /\ op'[d].pc \in {"manifest", "redeclare", "refresh"})
    BY <1>2, <2>1 DEF Begun
  <2> QED BY <1>0, <2>1, <2>2, <2>3 DEF ProcessInv, Serving
<1>5. CASE HealthStep \/ HealthWakes
  <2>1. /\ UNCHANGED <<trustKept, op>>
        /\ health'.pc # "idle" => Serving \/ health.pc # "idle"
        /\ \/ UNCHANGED state
           \/ health.pc = "checking"
    BY <1>5, HealthShape
  <2> QED BY <2>1 DEF ProcessInv, trustKept, Serving
<1>6. CASE Startup
  <2>1. CASE NodeBoots
    <3>1. /\ up \in {"down", "refused"} /\ up' \in {"refused", "syncing", "serving"}
          /\ up' = "syncing" => trust # 0 /\ state' = SetupPending
          /\ UNCHANGED <<trust, health>>
      BY <2>1 DEF NodeBoots, ProcessStarts, monitoring
    <3>2. IF up' = "syncing" THEN op' = [op EXCEPT ![Starter] = [pc |-> "startup", grant |-> trust]] ELSE UNCHANGED op
      BY <2>1 DEF NodeBoots
    <3>3. (\A d \in Callers : op[d].pc = "idle") /\ health'.pc = "idle" BY <3>1 DEF ProcessInv
    <3>4. CASE up' = "syncing"
      <4>1. \A d \in Callers : op'[d] = IF d = Starter THEN [pc |-> "startup", grant |-> trust] ELSE op[d]
        BY <3>2, <3>4 DEF Typed
      <4>2. \A d \in Callers : op'[d].pc # "idle" => d = Starter /\ op'[d].grant # 0 BY <3>1, <3>3, <3>4, <4>1
      <4> QED BY <1>0, <3>1, <3>3, <3>4, <4>2, Transitions DEF ProcessInv, Typed, ActiveStates
    <3>5. CASE up' # "syncing"
      BY <1>0, <3>1, <3>2, <3>3, <3>5 DEF ProcessInv
    <3> QED BY <3>4, <3>5
  <2>2. CASE op[Starter].pc = "startup" /\ UNCHANGED <<trustKept, monitoring>>
             /\ \/ Begun(Starter, "manifest") /\ state' = InProgress
                \/ Moved(Starter, "resume") /\ UNCHANGED state
                \/ Moved(Starter, "startup_refresh") /\ UNCHANGED state
    <3>1. up = "syncing" /\ up' = up /\ trust' = trust /\ trust # 0 /\ health' = health
      BY <2>2 DEF ProcessInv, trustKept, monitoring
    <3>2. state' \in ActiveStates BY <2>2, <3>1 DEF ProcessInv, ActiveStates
    <3>3. /\ \A d \in Callers : op'[d].pc # "idle" => op'[d].grant # 0
          /\ \A d \in Requests : op'[d].pc = op[d].pc
      BY <1>0, <1>2, <2>2, <3>1 DEF Begun, Moved, ProcessInv
    <3> QED BY <3>1, <3>2, <3>3 DEF ProcessInv
  <2>3. CASE op[Starter].pc = "resume" /\ Over(Starter) /\ state' = "operational" /\ UNCHANGED <<trustKept, monitoring>>
    <3>1. up = "syncing" /\ up' = up /\ trust' = trust /\ trust # 0 /\ health' = health
      BY <2>3 DEF ProcessInv, trustKept, monitoring
    <3>2. \A d \in Callers : op'[d].pc # "idle" => op'[d] = op[d] BY <1>1, <2>3 DEF Over
    <3>3. op'[Starter].pc = "idle" /\ \A d \in Requests : op'[d] = op[d] BY <1>0, <1>1, <2>3 DEF Over
    <3> QED BY <2>3, <3>1, <3>2, <3>3 DEF ProcessInv, ActiveStates
  <2>4. CASE NodeServes
    <3>1. up = "syncing" /\ up' = "serving" /\ op' = op /\ op[Starter] = Idle /\ health' = health
      BY <2>4 DEF NodeServes, StartupEnds, monitoring
    <3> QED BY <1>0, <1>1, <3>1 DEF ProcessInv
  <2> QED BY <1>6, <2>1, <2>2, <2>3, <2>4, StartupShape
<1>7. CASE ProcessEnds
  BY <1>0, <1>1, <1>7, ProcessEndsShape DEF ProcessInv
<1>8. CASE NodeOnboards \/ NodeRerequestsTrust \/ NodeRemoved \/ RecoverFromDegraded \/ GovernanceAges
  <2>1. /\ UNCHANGED <<up, op, health>>
        /\ trust' = trust \/ Serving \/ trust' = grants + 1
        /\ UNCHANGED state \/ Serving
    BY <1>8, OutsideShape
  <2>2. up' = "syncing" => trust' # 0 BY <2>1, GrantBound DEF ProcessInv, Serving, Typed
  <2> QED BY <2>1, <2>2 DEF ProcessInv, Serving
<1>9. CASE UNCHANGED vars
  BY <1>9 DEF vars, trustVars, monitoring, ProcessInv, ActiveStates
<1> QED BY <1>3, <1>4, <1>5, <1>6, <1>7, <1>8, <1>9 DEF Next

LEMMA InitProcess == Init => ProcessInv
BY DEF Init, TrustInit, ProcessInv, Idle, NotChecking, Callers

-----------------------------------------------------------------------------
(* What an operational node has *)

(* What each operation has obtained by the point it has reached.           *)
DeclaredInv ==
  ~overtaken =>
    /\ state = "operational" => profile # 0 /\ gov # 0
    /\ govStatus = "fresh" => gov # 0
    /\ \A c \in Callers :
         /\ op[c].pc \in {"governance", "startup_refresh"} => profile # 0
         /\ op[c].pc \in {"providers", "resume"} => profile # 0 /\ gov # 0

LEMMA RunnerDeclares ==
  ASSUME Typed, ProcessInv, DeclaredInv, NEW c \in Callers, RunnerAnswers(c)
  PROVE  DeclaredInv'
<1>1. /\ op[c].pc # "idle" /\ op[c].grant # 0 /\ Idle.pc = "idle" /\ UNCHANGED overtaken
  BY RunnerShape DEF ProcessInv, Idle, RunnerAnswers, ManifestAccepted, ManifestRefused, GovernanceSynced,
     GovernanceUnavailable, DeclarationEnds, ProvidersRaise, RedeclareAnswered, RefreshAnswered, histories
<1>2. SUFFICES ASSUME ~overtaken PROVE DeclaredInv' BY <1>1 DEF DeclaredInv
<1> USE DEF runner, trustVars, histories
<1>3. /\ state = "operational" => profile # 0 /\ gov # 0
      /\ govStatus = "fresh" => gov # 0
      /\ \A d \in Callers :
           /\ op[d].pc \in {"governance", "startup_refresh"} => profile # 0
           /\ op[d].pc \in {"providers", "resume"} => profile # 0 /\ gov # 0
  BY <1>2 DEF DeclaredInv
(* A step that keeps what was obtained and adds to it.                     *)
<1>4. ASSUME profile # 0 => profile' # 0, gov # 0 => gov' # 0, govStatus' = "fresh" => gov' # 0,
             state' = "operational" => state = "operational" \/ (profile' # 0 /\ gov' # 0),
             \/ Over(c)
             \/ Moved(c, "governance") /\ profile' # 0
             \/ Moved(c, "providers") /\ profile' # 0 /\ gov' # 0
             \/ Moved(c, "resume") /\ profile' # 0 /\ gov' # 0
      PROVE  DeclaredInv'
  <2>1. \A d \in Callers :
          /\ op'[d].pc \in {"governance", "startup_refresh"} => profile' # 0
          /\ op'[d].pc \in {"providers", "resume"} => profile' # 0 /\ gov' # 0
    <3> TAKE d \in Callers
    <3>1. CASE d # c
      <4>1. op'[d].pc = op[d].pc BY <1>4, <3>1 DEF Over, Moved
      <4> QED BY <1>3, <1>4, <4>1
    <3>2. CASE d = c
      <4>1. \/ op'[c].pc = "idle"
            \/ op'[c].pc = "governance" /\ profile' # 0
            \/ op'[c].pc = "providers" /\ profile' # 0 /\ gov' # 0
            \/ op'[c].pc = "resume" /\ profile' # 0 /\ gov' # 0
        BY <1>1, <1>4 DEF Over, Moved
      <4> QED BY <3>2, <4>1
    <3> QED BY <3>1, <3>2
  <2> QED BY <1>3, <1>4, <2>1 DEF DeclaredInv
<1>5. CASE ManifestAccepted(c)
  <2>1. Moved(c, "governance") BY <1>5, OpShapes DEF ManifestAccepted
  <2>2. profile' # 0 /\ UNCHANGED <<gov, govStatus, state>> BY <1>1, <1>5 DEF ManifestAccepted
  <2> QED BY <1>3, <1>4, <2>1, <2>2
<1>6. CASE ManifestRefused(c) \/ GovernanceUnavailable(c)
  <2>1. Over(c) BY <1>6, OpShapes DEF ManifestRefused, GovernanceUnavailable
  <2>2. UNCHANGED <<profile, gov, govStatus>> /\ (state' = state \/ state' = "degraded")
    BY <1>6 DEF ManifestRefused, GovernanceUnavailable, FailDeclaration, Enter, Stay
  <2> QED BY <1>3, <1>4, <2>1, <2>2
<1>7. CASE GovernanceSynced(c)
  <2>1. Moved(c, "providers") /\ op[c].pc = "governance" BY <1>7, OpShapes DEF GovernanceSynced
  <2>2. UNCHANGED <<profile, state>> /\ gov' # 0 BY <1>1, <1>7 DEF GovernanceSynced, SaveGovernance
  <2> QED BY <1>3, <1>4, <2>1, <2>2
<1>8. CASE DeclarationEnds(c)
  <2>1. Over(c) /\ op[c].pc = "providers" BY <1>8, OpShapes DEF DeclarationEnds
  <2>2. UNCHANGED <<profile, gov, govStatus>> BY <1>8 DEF DeclarationEnds
  <2> QED BY <1>3, <1>4, <2>1, <2>2
<1>9. CASE ProvidersRaise(c)
  <2>1. Over(c) BY <1>9, OpShapes DEF ProvidersRaise
  <2>2. UNCHANGED <<profile, gov, govStatus, state>> BY <1>9 DEF ProvidersRaise
  <2> QED BY <1>3, <1>4, <2>1, <2>2
<1>10. ASSUME NEW yes \in BOOLEAN, RedeclareAnswered(c, yes) PROVE DeclaredInv'
  <2>1. Over(c) BY <1>10, OpShapes DEF RedeclareAnswered
  <2>2. UNCHANGED <<gov, govStatus, state>> /\ (profile' = profile \/ profile' # 0) BY <1>1, <1>10 DEF RedeclareAnswered
  <2> QED BY <1>3, <1>4, <2>1, <2>2
<1>11. ASSUME NEW yes \in BOOLEAN, RefreshAnswered(c, yes) PROVE DeclaredInv'
  <2>1. UNCHANGED <<profile, state>> BY <1>11 DEF RefreshAnswered
  <2>2. \/ gov' # 0
        \/ gov' = gov /\ govStatus' = Freshness(gov, govAged)
    BY <1>1, <1>11 DEF RefreshAnswered, SaveGovernance
  <2>3. govStatus' = "fresh" => gov' # 0 BY <2>2 DEF Freshness
  <2>4. \/ Over(c)
        \/ Moved(c, "resume") /\ op[c].pc = "startup_refresh" /\ gov' # 0
    BY <1>1, <1>11, OpShapes DEF RefreshAnswered, SaveGovernance
  <2>5. Moved(c, "resume") /\ op[c].pc = "startup_refresh" => profile' # 0 BY <1>3, <2>1
  <2> QED BY <1>4, <2>1, <2>2, <2>3, <2>4, <2>5
<1> QED BY <1>5, <1>6, <1>7, <1>8, <1>9, <1>10, <1>11 DEF RunnerAnswers

LEMMA DeclaredStep ==
  ASSUME Typed, ProcessInv, DeclaredInv, [Next]_vars
  PROVE  DeclaredInv'
<1>0. /\ Starter \in Callers /\ \A c \in Requests : c \in Callers
      /\ Idle.pc = "idle" /\ \A pc : At(pc).pc = pc
  BY DEF Callers, Idle, At
<1>1. ASSUME UNCHANGED <<profile, gov, govStatus, overtaken>>,
             state' = "operational" => state = "operational" \/ (profile # 0 /\ gov # 0) \/ overtaken,
             \A c \in Callers : \/ op'[c].pc \notin {"governance", "startup_refresh", "providers", "resume"}
                                \/ op'[c].pc = op[c].pc
                                \/ op'[c].pc = "startup_refresh" /\ profile # 0
                                \/ op'[c].pc = "resume" /\ profile # 0 /\ govStatus = "fresh"
      PROVE  DeclaredInv'
  <2> SUFFICES ASSUME ~overtaken PROVE DeclaredInv' BY <1>1 DEF DeclaredInv
  <2>1. /\ state = "operational" => profile # 0 /\ gov # 0
        /\ govStatus = "fresh" => gov # 0
        /\ \A d \in Callers :
             /\ op[d].pc \in {"governance", "startup_refresh"} => profile # 0
             /\ op[d].pc \in {"providers", "resume"} => profile # 0 /\ gov # 0
    BY DEF DeclaredInv
  <2>2. \A c \in Callers :
          /\ op'[c].pc \in {"governance", "startup_refresh"} => profile # 0
          /\ op'[c].pc \in {"providers", "resume"} => profile # 0 /\ gov # 0
    <3> TAKE c \in Callers
    <3>1. CASE op'[c].pc = op[c].pc BY <2>1, <3>1
    <3>2. CASE op'[c].pc # op[c].pc BY <1>1, <2>1, <3>2
    <3> QED BY <3>1, <3>2
  <2> QED BY <1>1, <2>1, <2>2 DEF DeclaredInv
<1>2. ASSUME NEW c \in Callers, RunnerAnswers(c) PROVE DeclaredInv'
  BY <1>2, RunnerDeclares
<1>3. ASSUME NEW c \in Requests, Declare(c) \/ Redeclare(c) \/ RefreshGovernance(c) PROVE DeclaredInv'
  <2>1. /\ UNCHANGED <<profile, gov, govStatus, histories>> /\ state' \in {InProgress, state}
        /\ \E pc \in {"manifest", "redeclare", "refresh"} : Begun(c, pc)
    BY <1>3, RequestShape
  <2>2. \A d \in Callers : op'[d] = op[d] \/ op'[d].pc \in {"manifest", "redeclare", "refresh"}
    BY <1>0, <2>1 DEF Begun
  <2> QED BY <1>1, <2>1, <2>2 DEF histories, InProgress
<1>4. CASE HealthStep \/ HealthWakes
  <2>1. /\ UNCHANGED <<profile, gov, govStatus, op, histories>>
        /\ \/ UNCHANGED state
           \/ state' = RecoveryTarget
           \/ state' = "degraded"
    BY <1>4, HealthShape
  <2>2. state' = "operational" => state = "operational" \/ (profile # 0 /\ govStatus = "fresh")
    BY <2>1 DEF RecoveryTarget, SetupPending
  <2>3. state' = "operational" => state = "operational" \/ (profile # 0 /\ gov # 0) \/ overtaken
    BY <2>2 DEF DeclaredInv
  <2> QED BY <1>1, <2>1, <2>3 DEF histories
<1>5. CASE Startup
  <2>1. CASE NodeBoots
    <3>1. UNCHANGED <<profile, gov, histories>> /\ govStatus' = Freshness(gov, govAged)
          /\ (state' = state \/ state' \in {SetupPending, "unconfigured", "onboarding"})
      BY <2>1 DEF NodeBoots, ProcessStarts
    <3>2. \A d \in Callers : op'[d].pc = op[d].pc \/ op'[d].pc = "startup"
      BY <2>1 DEF NodeBoots, Typed
    <3> SUFFICES ASSUME ~overtaken PROVE DeclaredInv' BY <3>1 DEF DeclaredInv, histories
    <3>3. govStatus' = "fresh" => gov' # 0 BY <3>1 DEF Freshness
    <3>4. state' = "operational" => state = "operational" BY <3>1 DEF SetupPending
    <3> QED BY <3>1, <3>2, <3>3, <3>4 DEF DeclaredInv
  <2>2. CASE op[Starter].pc = "startup" /\ UNCHANGED <<profile, gov, govStatus, histories>>
             /\ \/ Begun(Starter, "manifest") /\ state' = InProgress
                \/ Moved(Starter, "resume") /\ UNCHANGED state /\ profile # 0 /\ govStatus = "fresh"
                \/ Moved(Starter, "startup_refresh") /\ UNCHANGED state /\ profile # 0
    BY <1>0, <1>1, <2>2 DEF Begun, Moved, histories, InProgress
  <2>3. CASE op[Starter].pc = "resume" /\ Over(Starter) /\ state' = "operational"
             /\ UNCHANGED <<profile, gov, govStatus, histories>>
    <3>1. (profile # 0 /\ gov # 0) \/ overtaken BY <1>0, <2>3 DEF DeclaredInv
    <3>2. \A c \in Callers : op'[c].pc = "idle" \/ op'[c].pc = op[c].pc BY <1>0, <2>3 DEF Over
    <3> QED BY <1>1, <2>3, <3>1, <3>2 DEF histories
  <2>4. CASE NodeServes
    BY <1>1, <2>4 DEF NodeServes, StartupEnds, runner, histories
  <2> QED BY <1>5, <2>1, <2>2, <2>3, <2>4, StartupShape
<1>6. CASE ProcessEnds
  BY <1>0, <1>6, ProcessEndsShape DEF DeclaredInv, histories
<1>7. CASE NodeOnboards \/ NodeRerequestsTrust \/ NodeRemoved \/ RecoverFromDegraded \/ GovernanceAges
  <2>1. /\ UNCHANGED op
        /\ state' = "operational" => state = "operational" \/ (profile # 0 /\ govStatus = "fresh")
        /\ \/ UNCHANGED <<profile, gov, govStatus, overtaken>>
           \/ ClearLocalState /\ state' \in {"unconfigured", "onboarding"}
    BY <1>7, OutsideShape
  <2>2. CASE UNCHANGED <<profile, gov, govStatus, overtaken>>
    <3>1. state' = "operational" => state = "operational" \/ (profile # 0 /\ gov # 0) \/ overtaken
      BY <2>1 DEF DeclaredInv
    <3> QED BY <1>1, <2>1, <2>2, <3>1
  <2>3. CASE ClearLocalState /\ state' \in {"unconfigured", "onboarding"}
    <3>1. overtaken' \/ \A c \in Callers : op'[c].pc = "idle" BY <2>1, <2>3 DEF ClearLocalState, InFlight
    <3>2. govStatus' = "unknown" BY <2>3 DEF ClearLocalState
    <3> QED BY <2>3, <3>1, <3>2 DEF DeclaredInv
  <2> QED BY <2>1, <2>2, <2>3
<1>8. CASE UNCHANGED vars
  BY <1>1, <1>8 DEF vars, trustVars, runner, histories
<1> QED BY <1>2, <1>3, <1>4, <1>5, <1>6, <1>7, <1>8 DEF Next

NodeInv == Typed /\ ProcessInv /\ DeclaredInv

LEMMA NodeInvariant == Spec => []NodeInv
<1>1. Init => NodeInv
  BY InitTyped, InitProcess DEF Init, TrustInit, NodeInv, DeclaredInv, Idle
<1>2. NodeInv /\ [Next]_vars => NodeInv'
  BY TypedStep, ProcessStep, DeclaredStep DEF NodeInv
<1> QED BY <1>1, <1>2, PTL DEF Spec

(* Whatever declarations, refreshes, recoveries and restarts overlap: a    *)
(* node becomes operational with an accepted profile and with governance,  *)
(* and keeps both.                                                         *)
THEOREM OperationalMeansDeclared == Spec => []OperationalIsDeclared
<1>1. NodeInv => OperationalIsDeclared
  BY DEF NodeInv, DeclaredInv, OperationalIsDeclared
<1> QED BY <1>1, NodeInvariant, PTL

-----------------------------------------------------------------------------
(* What a declaring node does *)

LEMMA DeclaringStep ==
  ASSUME Typed, ProcessInv, DeclaringIsServed, [Next]_vars
  PROVE  DeclaringIsServed'
<1>0. /\ Starter \in Callers /\ \A c \in Requests : c \in Callers
      /\ Idle.pc = "idle" /\ \A pc : At(pc).pc = pc
  BY DEF Callers, Idle, At
<1>1. ASSUME state' = InProgress => state = InProgress, stranded => stranded',
             \A c \in Declaring : c \in Declaring' \/ state' # InProgress \/ stranded'
      PROVE  DeclaringIsServed'
  BY <1>1 DEF DeclaringIsServed
<1>2. ASSUME NEW c \in Callers, RunnerAnswers(c) PROVE DeclaringIsServed'
  <2>1. \A d \in Callers : d # c => op'[d].pc = op[d].pc
    BY <1>2, RunnerShape DEF Over, Moved
  <2>2. state' = InProgress => state = InProgress BY <1>2, RunnerShape DEF InProgress
  <2>3. /\ stranded => stranded'
        /\ c \in Declaring => c \in Declaring' \/ state' # InProgress \/ stranded'
    <3> USE Transitions, OpShapes DEF Typed, Over, Moved, Declaring, Enter, Stay, histories
    <3>1. CASE ManifestAccepted(c) BY <3>1 DEF ManifestAccepted
    <3>2. CASE ManifestRefused(c) BY <3>2 DEF ManifestRefused, FailDeclaration, InProgress
    <3>3. CASE GovernanceUnavailable(c) BY <3>3 DEF GovernanceUnavailable, FailDeclaration, InProgress
    <3>4. CASE GovernanceSynced(c) BY <3>4 DEF GovernanceSynced
    <3>5. CASE DeclarationEnds(c) BY <3>5 DEF DeclarationEnds, InProgress
    <3>6. CASE ProvidersRaise(c) BY <3>6 DEF ProvidersRaise, trustVars
    <3>7. CASE \E yes \in BOOLEAN : RedeclareAnswered(c, yes) BY <3>7 DEF RedeclareAnswered
    <3>8. CASE \E yes \in BOOLEAN : RefreshAnswered(c, yes) BY <3>8 DEF RefreshAnswered
    <3> QED BY <1>2, <3>1, <3>2, <3>3, <3>4, <3>5, <3>6, <3>7, <3>8 DEF RunnerAnswers
  <2>4. \A d \in Declaring : d # c => d \in Declaring' BY <2>1 DEF Declaring
  <2> QED BY <1>1, <2>2, <2>3, <2>4
<1>3. ASSUME NEW c \in Callers, Begun(c, "manifest") PROVE DeclaringIsServed'
  <2>1. c \in Declaring' BY <1>0, <1>3 DEF Begun, Declaring
  <2> QED BY <2>1 DEF DeclaringIsServed
<1>4. ASSUME NEW c \in Requests, Declare(c) \/ Redeclare(c) \/ RefreshGovernance(c) PROVE DeclaringIsServed'
  <2>1. CASE Begun(c, "manifest") BY <1>0, <1>3, <2>1
  <2>2. CASE (Begun(c, "redeclare") \/ Begun(c, "refresh")) /\ UNCHANGED state
    <3>1. c \notin Declaring /\ UNCHANGED stranded BY <1>0, <1>4, RequestShape DEF Declaring, histories
    <3>2. \A d \in Declaring : d \in Declaring' BY <2>2, <3>1 DEF Begun, Declaring
    <3> QED BY <1>1, <2>2, <3>1, <3>2
  <2> QED BY <1>4, <2>1, <2>2, RequestShape
<1>5. CASE HealthStep \/ HealthWakes
  <2>1. UNCHANGED <<op, histories>> /\ (state' = state \/ state' = RecoveryTarget \/ state' = "degraded")
    BY <1>5, HealthShape
  <2>2. state' = InProgress => state = InProgress BY <2>1 DEF RecoveryTarget, InProgress, SetupPending
  <2> QED BY <1>1, <2>1, <2>2 DEF Declaring, histories
<1>6. CASE Startup
  <2>1. CASE NodeBoots
    <3>1. UNCHANGED histories /\ (state' = state \/ state' # InProgress)
      BY <2>1 DEF NodeBoots, ProcessStarts, InProgress, SetupPending
    <3>2. Declaring = {} BY <2>1 DEF NodeBoots, ProcessStarts, ProcessInv, Declaring
    <3> QED BY <1>1, <3>1, <3>2 DEF histories
  <2>2. CASE Begun(Starter, "manifest") BY <1>0, <1>3, <2>2
  <2>3. CASE op[Starter].pc = "startup" /\ UNCHANGED <<state, histories>>
             /\ (Moved(Starter, "resume") \/ Moved(Starter, "startup_refresh"))
    BY <1>1, <2>3 DEF Moved, Declaring, histories
  <2>4. CASE op[Starter].pc = "resume" /\ Over(Starter) /\ state' = "operational" /\ UNCHANGED histories
    BY <1>1, <2>4 DEF InProgress, histories
  <2>5. CASE NodeServes
    BY <1>1, <2>5 DEF NodeServes, StartupEnds, Declaring, histories
  <2> QED BY <1>6, <2>1, <2>2, <2>3, <2>4, <2>5, StartupShape
<1>7. CASE ProcessEnds
  BY <1>7, ProcessEndsShape DEF DeclaringIsServed, InProgress
<1>8. CASE NodeOnboards \/ NodeRerequestsTrust \/ NodeRemoved \/ RecoverFromDegraded \/ GovernanceAges
  <2>1. UNCHANGED <<op, stranded>> /\ (state' = InProgress => state = InProgress) BY <1>8, OutsideShape
  <2> QED BY <1>1, <2>1 DEF Declaring
<1>9. CASE UNCHANGED vars
  BY <1>1, <1>9 DEF vars, trustVars, histories, Declaring
<1> QED BY <1>2, <1>4, <1>5, <1>6, <1>7, <1>8, <1>9 DEF Next

(* No failure of Core, no recovery and no restart leaves a node that says  *)
(* it is declaring without an operation that will end that.                *)
THEOREM DeclaringIsUnderWay == Spec => []DeclaringIsServed
<1>1. Init => DeclaringIsServed
  BY DEF Init, TrustInit, DeclaringIsServed, InProgress
<1>2. NodeInv /\ DeclaringIsServed /\ [Next]_vars => DeclaringIsServed'
  BY DeclaringStep DEF NodeInv
<1> QED BY <1>1, <1>2, NodeInvariant, PTL DEF Spec

-----------------------------------------------------------------------------
(* The lifecycle *)

LEMMA TrustLifecycleStep ==
  ASSUME Typed, ProcessInv, [Next]_vars
  PROVE  [TrustNext]_trustVars
<1>0. Starter \in Callers /\ \A c \in Requests : c \in Callers BY DEF Callers
<1>1. ASSUME up \in {"syncing", "serving"}, state \in ActiveStates, state' \in ActiveStates, UNCHANGED trustKept
      PROVE  TrustNext
  BY <1>1 DEF TrustNext, RunnerMoves, trustKept
<1>2. UNCHANGED <<trustKept, state>> => UNCHANGED trustVars BY DEF trustKept, trustVars
<1>3. ASSUME NEW c \in Callers, RunnerAnswers(c) PROVE [TrustNext]_trustVars
  <2>1. /\ UNCHANGED trustKept /\ op[c].pc # "idle"
        /\ \/ UNCHANGED state
           \/ state' = "degraded" /\ MayTransition(FailedRetry)
           \/ state' = "operational" /\ MayTransition(DeclAccepted)
    BY <1>3, RunnerShape
  <2>2. up \in {"syncing", "serving"} BY <2>1 DEF ProcessInv
  <2>3. UNCHANGED state \/ (state \in ActiveStates /\ state' \in ActiveStates)
    BY <2>1, Transitions DEF Typed
  <2> QED BY <1>1, <1>2, <2>1, <2>2, <2>3
<1>4. ASSUME NEW c \in Requests, Declare(c) \/ Redeclare(c) \/ RefreshGovernance(c) PROVE [TrustNext]_trustVars
  <2>1. /\ UNCHANGED trustKept /\ Serving
        /\ UNCHANGED state \/ (state \in DeclarableStates /\ state' = InProgress)
    BY <1>4, RequestShape
  <2>2. UNCHANGED state \/ (state \in ActiveStates /\ state' \in ActiveStates)
    BY <2>1, Transitions DEF Typed
  <2> QED BY <1>1, <1>2, <2>1, <2>2 DEF Serving
<1>5. CASE HealthStep \/ HealthWakes
  <2>1. /\ UNCHANGED trustKept
        /\ \/ UNCHANGED state
           \/ /\ health.pc = "checking"
              /\ \/ state = "degraded" /\ state' = RecoveryTarget
                 \/ MayTransition("degraded") /\ state' = "degraded"
    BY <1>5, HealthShape
  <2>2. CASE UNCHANGED state BY <1>2, <2>1, <2>2
  <2>3. CASE health.pc = "checking" /\ state \in ActiveStates /\ state' \in ActiveStates
    BY <1>1, <2>1, <2>3 DEF ProcessInv
  <2>4. CASE health.pc = "checking" /\ state = "onboarding" /\ state' = "degraded"
    BY <2>1, <2>4 DEF ProcessInv, TrustNext, Onboards, SetupFails, Serving, trustKept
  <2>5. \/ UNCHANGED state
        \/ health.pc = "checking" /\ state \in ActiveStates /\ state' \in ActiveStates
        \/ health.pc = "checking" /\ state = "onboarding" /\ state' = "degraded"
    BY <2>1, Transitions DEF Typed, RecoveryTarget
  <2> QED BY <2>2, <2>3, <2>4, <2>5
<1>6. CASE Startup
  <2>1. CASE NodeBoots BY <2>1 DEF NodeBoots, TrustNext
  <2>2. CASE op[Starter].pc \in {"startup", "resume"} /\ UNCHANGED trustKept
             /\ (UNCHANGED state \/ state' \in {InProgress, "operational"})
    <3>1. up = "syncing" /\ state \in ActiveStates BY <2>2 DEF ProcessInv
    <3> QED BY <1>1, <1>2, <2>2, <3>1 DEF ActiveStates
  <2>3. CASE NodeServes BY <2>3 DEF NodeServes, TrustNext
  <2> QED BY <1>6, <2>1, <2>2, <2>3, StartupShape
<1>7. CASE ProcessEnds
  BY <1>7 DEF ProcessEnds, ForgetProcess, TrustNext
<1>8. CASE NodeOnboards \/ NodeRerequestsTrust \/ NodeRemoved
  BY <1>8 DEF NodeOnboards, NodeRerequestsTrust, NodeRemoved, TrustNext
<1>9. CASE RecoverFromDegraded
  <2>1. Serving /\ state = "degraded" /\ state' = RecoveryTarget /\ UNCHANGED trustKept
    BY <1>9 DEF RecoverFromDegraded, Recover, Enter
  <2> QED BY <1>1, <2>1 DEF Serving, RecoveryTarget, ActiveStates
<1>10. CASE GovernanceAges \/ UNCHANGED vars
  BY <1>10 DEF GovernanceAges, vars
<1> QED BY <1>3, <1>4, <1>5, <1>6, <1>7, <1>8, <1>9, <1>10 DEF Next

(* The runner, the monitor and the API move the lifecycle no further than  *)
(* onboarding assumes of them: the control of a trusted node implements    *)
(* the lifecycle of its trust.                                             *)
THEOREM LifecycleKept == Spec => KeepsTrustLifecycle
<1>1. Init => TrustInit BY DEF Init
<1>2. NodeInv /\ [Next]_vars => [TrustNext]_trustVars
  BY TrustLifecycleStep DEF NodeInv
<1> QED BY <1>1, <1>2, NodeInvariant, PTL DEF Spec, KeepsTrustLifecycle, TrustSpec
=============================================================================
