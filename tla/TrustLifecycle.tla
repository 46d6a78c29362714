--------------------------- MODULE TrustLifecycle ---------------------------
(***************************************************************************)
(* What onboarding promises the rest of the node, without clients,         *)
(* threads, runs, identities or polls: the five states of an onboarding    *)
(* are one, and a trust state is known by the number of the approval that  *)
(* Core gave.  Onboarding implements this specification; NodeControl is    *)
(* composed with it.                                                       *)
(***************************************************************************)
EXTENDS NodeLifecycle, Naturals

CONSTANT MaxGrants  \* bound on the approvals of Core

ASSUME GrantBound == MaxGrants \in Nat

VARIABLES
  up,      \* the process: "down", "refused", "syncing", "serving"
  state,   \* the lifecycle state, with one state "onboarding"
  trust,   \* the approval whose trust state is stored, 0 for none
  grants   \* history: approvals so far

trustVars == <<up, state, trust, grants>>

(* Where the node can be seen once it has been activated. *)
ActiveStates == {SetupPending, InProgress, "operational", "degraded"}
PhaseStates == {"unconfigured", "onboarding"} \cup ActiveStates
PhaseOf(s) == IF s \in OnboardingStates THEN "onboarding" ELSE s

Serving == up = "serving"

BeginSetup ==
  /\ Serving /\ state = "unconfigured"
  /\ state' = "onboarding"
  /\ UNCHANGED <<up, trust, grants>>

(* The broker is not reached in time, or the registration fails. *)
SetupFails ==
  /\ Serving /\ state = "onboarding"
  /\ state' \in {"unconfigured", "degraded"}
  /\ UNCHANGED <<up, trust, grants>>

(* An approval is stored, possibly one that comes late, in any state ...   *)
TrustStored ==
  /\ up \in {"syncing", "serving"} /\ grants < MaxGrants
  /\ grants' = grants + 1 /\ trust' = grants + 1
  /\ UNCHANGED <<up, state>>

(* ... and then the node is activated, unless it has moved on.             *)
Activated ==
  /\ Serving
  /\ state \in {"unconfigured", "onboarding"}
  /\ state' = SetupPending
  /\ UNCHANGED <<up, trust, grants>>

SetupRestarted ==
  /\ Serving
  /\ state' = "unconfigured"
  /\ UNCHANGED <<up, trust, grants>>

TrustRerequested ==
  /\ Serving /\ state # "onboarding"
  /\ state' = "onboarding" /\ trust' = 0
  /\ UNCHANGED <<up, grants>>

CoreRemovedNode ==
  /\ Serving
  /\ state' = "unconfigured" /\ trust' = 0
  /\ UNCHANGED <<up, grants>>

ProcessDies ==
  /\ up' = "down" /\ state' = "unconfigured"
  /\ UNCHANGED <<trust, grants>>

(* A node with trust resumes before it serves. *)
ProcessStarts ==
  /\ up \in {"down", "refused"}
  /\ \/ trust # 0 /\ up' = "refused" /\ UNCHANGED state
     \/ trust # 0 /\ up' = "syncing" /\ state' = SetupPending
     \/ trust = 0 /\ up' = "serving" /\ state' \in {"unconfigured", "onboarding"}
  /\ UNCHANGED <<trust, grants>>

StartupEnds ==
  /\ up = "syncing" /\ up' = "serving"
  /\ UNCHANGED <<state, trust, grants>>

(* What the capability runner and the health monitor do to the state: they *)
(* move an active node only, and never to another phase.                   *)
RunnerMoves ==
  /\ up \in {"syncing", "serving"}
  /\ state \in ActiveStates /\ state' \in ActiveStates
  /\ UNCHANGED <<up, trust, grants>>

TrustInit == up = "down" /\ state = "unconfigured" /\ trust = 0 /\ grants = 0

Onboards == BeginSetup \/ SetupFails \/ TrustStored \/ Activated \/ SetupRestarted

TrustNext ==
  \/ Onboards \/ TrustRerequested \/ CoreRemovedNode \/ ProcessDies \/ ProcessStarts
  \/ StartupEnds \/ RunnerMoves

TrustSpec == TrustInit /\ [][TrustNext]_trustVars
=============================================================================
