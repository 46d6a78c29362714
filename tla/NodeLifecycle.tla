--------------------------- MODULE NodeLifecycle ---------------------------
(***************************************************************************)
(* The lifecycle states of the node and the table of the transitions that  *)
(* NodeLifecycle.transition_to accepts.  An illegal transition raises and  *)
(* leaves the state as it was.                                             *)
(***************************************************************************)

Connecting == "bootstrap_connecting"
FailedRetry == "capability_declaration_failed_retry_pending"
SetupPending == "capability_setup_pending"
InProgress == "capability_declaration_in_progress"
DeclAccepted == "capability_declaration_accepted"

LifecycleStates ==
  {"unconfigured", Connecting, "bootstrap_connected", "core_discovered",
   "registration_pending", "pending_approval", "trusted", SetupPending,
   InProgress, DeclAccepted, FailedRetry, "operational", "degraded"}

(* The pairs of ALLOWED_TRANSITIONS. *)
AllowedTransitions ==
  {<<"unconfigured", Connecting>>, <<"unconfigured", "trusted">>,
   <<Connecting, "bootstrap_connected">>, <<Connecting, "unconfigured">>,
   <<"bootstrap_connected", "core_discovered">>,
   <<"core_discovered", "registration_pending">>,
   <<"registration_pending", "pending_approval">>,
   <<"pending_approval", "trusted">>, <<"trusted", SetupPending>>,
   <<SetupPending, InProgress>>, <<InProgress, DeclAccepted>>,
   <<InProgress, FailedRetry>>, <<DeclAccepted, "operational">>,
   <<FailedRetry, InProgress>>, <<"degraded", "operational">>,
   <<"degraded", SetupPending>>, <<"degraded", FailedRetry>>}

DegradableStates == LifecycleStates \ {"unconfigured", "degraded"}

CanTransition(from, to) ==
  \/ to = "degraded" /\ from \in DegradableStates
  \/ <<from, to>> \in AllowedTransitions

(* The states of an onboarding in which a registration run owns the node.  *)
RegistrationStates == {"core_discovered", "registration_pending", "pending_approval"}

(* The states in which an onboarding is under way. *)
OnboardingStates == {Connecting, "bootstrap_connected"} \cup RegistrationStates
=============================================================================
