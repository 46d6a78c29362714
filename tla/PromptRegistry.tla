---------------------------- MODULE PromptRegistry ----------------------------
(***************************************************************************)
(* The prompt registry (prompts/registry.py, prompts/registration.py) and  *)
(* the gateway that authorizes a task against it (execution/gateway.py).   *)
(* One prompt id stands for all: "absent" is a prompt that is not          *)
(* registered.  The registry keeps its state in memory and writes the      *)
(* whole state at each save.                                               *)
(***************************************************************************)
EXTENDS Routing, FiniteSets

VARIABLES prompt,   \* the entry in memory
          stored    \* the entry in the state file

promptVars == <<prompt, stored>>

Lifecycle == {"active", "review_due", "probation", "retired", "expired"}

Absent == [status |-> "absent", family |-> None, privacy |-> "internal", scope |-> "public",
           clients |-> {}, direct |-> TRUE, preferred |-> {}, default |-> None,
           mode |-> None, versions |-> {}, current |-> None]

(* create_prompt_service_registration: a first version, and the fields of  *)
(* the request.                                                            *)
Registration(family, privacy, mode) ==
  [Absent EXCEPT !.status = "active", !.family = family, !.privacy = privacy, !.mode = mode,
                 !.versions = {"v1"}, !.current = "v1"]

(* An id is free when it is unknown or retired. *)
CreatePrompt(p) ==
  /\ prompt.status \in {"absent", "retired"}
  /\ prompt' = p /\ stored' = p

(* update_prompt_service_definition writes field after field into the      *)
(* entry; a version that exists already is refused at the end.             *)
Edited(p, edit, n) == FoldLeft(LAMBDA acc, e : [acc EXCEPT ![e.field] = e.value], p, SubSeq(edit, 1, n))

(* n = Len(edit) + 1: accepted and saved.  A smaller n: the field n was    *)
(* refused, and the ones before it stay changed in memory.                 *)
UpdatePrompt(edit, n) ==
  /\ prompt.status # "absent"
  /\ prompt' = Edited(prompt, edit, n - 1)
  /\ stored' = IF n = Len(edit) + 1 THEN prompt' ELSE stored

(* transition_prompt, review_prompt and update_probation. *)
TransitionPrompt(state) ==
  /\ prompt.status # "absent"
  /\ prompt' = [prompt EXCEPT !.status = state]
  /\ stored' = prompt'

(* migrate_all_to_review_due *)
MigratePrompts ==
  /\ prompt' = IF prompt.status \in {"absent", "retired", "expired"} THEN prompt
               ELSE [prompt EXCEPT !.status = "review_due"]
  /\ stored' = prompt'

(* record_authorization and record_execution save the whole registry, with *)
(* whatever an update that failed has left in it.                          *)
RecordUse ==
  /\ stored' = IF prompt.status = "absent" THEN stored ELSE prompt
  /\ UNCHANGED prompt

ReloadPrompts == prompt' = stored /\ UNCHANGED stored

CallerAllowed(p, caller) == p.scope = "public" \/ caller \in p.clients

(* ExecutionGateway.authorize *)
Authorize(req, p) ==
  LET mode == IF PrivacyMode(p.privacy) # None THEN PrivacyMode(p.privacy) ELSE p.mode
  IN  IF ~req.prompted THEN NoAuthorization(TRUE)
      ELSE IF /\ p.status \in {"active", "review_due"}
              /\ p.family = req.family
              /\ req.version \in p.versions \cup {None}
              /\ CallerAllowed(p, req.caller)
              /\ p.direct
              /\ req.provider # None /\ p.preferred # {} => req.provider \in p.preferred
              /\ RoutingModeAllows(mode, req.provider)
           THEN [allowed |-> TRUE, privacy |-> p.privacy, mode |-> p.mode,
                 preferred |-> p.preferred, default |-> p.default]
           ELSE NoAuthorization(FALSE)
=============================================================================
