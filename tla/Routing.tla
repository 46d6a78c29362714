------------------------------- MODULE Routing -------------------------------
(***************************************************************************)
(* Where a task may run and where it is sent: the pure rules of            *)
(* runtime/task_execution_service.py, execution/gateway.py,                *)
(* execution/provider_selection_policy.py, runtime/provider_resolver.py,   *)
(* providers/execution_router.py and of the queue routing of               *)
(* runtime/node_control_api.py.  A request is a record with fields family, *)
(* provider, model, mode, approved, lane, async, spill, high; an           *)
(* authorization is what the gateway copies from the prompt: allowed,      *)
(* privacy, mode, preferred, default.                                      *)
(***************************************************************************)
EXTENDS Naturals, Sequences, SequencesExt

None == "none"
Conflict == "conflict"
LocalModes == {"local_only", "local_preferred"}
CloudModes == {"cloud_only", "cloud_fallback"}

(* A request without prompt, or one whose prompt refuses it. *)
NoAuthorization(allowed) ==
  [allowed |-> allowed, privacy |-> None, mode |-> None, preferred |-> {}, default |-> None]

ProviderScope(p) == IF p = "local" THEN "local" ELSE "cloud"

RoutingModeScope(mode) ==
  CASE mode = "local_only" -> {"local"}
    [] mode = "cloud_only" -> {"cloud"}
    [] OTHER -> {"local", "cloud"}

RoutingModeAllows(mode, p) == p = None \/ ProviderScope(p) \in RoutingModeScope(mode)

PrivacyMode(privacy) == IF privacy \in {"restricted", "sensitive"} THEN "local_only" ELSE None

(* A mutant: the inner mode wins when there is one. *)
InnerModeWins(outer, inner) == IF inner # None THEN inner ELSE outer

(* Two modes bound the task together; the inner one keeps its preference. *)
MergeRoutingModes(outer, inner) ==
  LET scope == RoutingModeScope(outer) \cap RoutingModeScope(inner)
  IN  CASE scope = {} -> Conflict
        [] scope = {"local"} -> "local_only"
        [] scope = {"cloud"} -> "cloud_only"
        [] OTHER -> IF inner # None THEN inner ELSE outer

PromptMode(auth) == MergeRoutingModes(PrivacyMode(auth.privacy), auth.mode)

(* The mode of prompt, privacy class and request together. *)
EffectiveMode(auth, mode) ==
  IF PromptMode(auth) = Conflict THEN Conflict ELSE MergeRoutingModes(PromptMode(auth), mode)

-----------------------------------------------------------------------------
(* The queue of a request that does not insist on an answer now. *)

IsImage(req) == req.family = "image"

(* Image generation at low importance goes to the CPU runtime. *)
UsesVisualCpu(req) == IsImage(req) /\ req.low /\ req.provider \in {None, "local"}

QueueOfMode(mode, capable) ==
  IF mode \in LocalModes
    THEN IF mode = "local_preferred" /\ capable = "cloud" THEN "cloud" ELSE "local"
    ELSE IF mode = "cloud_fallback" /\ capable = "local" THEN "local" ELSE "cloud"

(* capable: the only kind of provider that has the task, if there is one.  *)
(* In a conflict the effective mode is void, and the request's own mode,   *)
(* then the prompt's, decides.                                             *)
QueueKind(req, auth, mode, capable) ==
  LET own == IF req.mode # None THEN req.mode ELSE auth.mode
      decisive == IF mode # None THEN mode ELSE own
  IN  CASE req.provider # None -> ProviderScope(req.provider)
        [] req.provider = None /\ decisive # None -> QueueOfMode(decisive, capable)
        [] OTHER -> IF capable # None THEN capable
                    ELSE IF auth.default = "local" THEN "local" ELSE "cloud"

ExecutionMode(mode, queue, spills, capable) ==
  CASE spills -> "cloud_only"
    [] ~spills /\ queue \in {"visual_cpu", "visual_gpu"} -> "local_only"
    [] ~spills /\ queue = "local" /\ capable = "local" /\ mode \in {None, "cloud_fallback"} -> "local_only"
    [] ~spills /\ queue = "cloud" /\ capable = "cloud" /\ mode \in {None, "local_preferred"} -> "cloud_only"
    [] OTHER -> mode

(* Spilling over to the cloud queue.  slow: the local queue would start    *)
(* the task after its wait budget; pressed: it is longer than a high task  *)
(* accepts; cloud: a cloud provider could take the task.                   *)
SpillsWaitBudget(req, queue, slow, cloud) == queue = "local" /\ req.spill /\ slow /\ cloud

SpillsPreferred(req, mode, queue, pressed, cloud) ==
  queue = "local" /\ mode = "local_preferred" /\ req.provider = None /\ req.high /\ pressed /\ cloud

(* _direct_execution_queue_context *)
QueueContext(req, auth, capable, slow, pressed, cloud) ==
  LET merged == EffectiveMode(auth, req.mode)
      mode == IF merged = Conflict THEN None ELSE merged
      kind == QueueKind(req, auth, mode, capable)
      queue == IF kind = "local" /\ IsImage(req) THEN "visual_gpu" ELSE kind
      spills == SpillsWaitBudget(req, queue, slow, cloud)
                \/ SpillsPreferred(req, mode, queue, pressed, cloud)
  IN  IF UsesVisualCpu(req)
        THEN [queue |-> "visual_cpu", mode |-> mode, execution |-> "local_only"]
        ELSE [queue |-> IF spills THEN "cloud" ELSE queue,
              mode |-> mode,
              execution |-> ExecutionMode(mode, queue, spills, capable)]

(* _execution_request_for_queue_context: the request the job will run. *)
ExecutionRequest(req, context) ==
  LET lane == IF context.queue \in {"visual_gpu", "visual_cpu"} THEN context.queue ELSE req.lane
      mode == IF context.execution \in {None, context.mode} THEN req.mode ELSE context.execution
  IN  [req EXCEPT !.lane = lane, !.mode = mode]

UsesVisualRuntime(req) ==
  IsImage(req) /\ (req.provider = "local" \/ req.lane \in {"visual_gpu", "visual_cpu"} \/ req.mode = "local_only")

UsesVisionRuntime(req) ==
  req.family = "vision" /\ (req.provider = "local" \/ req.lane = "vision_llm" \/ req.mode = "local_only")

-----------------------------------------------------------------------------
(* The provider of a task. *)

DefaultProviderAllowed(p, mode) ==
  /\ p # None
  /\ mode \in LocalModes => p = "local"
  /\ mode = "cloud_only" => p # "local"

(* The requested provider, or the prompt's default where the modes of      *)
(* prompt and request (not the privacy class) admit it.                    *)
RequestedProvider(req, auth) ==
  LET mode == MergeRoutingModes(auth.mode, req.mode)
  IN  CASE req.provider # None -> req.provider
        [] req.provider = None /\ mode # Conflict /\ DefaultProviderAllowed(auth.default, mode) -> auth.default
        [] OTHER -> None

(* _merge_prompt_governance_constraints: an empty set approves everyone,   *)
(* also when it is what two disjoint sets have in common.                  *)
Approved(req, auth) ==
  CASE auth.preferred = {} -> req.approved
    [] auth.preferred # {} /\ req.approved = {} -> auth.preferred
    [] OTHER -> req.approved \cap auth.preferred

Deduplicated(s) == FoldLeft(LAMBDA acc, p : IF Contains(acc, p) THEN acc ELSE Append(acc, p), <<>>, s)

Usable(health) == health \in {"available", "degraded"}

(* build_provider_selection_policy: who may take the task, and the order   *)
(* in which the enabled providers are asked.                               *)
Eligible(enabled, approved, mode, health) ==
  {p \in Range(enabled) : (approved = {} \/ p \in approved) /\ RoutingModeAllows(mode, p) /\ Usable(health[p])}

ProviderOrder(requested, default, enabled, mode) ==
  LET cloud == SelectSeq(enabled, LAMBDA p : p # "local")
      locals == SelectSeq(enabled, LAMBDA p : p = "local")
  IN  CASE mode = "local_preferred" -> <<requested, "local">> \o enabled \o <<default>>
        [] mode = "cloud_fallback" -> <<requested>> \o cloud \o locals \o <<default>>
        [] OTHER -> <<requested, default>> \o enabled

(* _select_model_for_provider, with the allow list of the policy: a        *)
(* requested model counts for the requested provider only, and is taken    *)
(* unseen by a provider whose usable models are not known.                 *)
HasModel(p, requested, model, usable) ==
  CASE usable[p] = {} -> model # None
    [] usable[p] # {} /\ p = requested /\ model # None -> model \in usable[p]
    [] OTHER -> TRUE

(* ProviderResolver.resolve: the first eligible provider with a model.     *)
Resolved(order, eligible, requested, model, usable) ==
  LET able == {i \in DOMAIN order : order[i] \in eligible /\ HasModel(order[i], requested, model, usable)}
      first == {i \in able : \A j \in able : i <= j}
  IN  IF first = {} THEN None ELSE order[CHOOSE i \in first : TRUE]

(* ProviderExecutionRouter.execute: whom the router tries, in order.  The  *)
(* modes and approvals that led to the provider play no part here.         *)
RouterOrder(provider, router, registered) ==
  Deduplicated(SelectSeq(<<provider, router.default, router.fallback>> \o registered, LAMBDA p : p # None))
=============================================================================
