------------------------------- MODULE Serving -------------------------------
(***************************************************************************)
(* A call from the client to the adapter: execute_direct and the queued    *)
(* executions of runtime/node_control_api.py, the admission guard, and     *)
(* TaskExecutionService.execute, over the idempotency store, the prompt    *)
(* registry, the provider runtime and the pricing catalog.  The queue      *)
(* itself is ExecutionQueue, the budget BudgetedExecution: here a queued   *)
(* job starts at any time, and a reservation may be refused.               *)
(* A scenario fixes the calls, the prompt and how many of the steps of     *)
(* operators, peers and faults may happen.                                 *)
(***************************************************************************)
EXTENDS Idempotency, PromptRegistry, ProviderRuntime

CONSTANTS Scenarios,     \* [calls, keys, prompt, enabled, left]
          Edits,         \* updates of the prompt: sequences of [field, value]
          Selections,    \* provider selections the operator saves
          Governances,   \* governance the core sends: [stale, approved]
          Families,      \* the task families the node has declared
          MaxInFlight, MinInFlight,
          MaxWork        \* at least the executions the scenarios can reach

ASSUME SlotsAssumption == Tasks \subseteq Nat /\ PricingTasks \subseteq Nat

RequestFields == {"family", "prompted", "version", "caller", "provider", "model", "mode", "approved", "lane",
                  "async", "spill", "high", "low"}

ASSUME RequestsAssumption == \A s \in Scenarios : \A c \in Calls : DOMAIN s.calls[c] = RequestFields

ASSUME CapacityAssumption == MinInFlight \in Nat \ {0} /\ MaxInFlight \in Nat /\ MinInFlight <= MaxInFlight

VARIABLES work,         \* the executions so far, jobs included
          inFlight,     \* the counter of the admission guard
          governance,
          left          \* kind of environment step -> how many may still happen

servingVars == <<work, inFlight, governance, left>>
vars == <<idempotencyVars, promptVars, providerVars, pricingVars, servingVars>>

May(kind) == left[kind] > 0
Spend(kind) == May(kind) /\ left' = [left EXCEPT ![kind] = @ - 1]

NoAuth == NoAuthorization(FALSE)

(* An execution: its call, the request it runs (a job's is rewritten for   *)
(* its queue), and what it has found out.                                  *)
Execution(c, req, job, pc) ==
  [call |-> c, req |-> req, job |-> job, pc |-> pc, auth |-> NoAuth, provider |-> None,
   order |-> <<>>, at |-> None, tries |-> 0, retries |-> 0]

(* The states in which an execution holds its admission. *)
Admitted == {"received", "selected", "granted", "sending"}

Init ==
  \E s \in Scenarios :
    /\ IdempotencyInit(s.keys, s.calls)
    /\ prompt = s.prompt /\ stored = s.prompt
    /\ PricingInit
    /\ enabled = s.enabled
    /\ registry = [p \in Providers |->
         IF p \in Range(s.enabled) THEN [adapter |-> TRUE, health |-> "available",
                                         models |-> IF p = "local" THEN LocalModels ELSE CloudModels]
         ELSE Unregistered]
    /\ disk = registry
    /\ router = RouterOf(Sorted(Range(s.enabled)), s.enabled[1])
    /\ selected = {} /\ classified = CloudModels /\ capable = {}
    /\ task = [t \in Tasks |-> IdleRefresh]
    /\ work = <<>>
    /\ inFlight = 0
    /\ governance = [stale |-> FALSE, approved |-> {}]
    /\ left = s.left

-----------------------------------------------------------------------------
(* The admission guard. *)

(* _effective_capacity: what the load of the machine leaves. *)
Capacity(tier) ==
  CASE tier = "healthy" -> MaxInFlight
    [] tier = "warm" -> IF (MaxInFlight + 1) \div 2 > MinInFlight THEN (MaxInFlight + 1) \div 2 ELSE MinInFlight
    [] OTHER -> MinInFlight

(* try_acquire; under memory, swap or load pressure it refuses. *)
MayAdmit == \E tier \in {"healthy", "warm", "hot"} : inFlight < Capacity(tier)

Released == IF inFlight > 0 THEN inFlight - 1 ELSE 0

-----------------------------------------------------------------------------
(* A call and its operation. *)

ClientCalls(c) ==
  /\ Spend("call")
  /\ Call(c)
  /\ UNCHANGED <<promptVars, providerVars, pricingVars, work, inFlight, governance>>

(* Local image and vision requests go around the task service. *)
IsLocalRuntime(req) == UsesVisualRuntime(req) \/ UsesVisionRuntime(req)

(* _execute_direct_now, up to its first await: w enters as execution n. *)
Enter(n, w) ==
  \/ /\ IsLocalRuntime(w.req)
     /\ work' = [work EXCEPT ![n] = [w EXCEPT !.pc = "local"]]
     /\ UNCHANGED inFlight
  \/ /\ ~IsLocalRuntime(w.req) /\ MayAdmit
     /\ inFlight' = inFlight + 1
     /\ work' = [work EXCEPT ![n] = [w EXCEPT !.pc = "received"]]

Working(c) == {n \in DOMAIN work : work[n].call = c /\ ~work[n].job /\ work[n].pc # "done"}

(* The call owns its operation and has not begun it. *)
Begins(c) == call[c].pc = "operating" /\ Working(c) = {}

OperateNow(c) ==
  LET req == call[c].body
      w == Execution(c, req, FALSE, "received")
  IN  /\ Begins(c) /\ ~req.async
      /\ \/ /\ IsLocalRuntime(req)
            /\ work' = Append(work, [w EXCEPT !.pc = "local"])
            /\ UNCHANGED <<inFlight, idempotencyVars>>
         \/ /\ ~IsLocalRuntime(req) /\ MayAdmit
            /\ work' = Append(work, w)
            /\ inFlight' = inFlight + 1
            /\ UNCHANGED idempotencyVars
         \/ /\ ~IsLocalRuntime(req)
            /\ OperationFails(c)
            /\ UNCHANGED <<work, inFlight>>
      /\ UNCHANGED <<promptVars, providerVars, pricingVars, governance, left>>

(* The kind of provider that alone has the task, if there is one. *)
OnlyCapable == IF Cardinality(capable) = 1 THEN CHOOSE k \in capable : TRUE ELSE None

(* _enqueue_direct_execution: the request is rewritten for the queue it    *)
(* goes to, and the answer of the call is the job.                         *)
OperateQueued(c) ==
  LET req == call[c].body
      n == Len(work) + 1
  IN  /\ Begins(c) /\ req.async
      /\ \E slow \in BOOLEAN, pressed \in BOOLEAN :
           LET context == QueueContext(req, Authorize(req, prompt), OnlyCapable, slow, pressed, CloudAvailable)
           IN  work' = Append(work, Execution(c, ExecutionRequest(req, context), TRUE, "queued"))
      /\ OperationReturns(c, n)
      /\ UNCHANGED <<promptVars, providerVars, pricingVars, inFlight, governance, left>>

(* The queue dispatches a job; an admission that is refused ends it. *)
JobStart(n) ==
  /\ work[n].pc = "queued"
  /\ \/ Enter(n, work[n])
     \/ ~IsLocalRuntime(work[n].req) /\ work' = [work EXCEPT ![n].pc = "done"] /\ UNCHANGED inFlight
  /\ UNCHANGED <<idempotencyVars, promptVars, providerVars, pricingVars, governance, left>>

(* A mutant: a cancelled job keeps its admission. *)
CancelJobHolding(n) ==
  /\ work[n].job /\ work[n].pc \in Admitted \cup {"queued"}
  /\ Spend("cancel")
  /\ work' = [work EXCEPT ![n].pc = "done"]
  /\ UNCHANGED <<idempotencyVars, promptVars, providerVars, pricingVars, inFlight, governance>>

(* A job is cancelled before its start or, its task being cancelled at an  *)
(* await, while the task service runs it; a local runtime is not           *)
(* cancellable.                                                            *)
CancelJob(n) ==
  /\ work[n].job /\ work[n].pc \in Admitted \cup {"queued"}
  /\ Spend("cancel")
  /\ work' = [work EXCEPT ![n].pc = "done"]
  /\ inFlight' = IF work[n].pc \in Admitted THEN Released ELSE inFlight
  /\ UNCHANGED <<idempotencyVars, promptVars, providerVars, pricingVars, governance>>

-----------------------------------------------------------------------------
(* TaskExecutionService.execute. *)

PromptUsed(n) == IF work[n].req.prompted THEN RecordUse ELSE UNCHANGED promptVars

(* The service has its result, the prompt's use is recorded and admission  *)
(* is released: a direct call goes on to its answer, a job is over.        *)
EndedWork(n) == [work EXCEPT ![n].pc = IF work[n].job THEN "done" ELSE "ended"]

Ends(n) ==
  /\ work' = EndedWork(n)
  /\ inFlight' = Released
  /\ PromptUsed(n)

Continues == UNCHANGED <<inFlight, promptVars>>

(* From the receipt of the task to the choice of its provider there is no  *)
(* await: family, authorization, governance, routing and resolution.       *)
Resolve(n) ==
  LET req == work[n].req
      auth == Authorize(req, prompt)
      mode == EffectiveMode(auth, req.mode)
      requested == RequestedProvider(req, auth)
      order == ProviderOrder(requested, Enabled[1], EnabledSorted, mode)
      eligible == Eligible(EnabledSorted, Approved(req, auth), mode, Health)
      provider == Resolved(order, eligible, requested, req.model, UsableModels)
  IN  /\ work[n].pc = "received"
      /\ IF req.family \in Families /\ auth.allowed /\ ~governance.stale /\ mode # Conflict /\ provider # None
           THEN /\ work' = [work EXCEPT ![n].pc = "selected", ![n].auth = auth, ![n].provider = provider]
                /\ PromptUsed(n)
                /\ UNCHANGED inFlight
           ELSE Ends(n)
      /\ UNCHANGED <<idempotencyVars, providerVars, pricingVars, governance, left>>

(* After the selection was announced: the governance that holds now, and   *)
(* the budget, which may refuse.                                           *)
Govern(n) ==
  LET approved == Approved(work[n].req, work[n].auth)
      effective == IF approved # {} THEN approved ELSE governance.approved
  IN  /\ work[n].pc = "selected"
      /\ \/ /\ effective = {} \/ work[n].provider \in effective
            /\ work' = [work EXCEPT ![n].pc = "granted"]
            /\ Continues
         \/ Ends(n)
      /\ UNCHANGED <<idempotencyVars, providerVars, pricingVars, governance, left>>

(* ProviderExecutionRouter.execute: the first of the candidates that is    *)
(* registered and usable; none is left: the task fails.                    *)
Tries(n, w, candidates) ==
  LET ready == SelectSeq(candidates, LAMBDA p : registry[p].adapter /\ Usable(registry[p].health))
  IN  IF ready = <<>> THEN Ends(n)
      ELSE /\ work' = [work EXCEPT ![n] = [w EXCEPT !.pc = "sending", !.at = ready[1], !.tries = w.retries,
                                                    !.order = SubSeq(candidates, SelectInSeq(candidates, LAMBDA p : p = ready[1]) + 1,
                                                                     Len(candidates))]]
           /\ Continues

Send(n) ==
  /\ work[n].pc = "granted"
  /\ Tries(n, [work[n] EXCEPT !.retries = router.retries], RouterOrder(work[n].provider, router, Registered))
  /\ UNCHANGED <<idempotencyVars, providerVars, pricingVars, governance, left>>

AdapterAnswers(n) ==
  /\ work[n].pc = "sending"
  /\ Ends(n)
  /\ UNCHANGED <<idempotencyVars, providerVars, pricingVars, governance, left>>

(* An attempt fails: the same provider again, or the next one. *)
AdapterFails(n) ==
  /\ work[n].pc = "sending"
  /\ Spend("failures")
  /\ \/ /\ work[n].tries > 0
        /\ work' = [work EXCEPT ![n].tries = @ - 1]
        /\ Continues
     \/ /\ work[n].tries = 0
        /\ Tries(n, work[n], work[n].order)
  /\ UNCHANGED <<idempotencyVars, providerVars, pricingVars, governance>>

(* A local runtime answers; it may raise, as with a timeout. *)
LocalEnds(n) ==
  /\ work[n].pc = "local"
  /\ \/ work' = EndedWork(n) /\ UNCHANGED idempotencyVars
     \/ /\ work' = [work EXCEPT ![n].pc = "done"]
        /\ IF work[n].job THEN UNCHANGED idempotencyVars ELSE OperationFails(work[n].call)
  /\ UNCHANGED <<promptVars, providerVars, pricingVars, inFlight, governance, left>>

(* The usage was flushed and the idempotency store records the answer. *)
EndOperation(n) ==
  /\ work[n].pc = "ended"
  /\ work' = [work EXCEPT ![n].pc = "done"]
  /\ \/ OperationReturns(work[n].call, n) /\ UNCHANGED left
     \/ PersistFails(work[n].call, n) /\ Spend("persist")
  /\ UNCHANGED <<promptVars, providerVars, pricingVars, inFlight, governance>>

-----------------------------------------------------------------------------
(* Operators, peers and faults. *)

ClientSteps(c) == May("call") /\ Retry(c) /\ UNCHANGED <<promptVars, providerVars, pricingVars, servingVars>>

RecordExpires(k) == Spend("expire") /\ Expire(k) /\ UNCHANGED <<promptVars, providerVars, pricingVars, work, inFlight, governance>>

PromptSteps ==
  /\ Spend("prompt")
  /\ \/ \E e \in Edits : \E n \in 1..(Len(e) + 1) : UpdatePrompt(e, n)
     \/ \E state \in Lifecycle : TransitionPrompt(state)
     \/ MigratePrompts
     \/ CreatePrompt(Registration("text", "internal", None))
  /\ UNCHANGED <<idempotencyVars, providerVars, pricingVars, work, inFlight, governance>>

GovernanceChanges ==
  /\ Spend("governance")
  /\ governance' \in Governances
  /\ UNCHANGED <<idempotencyVars, promptVars, providerVars, pricingVars, work, inFlight>>

(* A request begins the first task that is free. *)
Free(t, busy) == t \notin busy /\ \A u \in 1..(t - 1) : u \in busy
FreeTasks == {t \in Tasks : Free(t, {u \in Tasks : task[u].pc # "idle"})}
FreePricing == {t \in PricingTasks : Free(t, {u \in PricingTasks : priceTask[u].pc # "idle"})}

(* Requests of the operator that begin a task or save a file. *)
ProviderRequests ==
  /\ Spend("provider")
  /\ \/ \E t \in FreeTasks : (RefreshStart(t) \/ CredentialsStart(t)) /\ UNCHANGED inFlight
     \/ \E t \in FreeTasks, p \in Providers : MayAdmit /\ ExplicitStart(t, p) /\ inFlight' = inFlight + 1
     \/ \E ps \in Selections : SaveSelection(ps) /\ UNCHANGED inFlight
     \/ \E ms \in {CloudModels, BuiltIn} : SaveModels(ms) /\ UNCHANGED inFlight
  /\ UNCHANGED <<idempotencyVars, promptVars, pricingVars, work, governance>>

(* What a provider may list: all its models, or none. *)
Listings(t) ==
  IF task[t].left = <<>> THEN {} ELSE {{}, IF Head(task[t].left) = "openai" THEN CloudModels ELSE LocalModels}

(* A task goes on; a benchmark gives its admission back when it ends. *)
ProviderSteps(t) ==
  /\ \/ /\ \/ \E h \in {"available", "unavailable"} : HealthAnswers(t, h)
           \/ \E ms \in Listings(t) : ModelsAnswer(t, ms)
           \/ \E ok \in BOOLEAN : Classified(t, ok)
        /\ UNCHANGED inFlight
     \/ /\ ModelsFail(t) \/ ExplicitEnds(t)
        /\ inFlight' = IF task[t].kind = "explicit" THEN Released ELSE inFlight
  /\ UNCHANGED <<idempotencyVars, promptVars, pricingVars, work, governance, left>>

PricingSteps ==
  /\ \/ /\ Spend("prices")
        /\ \/ \E t \in FreePricing, force \in BOOLEAN : PricingStart(t, force)
           \/ \E m \in CloudModels, price \in 2..MaxPrice : SavePrice(m, price)
           \/ PricesAge
     \/ /\ \E t \in PricingTasks :
             \/ \E outcome \in Extractions : PricingEnd(t, outcome, 1)
             \/ PricingFails(t)
        /\ UNCHANGED left
  /\ UNCHANGED <<idempotencyVars, promptVars, providerVars, work, inFlight, governance>>

(* A crash: jobs that were queued are kept, everything under way is lost. *)
Crash ==
  /\ Spend("crash")
  /\ ForgetCalls
  /\ ReloadPrompts
  /\ RestartProviders
  /\ RestartPricing
  /\ work' = [n \in DOMAIN work |-> IF work[n].pc = "queued" THEN work[n] ELSE [work[n] EXCEPT !.pc = "done"]]
  /\ inFlight' = 0
  /\ UNCHANGED governance

(* What an execution does by itself. *)
Advances(n) ==
  Resolve(n) \/ Govern(n) \/ Send(n) \/ AdapterAnswers(n) \/ LocalEnds(n) \/ EndOperation(n)

Next ==
  \/ \E c \in Calls : ClientCalls(c) \/ OperateNow(c) \/ OperateQueued(c) \/ ClientSteps(c)
  \/ \E n \in DOMAIN work : Advances(n) \/ AdapterFails(n) \/ JobStart(n) \/ CancelJob(n)
  \/ \E k \in Keys : RecordExpires(k)
  \/ \E t \in Tasks : ProviderSteps(t)
  \/ PromptSteps \/ GovernanceChanges \/ ProviderRequests \/ PricingSteps \/ Crash

Underway(n, pc) == n \in DOMAIN work /\ work[n].pc = pc

(* Handlers run when they are ready, and providers and local runtimes      *)
(* answer within their timeouts: no call stays at its beginning, and no    *)
(* execution at one of its steps.  Each of these steps stays enabled until *)
(* it is taken, so that this is weak fairness of OperateNow, OperateQueued *)
(* and Advances.                                                           *)
Fairness ==
  /\ \A c \in Calls : []<>~Begins(c)
  /\ \A n \in 1..MaxWork, pc \in Admitted \cup {"local", "ended"} : []<>~Underway(n, pc)

Spec == Init /\ [][Next]_vars /\ Fairness

-----------------------------------------------------------------------------
(* As long as the record of an idempotency key is kept every answer given  *)
(* under it is the same, over concurrent and repeated calls and crashes:   *)
(* the record is written before anyone is told.  A record that could not   *)
(* be written is kept until the process ends.                              *)
AnswersAgree == \A k \in Keys : Cardinality(given[k]) <= 1

(* Every call that reached the node is answered, or cut off by a restart;  *)
(* only those who wait for a call whose record could not be written are    *)
(* left waiting.                                                           *)
EveryCallEnds ==
  \A c \in Calls :
    call[c].pc \in {"waiting", "operating"} ~> call[c].pc \in {"idle", "answered"} \/ call[c].key \in orphaned

InScope(p, mode) == ProviderScope(p) \in RoutingModeScope(mode)

(* The provider selected for an execution is inside what the privacy class *)
(* of the prompt, the prompt's mode and the mode of the client's own       *)
(* request allow, though the request was rewritten for its queue and the   *)
(* prompt was edited while it waited; and it is one both sides approve,    *)
(* where they approve someone in common.  A client gives up its own mode   *)
(* for a job that may spill over, or that names a provider which the mode  *)
(* excludes.                                                               *)
SelectedInBoundary ==
  \A n \in DOMAIN work :
    LET w == work[n]
        original == call[w.call].body
    IN  w.pc \in {"granted", "sending"} =>
          /\ InScope(w.provider, PrivacyMode(w.auth.privacy))
          /\ InScope(w.provider, w.auth.mode)
          /\ ~w.job \/ (~original.spill /\ RoutingModeAllows(original.mode, original.provider)) =>
               InScope(w.provider, original.mode)
          /\ \A approved \in {original.approved, w.auth.preferred} :
               approved # {} /\ Approved(original, w.auth) # {} => w.provider \in approved

(* Every admission belongs to one execution or benchmark that is under     *)
(* way, and there are never more than the node is configured for: none is  *)
(* lost by an error, a cancellation or a retry, and none given back twice. *)
AdmissionsAccounted ==
  /\ inFlight = Cardinality({n \in DOMAIN work : work[n].pc \in Admitted})
                + Cardinality({t \in Tasks : task[t].kind = "explicit"})
  /\ inFlight <= MaxInFlight

(* A task that may run only locally is sent to the local provider only,    *)
(* also when that provider fails.                                          *)
LocalOnlyStaysLocal ==
  \A n \in DOMAIN work :
    work[n].pc = "sending" /\ EffectiveMode(work[n].auth, work[n].req.mode) = "local_only" => work[n].at = "local"
=============================================================================
