--------------------------- MODULE ProviderRuntime ---------------------------
(***************************************************************************)
(* The provider runtime manager (providers/runtime_manager.py), its        *)
(* registry and its configuration.  A refresh, a refresh with saved        *)
(* credentials and an explicit execution (benchmark, compare) are tasks    *)
(* that register a provider, await its health and its models, and for the  *)
(* cloud provider the classification of the models; several may overlap.   *)
(***************************************************************************)
EXTENDS Routing, PricingCatalog

CONSTANTS LocalModels, Tasks, Retries

VARIABLES enabled,     \* the provider selection file
          registry,    \* provider -> [adapter, health, models]
          disk,        \* the registry file
          router,      \* the execution router in use
          selected,    \* the cloud models the operator enabled
          classified,  \* the cloud models with a stored classification
          capable,     \* the kinds of provider in the node capabilities file
          task         \* task -> [kind, pc, all, left, default, listed]

providerVars == <<enabled, registry, disk, router, selected, classified, capable, task>>

Providers == {"local", "openai"}
Unregistered == [adapter |-> FALSE, health |-> "unavailable", models |-> {}]
(* A task: the providers it is for, those still to do, and the models the  *)
(* cloud provider has listed.                                              *)
Task(kind, ps, default) == [kind |-> kind, pc |-> "health", all |-> ps, left |-> ps, default |-> default, listed |-> {}]
IdleRefresh == [Task("none", <<>>, None) EXCEPT !.pc = "idle"]
NoRouter == [default |-> None, fallback |-> None, retries |-> 0]

(* sorted(...) of provider ids. *)
Sorted(ps) == SelectSeq(<<"local", "openai">>, LAMBDA p : p \in ps)

(* ProviderConfigLoader.load: the first selected provider is the default,  *)
(* and an empty selection stands for the cloud provider.                   *)
Enabled == IF enabled = <<>> THEN <<"openai">> ELSE enabled
EnabledSorted == Sorted(Range(Enabled))

Registered == Sorted({p \in Providers : registry[p].adapter})

(* The router a refresh installs falls back to the first enabled provider  *)
(* that is not the default one.                                            *)
RouterOf(providers, default) ==
  LET others == SelectSeq(providers, LAMBDA p : p # default)
  IN  [default |-> default, fallback |-> IF others = <<>> THEN None ELSE others[1], retries |-> Retries]

(* persist: the file has the registered providers only. *)
OnDisk(reg) == [p \in Providers |-> IF reg[p].adapter THEN reg[p] ELSE Unregistered]

(* Task t goes on with registry reg: it registers its next provider and    *)
(* awaits its health, or ends; a refresh then installs its router.         *)
Proceed(t, tk, reg) ==
  IF tk.left # <<>>
    THEN /\ registry' = [reg EXCEPT ![tk.left[1]].adapter = TRUE]
         /\ task' = [task EXCEPT ![t] = [tk EXCEPT !.pc = "health"]]
         /\ UNCHANGED <<router, disk>>
    ELSE /\ registry' = reg
         /\ disk' = OnDisk(reg)
         /\ router' = IF tk.kind = "refresh" THEN RouterOf(tk.all, tk.default) ELSE router
         /\ task' = [task EXCEPT ![t] = IdleRefresh]

(* refresh, up to its first await. *)
RefreshStart(t) ==
  /\ task[t].pc = "idle"
  /\ Proceed(t, Task("refresh", EnabledSorted, Enabled[1]), registry)
  /\ UNCHANGED <<enabled, selected, classified, capable>>

(* refresh_openai_models_from_saved_credentials *)
CredentialsStart(t) ==
  /\ task[t].pc = "idle"
  /\ Proceed(t, Task("credentials", <<"openai">>, None), registry)
  /\ UNCHANGED <<enabled, selected, classified, capable>>

(* execute_explicit: a provider that is missing is registered, enabled or  *)
(* not; an unusable one is looked at again.                                *)
ExplicitStart(t, p) ==
  LET known == registry[p].adapter /\ Usable(registry[p].health)
  IN  /\ task[t].pc = "idle"
      /\ task' = [task EXCEPT ![t] = [Task("explicit", <<p>>, None) EXCEPT !.pc = IF known THEN "execute" ELSE @]]
      /\ registry' = [registry EXCEPT ![p].adapter = TRUE]
      /\ UNCHANGED <<enabled, disk, router, selected, classified, capable>>

HealthAnswers(t, health) ==
  /\ task[t].pc = "health"
  /\ registry' = [registry EXCEPT ![task[t].left[1]].health = health]
  /\ task' = [task EXCEPT ![t].pc = "models"]
  /\ UNCHANGED <<enabled, disk, router, selected, classified, capable>>

(* The models of the cloud provider that are kept though it lists them no  *)
(* more: the operator's selection.                                         *)
Preserved(ms) == ms \cup selected

(* The provider lists its models; those of the cloud provider are then     *)
(* classified, except for an explicit execution.                           *)
ModelsAnswer(t, ms) ==
  LET p == task[t].left[1]
      usable == IF p = "openai" THEN Priced(ms) ELSE ms
      reg == [registry EXCEPT ![p].models = usable]
  IN  /\ task[t].pc = "models"
      /\ \/ /\ task[t].kind = "explicit"
            /\ registry' = reg
            /\ task' = [task EXCEPT ![t].pc = "execute"]
            /\ UNCHANGED <<router, disk>>
         \/ /\ task[t].kind # "explicit" /\ p = "openai"
            /\ task' = [task EXCEPT ![t].pc = "classify", ![t].listed = Preserved(ms)]
            /\ UNCHANGED <<registry, router, disk>>
         \/ /\ task[t].kind # "explicit" /\ p # "openai"
            /\ Proceed(t, [task[t] EXCEPT !.left = Tail(@)], reg)
      /\ UNCHANGED <<enabled, selected, classified, capable>>

(* The list of the cloud provider's models cannot be fetched: the task is  *)
(* over, and no router is installed.                                       *)
ModelsFail(t) ==
  /\ task[t].pc = "models" /\ task[t].left[1] = "openai"
  /\ task' = [task EXCEPT ![t] = IdleRefresh]
  /\ UNCHANGED <<enabled, registry, disk, router, selected, classified, capable>>

(* openai_usable_models_payload *)
UsableCloud(reg, sel, class) == sel \cap class \cap reg["openai"].models

(* _resolve_and_persist_node_capabilities *)
CapableKinds(reg, sel, class) ==
  {k \in {"local", "cloud"} : \/ k = "local" /\ "local" \in Range(Enabled) /\ reg["local"].models # {}
                              \/ k = "cloud" /\ UsableCloud(reg, sel, class) # {}}

(* Classification saves what it finds, or fails and changes nothing; it    *)
(* is resolved into the node's capabilities with the models registered so  *)
(* far.  Then the models are priced and registered.                        *)
Classified(t, ok) ==
  LET models == task[t].listed
      reg == [registry EXCEPT !["openai"].models = Priced(models)]
  IN  /\ task[t].pc = "classify"
      /\ classified' = IF ok THEN models ELSE classified
      /\ capable' = IF ok /\ models # {} THEN CapableKinds(registry, selected, models) ELSE capable
      /\ Proceed(t, [task[t] EXCEPT !.left = Tail(@)], reg)
      /\ UNCHANGED <<enabled, selected>>

(* The adapter answers an explicit execution, or the provider stays        *)
(* unusable.                                                               *)
ExplicitEnds(t) ==
  /\ task[t].pc = "execute"
  /\ task' = [task EXCEPT ![t] = IdleRefresh]
  /\ UNCHANGED <<enabled, registry, disk, router, selected, classified, capable>>

(* update_provider_selection saves the providers in the order of their     *)
(* names; a disabled provider stays registered.                            *)
SaveSelection(ps) ==
  /\ enabled' = Sorted(ps)
  /\ UNCHANGED <<registry, disk, router, selected, classified, capable, task>>

(* save_openai_enabled_models *)
SaveModels(ms) ==
  /\ selected' = ms
  /\ capable' = CapableKinds(registry, ms, classified)
  /\ UNCHANGED <<enabled, registry, disk, router, classified, task>>

(* A restart loads health and models, but no adapter: until a refresh      *)
(* registers them the router finds no provider.                            *)
RestartProviders ==
  /\ registry' = [p \in Providers |-> [disk[p] EXCEPT !.adapter = FALSE]]
  /\ router' = NoRouter
  /\ task' = [t \in Tasks |-> IdleRefresh]
  /\ UNCHANGED <<enabled, disk, selected, classified, capable>>

(* provider_selection_context_payload: the models a task may ask for. *)
UsableModels ==
  [p \in Providers |-> IF p = "openai" /\ UsableCloud(registry, selected, classified) # {}
                         THEN UsableCloud(registry, selected, classified) ELSE registry[p].models]

Health == [p \in Providers |-> registry[p].health]

(* _cloud_execution_queue_available, the budget apart. *)
CloudAvailable ==
  /\ "openai" \in Range(Enabled)
  /\ Usable(registry["openai"].health)
  /\ UsableModels["openai"] # {}
=============================================================================
