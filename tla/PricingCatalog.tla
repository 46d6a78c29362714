---------------------------- MODULE PricingCatalog ----------------------------
(***************************************************************************)
(* The prices of the cloud models (providers/openai_catalog.py): a         *)
(* snapshot scraped from the provider's pages, the operator's saved prices *)
(* (overrides), and a YAML file that is filled in once per model and then  *)
(* wins over both.  A price is a number, 0 where there is none; every      *)
(* model is a pricing family of its own.                                   *)
(***************************************************************************)
EXTENDS Naturals, FiniteSets

CONSTANTS CloudModels, PricingTasks,
          BuiltIn,       \* models with a price in the program
          MaxPrice, MaxTime

ASSUME PricingAssumption == BuiltIn \subseteq CloudModels /\ MaxPrice \in Nat \ {0} /\ MaxTime \in Nat

VARIABLES snapshot,     \* NoSnapshot or [state, at, stale, entries]
          overrides,    \* model -> the price the operator saved last
          yaml,         \* model -> the price in the manual file
          priceTask,    \* a refresh under way: Idle or [previous, overrides]
          time

pricingVars == <<snapshot, overrides, yaml, priceTask, time>>

NoEntry == [price |-> 0, status |-> "none"]
NoSnapshot == [state |-> "none", at |-> 0, stale |-> TRUE, entries |-> [m \in CloudModels |-> NoEntry]]
IdleTask == [pc |-> "idle", previous |-> NoSnapshot, overrides |-> [m \in CloudModels |-> 0]]

PricingInit ==
  /\ snapshot = NoSnapshot
  /\ overrides = [m \in CloudModels |-> 0]
  /\ yaml = overrides
  /\ priceTask = [t \in PricingTasks |-> IdleTask]
  /\ time = 0

(* A snapshot is due for a refresh after one unit of time, stale after two. *)
Due(s) == s.state = "none" \/ time - s.at >= 1
IsStale(s) == s.stale \/ time - s.at >= 2

(* _ensure_manual_pricing_config: a model without a price in the file gets *)
(* the one of the snapshot, or else the operator's.                        *)
Synced(ym, s, ov) ==
  [m \in CloudModels |-> IF ym[m] # 0 THEN ym[m]
                         ELSE IF s.entries[m] # NoEntry THEN s.entries[m].price ELSE ov[m]]

(* refresh up to its first await. *)
PricingStart(t, force) ==
  /\ priceTask[t].pc = "idle"
  /\ force \/ Due(snapshot)
  /\ priceTask' = [priceTask EXCEPT ![t] = [pc |-> "fetching", previous |-> snapshot, overrides |-> overrides]]
  /\ UNCHANGED <<snapshot, overrides, yaml, time>>

(* The rows of each family are cut out of the pages, extracted by a cloud  *)
(* model and validated: a price, no price, or a failure.                   *)
Extractions == [CloudModels -> {"found", "missing", "failed"}]

(* What the extraction of a family leaves of its model: a price, nothing,  *)
(* or what the snapshot read at the start had for it.                      *)
Extracted(previous, outcome, price) ==
  CASE outcome = "found" -> [price |-> price, status |-> "ok"]
    [] outcome = "failed" /\ previous # NoEntry -> [previous EXCEPT !.status = "fallback_used"]
    [] OTHER -> NoEntry

(* _apply_overrides *)
Overridden(entry, price) ==
  CASE price = 0 -> entry
    [] price # 0 /\ entry = NoEntry -> [price |-> price, status |-> "manual_override"]
    [] OTHER -> [entry EXCEPT !.price = price]

(* A mutant: the overrides are those read when the refresh began. *)
OverridesAtStart(t) == priceTask[t].overrides

(* The overrides are read from their file at the end of the refresh. *)
OverridesToApply(t) == overrides

(* The pages were fetched and each family was extracted or not. *)
PricingEnd(t, outcome, price) ==
  LET found == [m \in CloudModels |-> Extracted(priceTask[t].previous.entries[m], outcome[m], price)]
  IN  /\ priceTask[t].pc = "fetching"
      /\ \E m \in CloudModels : found[m] # NoEntry
      /\ snapshot' = [state |-> "ok", at |-> time, stale |-> FALSE,
                      entries |-> [m \in CloudModels |-> Overridden(found[m], OverridesToApply(t)[m])]]
      /\ priceTask' = [priceTask EXCEPT ![t] = IdleTask]
      /\ UNCHANGED <<overrides, yaml, time>>

(* Fetching or extracting failed: the snapshot that was read at the start  *)
(* is written back as "failed".                                            *)
PricingFails(t) ==
  /\ priceTask[t].pc = "fetching"
  /\ snapshot' = IF priceTask[t].previous = NoSnapshot THEN snapshot
                 ELSE [priceTask[t].previous EXCEPT !.state = "failed", !.stale = IsStale(priceTask[t].previous)]
  /\ priceTask' = [priceTask EXCEPT ![t] = IdleTask]
  /\ UNCHANGED <<overrides, yaml, time>>

(* save_manual_pricing *)
SavePrice(m, price) ==
  /\ snapshot' = [state |-> "manual", at |-> time, stale |-> FALSE,
                  entries |-> [snapshot.entries EXCEPT ![m] = [price |-> price, status |-> "manual"]]]
  /\ overrides' = [overrides EXCEPT ![m] = price]
  /\ yaml' = Synced(yaml, snapshot', overrides')
  /\ UNCHANGED <<priceTask, time>>

PricesAge ==
  /\ time < MaxTime
  /\ time' = time + 1
  /\ UNCHANGED <<snapshot, overrides, yaml, priceTask>>

(* A restart loses the refreshes and fills in the file. *)
RestartPricing ==
  /\ yaml' = Synced(yaml, snapshot, overrides)
  /\ priceTask' = [t \in PricingTasks |-> IdleTask]
  /\ UNCHANGED <<snapshot, overrides, time>>

(* get_pricing_entry: the status of the price that is used for a model. *)
PriceStatus(m) ==
  LET entry == snapshot.entries[m]
      builtIn == IF m \in BuiltIn THEN "manual" ELSE "none"
  IN  CASE yaml[m] # 0 -> "manual"
        [] yaml[m] = 0 /\ entry = NoEntry -> builtIn
        [] OTHER -> IF ~IsStale(snapshot) THEN entry.status
                    ELSE IF m \in BuiltIn THEN "manual" ELSE "stale"

(* merge_model_capabilities: the models of ms that may be used. *)
Priced(ms) ==
  {m \in ms : PriceStatus(m) # "none" /\ (IsStale(snapshot) \/ PriceStatus(m) \in {"ok", "manual", "stale"})}

(* A price the operator has saved is in every snapshot a refresh produces, *)
(* also when it is saved while the refresh is under way or a refresh that  *)
(* failed has written an older snapshot back.                              *)
OperatorPriceKept ==
  snapshot.state = "ok" => \A m \in CloudModels : overrides[m] # 0 => snapshot.entries[m].price = overrides[m]
=============================================================================
