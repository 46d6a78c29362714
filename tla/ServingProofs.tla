----------------------------- MODULE ServingProofs -----------------------------
(***************************************************************************)
(* What holds of Serving for every value of its constants.                 *)
(***************************************************************************)
EXTENDS Serving, FiniteSetTheorems, TLAPS

-----------------------------------------------------------------------------
(* The prices. *)

Entry == [price : Nat, status : {"none", "ok", "fallback_used", "manual_override", "manual"}]
Entries == [CloudModels -> Entry]
Snapshots == [state : {"none", "ok", "failed", "manual"}, at : Nat, stale : BOOLEAN, entries : Entries]

(* What the proof needs to know of the types of the pricing catalog. *)
PricesTyped ==
  /\ time \in Nat
  /\ overrides \in [CloudModels -> Nat]
  /\ snapshot \in Snapshots
  /\ priceTask \in [PricingTasks -> [pc : {"idle", "fetching"}, previous : Snapshots, overrides : [CloudModels -> Nat]]]

PriceInv == PricesTyped /\ OperatorPriceKept

(* A snapshot without a single price is a snapshot. *)
LEMMA EmptySnapshot == NoSnapshot \in Snapshots /\ IdleTask \in [pc : {"idle", "fetching"}, previous : Snapshots, overrides : [CloudModels -> Nat]]
<1>1. NoSnapshot.entries \in Entries BY DEF NoSnapshot, NoEntry, Entry, Entries
<1>2. NoSnapshot \in Snapshots BY <1>1 DEF NoSnapshot, Snapshots
<1>3. [m \in CloudModels |-> 0] \in [CloudModels -> Nat] OBVIOUS
<1> QED BY <1>2, <1>3 DEF IdleTask

(* The extraction of a family leaves an entry of its model. *)
LEMMA ExtractedTyped ==
  ASSUME NEW previous \in Entry, NEW outcome, NEW price \in Nat
  PROVE  Extracted(previous, outcome, price) \in Entry
BY DEF Extracted, NoEntry, Entry

(* An override is the price of the entry it is applied to. *)
LEMMA OverriddenPrice ==
  ASSUME NEW entry \in Entry, NEW price \in Nat
  PROVE  /\ Overridden(entry, price) \in Entry
         /\ price # 0 => Overridden(entry, price).price = price
BY DEF Overridden, NoEntry, Entry

(* The steps of the pricing catalog keep the invariant: the end of a       *)
(* refresh applies the overrides of that moment, and every other writer of *)
(* the snapshot gives it another state.                                    *)
LEMMA PricesStep ==
  ASSUME PriceInv,
         \/ \E t \in PricingTasks, force \in BOOLEAN : PricingStart(t, force)
         \/ \E t \in PricingTasks, outcome \in Extractions : PricingEnd(t, outcome, 1)
         \/ \E t \in PricingTasks : PricingFails(t)
         \/ \E m \in CloudModels, price \in 2..MaxPrice : SavePrice(m, price)
         \/ PricesAge \/ RestartPricing \/ UNCHANGED pricingVars
  PROVE  PriceInv'
<1> USE DEF PriceInv
<1>1. CASE \E t \in PricingTasks, force \in BOOLEAN : PricingStart(t, force)
  BY <1>1 DEF PricingStart, PricesTyped, OperatorPriceKept
<1>2. ASSUME NEW t \in PricingTasks, NEW outcome \in Extractions, PricingEnd(t, outcome, 1)
      PROVE  PriceInv'
  <2> DEFINE found == [m \in CloudModels |-> Extracted(priceTask[t].previous.entries[m], outcome[m], 1)]
             entries == [m \in CloudModels |-> Overridden(found[m], overrides[m])]
  <2>1. priceTask[t].previous.entries \in Entries BY DEF PricesTyped, Snapshots
  <2>2. \A m \in CloudModels : found[m] \in Entry
    BY <2>1, ExtractedTyped DEF Entries
  <2>3. \A m \in CloudModels : /\ entries[m] \in Entry
                               /\ overrides[m] # 0 => entries[m].price = overrides[m]
    <3> HIDE DEF found
    <3> QED BY <2>2, OverriddenPrice DEF PricesTyped
  <2>4. entries \in Entries
    <3> HIDE DEF found
    <3> QED BY <2>3 DEF Entries
  <2>5. /\ snapshot' = [state |-> "ok", at |-> time, stale |-> FALSE, entries |-> entries]
        /\ priceTask' = [priceTask EXCEPT ![t] = IdleTask]
        /\ UNCHANGED <<overrides, time>>
    BY <1>2 DEF PricingEnd, OverridesToApply
  <2> HIDE DEF entries, found
  <2>6. PricesTyped' BY <2>4, <2>5, EmptySnapshot DEF PricesTyped, Snapshots
  <2>7. OperatorPriceKept' BY <2>3, <2>5 DEF OperatorPriceKept
  <2> QED BY <2>6, <2>7
<1>3. ASSUME NEW t \in PricingTasks, PricingFails(t)
      PROVE  PriceInv'
  <2>1. priceTask[t].previous \in Snapshots BY DEF PricesTyped
  <2>2. IsStale(priceTask[t].previous) \in BOOLEAN BY <2>1 DEF IsStale, Snapshots
  <2>3. /\ \/ snapshot' = snapshot
           \/ snapshot' = [priceTask[t].previous EXCEPT !.state = "failed", !.stale = IsStale(priceTask[t].previous)]
        /\ priceTask' = [priceTask EXCEPT ![t] = IdleTask]
        /\ UNCHANGED <<overrides, time>>
    BY <1>3 DEF PricingFails
  <2>4. snapshot' \in Snapshots /\ (snapshot' = snapshot \/ snapshot'.state = "failed")
    BY <2>1, <2>2, <2>3 DEF PricesTyped, Snapshots
  <2>5. PricesTyped' BY <2>3, <2>4, EmptySnapshot DEF PricesTyped
  <2> QED BY <2>3, <2>4, <2>5 DEF OperatorPriceKept
<1>4. ASSUME NEW m \in CloudModels, NEW price \in 2..MaxPrice, SavePrice(m, price)
      PROVE  PriceInv'
  <2>1. [price |-> price, status |-> "manual"] \in Entry BY PricingAssumption DEF Entry
  <2>2. [snapshot.entries EXCEPT ![m] = [price |-> price, status |-> "manual"]] \in Entries
    BY <2>1 DEF PricesTyped, Snapshots, Entries
  <2>3. snapshot' \in Snapshots /\ snapshot'.state = "manual" BY <1>4, <2>2 DEF SavePrice, PricesTyped, Snapshots
  <2>4. overrides' \in [CloudModels -> Nat] BY <1>4, PricingAssumption DEF SavePrice, PricesTyped
  <2>5. PricesTyped' BY <1>4, <2>3, <2>4 DEF SavePrice, PricesTyped
  <2> QED BY <2>3, <2>5 DEF OperatorPriceKept
<1>5. CASE PricesAge
  BY <1>5 DEF PricesAge, PricesTyped, OperatorPriceKept
<1>6. CASE RestartPricing
  BY <1>6, EmptySnapshot DEF RestartPricing, PricesTyped, OperatorPriceKept
<1>7. CASE UNCHANGED pricingVars
  BY <1>7 DEF pricingVars, PricesTyped, OperatorPriceKept
<1> QED BY <1>1, <1>2, <1>3, <1>4, <1>5, <1>6, <1>7

(* The steps of the other parts leave the catalog alone. *)
LEMMA PricingFrame ==
  ASSUME [Next]_vars
  PROVE  \/ \E t \in PricingTasks, force \in BOOLEAN : PricingStart(t, force)
         \/ \E t \in PricingTasks, outcome \in Extractions : PricingEnd(t, outcome, 1)
         \/ \E t \in PricingTasks : PricingFails(t)
         \/ \E m \in CloudModels, price \in 2..MaxPrice : SavePrice(m, price)
         \/ PricesAge \/ RestartPricing \/ UNCHANGED pricingVars
<1>1. CASE \E c \in Calls : ClientCalls(c) \/ OperateNow(c) \/ OperateQueued(c) \/ ClientSteps(c)
  BY <1>1 DEF ClientCalls, OperateNow, OperateQueued, ClientSteps
<1>2. CASE \E n \in DOMAIN work : Advances(n) \/ AdapterFails(n) \/ JobStart(n) \/ CancelJob(n)
  BY <1>2 DEF Advances, Resolve, Govern, Send, AdapterAnswers, LocalEnds, EndOperation, AdapterFails, JobStart, CancelJob
<1>3. CASE \E k \in Keys : RecordExpires(k)
  BY <1>3 DEF RecordExpires
<1>4. CASE \E t \in Tasks : ProviderSteps(t)
  BY <1>4 DEF ProviderSteps
<1>5. CASE PromptSteps \/ GovernanceChanges \/ ProviderRequests
  BY <1>5 DEF PromptSteps, GovernanceChanges, ProviderRequests
<1>6. CASE PricingSteps
  BY <1>6 DEF PricingSteps, FreePricing
<1>7. CASE Crash
  BY <1>7 DEF Crash
<1>8. CASE UNCHANGED vars
  BY <1>8 DEF vars
<1> QED BY <1>1, <1>2, <1>3, <1>4, <1>5, <1>6, <1>7, <1>8 DEF Next

(* Whatever refreshes overlap, fail or are cut off: a snapshot that counts *)
(* as fresh from the provider has the operator's prices.                   *)
THEOREM OperatorPriceWins == Spec => []OperatorPriceKept
<1>1. Init => PriceInv
  BY EmptySnapshot DEF Init, PricingInit, PriceInv, PricesTyped, OperatorPriceKept, NoSnapshot
<1>2. PriceInv /\ [Next]_vars => PriceInv'
  BY PricesStep, PricingFrame
<1>3. PriceInv => OperatorPriceKept
  BY DEF PriceInv
<1> QED BY <1>1, <1>2, <1>3, PTL DEF Spec

-----------------------------------------------------------------------------
(* The executions. *)

ExecutionFields == {"call", "req", "job", "pc", "auth", "provider", "order", "at", "tries", "retries"}

(* The executions are a sequence of records that belong to calls; those    *)
(* that wait in the queue are jobs, those whose answer is to be recorded   *)
(* are not.                                                                *)
WorkTyped ==
  /\ work \in Seq(Range(work))
  /\ \A n \in DOMAIN work :
       /\ DOMAIN work[n] = ExecutionFields
       /\ work[n].call \in Calls
       /\ work[n].job \in BOOLEAN
       /\ work[n].pc = "queued" => work[n].job
       /\ work[n].pc = "ended" => ~work[n].job
       /\ work[n].pc \in Admitted \cup {"queued", "local", "ended", "done"}

AdmittedWork == {n \in DOMAIN work : work[n].pc \in Admitted}
Benchmarks == {t \in Tasks : task[t].kind = "explicit"}

(* A task that executes is a benchmark, one that classifies or is idle is  *)
(* not.                                                                    *)
IsTask(v) ==
  /\ DOMAIN v = {"kind", "pc", "all", "left", "default", "listed"}
  /\ v.pc = "idle" => v.kind = "none"
  /\ v.pc = "execute" => v.kind = "explicit"
  /\ v.pc = "classify" => v.kind # "explicit"

TasksTyped ==
  /\ DOMAIN task = Tasks
  /\ \A t \in Tasks : IsTask(task[t])
  /\ IsFiniteSet(Benchmarks)

RecordFields == {"body", "answer", "expired"}

CallsTyped ==
  /\ DOMAIN call = Calls
  /\ \A c \in Calls : DOMAIN call[c] = {"pc", "key", "body"}
  /\ DOMAIN records = Keys /\ DOMAIN saved = Keys /\ DOMAIN given = Keys /\ DOMAIN pending = Keys
  /\ \A k \in Keys : DOMAIN records[k] = RecordFields /\ DOMAIN saved[k] = RecordFields

(* One answer, that of the record, was given under a key. *)
GivenRecorded ==
  \A k \in Keys : /\ given[k] \subseteq {records[k].answer}
                  /\ records[k] = NoRecord => given[k] = {}

(* Who operates under a key owns it, and has no record yet. *)
OperatesAlone ==
  \A c \in Calls : call[c].pc = "operating" /\ Keyed(c) =>
    pending[call[c].key] = c /\ records[call[c].key] = NoRecord

(* An execution under way that is not a job belongs to a call that         *)
(* operates, and is the only one of it.                                    *)
Direct(n) == ~work[n].job /\ work[n].pc # "done"
DirectOperates ==
  /\ \A n \in DOMAIN work : Direct(n) => call[work[n].call].pc = "operating"
  /\ \A n, m \in DOMAIN work : Direct(n) /\ Direct(m) /\ work[n].call = work[m].call => n = m


-----------------------------------------------------------------------------
(* Sequences of executions. *)

LEMMA SequenceOfItsRange ==
  ASSUME NEW k \in Nat, NEW s, s = [i \in 1..k |-> s[i]]
  PROVE  s \in Seq(Range(s)) /\ DOMAIN s = 1..k /\ Len(s) = k
<1>1. DOMAIN s = 1..k OBVIOUS
<1>2. \A i \in 1..k : s[i] \in Range(s) BY <1>1 DEF Range
<1>3. s \in [1..k -> Range(s)] BY <1>2
<1> QED BY <1>1, <1>3

LEMMA DomainOfSequence ==
  ASSUME NEW s, s \in Seq(Range(s))
  PROVE  /\ Len(s) \in Nat /\ DOMAIN s = 1..Len(s)
         /\ s = [i \in 1..Len(s) |-> s[i]]
<1> DEFINE R == Range(s)
<1>1. s \in Seq(R) OBVIOUS
<1> HIDE DEF R
<1> QED BY <1>1

LEMMA SequenceIsFunction ==
  ASSUME NEW S, NEW s \in Seq(S)
  PROVE  s = [i \in 1..Len(s) |-> s[i]]
OBVIOUS

LEMMA Replaced ==
  ASSUME NEW s, s \in Seq(Range(s)), NEW n \in DOMAIN s, NEW w,
         NEW t, t = [s EXCEPT ![n] = w]
  PROVE  /\ t \in Seq(Range(t)) /\ DOMAIN t = DOMAIN s /\ t[n] = w
         /\ \A m \in DOMAIN s \ {n} : t[m] = s[m]
<1>1. Len(s) \in Nat /\ DOMAIN s = 1..Len(s) BY DomainOfSequence
<1>2. t = [i \in 1..Len(s) |-> t[i]] BY <1>1
<1>3. t \in Seq(Range(t)) BY <1>1, <1>2, SequenceOfItsRange
<1> QED BY <1>1, <1>3

LEMMA Appended ==
  ASSUME NEW s, s \in Seq(Range(s)), NEW w, NEW t, t = Append(s, w)
  PROVE  /\ t \in Seq(Range(t)) /\ DOMAIN t = DOMAIN s \cup {Len(s) + 1} /\ Len(s) + 1 \notin DOMAIN s
         /\ t[Len(s) + 1] = w /\ \A m \in DOMAIN s : t[m] = s[m]
<1> DEFINE R == Range(s) \cup {w}
<1>1. Len(s) \in Nat /\ DOMAIN s = 1..Len(s) /\ s = [i \in 1..Len(s) |-> s[i]] BY DomainOfSequence
<1>2. \A i \in 1..Len(s) : s[i] \in R BY <1>1 DEF Range
<1>3. s \in Seq(R) /\ w \in R BY <1>1, <1>2
<1> HIDE DEF R
<1>4. /\ t \in Seq(R) /\ Len(t) = Len(s) + 1 /\ t[Len(s) + 1] = w
      /\ \A m \in 1..Len(s) : t[m] = s[m]
  BY <1>1, <1>3
<1>5. t = [i \in 1..(Len(s) + 1) |-> t[i]]
  BY <1>4, SequenceIsFunction
<1>6. Len(s) + 1 \in Nat BY <1>1
<1>7. t \in Seq(Range(t)) /\ DOMAIN t = 1..(Len(s) + 1) BY <1>5, <1>6, SequenceOfItsRange
<1> QED BY <1>1, <1>4, <1>7

-----------------------------------------------------------------------------
(* What a step does to the executions. *)

Becomes(n, pc) ==
  /\ DOMAIN work' = DOMAIN work
  /\ \A m \in DOMAIN work \ {n} : work'[m] = work[m]
  /\ work'[n].pc = pc /\ work'[n].call = work[n].call /\ work'[n].job = work[n].job

LEMMA ExecutionMoves ==
  ASSUME WorkTyped, NEW n \in DOMAIN work, NEW w,
         work' = [work EXCEPT ![n] = w],
         DOMAIN w = ExecutionFields, w.call = work[n].call, w.job = work[n].job,
         w.pc \in Admitted \cup {"local", "done"} \/ (w.pc = "ended" /\ ~w.job)
  PROVE  WorkTyped' /\ Becomes(n, w.pc)
<1>1. work \in Seq(Range(work)) BY DEF WorkTyped
<1>2. /\ work' \in Seq(Range(work')) /\ DOMAIN work' = DOMAIN work /\ work'[n] = w
      /\ \A m \in DOMAIN work \ {n} : work'[m] = work[m]
  BY <1>1, Replaced
<1>3. Becomes(n, w.pc) BY <1>2 DEF Becomes
<1>4. \A m \in DOMAIN work' :
        /\ DOMAIN work'[m] = ExecutionFields
        /\ work'[m].call \in Calls
        /\ work'[m].job \in BOOLEAN
        /\ work'[m].pc = "queued" => work'[m].job
        /\ work'[m].pc = "ended" => ~work'[m].job
        /\ work'[m].pc \in Admitted \cup {"queued", "local", "ended", "done"}
  <2> TAKE m \in DOMAIN work'
  <2>1. CASE m = n BY <2>1, <1>2 DEF WorkTyped, Admitted
  <2>2. CASE m # n BY <2>2, <1>2 DEF WorkTyped
  <2> QED BY <2>1, <2>2
<1> QED BY <1>2, <1>3, <1>4 DEF WorkTyped

(* As the one above, for a step that moves an execution to another point   *)
(* and leaves the rest of it alone.                                        *)
LEMMA ExecutionPasses ==
  ASSUME WorkTyped, NEW n \in DOMAIN work, NEW pc,
         work' = [work EXCEPT ![n].pc = pc],
         pc \in Admitted \cup {"local", "done"} \/ (pc = "ended" /\ ~work[n].job)
  PROVE  WorkTyped' /\ Becomes(n, pc)
<1> DEFINE w == [work[n] EXCEPT !.pc = pc]
<1>1. DOMAIN work[n] = ExecutionFields BY DEF WorkTyped
<1>2. DOMAIN w = ExecutionFields /\ w.call = work[n].call /\ w.job = work[n].job /\ w.pc = pc
  BY <1>1 DEF ExecutionFields
<1>3. work' = [work EXCEPT ![n] = w] OBVIOUS
<1> HIDE DEF w
<1> QED BY <1>2, <1>3, ExecutionMoves

(* The task service has an execution: it keeps its admission and goes on,  *)
(* or it ends and gives the admission back.                                *)
Ended(n) == IF work[n].job THEN "done" ELSE "ended"
KeepsOrEnds(n) ==
  \/ \E pc \in Admitted : Becomes(n, pc) /\ inFlight' = inFlight
  \/ Becomes(n, Ended(n)) /\ inFlight' = Released

LEMMA EndsShape ==
  ASSUME WorkTyped, NEW n \in DOMAIN work, Ends(n)
  PROVE  WorkTyped' /\ KeepsOrEnds(n)
<1>1. work' = [work EXCEPT ![n].pc = Ended(n)] /\ inFlight' = Released BY DEF Ends, EndedWork, Ended
<1>2. Ended(n) = "done" \/ (Ended(n) = "ended" /\ ~work[n].job) BY DEF Ended, WorkTyped
<1>3. WorkTyped' /\ Becomes(n, Ended(n)) BY <1>1, <1>2, ExecutionPasses
<1> QED BY <1>1, <1>3 DEF KeepsOrEnds

LEMMA TriesShape ==
  ASSUME WorkTyped, NEW n \in DOMAIN work, NEW w, NEW candidates, Tries(n, w, candidates),
         DOMAIN w = ExecutionFields, w.call = work[n].call, w.job = work[n].job
  PROVE  WorkTyped' /\ KeepsOrEnds(n)
<1>1. CASE Ends(n) BY <1>1, EndsShape
<1>2. ASSUME NEW at, NEW order, Continues,
             work' = [work EXCEPT ![n] = [w EXCEPT !.pc = "sending", !.at = at, !.tries = w.retries, !.order = order]]
      PROVE  WorkTyped' /\ KeepsOrEnds(n)
  <2> DEFINE v == [w EXCEPT !.pc = "sending", !.at = at, !.tries = w.retries, !.order = order]
  <2>1. DOMAIN v = ExecutionFields /\ v.call = work[n].call /\ v.job = work[n].job /\ v.pc = "sending"
    BY DEF ExecutionFields
  <2>2. work' = [work EXCEPT ![n] = v] BY <1>2
  <2> HIDE DEF v
  <2>3. WorkTyped' /\ Becomes(n, "sending") BY <2>1, <2>2, ExecutionMoves DEF Admitted
  <2> QED BY <1>2, <2>3 DEF KeepsOrEnds, Continues, Admitted
<1> QED BY <1>1, <1>2 DEF Tries

LEMMA ServiceSteps ==
  ASSUME WorkTyped, NEW n \in DOMAIN work,
         Resolve(n) \/ Govern(n) \/ Send(n) \/ AdapterAnswers(n) \/ AdapterFails(n)
  PROVE  /\ WorkTyped' /\ KeepsOrEnds(n) /\ work[n].pc \in Admitted
         /\ UNCHANGED <<idempotencyVars, providerVars>>
<1>0. DOMAIN work[n] = ExecutionFields BY DEF WorkTyped
<1>1. CASE Resolve(n)
  <2> DEFINE auth == Authorize(work[n].req, prompt)
             mode == EffectiveMode(auth, work[n].req.mode)
             requested == RequestedProvider(work[n].req, auth)
             order == ProviderOrder(requested, Enabled[1], EnabledSorted, mode)
             eligible == Eligible(EnabledSorted, Approved(work[n].req, auth), mode, Health)
             provider == Resolved(order, eligible, requested, work[n].req.model, UsableModels)
             v == [work[n] EXCEPT !.pc = "selected", !.auth = auth, !.provider = provider]
  <2>1. DOMAIN v = ExecutionFields /\ v.call = work[n].call /\ v.job = work[n].job /\ v.pc = "selected"
    BY <1>0 DEF ExecutionFields
  <2>2. \/ work' = [work EXCEPT ![n] = v] /\ inFlight' = inFlight
        \/ Ends(n)
    <3> HIDE DEF auth, mode, requested, provider, order, eligible
    <3>1. \/ /\ work' = [work EXCEPT ![n].pc = "selected", ![n].auth = auth, ![n].provider = provider]
             /\ inFlight' = inFlight
          \/ Ends(n)
      BY <1>1 DEF Resolve, auth, mode, requested, provider, order, eligible
    <3> QED BY <3>1
  <2> HIDE DEF v
  <2>3. ASSUME work' = [work EXCEPT ![n] = v], inFlight' = inFlight
        PROVE  WorkTyped' /\ KeepsOrEnds(n)
    <3>1. WorkTyped' /\ Becomes(n, "selected") BY <2>1, <2>3, ExecutionMoves DEF Admitted
    <3> QED BY <2>3, <3>1 DEF KeepsOrEnds, Admitted
  <2>4. ASSUME Ends(n) PROVE WorkTyped' /\ KeepsOrEnds(n) BY <2>4, EndsShape
  <2>5. work[n].pc \in Admitted /\ UNCHANGED <<idempotencyVars, providerVars>> BY <1>1 DEF Resolve, Admitted
  <2> QED BY <2>2, <2>3, <2>4, <2>5
<1>2. CASE Govern(n)
  <2>1. ASSUME work' = [work EXCEPT ![n].pc = "granted"], Continues
        PROVE  WorkTyped' /\ KeepsOrEnds(n)
    <3>1. WorkTyped' /\ Becomes(n, "granted") BY <2>1, ExecutionPasses DEF Admitted
    <3> QED BY <2>1, <3>1 DEF KeepsOrEnds, Admitted, Continues
  <2>2. ASSUME Ends(n) PROVE WorkTyped' /\ KeepsOrEnds(n) BY <2>2, EndsShape
  <2> QED BY <1>2, <2>1, <2>2 DEF Govern, Admitted
<1>3. CASE Send(n)
  <2> DEFINE w == [work[n] EXCEPT !.retries = router.retries]
  <2>1. DOMAIN w = ExecutionFields /\ w.call = work[n].call /\ w.job = work[n].job BY <1>0 DEF ExecutionFields
  <2>2. \E candidates : Tries(n, w, candidates) BY <1>3 DEF Send
  <2> HIDE DEF w
  <2>3. WorkTyped' /\ KeepsOrEnds(n) BY <2>1, <2>2, TriesShape
  <2> QED BY <1>3, <2>3 DEF Send, Admitted
<1>4. CASE AdapterAnswers(n)
  BY <1>4, EndsShape DEF AdapterAnswers, Admitted
<1>5. CASE AdapterFails(n)
  <2>1. ASSUME work' = [work EXCEPT ![n].tries = @ - 1], Continues
        PROVE  WorkTyped' /\ KeepsOrEnds(n)
    <3> DEFINE v == [work[n] EXCEPT !.tries = work[n].tries - 1]
    <3>1. DOMAIN v = ExecutionFields /\ v.call = work[n].call /\ v.job = work[n].job /\ v.pc = "sending"
      BY <1>0, <1>5 DEF ExecutionFields, AdapterFails
    <3>2. work' = [work EXCEPT ![n] = v] BY <2>1
    <3> HIDE DEF v
    <3>3. WorkTyped' /\ Becomes(n, "sending") BY <3>1, <3>2, ExecutionMoves DEF Admitted
    <3> QED BY <2>1, <3>3 DEF KeepsOrEnds, Admitted, Continues
  <2>2. ASSUME Tries(n, work[n], work[n].order) PROVE WorkTyped' /\ KeepsOrEnds(n) BY <1>0, <2>2, TriesShape
  <2> QED BY <1>5, <2>1, <2>2 DEF AdapterFails, Admitted
<1> QED BY <1>1, <1>2, <1>3, <1>4, <1>5

(* An execution enters: a local runtime takes it, or it is admitted.       *)
Enters(n) ==
  \/ Becomes(n, "local") /\ inFlight' = inFlight
  \/ Becomes(n, "received") /\ MayAdmit /\ inFlight' = inFlight + 1

LEMMA JobStartShape ==
  ASSUME WorkTyped, NEW n \in DOMAIN work, JobStart(n)
  PROVE  /\ WorkTyped' /\ work[n].pc = "queued"
         /\ Enters(n) \/ (Becomes(n, "done") /\ inFlight' = inFlight)
         /\ UNCHANGED <<idempotencyVars, providerVars>>
<1>1. \/ work' = [work EXCEPT ![n] = [work[n] EXCEPT !.pc = "local"]] /\ inFlight' = inFlight
      \/ work' = [work EXCEPT ![n] = [work[n] EXCEPT !.pc = "received"]] /\ MayAdmit /\ inFlight' = inFlight + 1
      \/ work' = [work EXCEPT ![n].pc = "done"] /\ inFlight' = inFlight
  BY DEF JobStart, Enter
<1>2. \A pc \in {"local", "received", "done"} :
        work' = [work EXCEPT ![n].pc = pc] => WorkTyped' /\ Becomes(n, pc)
  BY ExecutionPasses DEF Admitted
<1>3. \A pc \in {"local", "received", "done"} :
        work' = [work EXCEPT ![n] = [work[n] EXCEPT !.pc = pc]] => WorkTyped' /\ Becomes(n, pc)
  BY <1>2
<1>4. WorkTyped' /\ (Enters(n) \/ (Becomes(n, "done") /\ inFlight' = inFlight)) BY <1>1, <1>3, <1>2 DEF Enters
<1> QED BY <1>4 DEF JobStart

LEMMA CancelShape ==
  ASSUME WorkTyped, NEW n \in DOMAIN work, CancelJob(n)
  PROVE  /\ WorkTyped' /\ work[n].job /\ Becomes(n, "done")
         /\ \/ work[n].pc \in Admitted /\ inFlight' = Released
            \/ work[n].pc = "queued" /\ inFlight' = inFlight
         /\ UNCHANGED <<idempotencyVars, providerVars>>
<1>1. WorkTyped' /\ Becomes(n, "done") BY ExecutionPasses DEF CancelJob
<1>2. CASE work[n].pc \in Admitted BY <1>1, <1>2 DEF CancelJob
<1>3. CASE work[n].pc = "queued" BY <1>1, <1>3 DEF CancelJob, Admitted
<1> QED BY <1>2, <1>3 DEF CancelJob

LEMMA LocalEndsShape ==
  ASSUME WorkTyped, NEW n \in DOMAIN work, LocalEnds(n)
  PROVE  /\ WorkTyped' /\ work[n].pc = "local" /\ UNCHANGED <<inFlight, providerVars>>
         /\ \/ Becomes(n, Ended(n)) /\ UNCHANGED idempotencyVars
            \/ Becomes(n, "done") /\ work[n].job /\ UNCHANGED idempotencyVars
            \/ Becomes(n, "done") /\ ~work[n].job /\ OperationFails(work[n].call)
<1>1. Ended(n) = "done" \/ (Ended(n) = "ended" /\ ~work[n].job) BY DEF Ended, WorkTyped
<1>2. CASE work' = EndedWork(n) /\ UNCHANGED idempotencyVars
  <2>1. work' = [work EXCEPT ![n].pc = Ended(n)] BY <1>2 DEF EndedWork, Ended
  <2>2. WorkTyped' /\ Becomes(n, Ended(n)) BY <1>1, <2>1, ExecutionPasses
  <2> QED BY <1>2, <2>2 DEF LocalEnds
<1>3. CASE work' = [work EXCEPT ![n].pc = "done"]
           /\ (IF work[n].job THEN UNCHANGED idempotencyVars ELSE OperationFails(work[n].call))
  <2>1. WorkTyped' /\ Becomes(n, "done") BY <1>3, ExecutionPasses
  <2> QED BY <1>3, <2>1 DEF LocalEnds
<1> QED BY <1>2, <1>3 DEF LocalEnds

LEMMA EndOperationShape ==
  ASSUME WorkTyped, NEW n \in DOMAIN work, EndOperation(n)
  PROVE  /\ WorkTyped' /\ work[n].pc = "ended" /\ ~work[n].job /\ Becomes(n, "done")
         /\ OperationReturns(work[n].call, n) \/ PersistFails(work[n].call, n)
         /\ UNCHANGED <<inFlight, providerVars>>
<1>1. WorkTyped' /\ Becomes(n, "done") BY ExecutionPasses DEF EndOperation
<1> QED BY <1>1 DEF EndOperation, WorkTyped

(* A new execution is added behind the others. *)
Added(c, job, pc) ==
  LET n == Len(work) + 1
  IN  /\ DOMAIN work' = DOMAIN work \cup {n} /\ n \notin DOMAIN work
      /\ \A m \in DOMAIN work : work'[m] = work[m]
      /\ work'[n].pc = pc /\ work'[n].call = c /\ work'[n].job = job

LEMMA ExecutionAdded ==
  ASSUME WorkTyped, NEW c \in Calls, NEW req, NEW job \in BOOLEAN, NEW pc,
         pc \in {"local", "received"} \/ (pc = "queued" /\ job),
         work' = Append(work, [Execution(c, req, job, "received") EXCEPT !.pc = pc])
         \/ work' = Append(work, Execution(c, req, job, pc))
  PROVE  WorkTyped' /\ Added(c, job, pc)
<1>1. PICK w : /\ work' = Append(work, w)
               /\ DOMAIN w = ExecutionFields /\ w.call = c /\ w.job = job /\ w.pc = pc
  BY DEF Execution, ExecutionFields
<1>2. work \in Seq(Range(work)) BY DEF WorkTyped
<1>3. /\ work' \in Seq(Range(work')) /\ DOMAIN work' = DOMAIN work \cup {Len(work) + 1} /\ Len(work) + 1 \notin DOMAIN work
      /\ work'[Len(work) + 1] = w /\ \A m \in DOMAIN work : work'[m] = work[m]
  <2>1. work' = Append(work, w) BY <1>1
  <2>2. work' \in Seq(Range(work')) BY <2>1, <1>2, Appended
  <2>3. DOMAIN work' = DOMAIN work \cup {Len(work) + 1} BY <2>1, <1>2, Appended
  <2>4. Len(work) + 1 \notin DOMAIN work BY <2>1, <1>2, Appended
  <2>5. work'[Len(work) + 1] = w BY <2>1, <1>2, Appended
  <2>6. \A m \in DOMAIN work : work'[m] = work[m] BY <2>1, <1>2, Appended
  <2> QED BY <2>2, <2>3, <2>4, <2>5, <2>6
<1>4. Added(c, job, pc) BY <1>1, <1>3 DEF Added
<1>5. \A m \in DOMAIN work' :
        /\ DOMAIN work'[m] = ExecutionFields
        /\ work'[m].call \in Calls
        /\ work'[m].job \in BOOLEAN
        /\ work'[m].pc = "queued" => work'[m].job
        /\ work'[m].pc = "ended" => ~work'[m].job
        /\ work'[m].pc \in Admitted \cup {"queued", "local", "ended", "done"}
  <2> TAKE m \in DOMAIN work'
  <2>1. CASE m = Len(work) + 1 BY <2>1, <1>1, <1>3 DEF Admitted
  <2>2. CASE m \in DOMAIN work BY <2>2, <1>3 DEF WorkTyped
  <2> QED BY <1>3, <2>1, <2>2
<1> QED BY <1>3, <1>4, <1>5 DEF WorkTyped

LEMMA OperateNowShape ==
  ASSUME WorkTyped, NEW c \in Calls, OperateNow(c)
  PROVE  /\ WorkTyped' /\ UNCHANGED providerVars /\ Begins(c)
         /\ \/ Added(c, FALSE, "local") /\ UNCHANGED <<inFlight, idempotencyVars>>
            \/ Added(c, FALSE, "received") /\ MayAdmit /\ inFlight' = inFlight + 1 /\ UNCHANGED idempotencyVars
            \/ OperationFails(c) /\ UNCHANGED <<work, inFlight>>
<1> DEFINE w == Execution(c, call[c].body, FALSE, "received")
<1>1. \/ work' = Append(work, [w EXCEPT !.pc = "local"]) /\ UNCHANGED <<inFlight, idempotencyVars>>
      \/ work' = Append(work, w) /\ MayAdmit /\ inFlight' = inFlight + 1 /\ UNCHANGED idempotencyVars
      \/ OperationFails(c) /\ UNCHANGED <<work, inFlight>>
  BY DEF OperateNow
<1>2. work' = Append(work, [w EXCEPT !.pc = "local"]) => WorkTyped' /\ Added(c, FALSE, "local")
  BY ExecutionAdded
<1>3. work' = Append(work, w) => WorkTyped' /\ Added(c, FALSE, "received")
  BY ExecutionAdded
<1>4. UNCHANGED work => WorkTyped' BY DEF WorkTyped
<1>5. UNCHANGED providerVars /\ Begins(c) BY DEF OperateNow
<1> HIDE DEF w
<1> QED BY <1>1, <1>2, <1>3, <1>4, <1>5

LEMMA OperateQueuedShape ==
  ASSUME WorkTyped, NEW c \in Calls, OperateQueued(c)
  PROVE  /\ WorkTyped' /\ Added(c, TRUE, "queued") /\ Begins(c)
         /\ OperationReturns(c, Len(work) + 1) /\ UNCHANGED <<inFlight, providerVars>>
<1>1. PICK req : work' = Append(work, Execution(c, req, TRUE, "queued")) BY DEF OperateQueued
<1>2. WorkTyped' /\ Added(c, TRUE, "queued") BY <1>1, ExecutionAdded
<1> QED BY <1>2 DEF OperateQueued

LEMMA CrashShape ==
  ASSUME WorkTyped, Crash
  PROVE  /\ WorkTyped' /\ DOMAIN work' = DOMAIN work
         /\ \A n \in DOMAIN work : \/ work'[n] = work[n] /\ work[n].pc = "queued"
                                   \/ work'[n].pc = "done" /\ work'[n].call = work[n].call /\ work'[n].job = work[n].job
         /\ ForgetCalls /\ RestartProviders /\ inFlight' = 0
<1> DEFINE W(n) == IF work[n].pc = "queued" THEN work[n] ELSE [work[n] EXCEPT !.pc = "done"]
<1>1. Len(work) \in Nat /\ DOMAIN work = 1..Len(work) BY DomainOfSequence DEF WorkTyped
<1>2. work' = [n \in 1..Len(work) |-> W(n)] BY <1>1 DEF Crash
<1>3. \A n \in DOMAIN work : /\ work'[n] = W(n)
                             /\ DOMAIN W(n) = ExecutionFields /\ W(n).call = work[n].call /\ W(n).job = work[n].job
                             /\ (W(n) = work[n] /\ work[n].pc = "queued") \/ W(n).pc = "done"
  BY <1>1, <1>2 DEF WorkTyped, ExecutionFields
<1> HIDE DEF W
<1>4. work' = [n \in 1..Len(work) |-> work'[n]] BY <1>2
<1>5. work' \in Seq(Range(work')) /\ DOMAIN work' = DOMAIN work BY <1>1, <1>4, SequenceOfItsRange
<1>6. WorkTyped' BY <1>3, <1>5 DEF WorkTyped
<1> QED BY <1>3, <1>5, <1>6 DEF Crash

-----------------------------------------------------------------------------
(* What a step does to the tasks of the provider runtime. *)

LEMMA TaskMoves ==
  ASSUME TasksTyped, NEW t \in Tasks, NEW v, IsTask(v), task' = [task EXCEPT ![t] = v]
  PROVE  /\ TasksTyped'
         /\ v.kind = "explicit" => Benchmarks' = Benchmarks \cup {t}
         /\ v.kind # "explicit" => Benchmarks' = Benchmarks \ {t}
<1>1. DOMAIN task' = Tasks /\ \A u \in Tasks : IsTask(task'[u])
  BY DEF TasksTyped
<1>2. Benchmarks' = IF v.kind = "explicit" THEN Benchmarks \cup {t} ELSE Benchmarks \ {t}
  BY DEF Benchmarks, TasksTyped
<1>3. IsFiniteSet(Benchmarks \cup {t}) /\ IsFiniteSet(Benchmarks \ {t})
  BY FS_AddElement, FS_RemoveElement DEF TasksTyped
<1> QED BY <1>1, <1>2, <1>3 DEF TasksTyped

LEMMA IdleIsTask == IsTask(IdleRefresh) /\ IdleRefresh.kind = "none"
BY DEF IdleRefresh, Task, IsTask

(* A task that is not a benchmark goes on with its next provider, or ends. *)
LEMMA ProceedShape ==
  ASSUME TasksTyped, NEW t \in Tasks, NEW tk, NEW reg, Proceed(t, tk, reg),
         DOMAIN tk = {"kind", "pc", "all", "left", "default", "listed"}, tk.kind # "explicit"
  PROVE  TasksTyped' /\ Benchmarks' = Benchmarks \ {t}
<1> DEFINE v == [tk EXCEPT !.pc = "health"]
<1>1. IsTask(v) /\ v.kind # "explicit" BY DEF IsTask
<1>2. task' = [task EXCEPT ![t] = v] \/ task' = [task EXCEPT ![t] = IdleRefresh] BY DEF Proceed
<1> HIDE DEF v
<1> QED BY <1>1, <1>2, IdleIsTask, TaskMoves

LEMMA TaskStarts ==
  ASSUME TasksTyped, NEW t \in Tasks, RefreshStart(t) \/ CredentialsStart(t)
  PROVE  TasksTyped' /\ Benchmarks' = Benchmarks
<1>1. t \notin Benchmarks BY DEF RefreshStart, CredentialsStart, TasksTyped, IsTask, Benchmarks
<1>2. \A kind \in {"refresh", "credentials"} : \A ps, default :
        /\ DOMAIN Task(kind, ps, default) = {"kind", "pc", "all", "left", "default", "listed"}
        /\ Task(kind, ps, default).kind # "explicit"
  BY DEF Task
<1>3. TasksTyped' /\ Benchmarks' = Benchmarks \ {t}
  <2>1. CASE RefreshStart(t)
    BY <2>1, <1>2, ProceedShape DEF RefreshStart
  <2>2. CASE CredentialsStart(t)
    BY <2>2, <1>2, ProceedShape DEF CredentialsStart
  <2> QED BY <2>1, <2>2
<1> QED BY <1>1, <1>3

LEMMA BenchmarkStarts ==
  ASSUME TasksTyped, NEW t \in Tasks, NEW p, ExplicitStart(t, p)
  PROVE  TasksTyped' /\ Benchmarks' = Benchmarks \cup {t} /\ t \notin Benchmarks
<1>1. t \notin Benchmarks BY DEF ExplicitStart, TasksTyped, IsTask, Benchmarks
<1> DEFINE tk == Task("explicit", <<p>>, None)
           known == registry[p].adapter /\ Usable(registry[p].health)
           v == [tk EXCEPT !.pc = IF known THEN "execute" ELSE tk.pc]
<1>2. DOMAIN tk = {"kind", "pc", "all", "left", "default", "listed"} /\ tk.kind = "explicit" /\ tk.pc = "health"
  BY DEF Task
<1>3. task' = [task EXCEPT ![t] = v] BY DEF ExplicitStart
<1> HIDE DEF tk, known
<1>4. IsTask(v) /\ v.kind = "explicit" BY <1>2 DEF IsTask
<1> HIDE DEF v
<1> QED BY <1>1, <1>3, <1>4, TaskMoves

LEMMA TaskGoesOn ==
  ASSUME TasksTyped, NEW t \in Tasks,
         \/ \E h \in {"available", "unavailable"} : HealthAnswers(t, h)
         \/ \E ms \in Listings(t) : ModelsAnswer(t, ms)
         \/ \E ok \in BOOLEAN : Classified(t, ok)
  PROVE  TasksTyped' /\ Benchmarks' = Benchmarks
<1>0. IsTask(task[t]) /\ (t \in Benchmarks <=> task[t].kind = "explicit") BY DEF TasksTyped, Benchmarks
<1>1. ASSUME NEW v, IsTask(v), v.kind = task[t].kind, task' = [task EXCEPT ![t] = v]
      PROVE  TasksTyped' /\ Benchmarks' = Benchmarks
  BY <1>0, <1>1, TaskMoves
<1>2. ASSUME NEW tk, NEW reg, Proceed(t, tk, reg), tk = [task[t] EXCEPT !.left = Tail(task[t].left)],
             task[t].kind # "explicit"
      PROVE  TasksTyped' /\ Benchmarks' = Benchmarks
  <2>1. DOMAIN tk = {"kind", "pc", "all", "left", "default", "listed"} /\ tk.kind # "explicit"
    BY <1>0, <1>2 DEF IsTask
  <2> QED BY ZenonT(60), <1>0, <1>2, <2>1, ProceedShape
<1>3. ASSUME NEW h, HealthAnswers(t, h)
      PROVE  TasksTyped' /\ Benchmarks' = Benchmarks
  <2> DEFINE v == [task[t] EXCEPT !.pc = "models"]
  <2>1. IsTask(v) /\ v.kind = task[t].kind /\ task' = [task EXCEPT ![t] = v]
    BY <1>0, <1>3 DEF HealthAnswers, IsTask
  <2> HIDE DEF v
  <2> QED BY <1>1, <2>1
<1>4. ASSUME NEW ms, ModelsAnswer(t, ms)
      PROVE  TasksTyped' /\ Benchmarks' = Benchmarks
  <2>1. CASE task[t].kind = "explicit" /\ task' = [task EXCEPT ![t].pc = "execute"]
    <3> DEFINE v == [task[t] EXCEPT !.pc = "execute"]
    <3>1. IsTask(v) /\ v.kind = task[t].kind /\ task' = [task EXCEPT ![t] = v]
      BY <1>0, <2>1 DEF IsTask
    <3> HIDE DEF v
    <3> QED BY <1>1, <3>1
  <2>2. CASE /\ task[t].kind # "explicit"
             /\ task' = [task EXCEPT ![t].pc = "classify", ![t].listed = Preserved(ms)]
    <3> DEFINE v == [task[t] EXCEPT !.pc = "classify", !.listed = Preserved(ms)]
    <3>1. IsTask(v) /\ v.kind = task[t].kind /\ task' = [task EXCEPT ![t] = v]
      BY <1>0, <2>2 DEF IsTask
    <3> HIDE DEF v
    <3> QED BY <1>1, <3>1
  <2>3. CASE task[t].kind # "explicit" /\ \E tk, reg : Proceed(t, tk, reg) /\ tk = [task[t] EXCEPT !.left = Tail(task[t].left)]
    BY <1>2, <2>3
  <2> QED BY <1>4, <2>1, <2>2, <2>3 DEF ModelsAnswer
<1>5. ASSUME NEW ok, Classified(t, ok)
      PROVE  TasksTyped' /\ Benchmarks' = Benchmarks
  <2>1. task[t].kind # "explicit" BY <1>0, <1>5 DEF Classified, IsTask
  <2>2. \E tk, reg : Proceed(t, tk, reg) /\ tk = [task[t] EXCEPT !.left = Tail(task[t].left)]
    BY <1>5 DEF Classified
  <2> QED BY <1>2, <2>1, <2>2
<1> QED BY <1>3, <1>4, <1>5

LEMMA TaskEnds ==
  ASSUME TasksTyped, NEW t \in Tasks, ModelsFail(t) \/ ExplicitEnds(t)
  PROVE  TasksTyped' /\ Benchmarks' = Benchmarks \ {t}
<1>1. task' = [task EXCEPT ![t] = IdleRefresh] BY DEF ModelsFail, ExplicitEnds
<1> QED BY <1>1, IdleIsTask, TaskMoves

-----------------------------------------------------------------------------
(* Admissions. *)

LEMMA WorkIsFinite ==
  ASSUME WorkTyped
  PROVE  IsFiniteSet(AdmittedWork)
<1>1. Len(work) \in Nat /\ DOMAIN work = 1..Len(work) BY DomainOfSequence DEF WorkTyped
<1>2. IsFiniteSet(1..Len(work)) BY <1>1, FS_Interval
<1>3. AdmittedWork \subseteq 1..Len(work) BY <1>1 DEF AdmittedWork
<1> QED BY <1>2, <1>3, FS_Subset

(* One admission more, one less, none at all: what the numbers of the      *)
(* executions and benchmarks that are admitted do.                         *)
LEMMA Counted ==
  ASSUME NEW S, IsFiniteSet(S), NEW x
  PROVE  /\ Cardinality(S) \in Nat
         /\ x \notin S => Cardinality(S \cup {x}) = Cardinality(S) + 1
         /\ x \in S => Cardinality(S \ {x}) = Cardinality(S) - 1 /\ Cardinality(S) > 0
<1>1. Cardinality(S) \in Nat BY FS_CardinalityType
<1>2. x \notin S => Cardinality(S \cup {x}) = Cardinality(S) + 1 BY FS_AddElement
<1>3. x \in S => Cardinality(S \ {x}) = Cardinality(S) - 1 BY FS_RemoveElement
<1>4. x \in S => Cardinality(S) # 0 BY FS_EmptySet
<1> QED BY <1>1, <1>2, <1>3, <1>4

(* An admission is given only below the limit. *)
LEMMA AdmittedBelowLimit ==
  ASSUME MayAdmit, inFlight \in Nat
  PROVE  inFlight + 1 <= MaxInFlight
<1>1. (MaxInFlight + 1) \div 2 <= MaxInFlight \/ MaxInFlight = 0 BY CapacityAssumption
<1>2. \A tier : Capacity(tier) <= MaxInFlight /\ Capacity(tier) \in Nat
  BY CapacityAssumption DEF Capacity
<1> QED BY <1>2, CapacityAssumption DEF MayAdmit

Balanced == inFlight = Cardinality(AdmittedWork) + Cardinality(Benchmarks) /\ inFlight <= MaxInFlight

LEMMA BalancedIsAccounted == AdmissionsAccounted <=> Balanced
BY DEF AdmissionsAccounted, Balanced, AdmittedWork, Benchmarks

(* The sets change by at most one element, and the counter with them.      *)
LEMMA CounterFollows ==
  ASSUME WorkTyped, WorkTyped', TasksTyped, Balanced, NEW x,
         \/ AdmittedWork' = AdmittedWork /\ Benchmarks' = Benchmarks /\ inFlight' = inFlight
         \/ AdmittedWork' = AdmittedWork \cup {x} /\ x \notin AdmittedWork /\ Benchmarks' = Benchmarks
            /\ MayAdmit /\ inFlight' = inFlight + 1
         \/ AdmittedWork' = AdmittedWork /\ Benchmarks' = Benchmarks \cup {x} /\ x \notin Benchmarks
            /\ MayAdmit /\ inFlight' = inFlight + 1
         \/ AdmittedWork' = AdmittedWork \ {x} /\ x \in AdmittedWork /\ Benchmarks' = Benchmarks /\ inFlight' = Released
         \/ AdmittedWork' = AdmittedWork /\ Benchmarks' = Benchmarks \ {x} /\ x \in Benchmarks /\ inFlight' = Released
         \/ AdmittedWork' = {} /\ Benchmarks' = {} /\ inFlight' = 0
  PROVE  Balanced'
<1> DEFINE a == Cardinality(AdmittedWork)
           b == Cardinality(Benchmarks)
<1>1. IsFiniteSet(AdmittedWork) /\ IsFiniteSet(Benchmarks) BY WorkIsFinite DEF TasksTyped
<1>2. /\ a \in Nat
      /\ x \notin AdmittedWork => Cardinality(AdmittedWork \cup {x}) = a + 1
      /\ x \in AdmittedWork => Cardinality(AdmittedWork \ {x}) = a - 1 /\ a > 0
  BY <1>1, Counted
<1>3. /\ b \in Nat
      /\ x \notin Benchmarks => Cardinality(Benchmarks \cup {x}) = b + 1
      /\ x \in Benchmarks => Cardinality(Benchmarks \ {x}) = b - 1 /\ b > 0
  BY <1>1, Counted
<1>4. inFlight = a + b /\ inFlight <= MaxInFlight BY DEF Balanced
<1>5. Balanced' <=> inFlight' = Cardinality(AdmittedWork') + Cardinality(Benchmarks') /\ inFlight' <= MaxInFlight
  BY DEF Balanced
<1>6. MayAdmit => inFlight + 1 <= MaxInFlight BY <1>2, <1>3, <1>4, AdmittedBelowLimit
<1>7. inFlight > 0 => Released = inFlight - 1 BY DEF Released
<1>8. Cardinality({}) = 0 BY FS_EmptySet
<1> HIDE DEF a, b
<1>9. inFlight' = Cardinality(AdmittedWork') + Cardinality(Benchmarks') /\ inFlight' <= MaxInFlight
  <2>1. CASE AdmittedWork' = AdmittedWork /\ Benchmarks' = Benchmarks /\ inFlight' = inFlight
    BY <2>1, <1>4 DEF a, b
  <2>2. CASE AdmittedWork' = AdmittedWork \cup {x} /\ x \notin AdmittedWork /\ Benchmarks' = Benchmarks
             /\ MayAdmit /\ inFlight' = inFlight + 1
    <3>1. Cardinality(AdmittedWork') = a + 1 /\ Cardinality(Benchmarks') = b BY <2>2, <1>2 DEF b
    <3> QED BY <2>2, <3>1, <1>2, <1>3, <1>4, <1>6
  <2>3. CASE AdmittedWork' = AdmittedWork /\ Benchmarks' = Benchmarks \cup {x} /\ x \notin Benchmarks
             /\ MayAdmit /\ inFlight' = inFlight + 1
    <3>1. Cardinality(AdmittedWork') = a /\ Cardinality(Benchmarks') = b + 1 BY <2>3, <1>3 DEF a
    <3> QED BY <2>3, <3>1, <1>2, <1>3, <1>4, <1>6
  <2>4. CASE AdmittedWork' = AdmittedWork \ {x} /\ x \in AdmittedWork /\ Benchmarks' = Benchmarks /\ inFlight' = Released
    <3>1. Cardinality(AdmittedWork') = a - 1 /\ a > 0 /\ Cardinality(Benchmarks') = b BY <2>4, <1>2 DEF b
    <3> QED BY <2>4, <3>1, <1>2, <1>3, <1>4, <1>7, CapacityAssumption
  <2>5. CASE AdmittedWork' = AdmittedWork /\ Benchmarks' = Benchmarks \ {x} /\ x \in Benchmarks /\ inFlight' = Released
    <3>1. Cardinality(AdmittedWork') = a /\ b > 0 /\ Cardinality(Benchmarks') = b - 1 BY <2>5, <1>3 DEF a
    <3> QED BY <2>5, <3>1, <1>2, <1>3, <1>4, <1>7, CapacityAssumption
  <2>6. CASE AdmittedWork' = {} /\ Benchmarks' = {} /\ inFlight' = 0
    BY <2>6, <1>8, CapacityAssumption
  <2> QED BY <2>1, <2>2, <2>3, <2>4, <2>5, <2>6
<1> QED BY <1>5, <1>9

(* A step of one execution, as the set of the admitted ones sees it.       *)
LEMMA BecomesAdmitted ==
  ASSUME NEW n \in DOMAIN work, NEW pc, Becomes(n, pc)
  PROVE  /\ pc \in Admitted => AdmittedWork' = AdmittedWork \cup {n}
         /\ pc \notin Admitted => AdmittedWork' = AdmittedWork \ {n}
BY DEF Becomes, AdmittedWork

LEMMA AddedAdmitted ==
  ASSUME NEW c, NEW job, NEW pc, Added(c, job, pc)
  PROVE  /\ pc \in Admitted => AdmittedWork' = AdmittedWork \cup {Len(work) + 1}
         /\ pc \notin Admitted => AdmittedWork' = AdmittedWork
         /\ Len(work) + 1 \notin AdmittedWork
<1> DEFINE k == Len(work) + 1
<1>1. /\ DOMAIN work' = DOMAIN work \cup {k} /\ k \notin DOMAIN work
      /\ \A m \in DOMAIN work : work'[m] = work[m]
      /\ work'[k].pc = pc
  BY DEF Added
<1> HIDE DEF k
<1>2. /\ pc \in Admitted => AdmittedWork' = AdmittedWork \cup {k}
      /\ pc \notin Admitted => AdmittedWork' = AdmittedWork
      /\ k \notin AdmittedWork
  BY <1>1 DEF AdmittedWork
<1> QED BY <1>2 DEF k

LEMMA SameTasks ==
  ASSUME TasksTyped, UNCHANGED task
  PROVE  TasksTyped' /\ Benchmarks' = Benchmarks
BY DEF TasksTyped, Benchmarks

LEMMA SameWork ==
  ASSUME WorkTyped, UNCHANGED work
  PROVE  WorkTyped' /\ AdmittedWork' = AdmittedWork
BY DEF WorkTyped, AdmittedWork

Steady == WorkTyped /\ TasksTyped /\ Balanced

LEMMA ExecutionsKeepBalance ==
  ASSUME Steady, NEW n \in DOMAIN work, Advances(n) \/ AdapterFails(n) \/ JobStart(n) \/ CancelJob(n)
  PROVE  Steady'
<1> USE DEF Steady
<1>0. ASSUME UNCHANGED providerVars PROVE TasksTyped' /\ Benchmarks' = Benchmarks
  BY <1>0, SameTasks DEF providerVars
<1>1. n \in AdmittedWork <=> work[n].pc \in Admitted BY DEF AdmittedWork
<1>2. "done" \notin Admitted /\ "ended" \notin Admitted /\ "queued" \notin Admitted /\ "local" \notin Admitted
      /\ "received" \in Admitted /\ Ended(n) \notin Admitted
  BY DEF Admitted, Ended
<1>3. CASE Resolve(n) \/ Govern(n) \/ Send(n) \/ AdapterAnswers(n) \/ AdapterFails(n)
  <2>1. WorkTyped' /\ KeepsOrEnds(n) /\ work[n].pc \in Admitted /\ UNCHANGED providerVars BY <1>3, ServiceSteps
  <2>2. \/ AdmittedWork' = AdmittedWork /\ inFlight' = inFlight
        \/ AdmittedWork' = AdmittedWork \ {n} /\ n \in AdmittedWork /\ inFlight' = Released
    BY <2>1, <1>1, <1>2, BecomesAdmitted DEF KeepsOrEnds
  <2>3. TasksTyped' /\ Benchmarks' = Benchmarks BY <1>0, <2>1
  <2> QED BY <2>1, <2>2, <2>3, CounterFollows
<1>4. CASE LocalEnds(n)
  <2>1. WorkTyped' /\ work[n].pc = "local" /\ inFlight' = inFlight /\ UNCHANGED providerVars
        /\ (Becomes(n, Ended(n)) \/ Becomes(n, "done"))
    BY <1>4, LocalEndsShape
  <2>2. AdmittedWork' = AdmittedWork BY <2>1, <1>1, <1>2, BecomesAdmitted
  <2>3. TasksTyped' /\ Benchmarks' = Benchmarks BY <1>0, <2>1
  <2> QED BY <2>1, <2>2, <2>3, CounterFollows
<1>5. CASE EndOperation(n)
  <2>1. WorkTyped' /\ work[n].pc = "ended" /\ inFlight' = inFlight /\ UNCHANGED providerVars /\ Becomes(n, "done")
    BY <1>5, EndOperationShape
  <2>2. AdmittedWork' = AdmittedWork BY <2>1, <1>1, <1>2, BecomesAdmitted
  <2>3. TasksTyped' /\ Benchmarks' = Benchmarks BY <1>0, <2>1
  <2> QED BY <2>1, <2>2, <2>3, CounterFollows
<1>6. CASE JobStart(n)
  <2>1. /\ WorkTyped' /\ work[n].pc = "queued" /\ UNCHANGED providerVars
        /\ Enters(n) \/ (Becomes(n, "done") /\ inFlight' = inFlight)
    BY <1>6, JobStartShape
  <2>2. n \notin AdmittedWork BY <2>1, <1>1, <1>2
  <2>3. \/ AdmittedWork' = AdmittedWork /\ inFlight' = inFlight
        \/ AdmittedWork' = AdmittedWork \cup {n} /\ MayAdmit /\ inFlight' = inFlight + 1
    BY <2>1, <2>2, <1>2, BecomesAdmitted DEF Enters
  <2>4. TasksTyped' /\ Benchmarks' = Benchmarks BY <1>0, <2>1
  <2> QED BY <2>1, <2>2, <2>3, <2>4, CounterFollows
<1>7. CASE CancelJob(n)
  <2>1. /\ WorkTyped' /\ Becomes(n, "done") /\ UNCHANGED providerVars
        /\ \/ work[n].pc \in Admitted /\ inFlight' = Released
           \/ work[n].pc = "queued" /\ inFlight' = inFlight
    BY <1>7, CancelShape
  <2>2. AdmittedWork' = AdmittedWork \ {n} BY <2>1, <1>2, BecomesAdmitted
  <2>3. \/ AdmittedWork' = AdmittedWork \ {n} /\ n \in AdmittedWork /\ inFlight' = Released
        \/ AdmittedWork' = AdmittedWork /\ inFlight' = inFlight
    BY <2>1, <2>2, <1>1, <1>2
  <2>4. TasksTyped' /\ Benchmarks' = Benchmarks BY <1>0, <2>1
  <2> QED BY <2>1, <2>3, <2>4, CounterFollows
<1> QED BY <1>3, <1>4, <1>5, <1>6, <1>7 DEF Advances

LEMMA CallsKeepBalance ==
  ASSUME Steady, NEW c \in Calls, OperateNow(c) \/ OperateQueued(c)
  PROVE  Steady'
<1> USE DEF Steady
<1>1. "queued" \notin Admitted /\ "local" \notin Admitted /\ "received" \in Admitted BY DEF Admitted
<1> DEFINE k == Len(work) + 1
<1>2. CASE OperateNow(c)
  <2>1. /\ WorkTyped' /\ UNCHANGED providerVars
        /\ \/ Added(c, FALSE, "local") /\ inFlight' = inFlight
           \/ Added(c, FALSE, "received") /\ MayAdmit /\ inFlight' = inFlight + 1
           \/ UNCHANGED <<work, inFlight>>
    BY <1>2, OperateNowShape
  <2>2. TasksTyped' /\ Benchmarks' = Benchmarks BY <2>1, SameTasks DEF providerVars
  <2>3. \/ AdmittedWork' = AdmittedWork /\ inFlight' = inFlight
        \/ AdmittedWork' = AdmittedWork \cup {k} /\ k \notin AdmittedWork /\ MayAdmit /\ inFlight' = inFlight + 1
    <3>1. CASE Added(c, FALSE, "local") /\ inFlight' = inFlight BY <3>1, <1>1, AddedAdmitted
    <3>2. CASE Added(c, FALSE, "received") /\ MayAdmit /\ inFlight' = inFlight + 1 BY <3>2, <1>1, AddedAdmitted
    <3>3. CASE UNCHANGED <<work, inFlight>> BY <3>3, SameWork
    <3> QED BY <2>1, <3>1, <3>2, <3>3
  <2> HIDE DEF k
  <2> QED BY <2>1, <2>2, <2>3, CounterFollows
<1>3. CASE OperateQueued(c)
  <2>1. WorkTyped' /\ UNCHANGED providerVars /\ Added(c, TRUE, "queued") /\ inFlight' = inFlight
    BY <1>3, OperateQueuedShape
  <2>2. TasksTyped' /\ Benchmarks' = Benchmarks BY <2>1, SameTasks DEF providerVars
  <2>3. AdmittedWork' = AdmittedWork BY <2>1, <1>1, AddedAdmitted
  <2> QED BY <2>1, <2>2, <2>3, CounterFollows
<1> QED BY <1>2, <1>3

LEMMA TasksKeepBalance ==
  ASSUME Steady, (\E t \in Tasks : ProviderSteps(t)) \/ ProviderRequests
  PROVE  Steady'
<1> USE DEF Steady
<1>1. UNCHANGED work BY DEF ProviderSteps, ProviderRequests
<1>2. WorkTyped' /\ AdmittedWork' = AdmittedWork BY <1>1, SameWork
<1>3. ASSUME NEW t \in Tasks, ProviderSteps(t)
      PROVE  Steady'
  <2>1. CASE /\ inFlight' = inFlight
             /\ \/ \E h \in {"available", "unavailable"} : HealthAnswers(t, h)
                \/ \E ms \in Listings(t) : ModelsAnswer(t, ms)
                \/ \E ok \in BOOLEAN : Classified(t, ok)
    BY <2>1, <1>2, TaskGoesOn, CounterFollows
  <2>2. CASE /\ ModelsFail(t) \/ ExplicitEnds(t)
             /\ inFlight' = IF task[t].kind = "explicit" THEN Released ELSE inFlight
    <3>1. TasksTyped' /\ Benchmarks' = Benchmarks \ {t} BY <2>2, TaskEnds
    <3>2. t \in Benchmarks <=> task[t].kind = "explicit" BY DEF Benchmarks
    <3>3. \/ Benchmarks' = Benchmarks \ {t} /\ t \in Benchmarks /\ inFlight' = Released
          \/ Benchmarks' = Benchmarks /\ inFlight' = inFlight
      BY <3>1, <3>2, <2>2
    <3> QED BY <1>2, <3>1, <3>3, CounterFollows
  <2> QED BY <1>3, <2>1, <2>2 DEF ProviderSteps
<1>4. CASE ProviderRequests
  <2>1. ASSUME NEW t \in FreeTasks, RefreshStart(t) \/ CredentialsStart(t), inFlight' = inFlight
        PROVE  Steady'
    <3>1. TasksTyped' /\ Benchmarks' = Benchmarks BY <2>1, TaskStarts DEF FreeTasks
    <3> QED BY <1>2, <2>1, <3>1, CounterFollows
  <2>2. ASSUME NEW t \in FreeTasks, NEW p \in Providers, MayAdmit, ExplicitStart(t, p), inFlight' = inFlight + 1
        PROVE  Steady'
    <3>1. TasksTyped' /\ Benchmarks' = Benchmarks \cup {t} /\ t \notin Benchmarks
      BY <2>2, BenchmarkStarts DEF FreeTasks
    <3> QED BY <1>2, <2>2, <3>1, CounterFollows
  <2>3. CASE /\ inFlight' = inFlight
             /\ (\E ps \in Selections : SaveSelection(ps)) \/ (\E ms \in {CloudModels, BuiltIn} : SaveModels(ms))
    <3>1. UNCHANGED task BY <2>3 DEF SaveSelection, SaveModels
    <3>2. TasksTyped' /\ Benchmarks' = Benchmarks BY <3>1, SameTasks
    <3> QED BY <1>2, <2>3, <3>2, CounterFollows
  <2> QED BY <1>4, <2>1, <2>2, <2>3 DEF ProviderRequests
<1> QED BY <1>3, <1>4

(* The admission counter is exact: it is the number of the executions and  *)
(* benchmarks that hold an admission, and never above the limit.           *)
THEOREM AdmissionsExact == Spec => []AdmissionsAccounted
<1>1. Init => Steady
  <2> SUFFICES ASSUME Init PROVE Steady OBVIOUS
  <2>1. work = <<>> /\ inFlight = 0 /\ task = [t \in Tasks |-> IdleRefresh] BY DEF Init
  <2>2. work \in Seq(Range(work)) /\ DOMAIN work = {} BY <2>1
  <2>3. WorkTyped /\ AdmittedWork = {} BY <2>2 DEF WorkTyped, AdmittedWork
  <2>4. Benchmarks = {} BY <2>1, IdleIsTask DEF Benchmarks
  <2>5. TasksTyped BY <2>1, <2>4, IdleIsTask, FS_EmptySet DEF TasksTyped
  <2>6. Balanced BY <2>1, <2>3, <2>4, FS_EmptySet, CapacityAssumption DEF Balanced
  <2> QED BY <2>3, <2>5, <2>6 DEF Steady
<1>2. Steady /\ [Next]_vars => Steady'
  <2> SUFFICES ASSUME Steady, [Next]_vars PROVE Steady' OBVIOUS
  <2>1. ASSUME UNCHANGED <<work, inFlight, task>> PROVE Steady'
    <3>1. WorkTyped' /\ AdmittedWork' = AdmittedWork BY <2>1, SameWork DEF Steady
    <3>2. TasksTyped' /\ Benchmarks' = Benchmarks BY <2>1, SameTasks DEF Steady
    <3> QED BY <2>1, <3>1, <3>2, CounterFollows DEF Steady
  <2>2. CASE \E c \in Calls : ClientCalls(c) \/ ClientSteps(c)
    BY <2>1, <2>2 DEF ClientCalls, ClientSteps, providerVars, servingVars
  <2>3. CASE \E c \in Calls : OperateNow(c) \/ OperateQueued(c)
    BY <2>3, CallsKeepBalance
  <2>4. CASE \E n \in DOMAIN work : Advances(n) \/ AdapterFails(n) \/ JobStart(n) \/ CancelJob(n)
    BY <2>4, ExecutionsKeepBalance
  <2>5. CASE (\E k \in Keys : RecordExpires(k)) \/ PromptSteps \/ GovernanceChanges \/ PricingSteps
    BY <2>1, <2>5 DEF RecordExpires, PromptSteps, GovernanceChanges, PricingSteps, providerVars
  <2>6. CASE (\E t \in Tasks : ProviderSteps(t)) \/ ProviderRequests
    BY <2>6, TasksKeepBalance
  <2>7. CASE Crash
    <3>1. /\ WorkTyped' /\ inFlight' = 0 /\ RestartProviders /\ DOMAIN work' = DOMAIN work
          /\ \A n \in DOMAIN work : work'[n].pc \in {"queued", "done"}
      BY <2>7, CrashShape DEF Steady
    <3>2. AdmittedWork' = {} BY <3>1 DEF AdmittedWork, Admitted
    <3>3. task' = [t \in Tasks |-> IdleRefresh] BY <3>1 DEF RestartProviders
    <3>4. Benchmarks' = {} BY <3>3, IdleIsTask DEF Benchmarks
    <3>5. TasksTyped' BY <3>3, <3>4, IdleIsTask, FS_EmptySet DEF TasksTyped
    <3> QED BY <3>1, <3>2, <3>4, <3>5, CounterFollows DEF Steady
  <2>8. CASE UNCHANGED vars
    BY <2>1, <2>8 DEF vars, providerVars, servingVars
  <2> QED BY <2>2, <2>3, <2>4, <2>5, <2>6, <2>7, <2>8 DEF Next
<1>3. Steady => AdmissionsAccounted
  BY BalancedIsAccounted DEF Steady
<1> QED BY <1>1, <1>2, <1>3, PTL DEF Spec

-----------------------------------------------------------------------------
(* Idempotency. *)

(* The part of the invariant that only the store decides. *)
StoreInv == CallsTyped /\ GivenRecorded /\ OperatesAlone

(* Which calls operate, before and after a step. *)
Operates(c) == call[c].pc = "operating"

LEMMA RecordIsTyped ==
  ASSUME NEW b, NEW a, NEW e
  PROVE  /\ DOMAIN [body |-> b, answer |-> a, expired |-> e] = RecordFields
         /\ DOMAIN NoRecord = RecordFields
BY DEF RecordFields, NoRecord

LEMMA CallTyped ==
  ASSUME CallsTyped, NEW cs, End(cs)
  PROVE  /\ DOMAIN call' = Calls
         /\ \A c \in Calls : /\ DOMAIN call'[c] = {"pc", "key", "body"}
                             /\ call'[c].key = call[c].key /\ call'[c].body = call[c].body
                             /\ call'[c].pc = IF c \in cs THEN "answered" ELSE call[c].pc
<1>1. \A c \in Calls : call'[c] = IF c \in cs THEN [call[c] EXCEPT !.pc = "answered"] ELSE call[c]
  BY DEF End
<1>2. DOMAIN call' = Calls BY DEF End
<1> QED BY <1>1, <1>2 DEF CallsTyped

LEMMA CallMoves ==
  ASSUME CallsTyped, NEW c \in Calls, NEW pc, call' = [call EXCEPT ![c].pc = pc]
  PROVE  /\ DOMAIN call' = Calls
         /\ \A d \in Calls : /\ DOMAIN call'[d] = {"pc", "key", "body"}
                             /\ call'[d].key = call[d].key /\ call'[d].body = call[d].body
                             /\ call'[d].pc = IF d = c THEN pc ELSE call[d].pc
BY DEF CallsTyped

(* Dropping the expired records keeps what the store promises. *)
LEMMA PruneKeeps ==
  ASSUME CallsTyped, GivenRecorded
  PROVE  /\ DOMAIN Pruned = Keys /\ DOMAIN GivenWithout(Pruned) = Keys
         /\ \A k \in Keys : /\ DOMAIN Pruned[k] = RecordFields
                            /\ records[k] = NoRecord => Pruned[k] = NoRecord
                            /\ GivenWithout(Pruned)[k] \subseteq {Pruned[k].answer}
                            /\ Pruned[k] = NoRecord => GivenWithout(Pruned)[k] = {}
<1>1. DOMAIN Pruned = Keys /\ DOMAIN GivenWithout(Pruned) = Keys BY DEF Pruned, GivenWithout
<1>2. \A k \in Keys : /\ Pruned[k] = NoRecord \/ Pruned[k] = records[k]
                      /\ GivenWithout(Pruned)[k] = IF Pruned[k] # records[k] THEN {} ELSE given[k]
  BY DEF Pruned, GivenWithout
<1>3. DOMAIN NoRecord = RecordFields BY RecordIsTyped
<1> QED BY <1>1, <1>2, <1>3 DEF CallsTyped, GivenRecorded

(* A new call: it finds a record, or waits, or owns its operation.         *)
LEMMA CallKeeps ==
  ASSUME StoreInv, NEW c \in Calls, Call(c)
  PROVE  StoreInv' /\ \A d \in Calls : Operates(d) => Operates(d)'
<1> DEFINE k == call[c].key
           r == Pruned[k]
<1>0. CallsTyped /\ GivenRecorded /\ OperatesAlone /\ call[c].pc = "idle" BY DEF StoreInv, Call
<1>1. ASSUME ~Keyed(c), Owns(c), UNCHANGED <<records, saved, pending, given>>
      PROVE  StoreInv' /\ \A d \in Calls : Operates(d) => Operates(d)'
  <2>1. /\ DOMAIN call' = Calls
        /\ \A d \in Calls : /\ DOMAIN call'[d] = {"pc", "key", "body"}
                            /\ call'[d].key = call[d].key
                            /\ call'[d].pc = IF d = c THEN "operating" ELSE call[d].pc
    BY <1>0, <1>1, CallMoves DEF Owns
  <2>2. CallsTyped' BY <1>0, <1>1, <2>1 DEF CallsTyped
  <2>3. GivenRecorded' BY <1>0, <1>1 DEF GivenRecorded
  <2>4. OperatesAlone' BY <1>0, <1>1, <2>1 DEF OperatesAlone, Keyed
  <2> QED BY <2>1, <2>2, <2>3, <2>4 DEF StoreInv, Operates
<1>2. ASSUME Keyed(c), records' = Pruned, saved' = IF Pruned # records THEN Pruned ELSE saved
      PROVE  /\ DOMAIN records' = Keys /\ DOMAIN saved' = Keys
             /\ \A j \in Keys : /\ DOMAIN records'[j] = RecordFields /\ DOMAIN saved'[j] = RecordFields
                                /\ records[j] = NoRecord => records'[j] = NoRecord
  BY <1>0, <1>2, PruneKeeps DEF CallsTyped
<1>3. ASSUME Keyed(c), records' = Pruned, saved' = IF Pruned # records THEN Pruned ELSE saved,
             r # NoRecord, End({c}), UNCHANGED pending,
             Told(k, IF r.body = <<call[c].body>> THEN r.answer ELSE Error, GivenWithout(Pruned))
      PROVE  StoreInv' /\ \A d \in Calls : Operates(d) => Operates(d)'
  <2>1. /\ DOMAIN call' = Calls
        /\ \A d \in Calls : /\ DOMAIN call'[d] = {"pc", "key", "body"}
                            /\ call'[d].key = call[d].key
                            /\ call'[d].pc = IF d = c THEN "answered" ELSE call[d].pc
    BY <1>0, <1>3, CallTyped
  <2> DEFINE g == GivenWithout(Pruned)
  <2>2. /\ DOMAIN g = Keys
        /\ \A j \in Keys : g[j] \subseteq {Pruned[j].answer} /\ (Pruned[j] = NoRecord => g[j] = {})
    BY <1>0, PruneKeeps
  <2>3. k \in Keys BY <1>3 DEF Keyed
  <2> HIDE DEF g
  <2>4. given' = g \/ given' = [g EXCEPT ![k] = @ \cup {r.answer}]
    BY <1>3, <2>3 DEF Told, g
  <2>5. DOMAIN given' = Keys /\ GivenRecorded'
    <3>1. CASE given' = g BY <3>1, <2>2, <1>3 DEF GivenRecorded
    <3>2. CASE given' = [g EXCEPT ![k] = g[k] \cup {r.answer}]
      <4> HIDE DEF k
      <4>1. \A j \in Keys : given'[j] = IF j = k THEN g[j] \cup {Pruned[j].answer} ELSE g[j]
        BY <3>2, <2>2, <2>3
      <4> QED BY <4>1, <3>2, <2>2, <1>3 DEF GivenRecorded
    <3> QED BY <2>4, <3>1, <3>2
  <2>6. CallsTyped' BY <1>0, <1>2, <1>3, <2>1, <2>5 DEF CallsTyped
  <2>7. OperatesAlone' BY <1>0, <1>2, <1>3, <2>1 DEF OperatesAlone, Keyed
  <2> QED BY <1>0, <2>1, <2>5, <2>6, <2>7 DEF StoreInv, Operates
<1>4. ASSUME Keyed(c), records' = Pruned, saved' = IF Pruned # records THEN Pruned ELSE saved,
             given' = GivenWithout(Pruned)
      PROVE  GivenRecorded' /\ DOMAIN given' = Keys
  BY <1>0, <1>4, PruneKeeps DEF GivenRecorded
<1>5. ASSUME Keyed(c), records' = Pruned, saved' = IF Pruned # records THEN Pruned ELSE saved,
             NEW pc \in {"waiting", "answered"}, call' = [call EXCEPT ![c].pc = pc],
             given' = GivenWithout(Pruned), UNCHANGED pending
      PROVE  StoreInv' /\ \A d \in Calls : Operates(d) => Operates(d)'
  <2>1. /\ DOMAIN call' = Calls
        /\ \A d \in Calls : /\ DOMAIN call'[d] = {"pc", "key", "body"}
                            /\ call'[d].key = call[d].key
                            /\ call'[d].pc = IF d = c THEN pc ELSE call[d].pc
    BY ZenonT(60), <1>0, <1>5, CallMoves
  <2>2. CallsTyped' BY <1>0, <1>2, <1>4, <1>5, <2>1 DEF CallsTyped
  <2>3. OperatesAlone' BY <1>0, <1>2, <1>5, <2>1 DEF OperatesAlone, Keyed
  <2> QED BY <1>0, <1>4, <1>5, <2>1, <2>2, <2>3 DEF StoreInv, Operates
<1>6. ASSUME Keyed(c), records' = Pruned, saved' = IF Pruned # records THEN Pruned ELSE saved,
             r = NoRecord, ~PendingFound(k), Owns(c), pending' = [pending EXCEPT ![k] = c],
             given' = GivenWithout(Pruned)
      PROVE  StoreInv' /\ \A d \in Calls : Operates(d) => Operates(d)'
  <2>1. /\ DOMAIN call' = Calls
        /\ \A d \in Calls : /\ DOMAIN call'[d] = {"pc", "key", "body"}
                            /\ call'[d].key = call[d].key
                            /\ call'[d].pc = IF d = c THEN "operating" ELSE call[d].pc
    BY <1>0, <1>6, CallMoves DEF Owns
  <2>2. /\ k \in Keys /\ DOMAIN pending' = Keys /\ pending'[k] = c
        /\ \A j \in Keys \ {k} : pending'[j] = pending[j]
    BY <1>0, <1>6 DEF Keyed, CallsTyped
  <2>3. CallsTyped' BY <1>0, <1>2, <1>4, <1>6, <2>1, <2>2 DEF CallsTyped
  <2>4. \A d \in Calls : Operates(d) => call[d].key # k
    BY <1>0, <1>6, KeysAssumption DEF OperatesAlone, Operates, PendingFound, NoOwner, Keyed
  <2>5. OperatesAlone'
    <3> SUFFICES ASSUME NEW d \in Calls, call'[d].pc = "operating", call'[d].key \in Keys
                 PROVE  pending'[call'[d].key] = d /\ records'[call'[d].key] = NoRecord
      BY DEF OperatesAlone, Keyed
    <3>1. CASE d = c BY <3>1, <1>6, <2>1, <2>2
    <3>2. CASE d # c
      <4>1. Operates(d) /\ call[d].key \in Keys \ {k} BY <3>2, <2>1, <2>4 DEF Operates
      <4>2. pending[call[d].key] = d /\ records[call[d].key] = NoRecord
        BY <4>1, <1>0 DEF OperatesAlone, Operates, Keyed
      <4> QED BY <4>1, <4>2, <2>1, <2>2, <1>2, <1>6
    <3> QED BY <3>1, <3>2
  <2> QED BY <1>4, <1>6, <2>1, <2>3, <2>5 DEF StoreInv, Operates
<1> QED BY <1>1, <1>3, <1>5, <1>6 DEF Call

(* The calls that end with that of c: none of them operates but c.         *)
LEMMA EndsWithOwner ==
  ASSUME CallsTyped, NEW c \in Calls, End({c} \cup Waiters(c)) \/ End({c})
  PROVE  /\ DOMAIN call' = Calls
         /\ \A d \in Calls : /\ DOMAIN call'[d] = {"pc", "key", "body"}
                             /\ call'[d].key = call[d].key
                             /\ Operates(d)' <=> Operates(d) /\ d # c
<1>1. \A d \in Waiters(c) : call[d].pc # "operating" BY DEF Waiters
<1>2. CASE End({c}) BY <1>2, CallTyped DEF Operates
<1>3. CASE End({c} \cup Waiters(c)) BY <1>1, <1>3, CallTyped DEF Operates
<1> QED BY <1>2, <1>3

(* When the call that operates ends, nobody else operates under its key.   *)
LEMMA NobodyElse ==
  ASSUME StoreInv, NEW c \in Calls, Operates(c), Keyed(c), NEW d \in Calls, Operates(d), call[d].key = call[c].key
  PROVE  d = c
BY DEF StoreInv, OperatesAlone, Operates, Keyed

LEMMA FailureKeeps ==
  ASSUME StoreInv, NEW c \in Calls, Operates(c), OperationFails(c)
  PROVE  StoreInv' /\ \A d \in Calls : Operates(d)' <=> Operates(d) /\ d # c
<1>0. CallsTyped /\ GivenRecorded /\ OperatesAlone BY DEF StoreInv
<1>1. /\ DOMAIN call' = Calls
      /\ \A d \in Calls : /\ DOMAIN call'[d] = {"pc", "key", "body"}
                          /\ call'[d].key = call[d].key
                          /\ Operates(d)' <=> Operates(d) /\ d # c
  BY <1>0, EndsWithOwner DEF OperationFails
<1>2. UNCHANGED <<records, saved, given>> /\ pending' = Unpended(c) BY DEF OperationFails
<1>3. DOMAIN pending' = Keys /\ \A k \in Keys : pending'[k] = pending[k] \/ (Keyed(c) /\ k = call[c].key)
  BY <1>0, <1>2 DEF Unpended, CallsTyped
<1>4. CallsTyped' /\ GivenRecorded' BY <1>0, <1>1, <1>2, <1>3 DEF CallsTyped, GivenRecorded
<1>5. OperatesAlone'
  <2> SUFFICES ASSUME NEW d \in Calls, Operates(d)', call'[d].key \in Keys
               PROVE  pending'[call'[d].key] = d /\ records'[call'[d].key] = NoRecord
    BY DEF OperatesAlone, Keyed, Operates
  <2>1. Operates(d) /\ d # c /\ call'[d].key = call[d].key BY <1>1
  <2>2. ~(Keyed(c) /\ call[d].key = call[c].key) BY <2>1, NobodyElse
  <2>3. pending[call[d].key] = d /\ records[call[d].key] = NoRecord
    BY <1>0, <2>1 DEF OperatesAlone, Operates, Keyed
  <2> QED BY <1>2, <1>3, <2>1, <2>2, <2>3
<1> QED BY <1>1, <1>4, <1>5 DEF StoreInv

(* The record that is written under a key.                                 *)
LEMMA RecordedIs ==
  ASSUME CallsTyped, NEW c \in Calls, NEW answer, records' = Recorded(c, answer)
  PROVE  /\ DOMAIN records' = Keys
         /\ \A k \in Keys : /\ DOMAIN records'[k] = RecordFields
                            /\ ~(Keyed(c) /\ k = call[c].key) => records'[k] = records[k]
                            /\ Keyed(c) /\ k = call[c].key => records'[k].answer = answer
                            /\ Keyed(c) /\ k = call[c].key /\ answer # Error => records'[k] # NoRecord
<1> DEFINE r == [body |-> <<call[c].body>>, answer |-> answer, expired |-> FALSE]
<1>1. DOMAIN r = RecordFields /\ r.answer = answer BY DEF RecordFields
<1>2. answer # Error => r # NoRecord
  <2>1. NoRecord.answer = 0 BY DEF NoRecord
  <2> QED BY <2>1, <1>1 DEF Error
<1>3. CASE ~Keyed(c) BY <1>3 DEF Recorded, CallsTyped
<1>4. CASE Keyed(c)
  <2>1. records' = [records EXCEPT ![call[c].key] = r] BY <1>4 DEF Recorded
  <2> HIDE DEF r
  <2> QED BY <1>1, <1>2, <1>4, <2>1 DEF CallsTyped, Keyed
<1> QED BY <1>3, <1>4

(* The answer of the operation is the first one under its key.             *)
LEMMA ReturnKeeps ==
  ASSUME StoreInv, NEW c \in Calls, Operates(c), NEW answer, answer # Error, OperationReturns(c, answer)
  PROVE  StoreInv' /\ \A d \in Calls : Operates(d)' <=> Operates(d) /\ d # c
<1>0. CallsTyped /\ GivenRecorded /\ OperatesAlone BY DEF StoreInv
<1>1. /\ DOMAIN call' = Calls
      /\ \A d \in Calls : /\ DOMAIN call'[d] = {"pc", "key", "body"}
                          /\ call'[d].key = call[d].key
                          /\ Operates(d)' <=> Operates(d) /\ d # c
  BY <1>0, EndsWithOwner DEF OperationReturns
<1>2. /\ DOMAIN records' = Keys
      /\ \A k \in Keys : /\ DOMAIN records'[k] = RecordFields
                         /\ ~(Keyed(c) /\ k = call[c].key) => records'[k] = records[k]
                         /\ Keyed(c) /\ k = call[c].key => records'[k].answer = answer /\ records'[k] # NoRecord
  BY <1>0, RecordedIs DEF OperationReturns
<1>3. DOMAIN saved' = Keys /\ \A k \in Keys : DOMAIN saved'[k] = RecordFields
  BY <1>0, <1>2 DEF OperationReturns, CallsTyped
<1>4. DOMAIN pending' = Keys /\ \A k \in Keys : pending'[k] = pending[k] \/ (Keyed(c) /\ k = call[c].key)
  BY <1>0 DEF OperationReturns, Unpended, CallsTyped
<1>5. DOMAIN given' = Keys /\ \A k \in Keys : given'[k] = IF Keyed(c) /\ k = call[c].key THEN given[k] \cup {answer} ELSE given[k]
  BY <1>0 DEF OperationReturns, Told, Keyed, CallsTyped
<1>6. Keyed(c) => given[call[c].key] = {} BY <1>0 DEF OperatesAlone, GivenRecorded, Operates, Keyed
<1>7. GivenRecorded'
  <2> SUFFICES ASSUME NEW k \in Keys
               PROVE  given'[k] \subseteq {records'[k].answer} /\ (records'[k] = NoRecord => given'[k] = {})
    BY DEF GivenRecorded
  <2>1. CASE Keyed(c) /\ k = call[c].key BY <2>1, <1>2, <1>5, <1>6
  <2>2. CASE ~(Keyed(c) /\ k = call[c].key) BY <2>2, <1>0, <1>2, <1>5 DEF GivenRecorded
  <2> QED BY <2>1, <2>2
<1>8. CallsTyped' BY <1>1, <1>2, <1>3, <1>4, <1>5 DEF CallsTyped
<1>9. OperatesAlone'
  <2> SUFFICES ASSUME NEW d \in Calls, Operates(d)', call'[d].key \in Keys
               PROVE  pending'[call'[d].key] = d /\ records'[call'[d].key] = NoRecord
    BY DEF OperatesAlone, Keyed, Operates
  <2>1. Operates(d) /\ d # c /\ call'[d].key = call[d].key BY <1>1
  <2>2. ~(Keyed(c) /\ call[d].key = call[c].key) BY <2>1, NobodyElse
  <2>3. pending[call[d].key] = d /\ records[call[d].key] = NoRecord
    BY <1>0, <2>1 DEF OperatesAlone, Operates, Keyed
  <2> QED BY <1>2, <1>4, <2>1, <2>2, <2>3
<1> QED BY <1>1, <1>7, <1>8, <1>9 DEF StoreInv

LEMMA UnwrittenKeeps ==
  ASSUME StoreInv, NEW c \in Calls, Operates(c), NEW answer, answer # Error, PersistFails(c, answer)
  PROVE  StoreInv' /\ \A d \in Calls : Operates(d)' <=> Operates(d) /\ d # c
<1>0. CallsTyped /\ GivenRecorded /\ OperatesAlone BY DEF StoreInv
<1>1. /\ DOMAIN call' = Calls
      /\ \A d \in Calls : /\ DOMAIN call'[d] = {"pc", "key", "body"}
                          /\ call'[d].key = call[d].key
                          /\ Operates(d)' <=> Operates(d) /\ d # c
  BY <1>0, EndsWithOwner DEF PersistFails
<1>2. /\ DOMAIN records' = Keys
      /\ \A k \in Keys : /\ DOMAIN records'[k] = RecordFields
                         /\ ~(Keyed(c) /\ k = call[c].key) => records'[k] = records[k]
                         /\ Keyed(c) /\ k = call[c].key => records'[k] # NoRecord
  BY <1>0, RecordedIs DEF PersistFails
<1>3. Keyed(c) /\ UNCHANGED <<saved, pending, given>> BY DEF PersistFails
<1>4. given[call[c].key] = {} BY <1>0, <1>3 DEF OperatesAlone, GivenRecorded, Operates, Keyed
<1>5. GivenRecorded'
  <2> SUFFICES ASSUME NEW k \in Keys
               PROVE  given'[k] \subseteq {records'[k].answer} /\ (records'[k] = NoRecord => given'[k] = {})
    BY DEF GivenRecorded
  <2>1. CASE k = call[c].key BY <2>1, <1>2, <1>3, <1>4
  <2>2. CASE k # call[c].key BY <2>2, <1>0, <1>2, <1>3 DEF GivenRecorded
  <2> QED BY <2>1, <2>2
<1>6. CallsTyped' BY <1>0, <1>1, <1>2, <1>3 DEF CallsTyped
<1>7. OperatesAlone'
  <2> SUFFICES ASSUME NEW d \in Calls, Operates(d)', call'[d].key \in Keys
               PROVE  pending'[call'[d].key] = d /\ records'[call'[d].key] = NoRecord
    BY DEF OperatesAlone, Keyed, Operates
  <2>1. Operates(d) /\ d # c /\ call'[d].key = call[d].key BY <1>1
  <2>2. call[d].key # call[c].key BY <2>1, <1>3, NobodyElse
  <2>3. pending[call[d].key] = d /\ records[call[d].key] = NoRecord
    BY <1>0, <2>1 DEF OperatesAlone, Operates, Keyed
  <2> QED BY <1>2, <1>3, <2>1, <2>2, <2>3
<1> QED BY <1>1, <1>5, <1>6, <1>7 DEF StoreInv

LEMMA ExpiryKeeps ==
  ASSUME StoreInv, NEW k \in Keys, Expire(k)
  PROVE  StoreInv' /\ UNCHANGED call
<1>0. CallsTyped /\ GivenRecorded /\ OperatesAlone /\ UNCHANGED <<call, pending, given>> /\ records[k] # NoRecord
  BY DEF StoreInv, Expire
<1> DEFINE expired(r) == [r EXCEPT !.expired = TRUE]
<1>1. records' = [records EXCEPT ![k] = expired(records[k])] /\ (saved' = saved \/ saved' = [saved EXCEPT ![k] = expired(saved[k])])
  BY DEF Expire
<1>2. \A r : DOMAIN r = RecordFields =>
        DOMAIN expired(r) = RecordFields /\ expired(r).answer = r.answer /\ expired(r) # NoRecord
  <2> TAKE r
  <2> HAVE DOMAIN r = RecordFields
  <2>1. DOMAIN expired(r) = RecordFields /\ expired(r).answer = r.answer /\ expired(r).expired = TRUE
    BY DEF RecordFields
  <2>2. NoRecord.expired = FALSE BY DEF NoRecord
  <2> HIDE DEF expired
  <2> QED BY <2>1, <2>2
<1> HIDE DEF expired
<1>3. /\ DOMAIN records' = Keys /\ DOMAIN saved' = Keys
      /\ \A j \in Keys : DOMAIN records'[j] = RecordFields /\ DOMAIN saved'[j] = RecordFields
      /\ \A j \in Keys : records'[j].answer = records[j].answer /\ (j # k => records'[j] = records[j])
      /\ records'[k] # NoRecord
  BY <1>0, <1>1, <1>2 DEF CallsTyped
<1>4. CallsTyped' BY <1>0, <1>3 DEF CallsTyped
<1>5. GivenRecorded' BY <1>0, <1>3 DEF GivenRecorded
<1>6. OperatesAlone' BY <1>0, <1>3 DEF OperatesAlone, Keyed
<1> QED BY <1>0, <1>4, <1>5, <1>6 DEF StoreInv

LEMMA RetryKeeps ==
  ASSUME StoreInv, NEW c \in Calls, Retry(c)
  PROVE  StoreInv' /\ \A d \in Calls : Operates(d)' <=> Operates(d)
<1>0. CallsTyped /\ GivenRecorded /\ OperatesAlone /\ UNCHANGED <<records, saved, pending, given>>
  BY DEF StoreInv, Retry
<1>1. /\ DOMAIN call' = Calls /\ call[c].pc = "answered"
      /\ \A d \in Calls : /\ DOMAIN call'[d] = {"pc", "key", "body"}
                          /\ call'[d].key = call[d].key
                          /\ call'[d].pc = IF d = c THEN "idle" ELSE call[d].pc
  BY <1>0, CallMoves DEF Retry
<1>2. CallsTyped' /\ GivenRecorded' BY <1>0, <1>1 DEF CallsTyped, GivenRecorded
<1>3. OperatesAlone' BY <1>0, <1>1 DEF OperatesAlone, Keyed
<1> QED BY <1>1, <1>2, <1>3 DEF StoreInv, Operates

(* A restart: no call operates, and what is left of the records is what    *)
(* was written.                                                            *)
LEMMA ForgetKeeps ==
  ASSUME StoreInv, ForgetCalls
  PROVE  StoreInv' /\ \A d \in Calls : ~Operates(d)'
<1>0. CallsTyped /\ GivenRecorded BY DEF StoreInv
<1>1. \A d \in Calls : call'[d] = IF call[d].pc \in {"waiting", "operating"} THEN [call[d] EXCEPT !.pc = "idle"] ELSE call[d]
  BY DEF ForgetCalls
<1>2. /\ DOMAIN call' = Calls
      /\ \A d \in Calls : DOMAIN call'[d] = {"pc", "key", "body"} /\ call'[d].pc # "operating"
  <2>1. DOMAIN call' = Calls BY DEF ForgetCalls
  <2> QED BY <2>1, <1>0, <1>1 DEF CallsTyped
<1>3. records' = saved /\ saved' = saved /\ DOMAIN pending' = Keys BY DEF ForgetCalls
<1>4. DOMAIN given' = Keys /\ \A k \in Keys : given'[k] = IF saved[k] # records[k] THEN {} ELSE given[k]
  BY DEF ForgetCalls, GivenWithout
<1>5. CallsTyped' BY <1>0, <1>2, <1>3, <1>4 DEF CallsTyped
<1>6. GivenRecorded' BY <1>0, <1>3, <1>4 DEF GivenRecorded
<1>7. OperatesAlone' BY <1>2 DEF OperatesAlone
<1> QED BY <1>2, <1>5, <1>6, <1>7 DEF StoreInv, Operates

AnswerInv == WorkTyped /\ StoreInv /\ DirectOperates

(* An execution that is under way for a call is not queued or over, and    *)
(* its number is an answer.                                                *)
LEMMA NumbersAreAnswers ==
  ASSUME WorkTyped
  PROVE  Len(work) + 1 # Error /\ \A n \in DOMAIN work : n # Error
<1>1. Len(work) \in Nat /\ DOMAIN work = 1..Len(work) BY DomainOfSequence DEF WorkTyped
<1> QED BY <1>1 DEF Error

(* DirectOperates is kept when the executions change one by one and no     *)
(* call ends but the one whose execution is over.                          *)
LEMMA DirectKept ==
  ASSUME WorkTyped, DirectOperates, NEW n \in DOMAIN work, NEW pc, Becomes(n, pc),
         pc \in {"done"} \/ Direct(n) \/ work[n].job,
         \A d \in Calls : Operates(d) => Operates(d)' \/ (~work[n].job /\ Direct(n) /\ pc = "done" /\ d = work[n].call)
  PROVE  DirectOperates'
<1>1. /\ DOMAIN work' = DOMAIN work
      /\ \A m \in DOMAIN work : work'[m].call = work[m].call /\ work'[m].job = work[m].job
      /\ \A m \in DOMAIN work \ {n} : work'[m].pc = work[m].pc
      /\ work'[n].pc = pc
  BY DEF Becomes
<1>2. \A m \in DOMAIN work : Direct(m)' => Direct(m) /\ ~(m = n /\ pc = "done") BY <1>1 DEF Direct
<1>3. \A m \in DOMAIN work' : Direct(m)' => call'[work'[m].call].pc = "operating"
  <2> SUFFICES ASSUME NEW m \in DOMAIN work, Direct(m)', NEW d, d = work[m].call PROVE Operates(d)'
    BY <1>1 DEF Operates
  <2>1. Direct(m) /\ Operates(d) /\ d \in Calls BY <1>2 DEF DirectOperates, Operates, WorkTyped
  <2>2. CASE Direct(n) /\ pc = "done" /\ d = work[n].call
    <3>1. m = n BY <2>1, <2>2 DEF DirectOperates
    <3> QED BY <1>2, <2>2, <3>1
  <2> QED BY <2>1, <2>2
<1>4. \A m, p \in DOMAIN work' : Direct(m)' /\ Direct(p)' /\ work'[m].call = work'[p].call => m = p
  BY <1>1, <1>2 DEF DirectOperates
<1> QED BY <1>3, <1>4 DEF DirectOperates

LEMMA ExecutionsKeepAnswers ==
  ASSUME AnswerInv, NEW n \in DOMAIN work, Advances(n) \/ AdapterFails(n) \/ JobStart(n) \/ CancelJob(n)
  PROVE  AnswerInv'
<1>0. WorkTyped /\ StoreInv /\ DirectOperates /\ work[n].call \in Calls /\ n # Error
  BY NumbersAreAnswers DEF AnswerInv, WorkTyped
<1>1. ASSUME UNCHANGED idempotencyVars
      PROVE  StoreInv' /\ \A d \in Calls : Operates(d)' <=> Operates(d)
  BY <1>0, <1>1 DEF idempotencyVars, StoreInv, CallsTyped, GivenRecorded, OperatesAlone, Operates, Keyed
<1>2. CASE Resolve(n) \/ Govern(n) \/ Send(n) \/ AdapterAnswers(n) \/ AdapterFails(n)
  <2>1. WorkTyped' /\ KeepsOrEnds(n) /\ work[n].pc \in Admitted /\ UNCHANGED idempotencyVars
    BY <1>0, <1>2, ServiceSteps
  <2>2. PICK pc : Becomes(n, pc) BY <2>1 DEF KeepsOrEnds
  <2>3. Direct(n) \/ work[n].job BY <2>1 DEF Direct, Admitted
  <2>4. DirectOperates' BY <1>0, <1>1, <2>1, <2>2, <2>3, DirectKept
  <2> QED BY <1>1, <2>1, <2>4 DEF AnswerInv
<1>3. CASE LocalEnds(n)
  <2>1. /\ WorkTyped' /\ work[n].pc = "local"
        /\ \/ Becomes(n, Ended(n)) /\ UNCHANGED idempotencyVars
           \/ Becomes(n, "done") /\ work[n].job /\ UNCHANGED idempotencyVars
           \/ Becomes(n, "done") /\ ~work[n].job /\ OperationFails(work[n].call)
    BY <1>0, <1>3, LocalEndsShape
  <2>2. Direct(n) \/ work[n].job BY <2>1 DEF Direct
  <2>3. CASE UNCHANGED idempotencyVars
    <3>1. PICK pc : Becomes(n, pc) BY <2>1
    <3>2. DirectOperates' BY <1>0, <1>1, <2>2, <2>3, <3>1, DirectKept
    <3> QED BY <1>1, <2>1, <2>3, <3>2 DEF AnswerInv
  <2>4. CASE Becomes(n, "done") /\ ~work[n].job /\ OperationFails(work[n].call)
    <3>1. Operates(work[n].call) BY <1>0, <2>2, <2>4 DEF DirectOperates, Operates
    <3>2. StoreInv' /\ \A d \in Calls : Operates(d)' <=> Operates(d) /\ d # work[n].call
      BY <1>0, <2>4, <3>1, FailureKeeps
    <3>3. DirectOperates' BY <1>0, <2>2, <2>4, <3>2, DirectKept
    <3> QED BY <2>1, <3>2, <3>3 DEF AnswerInv
  <2> QED BY <2>1, <2>3, <2>4
<1>4. CASE EndOperation(n)
  <2>1. /\ WorkTyped' /\ work[n].pc = "ended" /\ ~work[n].job /\ Becomes(n, "done")
        /\ OperationReturns(work[n].call, n) \/ PersistFails(work[n].call, n)
    BY <1>0, <1>4, EndOperationShape
  <2>2. Direct(n) BY <2>1 DEF Direct
  <2>3. Operates(work[n].call) BY <1>0, <2>2 DEF DirectOperates, Operates
  <2>4. StoreInv' /\ \A d \in Calls : Operates(d)' <=> Operates(d) /\ d # work[n].call
    BY <1>0, <2>1, <2>3, ReturnKeeps, UnwrittenKeeps
  <2>5. DirectOperates' BY <1>0, <2>1, <2>2, <2>4, DirectKept
  <2> QED BY <2>1, <2>4, <2>5 DEF AnswerInv
<1>5. CASE JobStart(n)
  <2>1. /\ WorkTyped' /\ work[n].pc = "queued" /\ UNCHANGED idempotencyVars
        /\ Enters(n) \/ (Becomes(n, "done") /\ inFlight' = inFlight)
    BY <1>0, <1>5, JobStartShape
  <2>2. PICK pc : Becomes(n, pc) BY <2>1 DEF Enters
  <2>3. work[n].job BY <1>0, <2>1 DEF WorkTyped
  <2>4. DirectOperates' BY <1>0, <1>1, <2>1, <2>2, <2>3, DirectKept
  <2> QED BY <1>1, <2>1, <2>4 DEF AnswerInv
<1>6. CASE CancelJob(n)
  <2>1. WorkTyped' /\ work[n].job /\ Becomes(n, "done") /\ UNCHANGED idempotencyVars
    BY <1>0, <1>6, CancelShape
  <2>2. DirectOperates' BY <1>0, <1>1, <2>1, DirectKept
  <2> QED BY <1>1, <2>1, <2>2 DEF AnswerInv
<1> QED BY <1>2, <1>3, <1>4, <1>5, <1>6 DEF Advances

(* A call that begins has no execution yet.                                *)
LEMMA BeginsAlone ==
  ASSUME NEW c \in Calls, Begins(c)
  PROVE  Operates(c) /\ \A n \in DOMAIN work : Direct(n) => work[n].call # c
BY DEF Begins, Working, Direct, Operates

LEMMA OperationsKeepAnswers ==
  ASSUME AnswerInv, NEW c \in Calls, OperateNow(c) \/ OperateQueued(c)
  PROVE  AnswerInv'
<1>0. WorkTyped /\ StoreInv /\ DirectOperates /\ Len(work) + 1 # Error
  BY NumbersAreAnswers DEF AnswerInv
<1> DEFINE k == Len(work) + 1
<1>1. ASSUME UNCHANGED idempotencyVars
      PROVE  StoreInv' /\ \A d \in Calls : Operates(d)' <=> Operates(d)
  BY <1>0, <1>1 DEF idempotencyVars, StoreInv, CallsTyped, GivenRecorded, OperatesAlone, Operates, Keyed
<1>2. Begins(c) BY OperateNowShape, OperateQueuedShape, <1>0
<1>3. Operates(c) /\ \A n \in DOMAIN work : Direct(n) => work[n].call # c BY <1>2, BeginsAlone
<1>4. ASSUME NEW job, NEW pc, Added(c, job, pc), \A d \in Calls : Operates(d) => Operates(d)' \/ (d = c /\ job = TRUE)
      PROVE  DirectOperates'
  <2>1. /\ DOMAIN work' = DOMAIN work \cup {k} /\ k \notin DOMAIN work
        /\ \A m \in DOMAIN work : work'[m] = work[m]
        /\ work'[k].call = c /\ work'[k].job = job
    BY <1>4 DEF Added
  <2> HIDE DEF k
  <2>2. \A m \in DOMAIN work : (Direct(m)' <=> Direct(m)) /\ work'[m].call = work[m].call BY <2>1 DEF Direct
  <2>3. \A m : m = k /\ Direct(m)' => job # TRUE BY <2>1 DEF Direct
  <2>4. \A m \in DOMAIN work' : Direct(m)' => call'[work'[m].call].pc = "operating"
    <3> SUFFICES ASSUME NEW m \in DOMAIN work', Direct(m)', NEW d, d = work'[m].call PROVE Operates(d)'
      BY DEF Operates
    <3>1. CASE m = k BY <3>1, <1>3, <1>4, <2>1, <2>3
    <3>2. CASE m \in DOMAIN work
      <4>1. Direct(m) /\ d # c /\ d \in Calls /\ Operates(d)
        BY <3>2, <2>2, <1>3, <1>0 DEF DirectOperates, Operates, WorkTyped
      <4> QED BY <4>1, <1>4
    <3> QED BY <2>1, <3>1, <3>2
  <2>5. \A m, p \in DOMAIN work' : Direct(m)' /\ Direct(p)' /\ work'[m].call = work'[p].call => m = p
    BY <1>0, <1>3, <2>1, <2>2 DEF DirectOperates
  <2> QED BY <2>4, <2>5 DEF DirectOperates
<1>5. CASE OperateNow(c)
  <2>1. /\ WorkTyped'
        /\ \/ (\E pc : Added(c, FALSE, pc)) /\ UNCHANGED idempotencyVars
           \/ OperationFails(c) /\ UNCHANGED work
    BY <1>0, <1>5, OperateNowShape
  <2>2. CASE (\E pc : Added(c, FALSE, pc)) /\ UNCHANGED idempotencyVars
    <3>1. DirectOperates' BY <1>1, <1>4, <2>2
    <3> QED BY <1>1, <2>1, <2>2, <3>1 DEF AnswerInv
  <2>3. CASE OperationFails(c) /\ UNCHANGED work
    <3>1. StoreInv' /\ \A d \in Calls : Operates(d)' <=> Operates(d) /\ d # c BY <1>0, <1>3, <2>3, FailureKeeps
    <3>2. \A n \in DOMAIN work : (Direct(n)' <=> Direct(n)) BY <2>3 DEF Direct
    <3>3. DirectOperates' BY <1>0, <1>3, <2>3, <3>1, <3>2 DEF DirectOperates, Operates, WorkTyped
    <3> QED BY <2>1, <3>1, <3>3 DEF AnswerInv
  <2> QED BY <2>1, <2>2, <2>3
<1>6. CASE OperateQueued(c)
  <2>1. WorkTyped' /\ Added(c, TRUE, "queued") /\ OperationReturns(c, k) BY <1>0, <1>6, OperateQueuedShape
  <2>2. StoreInv' /\ \A d \in Calls : Operates(d)' <=> Operates(d) /\ d # c BY <1>0, <1>3, <2>1, ReturnKeeps
  <2>3. DirectOperates' BY <1>4, <2>1, <2>2
  <2> QED BY <2>1, <2>2, <2>3 DEF AnswerInv
<1> QED BY <1>5, <1>6

LEMMA InitialAnswers ==
  ASSUME Init
  PROVE  AnswerInv
<1>1. PICK s \in Scenarios : IdempotencyInit(s.keys, s.calls) BY DEF Init
<1>2. work = <<>> BY DEF Init
<1>3. WorkTyped /\ DOMAIN work = {} BY <1>2 DEF WorkTyped
<1>4. CallsTyped BY <1>1, RecordIsTyped DEF IdempotencyInit, CallsTyped
<1>5. GivenRecorded BY <1>1 DEF IdempotencyInit, GivenRecorded
<1>6. OperatesAlone BY <1>1 DEF IdempotencyInit, OperatesAlone
<1>7. DirectOperates BY <1>3 DEF DirectOperates
<1> QED BY <1>3, <1>4, <1>5, <1>6, <1>7 DEF AnswerInv, StoreInv

LEMMA AnswersStep ==
  ASSUME AnswerInv, [Next]_vars
  PROVE  AnswerInv'
<1>0. WorkTyped /\ StoreInv /\ DirectOperates BY DEF AnswerInv
<1>1. ASSUME UNCHANGED work, StoreInv', \A d \in Calls : Operates(d) => Operates(d)'
      PROVE  AnswerInv'
  <2>1. \A n \in DOMAIN work : Direct(n)' <=> Direct(n) BY <1>1 DEF Direct
  <2>2. DirectOperates' BY <1>0, <1>1, <2>1 DEF DirectOperates, Operates, WorkTyped
  <2>3. WorkTyped' BY <1>0, <1>1, SameWork
  <2> QED BY <1>1, <2>2, <2>3 DEF AnswerInv
<1>2. ASSUME UNCHANGED <<work, idempotencyVars>> PROVE AnswerInv'
  <2>1. StoreInv' /\ \A d \in Calls : Operates(d) => Operates(d)'
    BY <1>0, <1>2 DEF idempotencyVars, StoreInv, CallsTyped, GivenRecorded, OperatesAlone, Operates, Keyed
  <2> QED BY <1>1, <1>2, <2>1
<1>3. ASSUME NEW c \in Calls, ClientCalls(c) \/ ClientSteps(c) PROVE AnswerInv'
  <2>1. UNCHANGED work /\ (Call(c) \/ Retry(c)) BY <1>3 DEF ClientCalls, ClientSteps, servingVars
  <2> QED BY <1>0, <1>1, <2>1, CallKeeps, RetryKeeps
<1>4. CASE \E c \in Calls : OperateNow(c) \/ OperateQueued(c)
  BY <1>4, OperationsKeepAnswers
<1>5. CASE \E n \in DOMAIN work : Advances(n) \/ AdapterFails(n) \/ JobStart(n) \/ CancelJob(n)
  BY <1>5, ExecutionsKeepAnswers
<1>6. ASSUME NEW k \in Keys, RecordExpires(k) PROVE AnswerInv'
  <2>1. UNCHANGED work /\ Expire(k) BY <1>6 DEF RecordExpires
  <2>2. StoreInv' /\ UNCHANGED call BY <1>0, <2>1, ExpiryKeeps
  <2> QED BY <1>1, <2>1, <2>2 DEF Operates
<1>7. CASE (\E t \in Tasks : ProviderSteps(t)) \/ PromptSteps \/ GovernanceChanges \/ ProviderRequests \/ PricingSteps
  BY <1>2, <1>7 DEF ProviderSteps, PromptSteps, GovernanceChanges, ProviderRequests, PricingSteps
<1>8. CASE Crash
  <2>1. /\ WorkTyped' /\ ForgetCalls /\ DOMAIN work' = DOMAIN work
        /\ \A n \in DOMAIN work : \/ work'[n] = work[n] /\ work[n].pc = "queued"
                                  \/ work'[n].pc = "done"
    BY <1>0, <1>8, CrashShape
  <2>2. StoreInv' BY <1>0, <2>1, ForgetKeeps
  <2>3. \A n \in DOMAIN work' : ~Direct(n)' BY <1>0, <2>1 DEF Direct, WorkTyped
  <2>4. DirectOperates' BY <2>3 DEF DirectOperates
  <2> QED BY <2>1, <2>2, <2>4 DEF AnswerInv
<1>9. CASE UNCHANGED vars
  BY <1>2, <1>9 DEF vars, servingVars
<1> QED BY <1>3, <1>4, <1>5, <1>6, <1>7, <1>8, <1>9 DEF Next

(* Whatever is repeated, fails to be written, expires or is cut off by a   *)
(* restart: no two answers are given under one key while its record lives. *)
THEOREM OneAnswerPerKey == Spec => []AnswersAgree
<1>1. Init => AnswerInv BY InitialAnswers
<1>2. AnswerInv /\ [Next]_vars => AnswerInv' BY AnswersStep
<1>3. AnswerInv => AnswersAgree
  <2> SUFFICES ASSUME AnswerInv, NEW k \in Keys PROVE Cardinality(given[k]) <= 1
    BY DEF AnswersAgree
  <2>1. given[k] \subseteq {records[k].answer} BY DEF AnswerInv, StoreInv, GivenRecorded
  <2>2. given[k] = {} \/ given[k] = {records[k].answer} BY <2>1
  <2>3. Cardinality({}) = 0 /\ Cardinality({records[k].answer}) = 1 BY FS_EmptySet, FS_Singleton
  <2> QED BY <2>2, <2>3
<1> QED BY <1>1, <1>2, <1>3, PTL DEF Spec

-----------------------------------------------------------------------------
(* The routing rules. *)

Scope(mode) == RoutingModeScope(mode)

(* Two modes that do not conflict leave what they have in common.          *)
LEMMA MergedScope ==
  ASSUME NEW outer, NEW inner
  PROVE  /\ MergeRoutingModes(outer, inner) = Conflict => Scope(outer) \cap Scope(inner) = {} \/ inner = Conflict \/ outer = Conflict
         /\ MergeRoutingModes(outer, inner) # Conflict =>
              Scope(MergeRoutingModes(outer, inner)) = Scope(outer) \cap Scope(inner)
BY DEF MergeRoutingModes, Scope, RoutingModeScope, Conflict, None

(* So does the mode of prompt, privacy class and request.                  *)
LEMMA EffectiveScope ==
  ASSUME NEW auth, NEW mode, EffectiveMode(auth, mode) # Conflict
  PROVE  Scope(EffectiveMode(auth, mode)) = Scope(PrivacyMode(auth.privacy)) \cap Scope(auth.mode) \cap Scope(mode)
<1>1. PromptMode(auth) # Conflict BY DEF EffectiveMode
<1>2. Scope(PromptMode(auth)) = Scope(PrivacyMode(auth.privacy)) \cap Scope(auth.mode)
  BY <1>1, MergedScope DEF PromptMode
<1>3. EffectiveMode(auth, mode) = MergeRoutingModes(PromptMode(auth), mode) BY <1>1 DEF EffectiveMode
<1> QED BY <1>2, <1>3, MergedScope

(* The provider of a task is one of the eligible ones.                     *)
LEMMA ResolvedIsEligible ==
  ASSUME NEW order, NEW eligible, NEW requested, NEW model, NEW usable,
         Resolved(order, eligible, requested, model, usable) # None
  PROVE  Resolved(order, eligible, requested, model, usable) \in eligible
<1> DEFINE able == {i \in DOMAIN order : order[i] \in eligible /\ HasModel(order[i], requested, model, usable)}
           first == {i \in able : \A j \in able : i <= j}
<1>1. first # {} /\ Resolved(order, eligible, requested, model, usable) = order[CHOOSE i \in first : TRUE]
  BY DEF Resolved
<1>2. (CHOOSE i \in first : TRUE) \in able BY <1>1
<1> QED BY <1>1, <1>2

(* A job's request is narrower than the client's, or goes to a runtime of  *)
(* the node, unless it may spill over or names a provider its own mode     *)
(* excludes.                                                               *)
Keeps(req, o) == IsLocalRuntime(req) \/ Scope(req.mode) \subseteq Scope(o.mode)
OwnModeHolds(o) == ~o.spill /\ RoutingModeAllows(o.mode, o.provider)

LEMMA QueueKindInScope ==
  ASSUME NEW o, NEW auth, NEW able, OwnModeHolds(o)
  PROVE  QueueKind(o, auth, None, able) \in Scope(o.mode)  \/ o.mode = None
BY DEF QueueKind, OwnModeHolds, RoutingModeAllows, QueueOfMode, Scope, RoutingModeScope, LocalModes, ProviderScope, None

LEMMA QueueKindIsSide ==
  ASSUME NEW o, NEW auth, NEW mode, NEW able
  PROVE  QueueKind(o, auth, mode, able) \in {"local", "cloud"} \/ o.mode = None
BY DEF QueueKind, QueueOfMode, ProviderScope, None

LEMMA RewrittenKeeps ==
  ASSUME NEW o, DOMAIN o = RequestFields, NEW auth, NEW able, NEW slow \in BOOLEAN, NEW pressed \in BOOLEAN,
         NEW cloud \in BOOLEAN, OwnModeHolds(o)
  PROVE  Keeps(ExecutionRequest(o, QueueContext(o, auth, able, slow, pressed, cloud)), o)
<1> DEFINE context == QueueContext(o, auth, able, slow, pressed, cloud)
           req == ExecutionRequest(o, context)
           merged == EffectiveMode(auth, o.mode)
           mode == IF merged = Conflict THEN None ELSE merged
           kind == QueueKind(o, auth, mode, able)
           queue == IF kind = "local" /\ IsImage(o) THEN "visual_gpu" ELSE kind
           spills == SpillsWaitBudget(o, queue, slow, cloud) \/ SpillsPreferred(o, mode, queue, pressed, cloud)
<1>1. /\ req.family = o.family /\ req.provider = o.provider
      /\ req.lane = IF context.queue \in {"visual_gpu", "visual_cpu"} THEN context.queue ELSE o.lane
      /\ req.mode = IF context.execution \in {None, context.mode} THEN o.mode ELSE context.execution
  <2> HIDE DEF context
  <2> QED BY DEF ExecutionRequest, RequestFields
<1>0. SUFFICES Keeps(req, o) OBVIOUS
<1>2. merged # Conflict => Scope(merged) \subseteq Scope(o.mode) BY EffectiveScope
<1>3. CASE UsesVisualCpu(o)
  <2>1. context.queue = "visual_cpu" BY <1>3 DEF QueueContext
  <2> HIDE DEF context, req
  <2> QED BY <1>1, <1>3, <2>1 DEF Keeps, IsLocalRuntime, UsesVisualRuntime, UsesVisualCpu, IsImage
<1>4. CASE ~UsesVisualCpu(o)
  <2>1. /\ context.queue = IF spills THEN "cloud" ELSE queue
        /\ context.mode = mode
        /\ context.execution = ExecutionMode(mode, queue, spills, able)
    BY <1>4 DEF QueueContext
  <2>2. merged = Conflict => kind \in Scope(o.mode) \/ o.mode = None BY QueueKindInScope
  <2>0. kind \in {"local", "cloud"} \/ o.mode = None BY QueueKindIsSide
  <2>00. o.mode = None => Scope(o.mode) = {"local", "cloud"} BY DEF Scope, RoutingModeScope, None
  <2>3. mode \in LocalModes \cup CloudModes => merged # Conflict BY DEF None, LocalModes, CloudModes
  <2>4. spills => Scope("cloud_only") \subseteq Scope(o.mode)
    <3>1. spills => mode = "local_preferred" BY DEF SpillsWaitBudget, SpillsPreferred, OwnModeHolds
    <3>2. mode = "local_preferred" => merged = "local_preferred" /\ merged # Conflict BY DEF None, Conflict
    <3> HIDE DEF merged, spills, mode
    <3> QED BY <1>2, <3>1, <3>2 DEF Scope, RoutingModeScope
  <2>5. CASE spills
    <3>1. context.execution = "cloud_only" BY <2>1, <2>5 DEF ExecutionMode
    <3> HIDE DEF req, context, spills, mode, queue
    <3> QED BY <1>1, <2>1, <2>4, <2>5, <3>1 DEF Keeps
  <2>6. CASE ~spills /\ queue = "visual_gpu"
    <3>1. context.queue = "visual_gpu" /\ context.execution = "local_only" BY <2>1, <2>6 DEF ExecutionMode
    <3>2. IsImage(o) \/ o.mode = None
      <4> HIDE DEF kind
      <4> QED BY <2>0, <2>6
    <3> HIDE DEF req, context
    <3>3. req.lane = "visual_gpu" /\ (req.mode = o.mode \/ req.mode = "local_only") BY <1>1, <3>1
    <3>4. CASE IsImage(o)
      BY <1>1, <3>3, <3>4 DEF Keeps, IsLocalRuntime, UsesVisualRuntime, IsImage
    <3>5. CASE o.mode = None
      <4>1. Scope(req.mode) \subseteq {"local", "cloud"} BY DEF Scope, RoutingModeScope
      <4> QED BY <4>1, <2>00, <3>5 DEF Keeps
    <3> QED BY <3>2, <3>4, <3>5
  <2>7. CASE ~spills /\ queue # "visual_gpu"
    <3>1. queue = kind BY <2>7
    <3>2. ASSUME context.execution # None, context.execution # mode PROVE Scope(context.execution) \subseteq Scope(o.mode)
      <4>1. CASE kind = "local" /\ mode \in {None, "cloud_fallback"} /\ context.execution = "local_only"
        <5>1. "local" \in Scope(o.mode)
          <6>1. CASE merged = Conflict BY <6>1, <4>1, <2>2, <2>00
          <6>2. CASE merged # Conflict BY <6>2, <4>1, <1>2 DEF Scope, RoutingModeScope, None
          <6> QED BY <6>1, <6>2
        <5> QED BY <4>1, <5>1 DEF Scope, RoutingModeScope
      <4>2. CASE kind = "cloud" /\ mode \in {None, "local_preferred"} /\ context.execution = "cloud_only"
        <5>1. "cloud" \in Scope(o.mode)
          <6>1. CASE merged = Conflict BY <6>1, <4>2, <2>2, <2>00
          <6>2. CASE merged # Conflict BY <6>2, <4>2, <1>2 DEF Scope, RoutingModeScope, None
          <6> QED BY <6>1, <6>2
        <5> QED BY <4>2, <5>1 DEF Scope, RoutingModeScope
      <4>3. CASE o.mode = None
        BY <4>3, <2>00 DEF Scope, RoutingModeScope
      <4> HIDE DEF kind, queue, mode, spills, context
      <4> QED BY <2>0, <2>1, <2>7, <3>1, <3>2, <4>1, <4>2, <4>3 DEF ExecutionMode
    <3> HIDE DEF req, context, mode
    <3> QED BY <1>1, <2>1, <3>2 DEF Keeps
  <2> QED BY <2>5, <2>6, <2>7
<1> QED BY <1>3, <1>4

(* The body of a call never changes.                                       *)
SameBodies == \A c \in Calls : call'[c].body = call[c].body

LEMMA BodiesStay ==
  ASSUME CallsTyped, [Next]_vars
  PROVE  SameBodies
<1>1. ASSUME NEW cs, End(cs) PROVE SameBodies BY <1>1 DEF End, CallsTyped, SameBodies
<1>2. ASSUME NEW c \in Calls, NEW pc, call' = [call EXCEPT ![c].pc = pc] PROVE SameBodies
  BY <1>2, CallMoves DEF SameBodies
<1>3. ASSUME UNCHANGED call PROVE SameBodies BY <1>3 DEF SameBodies
<1>4. ASSUME NEW c, OperationFails(c) PROVE SameBodies BY <1>1, <1>4 DEF OperationFails
<1>5. ASSUME NEW c, NEW answer, OperationReturns(c, answer) PROVE SameBodies BY <1>1, <1>5 DEF OperationReturns
<1>6. ASSUME NEW c, NEW answer, PersistFails(c, answer) PROVE SameBodies BY <1>1, <1>6 DEF PersistFails
<1>7. ASSUME NEW c \in Calls, ClientCalls(c) \/ ClientSteps(c) PROVE SameBodies
  <2>1. CASE Call(c) BY <2>1, <1>1, <1>2 DEF Call, Owns
  <2>2. CASE Retry(c) BY <2>2, <1>2 DEF Retry
  <2> QED BY <1>7, <2>1, <2>2 DEF ClientCalls, ClientSteps
<1>8. ASSUME NEW c \in Calls, OperateNow(c) \/ OperateQueued(c) PROVE SameBodies
  <2>1. UNCHANGED idempotencyVars => SameBodies BY <1>3 DEF idempotencyVars
  <2>2. CASE OperateNow(c) BY <1>4, <2>1, <2>2 DEF OperateNow
  <2>3. CASE OperateQueued(c) BY <1>5, <2>3 DEF OperateQueued
  <2> QED BY <1>8, <2>2, <2>3
<1>9. ASSUME NEW n \in DOMAIN work, Advances(n) \/ AdapterFails(n) \/ JobStart(n) \/ CancelJob(n) PROVE SameBodies
  <2>1. UNCHANGED idempotencyVars => SameBodies BY <1>3 DEF idempotencyVars
  <2>2. CASE LocalEnds(n) BY <1>4, <2>1, <2>2 DEF LocalEnds
  <2>3. CASE EndOperation(n) BY <1>5, <1>6, <2>3 DEF EndOperation
  <2>4. CASE Resolve(n) \/ Govern(n) \/ Send(n) \/ AdapterAnswers(n) \/ AdapterFails(n) \/ JobStart(n) \/ CancelJob(n)
    BY <2>1, <2>4 DEF Resolve, Govern, Send, AdapterAnswers, AdapterFails, JobStart, CancelJob
  <2> QED BY <1>9, <2>2, <2>3, <2>4 DEF Advances
<1>10. ASSUME NEW k \in Keys, RecordExpires(k) PROVE SameBodies BY <1>3, <1>10 DEF RecordExpires, Expire
<1>11. CASE (\E t \in Tasks : ProviderSteps(t)) \/ PromptSteps \/ GovernanceChanges \/ ProviderRequests \/ PricingSteps
  BY <1>3, <1>11 DEF ProviderSteps, PromptSteps, GovernanceChanges, ProviderRequests, PricingSteps, idempotencyVars
<1>12. CASE Crash
  BY <1>12 DEF Crash, ForgetCalls, CallsTyped, SameBodies
<1>13. CASE UNCHANGED vars
  BY <1>3, <1>13 DEF vars, idempotencyVars
<1> QED BY <1>7, <1>8, <1>9, <1>10, <1>11, <1>12, <1>13 DEF Next

(* A provider that was chosen, by what the execution read when it chose.   *)
Chosen(w) ==
  /\ ProviderScope(w.provider) \in Scope(PrivacyMode(w.auth.privacy)) \cap Scope(w.auth.mode) \cap Scope(w.req.mode)
  /\ Approved(w.req, w.auth) # {} => w.provider \in Approved(w.req, w.auth)

(* What an execution w of a call with body o relies on: its request has    *)
(* the approvals of the body and, where the client's mode holds, no wider  *)
(* mode; what a local runtime takes is not admitted; and the provider of   *)
(* one that goes on from there was chosen.                                 *)
Bounded(w, o) ==
  /\ w.req.approved = o.approved
  /\ ~w.job \/ OwnModeHolds(o) => Keeps(w.req, o)
  /\ w.pc \in Admitted => ~IsLocalRuntime(w.req)
  /\ w.pc \in {"selected", "granted", "sending"} => Chosen(w)

BodiesTyped == \A c \in Calls : DOMAIN call[c].body = RequestFields
AllBounded == \A n \in DOMAIN work : Bounded(work[n], call[work[n].call].body)
BoundaryInv == WorkTyped /\ StoreInv /\ DirectOperates /\ BodiesTyped /\ AllBounded

(* An execution that goes on with its request, authorization and provider. *)
LEMMA PassesBounded ==
  ASSUME NEW w, NEW v, NEW o, Bounded(w, o), v.req = w.req, v.job = w.job, v.auth = w.auth, v.provider = w.provider,
         \/ v.pc \notin Admitted
         \/ v.pc = "received" /\ ~IsLocalRuntime(w.req)
         \/ v.pc \in Admitted /\ w.pc \in {"selected", "granted", "sending"}
  PROVE  Bounded(v, o)
BY DEF Bounded, Chosen, Admitted

(* One execution changes, the others keep what they rely on.               *)
LEMMA OthersBounded ==
  ASSUME WorkTyped, AllBounded, SameBodies, NEW n \in DOMAIN work, NEW v, work' = [work EXCEPT ![n] = v],
         v.call = work[n].call, Bounded(v, call[work[n].call].body)
  PROVE  AllBounded'
<1>1. /\ DOMAIN work' = DOMAIN work /\ work'[n] = v
      /\ \A m \in DOMAIN work \ {n} : work'[m] = work[m]
  OBVIOUS
<1>2. SUFFICES ASSUME NEW m \in DOMAIN work, NEW d, d = work'[m].call PROVE Bounded(work'[m], call'[d].body)
  BY <1>1 DEF AllBounded
<1>3. d = work[m].call /\ d \in Calls BY <1>1, <1>2 DEF WorkTyped
<1>4. call'[d].body = call[d].body BY <1>3 DEF SameBodies
<1>5. CASE m = n BY <1>1, <1>3, <1>4, <1>5
<1>6. CASE m # n BY <1>1, <1>3, <1>4, <1>6 DEF AllBounded
<1> QED BY <1>5, <1>6

(* An execution only moves to another point.                               *)
LEMMA MovesBounded ==
  ASSUME WorkTyped, AllBounded, SameBodies, NEW n \in DOMAIN work, NEW pc, work' = [work EXCEPT ![n].pc = pc],
         \/ pc \notin Admitted
         \/ pc = "received" /\ ~IsLocalRuntime(work[n].req)
         \/ pc \in Admitted /\ work[n].pc \in {"selected", "granted", "sending"}
  PROVE  AllBounded'
<1> DEFINE v == [work[n] EXCEPT !.pc = pc]
<1>1. DOMAIN work[n] = ExecutionFields BY DEF WorkTyped
<1>2. v.pc = pc /\ v.call = work[n].call /\ v.req = work[n].req /\ v.job = work[n].job /\ v.auth = work[n].auth
      /\ v.provider = work[n].provider
  BY <1>1 DEF ExecutionFields
<1>3. work' = [work EXCEPT ![n] = v] OBVIOUS
<1> HIDE DEF v
<1>4. Bounded(v, call[work[n].call].body) BY <1>2, PassesBounded DEF AllBounded
<1> QED BY <1>2, <1>3, <1>4, OthersBounded

LEMMA EndsBounded ==
  ASSUME WorkTyped, AllBounded, SameBodies, NEW n \in DOMAIN work, work' = EndedWork(n)
  PROVE  AllBounded'
<1>1. work' = [work EXCEPT ![n].pc = Ended(n)] BY DEF EndedWork, Ended
<1>2. Ended(n) \notin Admitted BY DEF Ended, Admitted
<1> QED BY <1>1, <1>2, MovesBounded

LEMMA TriesBounded ==
  ASSUME WorkTyped, AllBounded, SameBodies, NEW n \in DOMAIN work, NEW w, NEW candidates, Tries(n, w, candidates),
         DOMAIN w = ExecutionFields, w.call = work[n].call, w.req = work[n].req, w.job = work[n].job,
         w.auth = work[n].auth, w.provider = work[n].provider, work[n].pc \in {"granted", "sending"}
  PROVE  AllBounded'
<1>1. CASE Ends(n) BY <1>1, EndsBounded DEF Ends
<1>2. ASSUME NEW at, NEW order,
             work' = [work EXCEPT ![n] = [w EXCEPT !.pc = "sending", !.at = at, !.tries = w.retries, !.order = order]]
      PROVE  AllBounded'
  <2> DEFINE v == [w EXCEPT !.pc = "sending", !.at = at, !.tries = w.retries, !.order = order]
  <2>1. /\ v.pc = "sending" /\ v.call = work[n].call /\ v.req = work[n].req /\ v.job = work[n].job /\ v.auth = work[n].auth
        /\ v.provider = work[n].provider
    BY DEF ExecutionFields
  <2>2. work' = [work EXCEPT ![n] = v] BY <1>2
  <2> HIDE DEF v
  <2>3. Bounded(v, call[work[n].call].body) BY <2>1, PassesBounded DEF AllBounded, Admitted
  <2> QED BY <2>1, <2>2, <2>3, OthersBounded
<1> QED BY <1>1, <1>2 DEF Tries

(* The choice itself.                                                      *)
LEMMA ResolveBounded ==
  ASSUME WorkTyped, AllBounded, SameBodies, NEW n \in DOMAIN work, Resolve(n)
  PROVE  AllBounded'
<1> DEFINE req == work[n].req
           auth == Authorize(req, prompt)
           mode == EffectiveMode(auth, req.mode)
           requested == RequestedProvider(req, auth)
           order == ProviderOrder(requested, Enabled[1], EnabledSorted, mode)
           eligible == Eligible(EnabledSorted, Approved(req, auth), mode, Health)
           provider == Resolved(order, eligible, requested, req.model, UsableModels)
           v == [work[n] EXCEPT !.pc = "selected", !.auth = auth, !.provider = provider]
           o == call[work[n].call].body
<1>1. work[n].pc = "received" /\ DOMAIN work[n] = ExecutionFields BY DEF Resolve, WorkTyped
<1>2. Bounded(work[n], o) BY DEF AllBounded
<1>3. CASE Ends(n) BY <1>3, EndsBounded DEF Ends
<1>4. ASSUME work' = [work EXCEPT ![n].pc = "selected", ![n].auth = auth, ![n].provider = provider],
             mode # Conflict, provider # None
      PROVE  AllBounded'
  <2>1. provider \in eligible BY <1>4, ResolvedIsEligible
  <2>2. /\ Approved(req, auth) = {} \/ provider \in Approved(req, auth)
        /\ ProviderScope(provider) \in Scope(mode)
    <3> HIDE DEF provider, mode, auth, order, requested
    <3> QED BY <1>4, <2>1 DEF Eligible, RoutingModeAllows, Scope
  <2>3. Scope(mode) = Scope(PrivacyMode(auth.privacy)) \cap Scope(auth.mode) \cap Scope(req.mode)
    BY <1>4, EffectiveScope
  <2>4. /\ v.pc = "selected" /\ v.call = work[n].call /\ v.req = req /\ v.job = work[n].job /\ v.auth = auth
        /\ v.provider = provider
    <3> HIDE DEF auth, provider
    <3> QED BY <1>1 DEF ExecutionFields
  <2>5. work' = [work EXCEPT ![n] = v]
    <3> HIDE DEF auth, provider
    <3> QED BY <1>4
  <2> HIDE DEF auth, mode, requested, provider, order, eligible, v
  <2>6. Bounded(v, o) BY <1>1, <1>2, <2>2, <2>3, <2>4 DEF Bounded, Chosen, Admitted
  <2> QED BY <2>4, <2>5, <2>6, OthersBounded
<1>5. \/ Ends(n)
      \/ /\ work' = [work EXCEPT ![n].pc = "selected", ![n].auth = auth, ![n].provider = provider]
         /\ mode # Conflict /\ provider # None
  <2> HIDE DEF req, auth, mode, requested, provider, order, eligible
  <2> QED BY DEF Resolve, req, auth, mode, requested, provider, order, eligible
<1> QED BY <1>3, <1>4, <1>5

(* A new execution.                                                        *)
LEMMA AddedBounded ==
  ASSUME WorkTyped, AllBounded, SameBodies, NEW c \in Calls, NEW w, work' = Append(work, w),
         w.call = c, Bounded(w, call[c].body)
  PROVE  AllBounded'
<1>1. work \in Seq(Range(work)) BY DEF WorkTyped
<1>2. DOMAIN work' = DOMAIN work \cup {Len(work) + 1} BY <1>1, Appended
<1>3. work'[Len(work) + 1] = w BY <1>1, Appended
<1>4. \A m \in DOMAIN work : work'[m] = work[m] BY <1>1, Appended
<1>5. SUFFICES ASSUME NEW m \in DOMAIN work', NEW d, d = work'[m].call PROVE Bounded(work'[m], call'[d].body)
  BY DEF AllBounded
<1>6. CASE m = Len(work) + 1
  <2>1. d = c /\ call'[c].body = call[c].body BY <1>3, <1>5, <1>6 DEF SameBodies
  <2> QED BY <1>3, <1>6, <2>1
<1>7. CASE m \in DOMAIN work
  <2>1. d = work[m].call /\ d \in Calls BY <1>4, <1>5, <1>7 DEF WorkTyped
  <2>2. call'[d].body = call[d].body BY <2>1 DEF SameBodies
  <2> QED BY <1>4, <1>7, <2>1, <2>2 DEF AllBounded
<1> QED BY <1>2, <1>6, <1>7

LEMMA ExecutionsBounded ==
  ASSUME WorkTyped, AllBounded, SameBodies, NEW n \in DOMAIN work,
         Advances(n) \/ AdapterFails(n) \/ JobStart(n) \/ CancelJob(n)
  PROVE  AllBounded'
<1>0. DOMAIN work[n] = ExecutionFields BY DEF WorkTyped
<1>1. CASE Resolve(n) BY <1>1, ResolveBounded
<1>2. CASE Govern(n)
  <2>1. CASE Ends(n) BY <2>1, EndsBounded DEF Ends
  <2>2. CASE work' = [work EXCEPT ![n].pc = "granted"] BY <1>2, <2>2, MovesBounded DEF Govern
  <2> QED BY <1>2, <2>1, <2>2 DEF Govern
<1>3. CASE Send(n)
  <2> DEFINE w == [work[n] EXCEPT !.retries = router.retries]
  <2>1. /\ DOMAIN w = ExecutionFields /\ w.call = work[n].call /\ w.job = work[n].job /\ w.req = work[n].req
        /\ w.auth = work[n].auth /\ w.provider = work[n].provider
    BY <1>0 DEF ExecutionFields
  <2>2. work[n].pc = "granted" /\ \E candidates : Tries(n, w, candidates) BY <1>3 DEF Send
  <2> HIDE DEF w
  <2> QED BY <2>1, <2>2, TriesBounded
<1>4. CASE AdapterAnswers(n) BY <1>4, EndsBounded DEF AdapterAnswers, Ends
<1>5. CASE AdapterFails(n)
  <2>1. CASE work' = [work EXCEPT ![n].tries = @ - 1]
    <3> DEFINE v == [work[n] EXCEPT !.tries = work[n].tries - 1]
    <3>1. /\ v.pc = "sending" /\ work[n].pc = "sending" /\ v.call = work[n].call /\ v.req = work[n].req
          /\ v.job = work[n].job /\ v.auth = work[n].auth /\ v.provider = work[n].provider
      BY <1>0, <1>5 DEF ExecutionFields, AdapterFails
    <3>2. work' = [work EXCEPT ![n] = v] BY <2>1
    <3> HIDE DEF v
    <3>3. Bounded(v, call[work[n].call].body) BY <3>1, PassesBounded DEF AllBounded, Admitted
    <3> QED BY <3>1, <3>2, <3>3, OthersBounded
  <2>2. CASE Tries(n, work[n], work[n].order) BY <1>0, <1>5, <2>2, TriesBounded DEF AdapterFails
  <2> QED BY <1>5, <2>1, <2>2 DEF AdapterFails
<1>6. CASE LocalEnds(n)
  <2>1. work' = [work EXCEPT ![n].pc = "done"] => AllBounded' BY MovesBounded DEF Admitted
  <2>2. work' = EndedWork(n) => AllBounded' BY EndsBounded
  <2> QED BY <1>6, <2>1, <2>2 DEF LocalEnds
<1>7. CASE EndOperation(n) BY <1>7, MovesBounded DEF EndOperation, Admitted
<1>8. CASE CancelJob(n) BY <1>8, MovesBounded DEF CancelJob, Admitted
<1>9. CASE JobStart(n)
  <2>1. CASE work' = [work EXCEPT ![n].pc = "done"] BY <2>1, MovesBounded DEF Admitted
  <2>2. CASE work' = [work EXCEPT ![n] = [work[n] EXCEPT !.pc = "local"]]
    <3>1. work' = [work EXCEPT ![n].pc = "local"] BY <2>2
    <3> QED BY <3>1, MovesBounded DEF Admitted
  <2>3. CASE work' = [work EXCEPT ![n] = [work[n] EXCEPT !.pc = "received"]] /\ ~IsLocalRuntime(work[n].req)
    <3>1. work' = [work EXCEPT ![n].pc = "received"] BY <2>3
    <3> QED BY <2>3, <3>1, MovesBounded
  <2> QED BY <1>9, <2>1, <2>2, <2>3 DEF JobStart, Enter
<1> QED BY <1>1, <1>2, <1>3, <1>4, <1>5, <1>6, <1>7, <1>8, <1>9 DEF Advances

LEMMA OperationsBounded ==
  ASSUME WorkTyped, AllBounded, BodiesTyped, SameBodies, NEW c \in Calls, OperateNow(c) \/ OperateQueued(c)
  PROVE  AllBounded'
<1> DEFINE o == call[c].body
<1>1. DOMAIN o = RequestFields BY DEF BodiesTyped
<1>2. CASE OperateNow(c)
  <2> DEFINE w == Execution(c, o, FALSE, "received")
             v == [w EXCEPT !.pc = "local"]
  <2>1. /\ w.call = c /\ w.req = o /\ w.job = FALSE /\ w.pc = "received"
        /\ v.call = c /\ v.req = o /\ v.job = FALSE /\ v.pc = "local"
    BY DEF Execution
  <2>2. \/ work' = Append(work, v)
        \/ work' = Append(work, w) /\ ~IsLocalRuntime(o)
        \/ UNCHANGED work
    BY <1>2 DEF OperateNow
  <2> HIDE DEF w, v
  <2>3. Keeps(o, o) BY DEF Keeps
  <2>4. Bounded(v, o) /\ (~IsLocalRuntime(o) => Bounded(w, o)) BY <2>1, <2>3 DEF Bounded, Admitted
  <2>5. CASE UNCHANGED work
    <3> SUFFICES ASSUME NEW m \in DOMAIN work, NEW d, d = work[m].call PROVE Bounded(work[m], call'[d].body)
      BY <2>5 DEF AllBounded
    <3>1. call'[d].body = call[d].body BY DEF WorkTyped, SameBodies
    <3> QED BY <3>1 DEF AllBounded
  <2> HIDE DEF o
  <2>6. CASE work' = Append(work, v) BY <2>1, <2>4, <2>6, AddedBounded DEF o
  <2>7. CASE work' = Append(work, w) /\ ~IsLocalRuntime(o) BY <2>1, <2>4, <2>7, AddedBounded DEF o
  <2> QED BY <2>2, <2>5, <2>6, <2>7
<1>3. CASE OperateQueued(c)
  <2>1. PICK slow \in BOOLEAN, pressed \in BOOLEAN :
          work' = Append(work, Execution(c, ExecutionRequest(o, QueueContext(o, Authorize(o, prompt), OnlyCapable,
                                                                              slow, pressed, CloudAvailable)), TRUE, "queued"))
    BY <1>3 DEF OperateQueued
  <2> DEFINE context == QueueContext(o, Authorize(o, prompt), OnlyCapable, slow, pressed, CloudAvailable)
             req == ExecutionRequest(o, context)
             w == Execution(c, req, TRUE, "queued")
  <2>2. OwnModeHolds(o) => Keeps(req, o)
    <3>1. CloudAvailable \in BOOLEAN BY DEF CloudAvailable
    <3> QED BY <1>1, <3>1, RewrittenKeeps
  <2>3. req.approved = o.approved
    <3> HIDE DEF context
    <3> QED BY <1>1 DEF ExecutionRequest, RequestFields
  <2> HIDE DEF req, context
  <2>4. w.call = c /\ w.req = req /\ w.job = TRUE /\ w.pc = "queued" BY DEF Execution
  <2>5. work' = Append(work, w) BY <2>1 DEF req, context
  <2> HIDE DEF w
  <2>6. Bounded(w, o) BY <2>2, <2>3, <2>4 DEF Bounded, Admitted
  <2> QED BY <2>4, <2>5, <2>6, AddedBounded
<1> QED BY <1>2, <1>3

(* Whatever is edited, refreshed or rerouted while an execution waits: the *)
(* provider it is given is inside every boundary that was set for it.      *)
THEOREM BoundariesHold == Spec => []SelectedInBoundary
<1>1. Init => BoundaryInv
  <2> SUFFICES ASSUME Init PROVE BoundaryInv OBVIOUS
  <2>1. WorkTyped /\ StoreInv /\ DirectOperates BY InitialAnswers DEF AnswerInv
  <2>2. PICK s \in Scenarios : IdempotencyInit(s.keys, s.calls) BY DEF Init
  <2>3. BodiesTyped BY <2>2, RequestsAssumption DEF IdempotencyInit, BodiesTyped
  <2>4. AllBounded BY DEF Init, AllBounded
  <2> QED BY <2>1, <2>3, <2>4 DEF BoundaryInv
<1>2. BoundaryInv /\ [Next]_vars => BoundaryInv'
  <2> SUFFICES ASSUME BoundaryInv, [Next]_vars PROVE BoundaryInv' OBVIOUS
  <2>0. WorkTyped /\ StoreInv /\ DirectOperates /\ BodiesTyped /\ AllBounded BY DEF BoundaryInv
  <2>1. SameBodies BY <2>0, BodiesStay DEF StoreInv
  <2>2. WorkTyped' /\ StoreInv' /\ DirectOperates' BY <2>0, AnswersStep DEF AnswerInv
  <2>3. BodiesTyped' BY <2>0, <2>1 DEF BodiesTyped, SameBodies
  <2>4. UNCHANGED work => AllBounded'
    <3> SUFFICES ASSUME UNCHANGED work, NEW m \in DOMAIN work, NEW d, d = work[m].call
                 PROVE  Bounded(work[m], call'[d].body)
      BY DEF AllBounded
    <3>1. call'[d].body = call[d].body BY <2>0, <2>1 DEF WorkTyped, SameBodies
    <3> QED BY <2>0, <3>1 DEF AllBounded
  <2>5. AllBounded'
    <3>1. CASE \E n \in DOMAIN work : Advances(n) \/ AdapterFails(n) \/ JobStart(n) \/ CancelJob(n)
      BY <2>0, <2>1, <3>1, ExecutionsBounded
    <3>2. CASE \E c \in Calls : OperateNow(c) \/ OperateQueued(c)
      BY <2>0, <2>1, <3>2, OperationsBounded
    <3>3. CASE Crash
      <4>1. DOMAIN work' = DOMAIN work /\ \A m \in DOMAIN work :
               work'[m] = IF work[m].pc = "queued" THEN work[m] ELSE [work[m] EXCEPT !.pc = "done"]
        BY <3>3 DEF Crash
      <4> SUFFICES ASSUME NEW m \in DOMAIN work, NEW d, d = work'[m].call PROVE Bounded(work'[m], call'[d].body)
        BY <4>1 DEF AllBounded
      <4>2. DOMAIN work[m] = ExecutionFields /\ work[m].call \in Calls BY <2>0 DEF WorkTyped
      <4>3. Bounded(work[m], call[work[m].call].body) BY <2>0 DEF AllBounded
      <4> DEFINE v == [work[m] EXCEPT !.pc = "done"]
      <4>4. /\ v.pc = "done" /\ v.call = work[m].call /\ v.req = work[m].req /\ v.job = work[m].job
            /\ v.auth = work[m].auth /\ v.provider = work[m].provider
        BY <4>2 DEF ExecutionFields
      <4>5. work'[m] = work[m] \/ work'[m] = v BY <4>1
      <4> HIDE DEF v
      <4>6. Bounded(v, call[work[m].call].body) BY <4>3, <4>4, PassesBounded DEF Admitted
      <4>7. d = work[m].call /\ call'[d].body = call[d].body BY <2>1, <4>2, <4>4, <4>5 DEF SameBodies
      <4> QED BY <4>3, <4>5, <4>6, <4>7
    <3>4. CASE \/ \E c \in Calls : ClientCalls(c) \/ ClientSteps(c)
               \/ \E k \in Keys : RecordExpires(k)
               \/ \E t \in Tasks : ProviderSteps(t)
               \/ PromptSteps \/ GovernanceChanges \/ ProviderRequests \/ PricingSteps
               \/ UNCHANGED vars
      <4>1. UNCHANGED work
        BY <3>4 DEF ClientCalls, ClientSteps, RecordExpires, ProviderSteps, PromptSteps, GovernanceChanges,
                    ProviderRequests, PricingSteps, vars, servingVars
      <4> QED BY <2>4, <4>1
    <3> QED BY <3>1, <3>2, <3>3, <3>4 DEF Next
  <2> QED BY <2>2, <2>3, <2>5 DEF BoundaryInv
<1>3. BoundaryInv => SelectedInBoundary
  <2> SUFFICES ASSUME BoundaryInv, NEW n \in DOMAIN work, work[n].pc \in {"granted", "sending"},
                      NEW w, w = work[n], NEW o, o = call[w.call].body
               PROVE  /\ InScope(w.provider, PrivacyMode(w.auth.privacy))
                      /\ InScope(w.provider, w.auth.mode)
                      /\ ~w.job \/ (~o.spill /\ RoutingModeAllows(o.mode, o.provider)) => InScope(w.provider, o.mode)
                      /\ \A approved \in {o.approved, w.auth.preferred} :
                           approved # {} /\ Approved(o, w.auth) # {} => w.provider \in approved
    BY DEF SelectedInBoundary
  <2>1. Bounded(w, o) BY DEF BoundaryInv, AllBounded
  <2>2. Chosen(w) /\ ~IsLocalRuntime(w.req) /\ w.req.approved = o.approved BY <2>1 DEF Bounded, Admitted
  <2>3. ~w.job \/ OwnModeHolds(o) => Scope(w.req.mode) \subseteq Scope(o.mode) BY <2>1, <2>2 DEF Bounded, Keeps
  <2>4. Approved(o, w.auth) = Approved(w.req, w.auth) BY <2>2 DEF Approved
  <2>5. \A approved \in {o.approved, w.auth.preferred} :
          approved # {} /\ Approved(o, w.auth) # {} => w.provider \in approved
    <3>1. Approved(o, w.auth) # {} => w.provider \in Approved(o, w.auth) BY <2>2, <2>4 DEF Chosen
    <3> QED BY <3>1 DEF Approved
  <2>6. /\ InScope(w.provider, PrivacyMode(w.auth.privacy))
        /\ InScope(w.provider, w.auth.mode)
    BY <2>2 DEF Chosen, InScope, Scope
  <2>7. ~w.job \/ (~o.spill /\ RoutingModeAllows(o.mode, o.provider)) => InScope(w.provider, o.mode)
    BY <2>2, <2>3 DEF Chosen, InScope, Scope, OwnModeHolds
  <2> QED BY <2>5, <2>6, <2>7
<1> QED BY <1>1, <1>2, <1>3, PTL DEF Spec
=============================================================================
