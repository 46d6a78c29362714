------------------------------ MODULE ClientUsage -----------------------------
(***************************************************************************)
(* The usage of clients (persistence/client_usage_store.py): the rollups   *)
(* of a SQLite database, the recording of every completed execution in     *)
(* them, their summary for the operator, and the seeding of the rollups    *)
(* from the log and the provider metrics when the node starts (main.py).   *)
(*                                                                         *)
(* Each call of the store is one transaction; a crash may fall between any *)
(* two.  The summary is read in the thread pool, by four queries that are  *)
(* not one transaction, while executions are recorded on the event loop.   *)
(* Calls stand for the tokens and costs that are added up with them; the   *)
(* rows of all clients and prompts are taken together.                     *)
(***************************************************************************)
EXTENDS Integers, Sums

CONSTANTS
  Models,
  Histories,      \* what a node may have in its log and its metrics at its first start
  MaxMonth,       \* bound: months that pass
  MaxCalls,       \* bound: executions and benchmarks after the first start
  MaxFaults       \* bound: restarts of the node and failing transactions

VARIABLES
  log,            \* executions of each model in the current log file
  metrics,        \* successful requests of each model in the provider metrics
  rollups,        \* calls in usage_rollups, by period
  modelRollups,   \* calls in model_usage_rollups, by period and model
  seedDone,       \* historical_seed_completed
  startup,        \* what the start of the node still has to do
  up,             \* the node serves
  pending,        \* executions of each model that completed and are not recorded yet
  month,
  summary,        \* the summary that is being read: the queries so far
  executed,       \* history: executions and benchmarks of each model
  owed,           \* history: calls the rollups should hold when nothing fails
  calls, faults   \* what has happened, for the bounds

vars == <<log, metrics, rollups, modelRollups, seedDone, startup, up, pending, month, summary,
          executed, owed, calls, faults>>
store == <<rollups, modelRollups, seedDone>>

Lifetime == 0
Periods == Lifetime..MaxMonth
Total(f) == SumOver(Models, f)
NoCalls == [m \in Models |-> 0]
None == "none"

-----------------------------------------------------------------------------
(* seed_historical_usage and record_execution add to the lifetime and to a *)
(* month at once: to the rollups, unless only the models are seeded, and   *)
(* to those of the model when there is one.                                *)
Added(f, n, mo) == [p \in Periods |-> IF p \in {Lifetime, mo} THEN f[p] + n ELSE f[p]]
Upsert(n, aggregate, model, mo) ==
  /\ rollups' = IF aggregate THEN Added(rollups, n, mo) ELSE rollups
  /\ modelRollups' = IF model = None THEN modelRollups
                     ELSE [modelRollups EXCEPT ![model] = Added(@, n, mo)]

(* What the start has to seed: the calls of the log, then those only the   *)
(* metrics know of, for all models together and for each of them; the mark *)
(* is set at the end.  (Nothing executes before the node serves, so the    *)
(* log and the metrics are what they were when the start read them.)       *)
Do(what, model) == [do |-> what, model |-> model]
Delta(a, b) == IF a > b THEN a - b ELSE 0

NeedsUsageSeedUnlessMarked == ~seedDone
NeedsUsageSeed == rollups[Lifetime] = 0 /\ ~seedDone
NeedsModelSeed == \A m \in Models : modelRollups[m][Lifetime] = 0

LogTotals == Total(log)
MetricsTotals == Total(metrics)
LogTotalsByModel(m) == log[m]
MetricsTotalsByModel(m) == metrics[m]

UsageSeed == {Do("log", None), Do("delta", None)}
ModelSeed == {Do(part, m) : part \in {"log", "delta"}, m \in Models}
Calls(part, model) ==
  LET inLog == IF model = None THEN LogTotals ELSE LogTotalsByModel(model)
      inMetrics == IF model = None THEN MetricsTotals ELSE MetricsTotalsByModel(model)
  IN  IF part = "log" THEN inLog ELSE Delta(inMetrics, inLog)

(* The order of the start; one model after the other.                      *)
Stage(step) ==
  CASE step.do = "serve" -> 4 [] step.do = "mark" -> 3 [] OTHER -> IF step.model = None THEN 1 ELSE 2
Begun(model) == Do("delta", model) \in startup /\ Do("log", model) \notin startup
IsNext(step) ==
  /\ step \in startup
  /\ \A other \in startup : Stage(step) <= Stage(other)
  /\ \A other \in startup \ {step} :
       Stage(step) = Stage(other) => IF step.do = "log" THEN ~Begun(other.model) ELSE Begun(step.model)

Start ==
  /\ ~up /\ startup = {}
  /\ startup' = (IF NeedsUsageSeed THEN UsageSeed \cup {Do("mark", None)} ELSE {})
                \cup (IF NeedsModelSeed THEN ModelSeed ELSE {})
                \cup {Do("serve", None)}
  /\ UNCHANGED <<log, metrics, store, up, pending, month, summary, executed, owed, calls, faults>>

(* The month is that of the last line of the log.                          *)
SeedHistoricalUsage(part, model, mo) ==
  /\ IsNext(Do(part, model))
  /\ LET n == Calls(part, model)
     IN  IF n = 0 THEN UNCHANGED <<rollups, modelRollups>> ELSE Upsert(n, model = None, model, mo)
  /\ startup' = startup \ {Do(part, model)}
  /\ UNCHANGED <<log, metrics, seedDone, up, pending, month, summary, executed, owed, calls, faults>>

MarkSeeded ==
  /\ IsNext(Do("mark", None))
  /\ seedDone' = TRUE
  /\ startup' = startup \ {Do("mark", None)}
  /\ UNCHANGED <<log, metrics, rollups, modelRollups, up, pending, month, summary, executed, owed,
                 calls, faults>>

Serve ==
  /\ IsNext(Do("serve", None))
  /\ up' = TRUE /\ startup' = {}
  /\ UNCHANGED <<log, metrics, store, pending, month, summary, executed, owed, calls, faults>>

-----------------------------------------------------------------------------
(* The provider has answered: the metrics are written and the line goes to *)
(* the log; the execution awaits its events before its usage is recorded.  *)
RecordSuccess(m) == metrics' = [metrics EXCEPT ![m] = @ + 1]
Execute(m) ==
  /\ up /\ calls < MaxCalls
  /\ RecordSuccess(m)
  /\ log' = [log EXCEPT ![m] = @ + 1]
  /\ pending' = [pending EXCEPT ![m] = @ + 1]
  /\ executed' = [executed EXCEPT ![m] = @ + 1]
  /\ owed' = [total |-> owed.total + 1, models |-> [owed.models EXCEPT ![m] = @ + 1]]
  /\ calls' = calls + 1
  /\ UNCHANGED <<store, startup, up, month, summary, faults>>

(* A benchmark counts in the metrics only.                                 *)
ExecuteExplicit(m) ==
  /\ up /\ calls < MaxCalls
  /\ RecordSuccess(m)
  /\ executed' = [executed EXCEPT ![m] = @ + 1]
  /\ calls' = calls + 1
  /\ UNCHANGED <<log, store, startup, up, pending, month, summary, owed, faults>>

(* A transaction that fails is passed over in silence.                     *)
RecordClientUsage(m, ok) ==
  /\ pending[m] > 0
  /\ IF ok THEN Upsert(1, TRUE, m, month) ELSE UNCHANGED <<rollups, modelRollups>>
  /\ ok \/ faults < MaxFaults
  /\ faults' = IF ok THEN faults ELSE faults + 1
  /\ pending' = [pending EXCEPT ![m] = @ - 1]
  /\ UNCHANGED <<log, metrics, seedDone, startup, up, month, summary, executed, owed, calls>>

(* summary_payload: the lifetime of the prompts, their month, and the same *)
(* of the models.                                                          *)
NoSummary == [queries |-> 0, total |-> 0, inMonth |-> 0, models |-> NoCalls, modelsInMonth |-> NoCalls]
SummaryReads ==
  /\ up
  /\ summary' =
       CASE summary.queries = 0 -> [summary EXCEPT !.queries = 1, !.total = rollups[Lifetime]]
         [] summary.queries = 1 -> [summary EXCEPT !.queries = 2, !.inMonth = rollups[month]]
         [] summary.queries = 2 ->
              [summary EXCEPT !.queries = 3, !.models = [m \in Models |-> modelRollups[m][Lifetime]]]
         [] summary.queries = 3 ->
              [summary EXCEPT !.queries = 4, !.modelsInMonth = [m \in Models |-> modelRollups[m][month]]]
         [] summary.queries = 4 -> NoSummary
  /\ UNCHANGED <<log, metrics, store, startup, up, pending, month, executed, owed, calls, faults>>

-----------------------------------------------------------------------------
(* The environment: the handler starts a new log file, months pass, and    *)
(* the node is restarted at any point.                                     *)
RotateLog ==
  /\ up /\ Total(log) > 0
  /\ log' = NoCalls
  /\ UNCHANGED <<metrics, store, startup, up, pending, month, summary, executed, owed, calls, faults>>

NextMonth ==
  /\ month < MaxMonth
  /\ month' = month + 1
  /\ UNCHANGED <<log, metrics, store, startup, up, pending, summary, executed, owed, calls, faults>>

Restart ==
  /\ up \/ startup # {}
  /\ faults < MaxFaults
  /\ faults' = faults + 1
  /\ up' = FALSE /\ startup' = {} /\ pending' = NoCalls /\ summary' = NoSummary
  /\ UNCHANGED <<log, metrics, store, month, executed, owed, calls>>

(* A node that ran before it had the database: the metrics and the log may *)
(* each have been lost in part.                                            *)
Larger(a, b) == IF a > b THEN a ELSE b
Init ==
  /\ \E history \in Histories : log = history[1] /\ metrics = history[2]
  /\ rollups = [p \in Periods |-> 0]
  /\ modelRollups = [m \in Models |-> [p \in Periods |-> 0]]
  /\ seedDone = FALSE /\ startup = {} /\ up = FALSE /\ pending = NoCalls /\ month = 1
  /\ summary = NoSummary
  /\ executed = [m \in Models |-> Larger(log[m], metrics[m])]
  /\ owed = [total |-> Larger(Total(log), Total(metrics)), models |-> executed]
  /\ calls = 0 /\ faults = 0

Next ==
  \/ Start \/ MarkSeeded \/ Serve \/ SummaryReads \/ RotateLog \/ NextMonth \/ Restart
  \/ \E part \in {"log", "delta"}, model \in Models \cup {None}, mo \in 1..month :
       SeedHistoricalUsage(part, model, mo)
  \/ \E m \in Models : Execute(m) \/ ExecuteExplicit(m) \/ \E ok \in BOOLEAN : RecordClientUsage(m, ok)

Spec == Init /\ [][Next]_vars

-----------------------------------------------------------------------------
Within(total, byModel) ==
  total <= Total(executed) /\ \A m \in Models : byModel[m] <= executed[m]

(* No call is counted twice, for any period, in the rollups and in what a  *)
(* summary shows, though the same executions are in the log, the metrics   *)
(* and the rollups and the seeding may be cut off anywhere and start       *)
(* again; and as long as no restart or failing transaction came between,   *)
(* a node that serves has counted every call it owes.                      *)
UsageCountedOnce ==
  /\ \A p \in Periods : Within(rollups[p], [m \in Models |-> modelRollups[m][p]])
  /\ summary.queries = 4 => Within(summary.total, summary.models) /\ Within(summary.inMonth, summary.modelsInMonth)
  /\ up /\ faults = 0 /\ pending = NoCalls =>
       /\ rollups[Lifetime] = owed.total
       /\ \A m \in Models : modelRollups[m][Lifetime] = owed.models[m]
=============================================================================
