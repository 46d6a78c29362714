------------------------------ MODULE Accounting -----------------------------
(***************************************************************************)
(* What an execution costs: the budgets it is charged to, and the usage of *)
(* the clients.  No property of one is about the other's state, so in each *)
(* behaviour one of them is at work while the other rests.                 *)
(***************************************************************************)
EXTENDS BudgetedExecution

CONSTANTS
  Models, Histories, MaxMonth, MaxCalls, MaxFaults   \* ClientUsage

VARIABLES
  active,         \* "budgets" or "usage"
  log, metrics, rollups, modelRollups, seedDone, startup, up, unrecorded, month, summary,
  executed, owed, calls, faults

usageVars == <<log, metrics, rollups, modelRollups, seedDone, startup, up, unrecorded, month,
               summary, executed, owed, calls, faults>>

Clients == INSTANCE ClientUsage WITH pending <- unrecorded

(* Models are named; what is counted before a first start is counted in    *)
(* numbers.                                                                *)
ASSUME ModelsAssumption ==
  /\ IsFiniteSet(Models) /\ Clients!None \notin Models
  /\ MaxMonth \in Nat \ {0}
  /\ \A h \in Histories : h[1] \in [Models -> Nat] /\ h[2] \in [Models -> Nat]

AccountingInit ==
  /\ active \in {"budgets", "usage"}
  /\ Init /\ Clients!Init
  /\ active = "budgets" => log = Clients!NoCalls /\ metrics = Clients!NoCalls

AccountingNext ==
  /\ UNCHANGED active
  /\ \/ active = "budgets" /\ Next /\ UNCHANGED usageVars
     \/ active = "usage" /\ Clients!Next /\ UNCHANGED vars

AccountingSpec == AccountingInit /\ [][AccountingNext]_<<active, vars, usageVars>>

-----------------------------------------------------------------------------
(* No call of a client is counted twice, and none is lost unless the node  *)
(* is restarted or a transaction fails (ClientUsage).                      *)
UsageCountedOnce == Clients!UsageCountedOnce
=============================================================================
