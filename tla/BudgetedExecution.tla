-------------------------- MODULE BudgetedExecution --------------------------
(***************************************************************************)
(* Task execution under budgets: TaskExecutionService.execute              *)
(* (runtime/task_execution_service.py) with BudgetManager                  *)
(* (runtime/budget_manager.py).  An execution reserves its estimated cost  *)
(* on every applicable Core grant and on its provider's local budget,      *)
(* dispatches to the provider, and settles: finalize charges the actual    *)
(* cost and queues a usage summary, release gives the reservation back.    *)
(* When it has ended it flushes the queued summaries to Core.              *)
(*                                                                         *)
(* Granularity.  BudgetManager is synchronous apart from flush and         *)
(* refresh, and each of its methods reads the whole state file and writes  *)
(* it back, so a method is one step.  A step of an execution is the code   *)
(* between two awaits; only there can its task be cancelled.               *)
(***************************************************************************)
EXTENDS Integers, FiniteSets, Sums

CONSTANTS
  Tasks,          \* task ids; reservations are keyed by task id
  Grants,         \* grant ids
  Providers,      \* provider ids
  Applies,        \* [Tasks -> SUBSET Grants]: scope, service, provider, model match
  ProviderOf,     \* [Tasks -> Providers]: the resolved provider
  Estimate,       \* [Tasks -> Nat]: _reservation_cost_cents
  GrantLimit,     \* [Grants -> Nat]: max_cost_cents; 0 is no limit
  ProviderLimit,  \* [Providers -> Nat \cup {NoLimit}]: provider_budget_limits
  NoLimit,        \* no local budget for the provider
  Costs,          \* actual costs, in fractions of a cent
  UnitsPerCent,   \* the fraction
  NoCost,         \* the response carries no estimated_cost
  Policies,       \* the policies Core may issue (see PolicyOK)
  NoPolicy,       \* the governance bundle carries no budget_policy
  FlushLimit,     \* summaries submitted per flush
  MaxPeriod,      \* bound: number of budget periods
  MaxAttempts     \* bound: executions of one task id

PolicyOK(p) ==
  /\ p.status \in {"unconfigured", "inactive", "active"}
  /\ p.window \in Nat
  /\ p.grants \subseteq Grants

ASSUME TasksAssumption ==
  /\ IsFiniteSet(Tasks) /\ IsFiniteSet(Grants)
  /\ Applies \in [Tasks -> SUBSET Grants]
  /\ ProviderOf \in [Tasks -> Providers]
  /\ Estimate \in [Tasks -> Nat]
ASSUME LimitsAssumption ==
  /\ NoLimit \notin Nat
  /\ GrantLimit \in [Grants -> Nat]
  /\ ProviderLimit \in [Providers -> Nat \cup {NoLimit}]
ASSUME CostsAssumption ==
  Costs \subseteq Nat /\ NoCost \notin Nat /\ UnitsPerCent \in Nat \ {0}
ASSUME PoliciesAssumption ==
  (\A p \in Policies : PolicyOK(p)) /\ NoPolicy \notin Policies
ASSUME BoundsAssumption ==
  FlushLimit \in Nat \ {0} /\ MaxPeriod \in Nat \ {0} /\ MaxAttempts \in Nat

VARIABLES
  clock,        \* the current budget period
  policy,       \* state["budget_policy"]
  usage,        \* state["grant_usage"]
  spend,        \* state["provider_budget_usage"], per provider and period
  pending,      \* state["pending_usage_summaries"]
  stamp,        \* the clock that gives summaries their queued_at
  exec,         \* the executions, with the locals of execute and flush
  delivered,    \* history: the summaries Core has received
  interrupted,  \* history: some execution was cancelled or lost in a crash
  overrun       \* history: some actual cost exceeded its reservation

vars == <<clock, policy, usage, spend, pending, stamp, exec, delivered,
          interrupted, overrun>>

-----------------------------------------------------------------------------
(* Records *)

Unconfigured == [status |-> "unconfigured", window |-> 0, grants |-> {}]

NewUsage(w) == [window |-> w, used |-> 0, reserved |-> 0, holds |-> {}]
UsageRecord == [window : Nat, used : Nat, reserved : Nat, holds : SUBSET Tasks]

NewSpend == [used |-> 0, reserved |-> 0, holds |-> {}]
SpendRecord == [used : Nat, reserved : Nat, holds : SUBSET Tasks]

Periods == 1..MaxPeriod

Summary == [grant : Grants, window : Nat, used : Nat, id : Nat]

(* new: before the reservation; reserved, dispatched, responded: at an     *)
(* await with a reservation; ended: settled; flushing: at an await of the  *)
(* flush; done: returned; interrupted: the task was cancelled or lost.     *)
InFlight == {"reserved", "dispatched", "responded"}

ExecRecord ==
  [pc : {"new", "ended", "flushing", "done", "interrupted"} \cup InFlight,
   outcome : {"none", "rejected", "failed", "completed"},
   grants : SUBSET Grants,     \* applied_grant_ids
   window : Nat,               \* the period of the reservation
   cost : Costs \cup {NoCost},
   batch : SUBSET Summary,     \* flush's copy of the pending summaries
   sent : SUBSET Summary,      \* those of them that Core has accepted
   attempts : Nat]

NewExec == [pc |-> "new", outcome |-> "none", grants |-> {}, window |-> 0,
            cost |-> NoCost, batch |-> {}, sent |-> {}, attempts |-> 0]

TypeOK ==
  /\ clock \in Periods
  /\ policy \in Policies \cup {Unconfigured}
  /\ usage \in [Grants -> UsageRecord]
  /\ spend \in [Providers -> [Periods -> SpendRecord]]
  /\ pending \subseteq Summary
  /\ stamp \in Nat
  /\ exec \in [Tasks -> ExecRecord]
  /\ delivered \subseteq Summary
  /\ interrupted \in BOOLEAN
  /\ overrun \in BOOLEAN

-----------------------------------------------------------------------------
(* reserve_execution *)

(* _applicable_grants: active grants whose period contains now. *)
ApplicableGrants(t, pol) ==
  IF pol.window = clock THEN pol.grants \cap Applies[t] ELSE {}

(* A mutant: a new period clears the use and the total, not the reservations. *)
EnsuredUsageKeepingHolds(g, w) ==
  IF usage[g].window = w THEN usage[g]
  ELSE [NewUsage(w) EXCEPT !.holds = usage[g].holds]

(* _ensure_usage_entry: a grant with a new period starts from zero, its    *)
(* reservations included.                                                  *)
EnsuredUsage(g, w) == IF usage[g].window = w THEN usage[g] ELSE NewUsage(w)

(* A mutant: what has been used already is left out of account. *)
GrantFitsReservedOnly(t, u, limit) ==
  limit > 0 => u.reserved + Estimate[t] <= limit

(* The limit check of one grant. *)
GrantFits(t, u, limit) ==
  limit > 0 => u.used + u.reserved + Estimate[t] <= limit

(* _reserve_provider_budget refuses. *)
ProviderRefuses(t) ==
  LET p == ProviderOf[t]
      s == spend[p][clock]
  IN  /\ ProviderLimit[p] # NoLimit
      /\ \/ t \in s.holds
         \/ s.used + (s.reserved + Estimate[t]) * UnitsPerCent
              > ProviderLimit[p] * UnitsPerCent

(* reserve_execution refuses: missing_budget_grant, reservation_conflict,  *)
(* budget_exhausted or provider_budget_exhausted.                          *)
Refused(t, pol) ==
  \/ /\ pol.status = "active"
     /\ \/ ApplicableGrants(t, pol) = {}
        \/ \E g \in ApplicableGrants(t, pol) :
             LET u == EnsuredUsage(g, pol.window)
             IN  t \in u.holds \/ ~GrantFits(t, u, GrantLimit[g])
  \/ ProviderRefuses(t)

(* A reservation of t added to, and taken off, a ledger entry. *)
WithHold(t, u) == [u EXCEPT !.reserved = @ + Estimate[t], !.holds = @ \cup {t}]

WithoutHold(t, u) ==
  [u EXCEPT !.reserved = IF @ > Estimate[t] THEN @ - Estimate[t] ELSE 0,
            !.holds = @ \ {t}]

(* cache_policy_from_governance, on the way into reserve_execution. *)
CachedPolicy(bundle) == IF bundle = NoPolicy THEN policy ELSE bundle

(* execute up to and including an accepted reservation. *)
Reserve(t, bundle) ==
  LET pol == CachedPolicy(bundle)
      gs == IF pol.status = "active" THEN ApplicableGrants(t, pol) ELSE {}
      p == ProviderOf[t]
  IN  /\ exec[t].pc = "new"
      /\ ~Refused(t, pol)
      /\ policy' = pol
      /\ usage' = [g \in Grants |-> IF g \in gs
                                      THEN WithHold(t, EnsuredUsage(g, pol.window))
                                      ELSE usage[g]]
      /\ spend' = IF ProviderLimit[p] = NoLimit THEN spend
                  ELSE [spend EXCEPT ![p][clock] = WithHold(t, @)]
      /\ exec' = [exec EXCEPT ![t].pc = "reserved", ![t].grants = gs,
                              ![t].window = clock]
      /\ UNCHANGED <<clock, pending, stamp, delivered, interrupted, overrun>>

(* execute ending before or at the reservation.  The ledger changes a      *)
(* refused reserve_execution has made in memory are dropped: _record_denial *)
(* reads the state again.                                                  *)
Reject(t, bundle) ==
  LET pol == CachedPolicy(bundle)
  IN  /\ exec[t].pc = "new"
      /\ \/ Refused(t, pol) /\ policy' = pol
         \/ policy' = policy     \* validation, authorization, governance, resolution
      /\ exec' = [exec EXCEPT ![t].pc = "ended", ![t].outcome = "rejected"]
      /\ UNCHANGED <<clock, usage, spend, pending, stamp, delivered, interrupted, overrun>>

-----------------------------------------------------------------------------
(* Dispatch and settlement *)

Dispatch(t) ==
  /\ exec[t].pc = "reserved"
  /\ exec' = [exec EXCEPT ![t].pc = "dispatched"]
  /\ UNCHANGED <<clock, policy, usage, spend, pending, stamp, delivered, interrupted,
                 overrun>>

(* The provider answers: task_completed is emitted, then the settlement.   *)
Respond(t, cost) ==
  /\ exec[t].pc = "dispatched"
  /\ exec' = [exec EXCEPT ![t].pc = "responded", ![t].cost = cost]
  /\ overrun' = (overrun \/ (cost # NoCost /\ cost > Estimate[t] * UnitsPerCent))
  /\ UNCHANGED <<clock, policy, usage, spend, pending, stamp, delivered, interrupted>>

(* _release_provider_budget: every period of every provider. *)
SpendReleased(t) ==
  [p \in Providers |->
     [w \in Periods |-> IF t \in spend[p][w].holds THEN WithoutHold(t, spend[p][w])
                                                   ELSE spend[p][w]]]

(* release_execution *)
Release(t) ==
  /\ usage' = [g \in Grants |-> IF t \in usage[g].holds THEN WithoutHold(t, usage[g])
                                                        ELSE usage[g]]
  /\ spend' = SpendReleased(t)

(* dispatch raises: the reservation is released. *)
Fail(t) ==
  /\ exec[t].pc = "dispatched"
  /\ Release(t)
  /\ exec' = [exec EXCEPT ![t].pc = "ended", ![t].outcome = "failed"]
  /\ UNCHANGED <<clock, policy, pending, stamp, delivered, interrupted, overrun>>

(* _final_cost_cents, and the reserved cost when the metrics have none.    *)
GrantCharge(t, cost) ==
  IF cost = NoCost THEN Estimate[t]
  ELSE (cost + UnitsPerCent - 1) \div UnitsPerCent

(* _final_cost_usd_exact with fallback_cost_cents = 0. *)
ProviderCharge(cost) == IF cost = NoCost THEN 0 ELSE cost

(* A mutant: the cost is not recorded. *)
ChargedNothing(t, u, amount) == WithoutHold(t, u)

Charged(t, u, amount) == [WithoutHold(t, u) EXCEPT !.used = @ + amount]

(* _finalize_provider_budget: the period of the reservation is charged. *)
SpendFinalized(t, cost) ==
  [p \in Providers |->
     [w \in Periods |-> IF t \in spend[p][w].holds
                           THEN Charged(t, spend[p][w], ProviderCharge(cost))
                           ELSE spend[p][w]]]

(* finalize_execution; _queue_usage_summary for every grant charged. *)
Finalize(t) ==
  LET cost == exec[t].cost
      held == {g \in Grants : t \in usage[g].holds}
      summary(g) == [grant |-> g, window |-> usage'[g].window,
                     used |-> usage'[g].used, id |-> stamp]
  IN  /\ exec[t].pc = "responded"
      /\ usage' = [g \in Grants |-> IF g \in held
                                      THEN Charged(t, usage[g], GrantCharge(t, cost))
                                      ELSE usage[g]]
      /\ spend' = SpendFinalized(t, cost)
      /\ pending' = pending \cup {summary(g) : g \in held}
      /\ stamp' = stamp + 1
      /\ exec' = [exec EXCEPT ![t].pc = "ended", ![t].outcome = "completed"]
      /\ UNCHANGED <<clock, policy, delivered, interrupted, overrun>>

(* The task is cancelled at an await (cancel_job, shutdown): CancelledError *)
(* is no Exception, and the awaits around the dispatch are outside the try, *)
(* so nothing settles the reservation.                                     *)
Interrupt(t) ==
  /\ exec[t].pc \in InFlight
  /\ exec' = [exec EXCEPT ![t].pc = "interrupted"]
  /\ interrupted' = TRUE
  /\ UNCHANGED <<clock, policy, usage, spend, pending, stamp, delivered, overrun>>

-----------------------------------------------------------------------------
(* flush_pending_usage_summaries, after every execution that returned.     *)
(* Pending summaries are ordered by queued_at; those of one settlement     *)
(* follow each other in any order.                                         *)

(* The locals of the flush go with it. *)
Returned(t) == [exec EXCEPT ![t].pc = "done", ![t].batch = {}, ![t].sent = {}]

FlushStart(t) ==
  /\ exec[t].pc = "ended"
  /\ exec' = IF pending = {}
               THEN Returned(t)
               ELSE [exec EXCEPT ![t].pc = "flushing", ![t].batch = pending]
  /\ UNCHANGED <<clock, policy, usage, spend, pending, stamp, delivered, interrupted,
                 overrun>>

(* No Core endpoint, token or node id; or the task is cancelled after its  *)
(* settlement: the flush does not take place, or stops where it is.        *)
FlushAbandoned(t) ==
  /\ exec[t].pc \in {"ended", "flushing"}
  /\ exec' = Returned(t)
  /\ UNCHANGED <<clock, policy, usage, spend, pending, stamp, delivered, interrupted,
                 overrun>>

(* The oldest summaries of the batch that were not submitted yet. *)
NextSummaries(t) ==
  LET left == exec[t].batch \ exec[t].sent
  IN  {s \in left : \A r \in left : s.id <= r.id}

(* A mutant: what remains of the copy replaces the pending summaries. *)
FlushEndFromCopy(t, sent) ==
  /\ pending' = exec[t].batch \ sent
  /\ exec' = Returned(t)

(* The end of the loop: the delivered summaries are taken out of the       *)
(* pending ones as they are now.                                           *)
FlushEnd(t, sent) ==
  /\ pending' = {s \in pending : \A r \in sent : <<r.grant, r.id>> # <<s.grant, s.id>>}
  /\ exec' = Returned(t)

(* Core accepts the next summary of the batch. *)
SubmitAccepted(t) ==
  /\ exec[t].pc = "flushing"
  /\ \E s \in NextSummaries(t) :
       LET sent == exec[t].sent \cup {s}
       IN  /\ delivered' = delivered \cup {s}
           /\ IF sent = exec[t].batch \/ Cardinality(sent) = FlushLimit
              THEN FlushEnd(t, sent)
              ELSE exec' = [exec EXCEPT ![t].sent = sent] /\ UNCHANGED pending
  /\ UNCHANGED <<clock, policy, usage, spend, stamp, interrupted, overrun>>

(* Core refuses it: the loop stops. *)
SubmitRefused(t) ==
  /\ exec[t].pc = "flushing"
  /\ FlushEnd(t, exec[t].sent)
  /\ UNCHANGED <<clock, policy, usage, spend, stamp, delivered, interrupted, overrun>>

(* Core receives it and the answer is lost: submit raises, and the flush   *)
(* ends before it takes out what was delivered.                            *)
SubmitRaises(t) ==
  /\ exec[t].pc = "flushing"
  /\ \E s \in NextSummaries(t) : delivered' = delivered \cup {s}
  /\ exec' = Returned(t)
  /\ UNCHANGED <<clock, policy, usage, spend, pending, stamp, interrupted, overrun>>

-----------------------------------------------------------------------------
(* The environment *)

(* The client sends a task id again that did not complete. *)
Resubmit(t) ==
  /\ \/ exec[t].pc = "done" /\ exec[t].outcome # "completed"
     \/ exec[t].pc = "interrupted"
  /\ exec[t].attempts < MaxAttempts - 1
  /\ exec' = [exec EXCEPT ![t] = [NewExec EXCEPT !.attempts = exec[t].attempts + 1]]
  /\ UNCHANGED <<clock, policy, usage, spend, pending, stamp, delivered, interrupted,
                 overrun>>

(* The process dies and starts again: executions are lost, the state file  *)
(* (replaced atomically at every save) is not, reservations included.      *)
Crash ==
  /\ \E t \in Tasks : exec[t].pc \in InFlight \cup {"ended", "flushing"}
  /\ exec' = [t \in Tasks |->
                CASE exec[t].pc \in InFlight -> [exec[t] EXCEPT !.pc = "interrupted"]
                  [] exec[t].pc \in {"ended", "flushing"} -> Returned(t)[t]
                  [] OTHER -> exec[t]]
  /\ interrupted' = (interrupted \/ \E t \in Tasks : exec[t].pc \in InFlight)
  /\ UNCHANGED <<clock, policy, usage, spend, pending, stamp, delivered, overrun>>

(* refresh_policy_from_core: Core's answer arrives and is saved. *)
RefreshPolicy(p) ==
  /\ policy' = p
  /\ UNCHANGED <<clock, usage, spend, pending, stamp, exec, delivered, interrupted,
                 overrun>>

NextPeriod ==
  /\ clock < MaxPeriod
  /\ clock' = clock + 1
  /\ UNCHANGED <<policy, usage, spend, pending, stamp, exec, delivered, interrupted,
                 overrun>>

-----------------------------------------------------------------------------
Init ==
  /\ clock = 1
  /\ policy = Unconfigured
  /\ usage = [g \in Grants |-> NewUsage(0)]
  /\ spend = [p \in Providers |-> [w \in Periods |-> NewSpend]]
  /\ pending = {}
  /\ stamp = 0
  /\ exec = [t \in Tasks |-> NewExec]
  /\ delivered = {}
  /\ interrupted = FALSE
  /\ overrun = FALSE

Execute(t) ==
  \/ \E bundle \in Policies \cup {NoPolicy} : Reserve(t, bundle) \/ Reject(t, bundle)
  \/ Dispatch(t)
  \/ \E cost \in Costs \cup {NoCost} : Respond(t, cost)
  \/ Fail(t)
  \/ Finalize(t)

Flush(t) ==
  \/ FlushStart(t)
  \/ FlushAbandoned(t)
  \/ SubmitAccepted(t)
  \/ SubmitRefused(t)
  \/ SubmitRaises(t)

Next ==
  \/ \E t \in Tasks : Execute(t) \/ Flush(t) \/ Interrupt(t) \/ Resubmit(t)
  \/ Crash
  \/ \E p \in Policies : RefreshPolicy(p)
  \/ NextPeriod

Spec == Init /\ [][Next]_vars

-----------------------------------------------------------------------------
(* Properties *)

(* reserved_cost_cents is the sum of the reservations of the entry, in     *)
(* every grant and every provider window, over settlements, period         *)
(* changes, crashes and retries: no clamp at zero ever hides a loss.       *)
ReservationsAddUp ==
  /\ \A g \in Grants :
       usage[g].reserved = SumOver(usage[g].holds, Estimate)
  /\ \A p \in Providers, w \in Periods :
       spend[p][w].reserved = SumOver(spend[p][w].holds, Estimate)

(* As long as no provider charges more than was reserved, nothing is ever  *)
(* spent or promised beyond a limit, whatever runs concurrently.           *)
WithinLimits ==
  ~overrun =>
    /\ \A g \in Grants :
         GrantLimit[g] > 0 => usage[g].used + usage[g].reserved <= GrantLimit[g]
    /\ \A p \in Providers, w \in Periods :
         ProviderLimit[p] # NoLimit =>
           spend[p][w].used + spend[p][w].reserved * UnitsPerCent
             <= ProviderLimit[p] * UnitsPerCent

(* The tasks whose completed execution was admitted under grant g in its   *)
(* current period.                                                         *)
BilledTo(g) ==
  {t \in Tasks : /\ exec[t].outcome = "completed"
                 /\ g \in exec[t].grants /\ exec[t].window = usage[g].window}

(* Every completed execution is charged once to every grant it was         *)
(* admitted under, in the period it was admitted in.  (After an            *)
(* interruption a retry may settle a left-over reservation as well.)       *)
SpendRecorded ==
  \A g \in Grants :
    LET billed == SumOver(BilledTo(g), [t \in Tasks |-> GrantCharge(t, exec[t].cost)])
    IN  /\ usage[g].used >= billed
        /\ ~interrupted => usage[g].used = billed

(* No usage summary is lost: the usage after the latest charge to a grant  *)
(* has reached Core or is still pending, whoever flushes concurrently and  *)
(* wherever a flush stops.                                                 *)
UsageReported ==
  \A g \in Grants :
    usage[g].used > 0 =>
      \E s \in delivered \cup pending :
        s.grant = g /\ s.window = usage[g].window /\ s.used = usage[g].used
=============================================================================
