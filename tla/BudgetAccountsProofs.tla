------------------------ MODULE BudgetAccountsProofs ------------------------
(* Proofs about what completed executions leave in the accounts: their     *)
(* usage reaches Core or is still pending, they are charged once to every  *)
(* grant they were admitted under, and counted once among the calls of     *)
(* their client.                                                           *)
EXTENDS BudgetedExecutionProofs, Accounting

-----------------------------------------------------------------------------
(* Usage summaries                                                         *)

(* What a flush may have in its hands, and what identifies a summary: a    *)
(* settlement gives the summaries of all its grants one queued_at, and no  *)
(* two settlements share one.                                              *)
Reports == delivered \cup pending

ReportInv ==
  /\ UsageReported
  /\ \A s \in Reports : s.id < stamp
  /\ \A r, s \in Reports : r.grant = s.grant /\ r.id = s.id => r = s
  /\ \A t \in Tasks : exec[t].batch \subseteq Reports /\ exec[t].sent \subseteq delivered

(* A flush copies the pending summaries, and marks as sent what Core has   *)
(* received.                                                               *)
LEMMA BatchesStep ==
  ASSUME TypeOK, [Next]_vars
  PROVE  \A u \in Tasks : /\ exec'[u].batch \subseteq exec[u].batch \cup pending
                          /\ exec'[u].sent \subseteq exec[u].sent \cup delivered'
<1> DEFINE Kept(u) == /\ exec'[u].batch \subseteq exec[u].batch \cup pending
                      /\ exec'[u].sent \subseteq exec[u].sent \cup delivered'
<1>0. exec \in [Tasks -> ExecRecord]
  BY DEF TypeOK
<1>1. ASSUME NEW t \in Tasks, exec'[t].batch \subseteq exec[t].batch \cup pending,
             exec'[t].sent \subseteq exec[t].sent \cup delivered',
             \A x \in Tasks \ {t} : exec'[x] = exec[x]
      PROVE  \A u \in Tasks : Kept(u)
  BY <1>1
<1>2. ASSUME NEW t \in Tasks, exec' = Returned(t)
      PROVE  \A u \in Tasks : Kept(u)
  <2>1. exec'[t].batch = {} /\ exec'[t].sent = {} /\ \A x \in Tasks \ {t} : exec'[x] = exec[x]
    BY <1>0, <1>2 DEF Returned, ExecRecord
  <2> HIDE DEF Kept
  <2> QED
    BY <1>1, <2>1
<1>3. ASSUME NEW t \in Tasks, NEW bundle \in Policies \cup {NoPolicy}, Reserve(t, bundle)
      PROVE  \A u \in Tasks : Kept(u)
  <2>1. /\ exec'[t].batch = exec[t].batch /\ exec'[t].sent = exec[t].sent
        /\ \A x \in Tasks \ {t} : exec'[x] = exec[x]
    BY <1>0, <1>3 DEF Reserve, ExecRecord
  <2> HIDE DEF Kept
  <2> QED
    BY <1>1, <2>1
<1>4. ASSUME NEW t \in Tasks,
             \/ \E bundle \in Policies \cup {NoPolicy} : Reject(t, bundle)
             \/ \E cost \in Costs \cup {NoCost} : Respond(t, cost)
             \/ Dispatch(t) \/ Interrupt(t) \/ Fail(t) \/ Finalize(t)
      PROVE  \A u \in Tasks : Kept(u)
  <2>1. /\ exec'[t].batch = exec[t].batch /\ exec'[t].sent = exec[t].sent
        /\ \A x \in Tasks \ {t} : exec'[x] = exec[x]
    BY <1>0, <1>4 DEF Reject, Respond, Dispatch, Interrupt, Fail, Finalize, ExecRecord
  <2> HIDE DEF Kept
  <2> QED
    BY <1>1, <2>1
<1>5. ASSUME NEW t \in Tasks, Resubmit(t)
      PROVE  \A u \in Tasks : Kept(u)
  <2>1. exec'[t].batch = {} /\ exec'[t].sent = {} /\ \A x \in Tasks \ {t} : exec'[x] = exec[x]
    BY <1>0, <1>5 DEF Resubmit, NewExec, ExecRecord
  <2> HIDE DEF Kept
  <2> QED
    BY <1>1, <2>1
<1>6. ASSUME NEW t \in Tasks, Flush(t)
      PROVE  \A u \in Tasks : Kept(u)
  <2>1. CASE exec' = [exec EXCEPT ![t].pc = "flushing", ![t].batch = pending]
    <3>1. /\ exec'[t].batch = pending /\ exec'[t].sent = exec[t].sent
          /\ \A x \in Tasks \ {t} : exec'[x] = exec[x]
      BY <1>0, <2>1 DEF ExecRecord
    <3> HIDE DEF Kept
    <3> QED
      BY <1>1, <3>1
  <2>2. ASSUME NEW s, delivered' = delivered \cup {s},
               exec' = [exec EXCEPT ![t].sent = exec[t].sent \cup {s}]
        PROVE  \A u \in Tasks : Kept(u)
    <3>1. /\ exec'[t].batch = exec[t].batch /\ exec'[t].sent = exec[t].sent \cup {s}
          /\ \A x \in Tasks \ {t} : exec'[x] = exec[x]
      BY <1>0, <2>2 DEF ExecRecord
    <3> HIDE DEF Kept
    <3> QED
      BY <1>1, <2>2, <3>1
  <2>3. \/ exec' = Returned(t)
        \/ exec' = [exec EXCEPT ![t].pc = "flushing", ![t].batch = pending]
        \/ \E s : /\ delivered' = delivered \cup {s}
                  /\ exec' = [exec EXCEPT ![t].sent = exec[t].sent \cup {s}]
    <3>1. CASE FlushStart(t) \/ FlushAbandoned(t) \/ SubmitRefused(t) \/ SubmitRaises(t)
      BY <3>1 DEF FlushStart, FlushAbandoned, SubmitRefused, SubmitRaises, FlushEnd
    <3>2. CASE SubmitAccepted(t)
      BY <3>2 DEF SubmitAccepted, FlushEnd
    <3> QED
      BY <1>6, <3>1, <3>2 DEF Flush
  <2> HIDE DEF Kept
  <2> QED
    BY <1>2, <2>1, <2>2, <2>3
<1>7. ASSUME Crash
      PROVE  \A u \in Tasks : Kept(u)
  <2> SUFFICES ASSUME NEW u \in Tasks PROVE Kept(u)
    OBVIOUS
  <2>1. exec'[u] \in {[exec[u] EXCEPT !.pc = "interrupted"], Returned(u)[u], exec[u]}
    BY <1>7 DEF Crash
  <2>2. Returned(u)[u].batch = {} /\ Returned(u)[u].sent = {}
    BY <1>0 DEF Returned, ExecRecord
  <2>3. /\ [exec[u] EXCEPT !.pc = "interrupted"].batch = exec[u].batch
        /\ [exec[u] EXCEPT !.pc = "interrupted"].sent = exec[u].sent
    BY <1>0 DEF ExecRecord
  <2> QED
    BY <2>1, <2>2, <2>3
<1>8. ASSUME NextPeriod \/ UNCHANGED vars \/ \E p \in Policies : RefreshPolicy(p)
      PROVE  \A u \in Tasks : Kept(u)
  BY <1>8 DEF NextPeriod, RefreshPolicy, vars
<1>9. ASSUME Elsewhere
      PROVE  \A u \in Tasks : Kept(u)
  <2> HIDE DEF Kept
  <2>1. CASE \E t \in Tasks :
               \/ \E bundle \in Policies \cup {NoPolicy} : Reject(t, bundle)
               \/ Dispatch(t) \/ Interrupt(t) \/ Resubmit(t) \/ Flush(t)
               \/ \E cost \in Costs \cup {NoCost} : Respond(t, cost)
    <3> PICK t \in Tasks :
               \/ \E bundle \in Policies \cup {NoPolicy} : Reject(t, bundle)
               \/ Dispatch(t) \/ Interrupt(t) \/ Resubmit(t) \/ Flush(t)
               \/ \E cost \in Costs \cup {NoCost} : Respond(t, cost)
      BY <2>1, Zenon
    <3> QED
      BY <1>4, <1>5, <1>6, Zenon
  <2> QED
    BY <1>7, <1>8, <1>9, <2>1 DEF Elsewhere
<1> HIDE DEF Kept
<1>10. \A u \in Tasks : Kept(u)
  BY <1>3, <1>4, <1>9, StepsSplit
<1> QED
  BY <1>10 DEF Kept

(* Only a settlement makes new summaries; a flush takes out of the pending *)
(* ones nothing that Core has not received.                                *)
LEMMA ReportsStep ==
  ASSUME TypeOK, ReportInv, [Next]_vars
  PROVE  /\ delivered \subseteq delivered'
         /\ Reports \subseteq Reports'
         /\ (UNCHANGED stamp /\ Reports' = Reports) \/ \E t \in Tasks : Finalize(t)
<1> DEFINE Goal == /\ delivered \subseteq delivered'
                   /\ Reports \subseteq Reports'
                   /\ (UNCHANGED stamp /\ Reports' = Reports) \/ \E t \in Tasks : Finalize(t)
<1>1. ASSUME UNCHANGED <<delivered, pending, stamp>>
      PROVE  Goal
  BY <1>1 DEF Reports
<1>2. ASSUME NEW t \in Tasks, Finalize(t)
      PROVE  Goal
  BY <1>2 DEF Finalize, Reports
<1>3. ASSUME NEW t \in Tasks, UNCHANGED stamp,
             NEW received \in SUBSET exec[t].batch, delivered' = delivered \cup received,
             NEW sent \in SUBSET delivered',
             \/ UNCHANGED pending
             \/ pending' = {s \in pending : \A r \in sent : <<r.grant, r.id>> # <<s.grant, s.id>>}
      PROVE  Goal
  <2>1. received \subseteq Reports /\ delivered' \subseteq Reports
    BY <1>3 DEF ReportInv, Reports
  <2>2. pending' \subseteq pending
    BY <1>3
  <2>3. \A s \in pending \ pending' : s \in delivered'
    <3> SUFFICES ASSUME NEW s \in pending, s \notin pending' PROVE s \in delivered'
      OBVIOUS
    <3>1. PICK r \in sent : r.grant = s.grant /\ r.id = s.id
      BY <1>3
    <3>2. r \in Reports /\ s \in Reports /\ r \in delivered'
      BY <1>3, <2>1 DEF Reports
    <3> QED
      BY <3>1, <3>2 DEF ReportInv
  <2> QED
    BY <1>3, <2>1, <2>2, <2>3 DEF Reports
<1>4. ASSUME NEW t \in Tasks, Flush(t)
      PROVE  Goal
  <2>0. exec[t].sent \subseteq delivered /\ NextSummaries(t) \subseteq exec[t].batch
    BY DEF ReportInv, NextSummaries
  <2>1. CASE FlushStart(t) \/ FlushAbandoned(t)
    BY <1>1, <2>1 DEF FlushStart, FlushAbandoned
  <2>2. CASE SubmitAccepted(t)
    <3> PICK s \in NextSummaries(t) :
          /\ delivered' = delivered \cup {s}
          /\ \/ FlushEnd(t, exec[t].sent \cup {s})
             \/ UNCHANGED pending
      BY <2>2 DEF SubmitAccepted
    <3>1. {s} \in SUBSET exec[t].batch /\ exec[t].sent \cup {s} \in SUBSET delivered'
      BY <2>0
    <3>2. UNCHANGED stamp
      BY <2>2 DEF SubmitAccepted
    <3>3. \/ UNCHANGED pending
          \/ pending' = {x \in pending : \A r \in exec[t].sent \cup {s} :
                                           <<r.grant, r.id>> # <<x.grant, x.id>>}
      BY DEF FlushEnd
    <3> HIDE DEF Goal
    <3> QED
      BY <1>3, <3>1, <3>2, <3>3
  <2>3. CASE SubmitRefused(t)
    <3>1. {} \in SUBSET exec[t].batch /\ delivered' = delivered \cup {} /\ exec[t].sent \in SUBSET delivered'
      BY <2>0, <2>3 DEF SubmitRefused
    <3>2. UNCHANGED stamp
      BY <2>3 DEF SubmitRefused
    <3>3. pending' = {x \in pending : \A r \in exec[t].sent : <<r.grant, r.id>> # <<x.grant, x.id>>}
      BY <2>3 DEF SubmitRefused, FlushEnd
    <3> HIDE DEF Goal
    <3> QED
      BY <1>3, <3>1, <3>2, <3>3
  <2>4. CASE SubmitRaises(t)
    <3> PICK s \in NextSummaries(t) : delivered' = delivered \cup {s}
      BY <2>4 DEF SubmitRaises
    <3>1. {s} \in SUBSET exec[t].batch /\ {} \in SUBSET delivered'
      BY <2>0
    <3>2. UNCHANGED stamp /\ UNCHANGED pending
      BY <2>4 DEF SubmitRaises
    <3> HIDE DEF Goal
    <3> QED
      BY <1>3, <3>1, <3>2
  <2> HIDE DEF Goal
  <2> QED
    BY <1>4, <2>1, <2>2, <2>3, <2>4 DEF Flush
<1>5. ASSUME \E t \in Tasks :
               \/ \E bundle \in Policies \cup {NoPolicy} : Reserve(t, bundle) \/ Reject(t, bundle)
               \/ \E cost \in Costs \cup {NoCost} : Respond(t, cost)
               \/ Dispatch(t) \/ Interrupt(t) \/ Resubmit(t) \/ Fail(t)
      PROVE  Goal
  <2>1. UNCHANGED <<delivered, pending, stamp>>
    BY ZenonT(60), <1>5 DEF Reserve, Reject, Respond, Dispatch, Interrupt, Resubmit, Fail
  <2> HIDE DEF Goal
  <2> QED
    BY <1>1, <2>1
<1>6. ASSUME Crash \/ NextPeriod \/ UNCHANGED vars \/ \E p \in Policies : RefreshPolicy(p)
      PROVE  Goal
  <2>1. UNCHANGED <<delivered, pending, stamp>>
    BY <1>6 DEF Crash, NextPeriod, RefreshPolicy, vars
  <2> HIDE DEF Goal
  <2> QED
    BY <1>1, <2>1
<1> HIDE DEF Goal
<1>7. ASSUME Elsewhere
      PROVE  Goal
  <2>1. ASSUME NEW t \in Tasks,
               \/ \E bundle \in Policies \cup {NoPolicy} : Reject(t, bundle)
               \/ Dispatch(t) \/ Interrupt(t) \/ Resubmit(t)
               \/ \E cost \in Costs \cup {NoCost} : Respond(t, cost)
        PROVE  Goal
    BY <1>5, <2>1, Zenon
  <2> QED
    BY <1>4, <1>6, <1>7, <2>1 DEF Elsewhere
<1>8. Goal
  BY <1>2, <1>5, <1>7, StepsSplit
<1> QED
  BY <1>8 DEF Goal

(* An entry starts anew, keeps its use, or is charged by a settlement.     *)
LEMMA UsageStep ==
  ASSUME TypeOK, LedgersAddUp, [Next]_vars, NEW g \in Grants
  PROVE  \/ usage'[g].used = 0
         \/ usage'[g].used = usage[g].used /\ usage'[g].window = usage[g].window
         \/ \E t \in Tasks : Finalize(t) /\ t \in usage[g].holds
<1>1. ASSUME NEW t \in Tasks, NEW bundle \in Policies \cup {NoPolicy}, Reserve(t, bundle)
      PROVE  \/ usage'[g].used = 0
             \/ usage'[g].used = usage[g].used /\ usage'[g].window = usage[g].window
  <2> DEFINE gs == ReservedGrants(t, CachedPolicy(bundle))
  <2>1. /\ \A x \in gs : /\ EnsuredUsage(x, clock) \in UsageRecord /\ AddsUp(EnsuredUsage(x, clock))
                         /\ t \notin EnsuredUsage(x, clock).holds
                         /\ usage'[x] = WithHold(t, EnsuredUsage(x, clock))
        /\ \A x \in Grants \ gs : usage'[x] = usage[x]
    BY <1>1, ReserveEffects
  <2> HIDE DEF gs
  <2>2. CASE g \in gs
    <3>1. /\ usage'[g].used = EnsuredUsage(g, clock).used
          /\ usage'[g].window = EnsuredUsage(g, clock).window
      BY <2>1, <2>2, HoldAdded, EntriesTyped DEF Entries
    <3> QED
      BY <3>1 DEF EnsuredUsage, NewUsage
  <2>3. CASE g \notin gs
    BY <2>1, <2>3
  <2> QED
    BY <2>2, <2>3
<1>2. ASSUME NEW t \in Tasks, Fail(t)
      PROVE  usage'[g].used = usage[g].used /\ usage'[g].window = usage[g].window
  <2>1. usage[g].used \in Nat
    BY DEF TypeOK, UsageRecord
  <2>2. CASE t \in usage[g].holds
    BY <1>2, <2>1, <2>2, FailSettles DEF Settled
  <2>3. CASE t \notin usage[g].holds
    BY <1>2, <2>3, FailSettles DEF Settled
  <2> QED
    BY <2>2, <2>3
<1>3. ASSUME NEW t \in Tasks, Finalize(t), t \notin usage[g].holds
      PROVE  usage'[g] = usage[g]
  BY <1>3, FinalizeSettles DEF Settled
<1> QED
  BY <1>1, <1>2, <1>3, StepsSplit, ElsewhereStays

(* Every summary has a settlement of its own, and what is in a flush's     *)
(* hands is known.                                                         *)
LEMMA ReportStep ==
  ASSUME TypeOK, LedgersAddUp, ReportInv, [Next]_vars
  PROVE  ReportInv'
<1>1. /\ delivered \subseteq delivered' /\ Reports \subseteq Reports'
      /\ (UNCHANGED stamp /\ Reports' = Reports) \/ \E t \in Tasks : Finalize(t)
  BY ReportsStep
<1>2. \A t \in Tasks : exec'[t].batch \subseteq Reports' /\ exec'[t].sent \subseteq delivered'
  <2>1. \A t \in Tasks : /\ exec'[t].batch \subseteq exec[t].batch \cup pending
                         /\ exec'[t].sent \subseteq exec[t].sent \cup delivered'
    BY BatchesStep
  <2>2. \A t \in Tasks : exec[t].batch \subseteq Reports /\ exec[t].sent \subseteq delivered
    BY DEF ReportInv
  <2>3. pending \subseteq Reports
    BY DEF Reports
  <2> QED
    BY <1>1, <2>1, <2>2, <2>3
<1>3. CASE UNCHANGED stamp /\ Reports' = Reports /\ ~\E t \in Tasks : Finalize(t)
  <2>1. UsageReported'
    <3> SUFFICES ASSUME NEW g \in Grants, usage'[g].used > 0
                 PROVE  \E s \in Reports' : /\ s.grant = g /\ s.window = usage'[g].window
                                            /\ s.used = usage'[g].used
      BY DEF UsageReported, Reports
    <3>1. usage'[g].used = usage[g].used /\ usage'[g].window = usage[g].window
      BY <1>3, UsageStep
    <3>2. \E s \in Reports : s.grant = g /\ s.window = usage[g].window /\ s.used = usage[g].used
      BY <3>1 DEF ReportInv, UsageReported, Reports
    <3> QED
      BY <1>3, <3>1, <3>2
  <2>2. /\ \A s \in Reports' : s.id < stamp'
        /\ \A r, s \in Reports' : r.grant = s.grant /\ r.id = s.id => r = s
    BY <1>3 DEF ReportInv
  <2> QED
    BY <1>2, <2>1, <2>2 DEF ReportInv
<1>4. ASSUME NEW t \in Tasks, Finalize(t)
      PROVE  ReportInv'
  <2> DEFINE held == {g \in Grants : t \in usage[g].holds}
             report(g) == [grant |-> g, window |-> usage'[g].window,
                            used |-> usage'[g].used, id |-> stamp]
  <2>1. stamp' = stamp + 1 /\ Reports' = Reports \cup {report(g) : g \in held} /\ stamp \in Nat
    BY <1>4 DEF Finalize, Reports, TypeOK
  <2>2. \A s \in Reports : s.id \in Nat /\ s.id < stamp
    BY DEF ReportInv, Reports, TypeOK, Summary
  <2>3. \A g \in held : /\ report(g).grant = g /\ report(g).id = stamp
                        /\ report(g).window = usage'[g].window /\ report(g).used = usage'[g].used
    OBVIOUS
  <2> HIDE DEF report
  <2>4. \A s \in Reports' : s.id < stamp'
    BY <2>1, <2>2, <2>3
  <2>5. \A r, s \in Reports' : r.grant = s.grant /\ r.id = s.id => r = s
    <3> SUFFICES ASSUME NEW r \in Reports', NEW s \in Reports', r.grant = s.grant, r.id = s.id
                 PROVE  r = s
      OBVIOUS
    <3>1. CASE r \in Reports /\ s \in Reports
      BY <3>1 DEF ReportInv
    <3>2. CASE r \notin Reports
      <4>1. PICK g \in held : r = report(g)
        BY <2>1, <3>2
      <4>2. s \notin Reports
        BY <2>2, <2>3, <4>1
      <4> QED
        BY <2>1, <2>3, <4>1, <4>2
    <3>3. CASE s \notin Reports
      <4>1. PICK g \in held : s = report(g)
        BY <2>1, <3>3
      <4>2. r \notin Reports
        BY <2>2, <2>3, <4>1
      <4> QED
        BY <2>1, <2>3, <4>1, <4>2
    <3> QED
      BY <3>1, <3>2, <3>3
  <2>6. UsageReported'
    <3> SUFFICES ASSUME NEW g \in Grants, usage'[g].used > 0
                 PROVE  \E s \in Reports' : /\ s.grant = g /\ s.window = usage'[g].window
                                            /\ s.used = usage'[g].used
      BY DEF UsageReported, Reports
    <3>1. CASE g \in held
      <4>1. report(g) \in Reports'
        BY <2>1, <3>1
      <4> QED
        BY <2>3, <3>1, <4>1
    <3>2. CASE g \notin held
      <4>1. usage'[g] = usage[g]
        BY <1>4, <3>2, FinalizeSettles DEF Settled
      <4>2. \E s \in Reports : s.grant = g /\ s.window = usage[g].window /\ s.used = usage[g].used
        BY <4>1 DEF ReportInv, UsageReported, Reports
      <4> QED
        BY <2>1, <4>1, <4>2
    <3> QED
      BY <3>1, <3>2
  <2> QED
    BY <1>2, <2>4, <2>5, <2>6 DEF ReportInv
<1> QED
  BY <1>1, <1>3, <1>4

(* The usage after the latest charge to a grant has reached Core or is     *)
(* still pending, however many executions flush at once and wherever a     *)
(* flush stops (BudgetManager.flush_pending_usage_summaries).              *)
THEOREM SummariesKept == Spec => []UsageReported
<1>1. Init => ReportInv
  <2> SUFFICES ASSUME Init PROVE ReportInv
    OBVIOUS
  <2>1. UsageReported
    BY DEF Init, UsageReported, NewUsage
  <2>2. Reports = {} /\ \A t \in Tasks : exec[t].batch = {} /\ exec[t].sent = {}
    BY DEF Init, Reports, NewExec
  <2> QED
    BY <2>1, <2>2 DEF ReportInv
<1>2. ReportInv => UsageReported
  BY DEF ReportInv
<1> QED
  BY <1>1, <1>2, BudgetInvariant, ReportStep, PTL DEF Spec

-----------------------------------------------------------------------------
(* What completed executions are charged                                   *)

Settlements == {"ended", "flushing", "done"}

ChargeOf == [t \in Tasks |-> GrantCharge(t, exec[t].cost)]

(* An execution's reservation is of the period it was made in, and as long *)
(* as nothing was interrupted every reservation is of an execution under   *)
(* way.                                                                    *)
HoldsFit ==
  /\ \A t \in Tasks : exec[t].window <= clock
  /\ \A g \in Grants : usage[g].window <= clock
  /\ \A t \in Tasks : exec[t].outcome = "completed" => exec[t].pc \in Settlements
  /\ \A t \in Tasks, g \in Grants :
       /\ g \in exec[t].grants => exec[t].window <= usage[g].window
       /\ exec[t].pc \in InFlight /\ g \in exec[t].grants /\ exec[t].window = usage[g].window
            => t \in usage[g].holds
       /\ ~interrupted /\ t \in usage[g].holds =>
            exec[t].pc \in InFlight /\ g \in exec[t].grants /\ exec[t].window = usage[g].window

SpendInv == SpendRecorded /\ HoldsFit

(* The steps that change no account and complete no execution.  Executions *)
(* keep what they were admitted under and what they cost, except those of  *)
(* R, which are sent again or answered.                                    *)
Idle(R) ==
  /\ UNCHANGED usage
  /\ clock <= clock' /\ (interrupted => interrupted')
  /\ \A u \in Tasks :
       /\ exec'[u].outcome = "completed" <=> exec[u].outcome = "completed"
       /\ exec'[u].outcome = "completed" => exec'[u].pc \in Settlements
       /\ exec'[u].pc \in InFlight => exec[u].pc \in InFlight
       /\ exec[u].pc \in InFlight => exec'[u].pc \in InFlight \/ interrupted'
       /\ \/ exec'[u].grants = exec[u].grants /\ exec'[u].window = exec[u].window
          \/ exec'[u].grants = {} /\ exec'[u].window = 0 /\ exec[u].pc \notin InFlight
       /\ u \notin R =>
            /\ exec'[u].grants = exec[u].grants /\ exec'[u].window = exec[u].window
            /\ exec'[u].cost = exec[u].cost
       /\ u \in R => exec[u].outcome # "completed"

LEMMA IdleKeeps ==
  ASSUME TypeOK, TypeOK', SpendInv, NEW R \in SUBSET Tasks, Idle(R)
  PROVE  SpendInv'
<1>1. HoldsFit'
  <2>n. /\ clock \in Nat /\ clock' \in Nat
        /\ \A t \in Tasks : exec[t].window \in Nat /\ exec'[t].window \in Nat
        /\ \A g \in Grants : usage[g].window \in Nat
    BY BoundsAssumption DEF TypeOK, Periods, ExecRecord, UsageRecord
  <2>1. \A t \in Tasks : exec'[t].window <= clock'
    <3> SUFFICES ASSUME NEW t \in Tasks PROVE exec'[t].window <= clock'
      OBVIOUS
    <3>1. exec[t].window <= clock /\ clock <= clock'
      BY DEF SpendInv, HoldsFit, Idle
    <3>2. exec'[t].window = exec[t].window \/ exec'[t].window = 0
      BY DEF Idle
    <3> QED
      BY <2>n, <3>1, <3>2
  <2>2. \A g \in Grants : usage'[g].window <= clock'
    BY <2>n DEF SpendInv, HoldsFit, Idle
  <2>3. \A t \in Tasks : exec'[t].outcome = "completed" => exec'[t].pc \in Settlements
    BY DEF Idle
  <2>4. ASSUME NEW t \in Tasks, NEW g \in Grants
        PROVE  /\ g \in exec'[t].grants => exec'[t].window <= usage'[g].window
               /\ exec'[t].pc \in InFlight /\ g \in exec'[t].grants /\ exec'[t].window = usage'[g].window
                    => t \in usage'[g].holds
               /\ ~interrupted' /\ t \in usage'[g].holds =>
                    exec'[t].pc \in InFlight /\ g \in exec'[t].grants /\ exec'[t].window = usage'[g].window
    <3>1. /\ g \in exec[t].grants => exec[t].window <= usage[g].window
          /\ exec[t].pc \in InFlight /\ g \in exec[t].grants /\ exec[t].window = usage[g].window
               => t \in usage[g].holds
          /\ ~interrupted /\ t \in usage[g].holds =>
               exec[t].pc \in InFlight /\ g \in exec[t].grants /\ exec[t].window = usage[g].window
      BY DEF SpendInv, HoldsFit
    <3>2. /\ UNCHANGED usage /\ (interrupted => interrupted')
          /\ exec'[t].pc \in InFlight => exec[t].pc \in InFlight
          /\ exec[t].pc \in InFlight => exec'[t].pc \in InFlight \/ interrupted'
          /\ \/ exec'[t].grants = exec[t].grants /\ exec'[t].window = exec[t].window
             \/ exec'[t].grants = {} /\ exec'[t].window = 0 /\ exec[t].pc \notin InFlight
      BY DEF Idle
    <3> QED
      BY <3>1, <3>2
  <2> QED
    BY <2>1, <2>2, <2>3, <2>4 DEF HoldsFit
<1>2. SpendRecorded'
  <2> SUFFICES ASSUME NEW g \in Grants
               PROVE  LET billed == SumOver(BilledTo(g), ChargeOf)'
                      IN  /\ usage'[g].used >= billed
                          /\ ~interrupted' => usage'[g].used = billed
    BY DEF SpendRecorded, ChargeOf
  <2>1. BilledTo(g)' = BilledTo(g)
    BY DEF Idle, BilledTo
  <2>2. \A t \in BilledTo(g) : t \in Tasks /\ exec'[t].cost = exec[t].cost
    BY DEF Idle, BilledTo
  <2>3. \A t \in BilledTo(g) : ChargeOf[t] \in Nat /\ ChargeOf[t] = ChargeOf'[t]
    <3> SUFFICES ASSUME NEW t \in BilledTo(g) PROVE ChargeOf[t] \in Nat /\ ChargeOf[t] = ChargeOf'[t]
      OBVIOUS
    <3>1. exec[t].cost \in Costs \cup {NoCost}
      BY <2>2 DEF TypeOK, ExecRecord
    <3>2. GrantCharge(t, exec[t].cost) \in Nat
      BY <2>2, <3>1, ChargesTyped
    <3> QED
      BY <2>2, <3>2 DEF ChargeOf, GrantCharge
  <2>4. IsFiniteSet(BilledTo(g))
    BY TasksAssumption, FS_Subset DEF BilledTo
  <2>5. SumOver(BilledTo(g), ChargeOf) = SumOver(BilledTo(g), ChargeOf')
    <3> HIDE DEF ChargeOf, BilledTo
    <3> QED
      BY <2>3, <2>4, SumOfSame
  <2>6. /\ usage[g].used >= SumOver(BilledTo(g), ChargeOf)
        /\ ~interrupted => usage[g].used = SumOver(BilledTo(g), ChargeOf)
    BY DEF SpendInv, SpendRecorded, ChargeOf
  <2>7. UNCHANGED usage /\ (interrupted => interrupted')
    BY DEF Idle
  <2> QED
    BY <2>1, <2>5, <2>6, <2>7
<1> QED
  BY <1>1, <1>2 DEF SpendInv

(* The steps of one execution after which it has not completed.            *)
LEMMA OneIdle ==
  ASSUME TypeOK, TypeOK', HoldsFit, NEW t \in Tasks, UNCHANGED <<clock, usage, interrupted>>,
         \A x \in Tasks \ {t} : exec'[x] = exec[x],
         \/ /\ exec'[t].outcome = exec[t].outcome /\ exec'[t].grants = exec[t].grants
            /\ exec'[t].window = exec[t].window /\ exec'[t].cost = exec[t].cost
            /\ exec[t].pc \in Settlements => exec'[t].pc \in Settlements
            /\ exec[t].pc \in InFlight <=> exec'[t].pc \in InFlight
         \/ /\ exec[t].outcome # "completed" /\ exec'[t].outcome # "completed"
            /\ exec[t].pc \in InFlight <=> exec'[t].pc \in InFlight
            /\ \/ exec'[t].grants = exec[t].grants /\ exec'[t].window = exec[t].window
               \/ exec'[t].grants = {} /\ exec'[t].window = 0 /\ exec[t].pc \notin InFlight
  PROVE  \E R \in SUBSET Tasks : Idle(R)
<1>1. clock <= clock'
  BY DEF TypeOK, Periods
<1>2. CASE exec[t].outcome # "completed"
  <2>1. Idle({t})
    BY <1>1, <1>2 DEF Idle, HoldsFit, Settlements, InFlight
  <2> QED
    BY <2>1
<1>3. CASE exec[t].outcome = "completed"
  <2>1. Idle({})
    BY <1>1, <1>3 DEF Idle, HoldsFit, Settlements, InFlight
  <2> QED
    BY <2>1
<1> QED
  BY <1>2, <1>3

LEMMA ElsewhereIsIdle ==
  ASSUME TypeOK, TypeOK', HoldsFit, Elsewhere
  PROVE  \E R \in SUBSET Tasks : Idle(R)
<1> DEFINE Goal == \E R \in SUBSET Tasks : Idle(R)
<1>0. exec \in [Tasks -> ExecRecord] /\ clock \in Nat
  BY BoundsAssumption DEF TypeOK, Periods
<1>1. ASSUME NEW t \in Tasks,
             \/ \E bundle \in Policies \cup {NoPolicy} : Reject(t, bundle)
             \/ \E cost \in Costs \cup {NoCost} : Respond(t, cost)
             \/ Dispatch(t)
      PROVE  Goal
  <2>1. exec[t].outcome # "completed"
    <3>1. exec[t].pc \notin Settlements
      BY <1>1 DEF Reject, Respond, Dispatch, Settlements
    <3> QED
      BY <3>1 DEF HoldsFit
  <2>2. /\ exec'[t].outcome # "completed"
        /\ exec'[t].grants = exec[t].grants /\ exec'[t].window = exec[t].window
        /\ exec[t].pc \in InFlight <=> exec'[t].pc \in InFlight
        /\ \A x \in Tasks \ {t} : exec'[x] = exec[x]
    BY <1>0, <1>1, <2>1 DEF Reject, Respond, Dispatch, ExecRecord, InFlight
  <2>3. UNCHANGED <<clock, usage, interrupted>>
    BY <1>1 DEF Reject, Respond, Dispatch
  <2> HIDE DEF Goal
  <2> QED
    BY <2>1, <2>2, <2>3, OneIdle DEF Goal
<1>2. ASSUME NEW t \in Tasks, Resubmit(t)
      PROVE  Goal
  <2>1. exec[t].outcome # "completed" /\ exec[t].pc \notin InFlight
    BY <1>2 DEF Resubmit, HoldsFit, Settlements, InFlight
  <2>2. /\ exec'[t].outcome = "none" /\ exec'[t].grants = {} /\ exec'[t].window = 0
        /\ exec'[t].pc = "new" /\ \A x \in Tasks \ {t} : exec'[x] = exec[x]
    BY <1>0, <1>2 DEF Resubmit, NewExec, ExecRecord
  <2>3. UNCHANGED <<clock, usage, interrupted>>
    BY <1>2 DEF Resubmit
  <2>4. exec'[t].pc \notin InFlight
    BY <2>2 DEF InFlight
  <2> HIDE DEF Goal
  <2> QED
    BY <2>1, <2>2, <2>3, <2>4, OneIdle DEF Goal
<1>3. ASSUME NEW t \in Tasks, Flush(t)
      PROVE  Goal
  <2>1. ASSUME exec[t].pc \in {"ended", "flushing"}, exec' = Returned(t)
        PROVE  /\ exec'[t].pc = "done" /\ exec'[t].outcome = exec[t].outcome
               /\ exec'[t].grants = exec[t].grants /\ exec'[t].window = exec[t].window
               /\ exec'[t].cost = exec[t].cost /\ \A x \in Tasks \ {t} : exec'[x] = exec[x]
    BY <1>0, <2>1 DEF Returned, ExecRecord
  <2>2. ASSUME exec[t].pc = "ended", exec' = [exec EXCEPT ![t].pc = "flushing", ![t].batch = pending]
        PROVE  /\ exec'[t].pc = "flushing" /\ exec'[t].outcome = exec[t].outcome
               /\ exec'[t].grants = exec[t].grants /\ exec'[t].window = exec[t].window
               /\ exec'[t].cost = exec[t].cost /\ \A x \in Tasks \ {t} : exec'[x] = exec[x]
    BY <1>0, <2>2 DEF ExecRecord
  <2>3. ASSUME NEW sent, exec[t].pc = "flushing", exec' = [exec EXCEPT ![t].sent = sent]
        PROVE  /\ exec'[t].pc = "flushing" /\ exec'[t].outcome = exec[t].outcome
               /\ exec'[t].grants = exec[t].grants /\ exec'[t].window = exec[t].window
               /\ exec'[t].cost = exec[t].cost /\ \A x \in Tasks \ {t} : exec'[x] = exec[x]
    BY <1>0, <2>3 DEF ExecRecord
  <2>4. /\ exec[t].pc \in {"ended", "flushing"} /\ UNCHANGED <<clock, usage, interrupted>>
        /\ \/ exec' = Returned(t)
           \/ exec[t].pc = "ended" /\ exec' = [exec EXCEPT ![t].pc = "flushing", ![t].batch = pending]
           \/ \E sent : exec[t].pc = "flushing" /\ exec' = [exec EXCEPT ![t].sent = sent]
    <3>1. CASE FlushStart(t) \/ FlushAbandoned(t) \/ SubmitRefused(t) \/ SubmitRaises(t)
      BY <3>1 DEF FlushStart, FlushAbandoned, SubmitRefused, SubmitRaises, FlushEnd
    <3>2. CASE SubmitAccepted(t)
      BY <3>2 DEF SubmitAccepted, FlushEnd
    <3> QED
      BY <1>3, <3>1, <3>2 DEF Flush
  <2>5. /\ exec'[t].pc \in {"flushing", "done"} /\ exec'[t].outcome = exec[t].outcome
        /\ exec'[t].grants = exec[t].grants /\ exec'[t].window = exec[t].window
        /\ exec'[t].cost = exec[t].cost /\ \A x \in Tasks \ {t} : exec'[x] = exec[x]
    BY <2>1, <2>2, <2>3, <2>4
  <2>6. exec[t].pc \notin InFlight /\ exec'[t].pc \notin InFlight /\ exec'[t].pc \in Settlements
    BY <2>4, <2>5 DEF InFlight, Settlements
  <2> HIDE DEF Goal
  <2> QED
    BY <2>4, <2>5, <2>6, OneIdle DEF Goal
<1>4. ASSUME NEW t \in Tasks, Interrupt(t)
      PROVE  Goal
  <2>1. /\ exec'[t].pc = "interrupted" /\ exec'[t].outcome = exec[t].outcome
        /\ exec'[t].grants = exec[t].grants /\ exec'[t].window = exec[t].window
        /\ exec'[t].cost = exec[t].cost /\ \A x \in Tasks \ {t} : exec'[x] = exec[x]
    BY <1>0, <1>4 DEF Interrupt, ExecRecord
  <2>2. UNCHANGED <<clock, usage>> /\ interrupted' /\ exec[t].pc \in InFlight
    BY <1>4 DEF Interrupt
  <2>3. exec[t].outcome # "completed"
    BY <2>2 DEF HoldsFit, InFlight, Settlements
  <2>4. Idle({})
    BY <1>0, <2>1, <2>2, <2>3 DEF Idle, HoldsFit, InFlight
  <2> QED
    BY <2>4
<1>5. ASSUME Crash
      PROVE  Goal
  <2>1. ASSUME NEW u \in Tasks
        PROVE  /\ exec'[u].outcome = exec[u].outcome
               /\ exec'[u].grants = exec[u].grants /\ exec'[u].window = exec[u].window
               /\ exec'[u].cost = exec[u].cost
               /\ exec'[u].pc = IF exec[u].pc \in InFlight THEN "interrupted"
                                ELSE IF exec[u].pc \in {"ended", "flushing"} THEN "done"
                                ELSE exec[u].pc
    <3>1. exec'[u] = CASE exec[u].pc \in InFlight -> [exec[u] EXCEPT !.pc = "interrupted"]
                       [] exec[u].pc \in {"ended", "flushing"} -> Returned(u)[u]
                       [] OTHER -> exec[u]
      BY <1>5 DEF Crash
    <3>2. Returned(u)[u] = [exec[u] EXCEPT !.pc = "done", !.batch = {}, !.sent = {}]
      BY <1>0 DEF Returned
    <3>3. CASE exec[u].pc \in InFlight
      <4>1. exec'[u] = [exec[u] EXCEPT !.pc = "interrupted"]
        BY <3>1, <3>3 DEF InFlight
      <4> QED
        BY <1>0, <3>3, <4>1 DEF ExecRecord
    <3>4. CASE exec[u].pc \in {"ended", "flushing"}
      <4>1. exec'[u] = Returned(u)[u] /\ exec[u].pc \notin InFlight
        BY <3>1, <3>4 DEF InFlight
      <4> QED
        BY <1>0, <3>2, <3>4, <4>1 DEF ExecRecord
    <3>5. CASE exec[u].pc \notin InFlight /\ exec[u].pc \notin {"ended", "flushing"}
      BY <3>1, <3>5
    <3> QED
      BY <3>3, <3>4, <3>5
  <2>2. /\ UNCHANGED <<clock, usage>> /\ (interrupted => interrupted')
        /\ \A u \in Tasks : exec[u].pc \in InFlight => interrupted'
    BY <1>5 DEF Crash, TypeOK
  <2>3. \A u \in Tasks : exec[u].outcome = "completed" => exec[u].pc \in Settlements
    BY DEF HoldsFit
  <2>4. Idle({})
    BY <1>0, <2>1, <2>2, <2>3 DEF Idle, InFlight, Settlements
  <2> QED
    BY <2>4
<1>6. ASSUME NextPeriod \/ UNCHANGED vars \/ \E p \in Policies : RefreshPolicy(p)
      PROVE  Goal
  <2>1. exec' = exec /\ UNCHANGED <<usage, interrupted>> /\ clock <= clock'
    BY <1>0, <1>6 DEF NextPeriod, RefreshPolicy, vars
  <2>2. Idle({})
    BY <2>1 DEF Idle, HoldsFit
  <2> QED
    BY <2>2
<1> HIDE DEF Goal
<1>7. Goal
  <2>1. CASE \E t \in Tasks :
               \/ \E bundle \in Policies \cup {NoPolicy} : Reject(t, bundle)
               \/ Dispatch(t) \/ Interrupt(t) \/ Resubmit(t) \/ Flush(t)
               \/ \E cost \in Costs \cup {NoCost} : Respond(t, cost)
    <3> PICK t \in Tasks :
               \/ \E bundle \in Policies \cup {NoPolicy} : Reject(t, bundle)
               \/ Dispatch(t) \/ Interrupt(t) \/ Resubmit(t) \/ Flush(t)
               \/ \E cost \in Costs \cup {NoCost} : Respond(t, cost)
      BY <2>1, Zenon
    <3> QED
      BY <1>1, <1>2, <1>3, <1>4, Zenon
  <2> QED
    BY <1>5, <1>6, <2>1 DEF Elsewhere
<1> QED
  BY <1>7 DEF Goal

(* What a sum of charges is before and after an execution is billed.       *)
LEMMA BilledTyped ==
  ASSUME TypeOK, NEW g \in Grants
  PROVE  /\ BilledTo(g) \subseteq Tasks /\ IsFiniteSet(BilledTo(g))
         /\ \A t \in Tasks : ChargeOf[t] = GrantCharge(t, exec[t].cost) /\ ChargeOf[t] \in Nat
         /\ SumOver(BilledTo(g), ChargeOf) \in Nat
<1>1. BilledTo(g) \subseteq Tasks /\ IsFiniteSet(BilledTo(g))
  BY TasksAssumption, FS_Subset DEF BilledTo
<1>2. \A t \in Tasks : ChargeOf[t] = GrantCharge(t, exec[t].cost) /\ ChargeOf[t] \in Nat
  <2> SUFFICES ASSUME NEW t \in Tasks
               PROVE  ChargeOf[t] = GrantCharge(t, exec[t].cost) /\ ChargeOf[t] \in Nat
    OBVIOUS
  <2>1. exec[t].cost \in Costs \cup {NoCost}
    BY DEF TypeOK, ExecRecord
  <2> QED
    BY <2>1, ChargesTyped DEF ChargeOf
<1>3. SumOver(BilledTo(g), ChargeOf) \in Nat
  <2> HIDE DEF ChargeOf, BilledTo
  <2> QED
    BY <1>1, <1>2, SumIsNat
<1> QED
  BY <1>1, <1>2, <1>3

(* A settlement charges every grant the execution was admitted under.      *)
LEMMA SettlementKeeps ==
  ASSUME TypeOK, TypeOK', SpendInv, NEW t \in Tasks, NEW amount \in Nat, NEW charge \in Nat,
         Settled(t, amount, charge), UNCHANGED <<clock, interrupted>>,
         exec[t].pc \in InFlight, exec'[t].pc = "ended",
         exec'[t].grants = exec[t].grants, exec'[t].window = exec[t].window,
         exec'[t].cost = exec[t].cost, \A x \in Tasks \ {t} : exec'[x] = exec[x],
         \/ exec'[t].outcome = "failed" /\ amount = 0
         \/ exec'[t].outcome = "completed" /\ amount = GrantCharge(t, exec[t].cost)
  PROVE  SpendInv'
<1>0. HoldsFit /\ exec[t].outcome # "completed"
  BY DEF SpendInv, HoldsFit, InFlight, Settlements
<1>s. \A g \in Grants :
        /\ usage'[g].window = usage[g].window
        /\ t \in usage[g].holds => /\ usage'[g].holds = usage[g].holds \ {t}
                                   /\ usage'[g].used = usage[g].used + amount
        /\ t \notin usage[g].holds => usage'[g] = usage[g]
  BY DEF Settled
<1>e. exec'[t].pc \notin InFlight /\ exec'[t].pc \in Settlements
  BY DEF InFlight, Settlements
<1>1. HoldsFit'
  <2>1. /\ \A u \in Tasks : exec'[u].window <= clock'
        /\ \A g \in Grants : usage'[g].window <= clock'
        /\ \A u \in Tasks : exec'[u].outcome = "completed" => exec'[u].pc \in Settlements
    BY <1>0, <1>s, <1>e DEF HoldsFit
  <2>2. ASSUME NEW u \in Tasks, NEW g \in Grants
        PROVE  /\ g \in exec'[u].grants => exec'[u].window <= usage'[g].window
               /\ exec'[u].pc \in InFlight /\ g \in exec'[u].grants /\ exec'[u].window = usage'[g].window
                    => u \in usage'[g].holds
               /\ ~interrupted' /\ u \in usage'[g].holds =>
                    exec'[u].pc \in InFlight /\ g \in exec'[u].grants /\ exec'[u].window = usage'[g].window
    <3>1. /\ g \in exec[u].grants => exec[u].window <= usage[g].window
          /\ exec[u].pc \in InFlight /\ g \in exec[u].grants /\ exec[u].window = usage[g].window
               => u \in usage[g].holds
          /\ ~interrupted /\ u \in usage[g].holds =>
               exec[u].pc \in InFlight /\ g \in exec[u].grants /\ exec[u].window = usage[g].window
      BY <1>0 DEF HoldsFit
    <3>2. CASE u = t
      <4>1. t \notin usage'[g].holds
        BY <1>s
      <4> QED
        BY <1>e, <1>s, <3>1, <3>2, <4>1
    <3>3. CASE u # t
      <4>1. exec'[u] = exec[u] /\ (u \in usage'[g].holds <=> u \in usage[g].holds)
        BY <1>s, <3>3
      <4> QED
        BY <1>s, <3>1, <4>1
    <3> QED
      BY <3>2, <3>3
  <2> QED
    BY <2>1, <2>2 DEF HoldsFit
<1>2. SpendRecorded'
  <2> SUFFICES ASSUME NEW g \in Grants
               PROVE  LET billed == SumOver(BilledTo(g), ChargeOf)'
                      IN  /\ usage'[g].used >= billed
                          /\ ~interrupted' => usage'[g].used = billed
    BY DEF SpendRecorded, ChargeOf
  <2> DEFINE B == BilledTo(g)
             W == ChargeOf
             mine == exec'[t].outcome = "completed" /\ g \in exec[t].grants
                       /\ exec[t].window = usage[g].window
  <2>1. B' = IF mine THEN B \cup {t} ELSE B
    <3>1. \A x \in Tasks \ {t} : x \in B' <=> x \in B
      BY <1>s DEF BilledTo
    <3>2. t \notin B /\ (t \in B' <=> mine)
      BY <1>0, <1>s DEF BilledTo
    <3>3. B \subseteq Tasks /\ B' \subseteq Tasks
      BY DEF BilledTo
    <3> HIDE DEF mine, B
    <3> QED
      BY <3>1, <3>2, <3>3
  <2>2. W' = W
    BY DEF ChargeOf, GrantCharge
  <2>3. t \notin B
    BY <1>0 DEF BilledTo
  <2>4. /\ IsFiniteSet(B) /\ B \subseteq Tasks
        /\ \A x \in Tasks : W[x] \in Nat
        /\ W[t] = GrantCharge(t, exec[t].cost) /\ SumOver(B, W) \in Nat
    BY BilledTyped
  <2>5. SumOver(B \cup {t}, W) = W[t] + SumOver(B, W)
    <3> HIDE DEF B, W
    <3> QED
      BY <2>3, <2>4, SumWith
  <2>6. /\ usage[g].used >= SumOver(B, W)
        /\ ~interrupted => usage[g].used = SumOver(B, W)
        /\ usage[g].used \in Nat
    BY DEF SpendInv, SpendRecorded, ChargeOf, TypeOK, UsageRecord
  <2>7. /\ mine => t \in usage[g].holds /\ amount = W[t]
        /\ exec'[t].outcome = "completed" /\ ~interrupted /\ t \in usage[g].holds => mine
        /\ exec'[t].outcome # "completed" => amount = 0
    BY <1>0, <2>4 DEF HoldsFit
  <2>8. /\ t \in usage[g].holds => usage'[g].used = usage[g].used + amount
        /\ t \notin usage[g].holds => usage'[g].used = usage[g].used
    BY <1>s
  <2>9. SumOver(BilledTo(g), ChargeOf)' = SumOver(IF mine THEN B \cup {t} ELSE B, W)
    BY <2>1, <2>2
  <2>10. CASE mine
    <3>1. exec'[t].outcome = "completed"
      BY <2>10
    <3> HIDE DEF B, W, mine
    <3> QED
      BY <2>4, <2>5, <2>6, <2>7, <2>8, <2>9, <2>10
  <2>11. CASE ~mine
    <3>1. ~interrupted => usage'[g].used = usage[g].used
      BY <2>6, <2>7, <2>8, <2>11
    <3> HIDE DEF B, W, mine
    <3> QED
      BY <2>4, <2>6, <2>7, <2>8, <2>9, <2>11, <3>1
  <2> QED
    BY <2>10, <2>11
<1> QED
  BY <1>1, <1>2 DEF SpendInv

(* A reservation starts the entries of a new period; nothing was billed in *)
(* it yet.                                                                 *)
LEMMA ReservationKeeps ==
  ASSUME TypeOK, TypeOK', LedgersAddUp, SpendInv, NEW t \in Tasks,
         NEW bundle \in Policies \cup {NoPolicy}, Reserve(t, bundle)
  PROVE  SpendInv'
<1> DEFINE gs == ReservedGrants(t, CachedPolicy(bundle))
<1>0. HoldsFit /\ exec[t].outcome # "completed" /\ exec[t].pc \notin InFlight
  BY DEF SpendInv, HoldsFit, InFlight, Settlements, Reserve
<1>n. /\ clock \in Nat
      /\ \A g \in Grants : usage[g].window \in Nat
      /\ \A u \in Tasks : exec[u].window \in Nat
  BY BoundsAssumption DEF TypeOK, Periods, ExecRecord, UsageRecord
<1>1. /\ exec'[t].pc = "reserved" /\ exec'[t].outcome = exec[t].outcome
      /\ exec'[t].grants = gs /\ exec'[t].window = clock /\ exec'[t].cost = exec[t].cost
      /\ \A x \in Tasks \ {t} : exec'[x] = exec[x]
      /\ UNCHANGED <<clock, interrupted>>
  BY DEF Reserve, ReservedGrants, TypeOK, ExecRecord
<1>2. /\ \A x \in gs : /\ EnsuredUsage(x, clock) \in UsageRecord /\ AddsUp(EnsuredUsage(x, clock))
                       /\ EnsuredUsage(x, clock).window = clock
                       /\ t \notin EnsuredUsage(x, clock).holds
                       /\ usage'[x] = WithHold(t, EnsuredUsage(x, clock))
      /\ \A x \in Grants \ gs : usage'[x] = usage[x]
      /\ gs \subseteq Grants
  BY ReserveEffects
<1> HIDE DEF gs
<1>3. \A g \in gs : /\ usage'[g].window = clock
                    /\ usage'[g].used = EnsuredUsage(g, clock).used
                    /\ usage'[g].holds = EnsuredUsage(g, clock).holds \cup {t}
  BY <1>2, HoldAdded, EntriesTyped DEF Entries
<1>4. \A g \in gs : IF usage[g].window = clock
                    THEN usage'[g].used = usage[g].used /\ usage'[g].holds = usage[g].holds \cup {t}
                    ELSE usage'[g].used = 0 /\ usage'[g].holds = {t}
  BY <1>3 DEF EnsuredUsage, NewUsage
<1>5. "reserved" \in InFlight
  BY DEF InFlight
<1>6. HoldsFit'
  <2>1. /\ \A u \in Tasks : exec'[u].window <= clock'
        /\ \A g \in Grants : usage'[g].window <= clock'
        /\ \A u \in Tasks : exec'[u].outcome = "completed" => exec'[u].pc \in Settlements
    BY <1>0, <1>n, <1>1, <1>2, <1>3 DEF HoldsFit
  <2>2. ASSUME NEW u \in Tasks, NEW g \in Grants
        PROVE  /\ g \in exec'[u].grants => exec'[u].window <= usage'[g].window
               /\ exec'[u].pc \in InFlight /\ g \in exec'[u].grants /\ exec'[u].window = usage'[g].window
                    => u \in usage'[g].holds
               /\ ~interrupted' /\ u \in usage'[g].holds =>
                    exec'[u].pc \in InFlight /\ g \in exec'[u].grants /\ exec'[u].window = usage'[g].window
    <3>1. /\ g \in exec[u].grants => exec[u].window <= usage[g].window
          /\ exec[u].pc \in InFlight /\ g \in exec[u].grants /\ exec[u].window = usage[g].window
               => u \in usage[g].holds
          /\ ~interrupted /\ u \in usage[g].holds =>
               exec[u].pc \in InFlight /\ g \in exec[u].grants /\ exec[u].window = usage[g].window
          /\ exec[u].window <= clock /\ usage[g].window <= clock
      BY <1>0 DEF HoldsFit
    <3>2. CASE u = t /\ g \in gs
      BY <1>n, <1>1, <1>3, <1>5, <3>2
    <3>3. CASE u = t /\ g \notin gs
      BY <1>0, <1>1, <1>2, <3>1, <3>3
    <3>4. CASE u # t /\ g \notin gs
      BY <1>1, <1>2, <3>1, <3>4
    <3>5. CASE u # t /\ g \in gs
      <4>1. exec'[u] = exec[u] /\ usage'[g].window = clock
        BY <1>1, <1>3, <3>5
      <4>2. CASE usage[g].window = clock
        BY <1>1, <1>4, <3>1, <3>5, <4>1, <4>2
      <4>3. CASE usage[g].window # clock
        <5>1. usage'[g].holds = {t}
          BY <1>4, <3>5, <4>3
        <5>2. g \in exec[u].grants => exec[u].window < clock
          BY <1>n, <3>1, <4>3
        <5> QED
          BY <1>n, <3>1, <3>5, <4>1, <5>1, <5>2
      <4> QED
        BY <4>2, <4>3
    <3> QED
      BY <3>2, <3>3, <3>4, <3>5
  <2> QED
    BY <2>1, <2>2 DEF HoldsFit
<1>7. SpendRecorded'
  <2> SUFFICES ASSUME NEW g \in Grants
               PROVE  LET billed == SumOver(BilledTo(g), ChargeOf)'
                      IN  /\ usage'[g].used >= billed
                          /\ ~interrupted' => usage'[g].used = billed
    BY DEF SpendRecorded, ChargeOf
  <2>1. ChargeOf' = ChargeOf
    BY <1>1 DEF ChargeOf, GrantCharge
  <2>2. CASE usage'[g].window = usage[g].window /\ usage'[g].used = usage[g].used
    <3>1. BilledTo(g)' = BilledTo(g)
      <4>1. \A x \in Tasks : x \in BilledTo(g)' <=> x \in BilledTo(g)
        BY <1>0, <1>1, <2>2 DEF BilledTo
      <4>2. BilledTo(g) \subseteq Tasks /\ BilledTo(g)' \subseteq Tasks
        BY DEF BilledTo
      <4> QED
        BY <4>1, <4>2
    <3>2. SumOver(BilledTo(g), ChargeOf)' = SumOver(BilledTo(g), ChargeOf)
      BY <2>1, <3>1
    <3> QED
      BY <1>1, <2>2, <3>2 DEF SpendInv, SpendRecorded, ChargeOf
  <2>3. CASE g \in gs /\ usage[g].window # clock
    <3>1. usage'[g].used = 0 /\ usage'[g].window = clock
      BY <1>3, <1>4, <2>3
    <3>2. BilledTo(g)' = {}
      <4> SUFFICES ASSUME NEW x \in Tasks, exec'[x].outcome = "completed",
                          g \in exec'[x].grants, exec'[x].window = clock
                   PROVE  FALSE
        BY <3>1 DEF BilledTo
      <4>1. x # t
        BY <1>0, <1>1
      <4>2. exec'[x] = exec[x]
        BY <1>1, <4>1
      <4>3. exec[x].window <= usage[g].window /\ usage[g].window <= clock
        BY <1>0, <4>2 DEF HoldsFit
      <4> QED
        BY <1>n, <2>3, <4>2, <4>3
    <3>3. SumOver(BilledTo(g), ChargeOf)' = 0
      BY <3>2, SumOfNone
    <3> QED
      BY <3>1, <3>3
  <2> QED
    BY <1>2, <1>3, <1>4, <2>2, <2>3
<1> QED
  BY <1>6, <1>7 DEF SpendInv

LEMMA SpendStep ==
  ASSUME TypeOK, TypeOK', LedgersAddUp, SpendInv, [Next]_vars
  PROVE  SpendInv'
<1>1. ASSUME NEW t \in Tasks, NEW bundle \in Policies \cup {NoPolicy}, Reserve(t, bundle)
      PROVE  SpendInv'
  BY <1>1, ReservationKeeps
<1>2. ASSUME NEW t \in Tasks, Fail(t)
      PROVE  SpendInv'
  <2>1. /\ exec[t].pc \in InFlight /\ exec'[t].pc = "ended" /\ exec'[t].outcome = "failed"
        /\ exec'[t].grants = exec[t].grants /\ exec'[t].window = exec[t].window
        /\ exec'[t].cost = exec[t].cost /\ \A x \in Tasks \ {t} : exec'[x] = exec[x]
        /\ UNCHANGED <<clock, interrupted>>
    BY <1>2 DEF Fail, InFlight, TypeOK, ExecRecord
  <2>2. Settled(t, 0, 0)
    BY <1>2, FailSettles
  <2> QED
    BY <2>1, <2>2, SettlementKeeps
<1>3. ASSUME NEW t \in Tasks, Finalize(t)
      PROVE  SpendInv'
  <2>1. /\ exec[t].pc \in InFlight /\ exec'[t].pc = "ended" /\ exec'[t].outcome = "completed"
        /\ exec'[t].grants = exec[t].grants /\ exec'[t].window = exec[t].window
        /\ exec'[t].cost = exec[t].cost /\ \A x \in Tasks \ {t} : exec'[x] = exec[x]
        /\ UNCHANGED <<clock, interrupted>>
    BY <1>3 DEF Finalize, InFlight, TypeOK, ExecRecord
  <2>2. /\ GrantCharge(t, exec[t].cost) \in Nat /\ ProviderCharge(exec[t].cost) \in Nat
        /\ Settled(t, GrantCharge(t, exec[t].cost), ProviderCharge(exec[t].cost))
    BY <1>3, FinalizeSettles
  <2> QED
    BY <2>1, <2>2, SettlementKeeps
<1>4. CASE Elsewhere
  <2>1. HoldsFit
    BY DEF SpendInv
  <2>2. PICK R \in SUBSET Tasks : Idle(R)
    BY <1>4, <2>1, ElsewhereIsIdle
  <2> QED
    BY <2>2, IdleKeeps
<1> QED
  BY <1>1, <1>2, <1>3, <1>4, StepsSplit

(* Every completed execution is charged exactly once to every grant it was *)
(* admitted under, in the period it was admitted in, whatever else is      *)
(* reserved, settled or refreshed meanwhile; after an interruption, whose  *)
(* reservation stays behind, nothing is charged less                       *)
(* (BudgetManager.reserve_execution, finalize_execution,                   *)
(* release_execution).                                                     *)
THEOREM ChargesRecorded == Spec => []SpendRecorded
<1>1. Init => SpendInv
  <2> SUFFICES ASSUME Init PROVE SpendInv
    OBVIOUS
  <2>1. /\ \A g \in Grants : usage[g].window = 0 /\ usage[g].used = 0 /\ usage[g].holds = {}
        /\ \A t \in Tasks : /\ exec[t].window = 0 /\ exec[t].grants = {} /\ exec[t].pc = "new"
                            /\ exec[t].outcome = "none"
        /\ clock = 1
    BY DEF Init, NewUsage, NewExec
  <2>2. HoldsFit
    BY <2>1 DEF HoldsFit, InFlight
  <2>3. \A g \in Grants : BilledTo(g) = {}
    BY <2>1 DEF BilledTo
  <2>4. SpendRecorded
    <3>1. \A g \in Grants : SumOver(BilledTo(g), ChargeOf) = 0 /\ usage[g].used = 0
      BY <2>1, <2>3, SumOfNone
    <3>2. 0 >= 0
      OBVIOUS
    <3> HIDE DEF BilledTo
    <3> QED
      BY <3>1, <3>2 DEF SpendRecorded, ChargeOf
  <2> QED
    BY <2>2, <2>4 DEF SpendInv
<1>2. SpendInv => SpendRecorded
  BY DEF SpendInv
<1> QED
  BY <1>1, <1>2, BudgetInvariant, SpendStep, PTL DEF Spec

-----------------------------------------------------------------------------
(* The usage of clients                                                    *)

(* What is still to be seeded. *)
Ahead(part, model) == IF Clients!Do(part, model) \in startup THEN Clients!Calls(part, model) ELSE 0
AheadOf(model) == Ahead("log", model) + Ahead("delta", model)
Larger(a, b) == IF a > b THEN a ELSE b

Steps == {Clients!Do(what, model) : what \in {"log", "delta", "mark", "serve"}, model \in Models \cup {Clients!None}}
CallsOf == [Models -> Nat]

UsageTypes ==
  /\ log \in CallsOf /\ metrics \in CallsOf /\ unrecorded \in CallsOf /\ executed \in CallsOf
  /\ rollups \in [Clients!Periods -> Nat] /\ modelRollups \in [Models -> [Clients!Periods -> Nat]]
  /\ month \in 1..MaxMonth /\ startup \subseteq Steps
  /\ owed \in [total : Nat, models : CallsOf]
  /\ seedDone \in BOOLEAN /\ up \in BOOLEAN /\ faults \in Nat

(* The node seeds before it serves, and records while it serves.           *)
Phases ==
  /\ up => startup = {}
  /\ startup # {} => Clients!Do("serve", Clients!None) \in startup
  /\ ~up => unrecorded = Clients!NoCalls

(* What is in the rollups, still to be seeded and still to be recorded is  *)
(* no more than what was executed; a month has no more than the lifetime.  *)
CountedSoFar ==
  /\ \A m \in Models : log[m] <= executed[m] /\ metrics[m] <= executed[m]
  /\ rollups[0] + Clients!Total(unrecorded) + AheadOf(Clients!None) <= Clients!Total(executed)
  /\ \A m \in Models : modelRollups[m][0] + unrecorded[m] + AheadOf(m) <= executed[m]
  /\ \A p \in Clients!Periods :
       rollups[p] <= rollups[0] /\ \A m \in Models : modelRollups[m][p] <= modelRollups[m][0]

(* What a summary has read was true then. *)
SummaryOK ==
  /\ summary \in [queries : 0..4, total : Nat, inMonth : Nat, models : CallsOf, modelsInMonth : CallsOf]
  /\ summary.total <= Clients!Total(executed) /\ summary.inMonth <= Clients!Total(executed)
  /\ \A m \in Models : summary.models[m] <= executed[m] /\ summary.modelsInMonth[m] <= executed[m]

(* Until something fails, nothing is seeded before the first start, and    *)
(* all that is owed is ahead or counted afterwards.                        *)
Unstarted == ~up /\ startup = {}
NothingLost ==
  /\ faults = 0 /\ Unstarted =>
       /\ rollups[0] = 0 /\ ~seedDone /\ owed.total = Larger(Clients!Total(log), Clients!Total(metrics))
       /\ \A m \in Models : modelRollups[m][0] = 0 /\ owed.models[m] = Larger(log[m], metrics[m])
  /\ faults = 0 /\ ~Unstarted =>
       /\ rollups[0] + Clients!Total(unrecorded) + AheadOf(Clients!None) = owed.total
       /\ \A m \in Models : modelRollups[m][0] + unrecorded[m] + AheadOf(m) = owed.models[m]

UsageInv == UsageTypes /\ Phases /\ CountedSoFar /\ SummaryOK /\ NothingLost

(* Totals *)
LEMMA TotalIsSum ==
  ASSUME NEW f
  PROVE  Clients!Total(f) = SumOver(Models, f)
BY DEF Clients!Total, Clients!SumOver, SumOver

LEMMA TotalLaws ==
  /\ \A f \in CallsOf : Clients!Total(f) \in Nat
  /\ \A f, g \in CallsOf : (\A m \in Models : f[m] <= g[m]) => Clients!Total(f) <= Clients!Total(g)
  /\ Clients!Total(Clients!NoCalls) = 0
<1>1. IsFiniteSet(Models)
  BY ModelsAssumption
<1>2. ASSUME NEW f \in CallsOf
      PROVE  Clients!Total(f) \in Nat
  BY <1>1, TotalIsSum, SumIsNat DEF CallsOf
<1>3. ASSUME NEW f \in CallsOf, NEW g \in CallsOf, \A m \in Models : f[m] <= g[m]
      PROVE  Clients!Total(f) <= Clients!Total(g)
  <2>1. \A m \in Models : f[m] \in Nat /\ g[m] \in Nat /\ f[m] <= g[m]
    BY <1>3 DEF CallsOf
  <2>2. SumOver(Models, f) <= SumOver(Models, g)
    BY <1>1, <2>1, SumOfLess
  <2> QED
    BY <2>2, TotalIsSum
<1>4. Clients!Total(Clients!NoCalls) = 0
  BY <1>1, TotalIsSum, SumOfZeros DEF Clients!NoCalls
<1> QED
  BY <1>2, <1>3, <1>4

LEMMA TotalOfOne ==
  ASSUME NEW f \in CallsOf, NEW m \in Models, NEW n \in Nat
  PROVE  /\ [f EXCEPT ![m] = n] \in CallsOf
         /\ Clients!Total([f EXCEPT ![m] = n]) + f[m] = Clients!Total(f) + n
<1> DEFINE g == [f EXCEPT ![m] = n]
           R == Models \ {m}
<1>1. g \in CallsOf /\ g[m] = n /\ f[m] \in Nat /\ \A x \in R : g[x] = f[x]
  BY DEF CallsOf
<1>2. IsFiniteSet(Models) /\ IsFiniteSet(R)
  BY ModelsAssumption, FS_Subset
<1> HIDE DEF g
<1>3. SumOver(Models, f) = f[m] + SumOver(R, f) /\ SumOver(Models, g) = g[m] + SumOver(R, g)
  BY <1>1, <1>2, SumWithout DEF CallsOf
<1>4. SumOver(R, g) = SumOver(R, f)
  BY <1>1, <1>2, SumOfSame DEF CallsOf
<1>5. SumOver(R, f) \in Nat
  BY <1>2, SumIsNat DEF CallsOf
<1>6. SumOver(Models, g) + f[m] = SumOver(Models, f) + n
  BY <1>1, <1>3, <1>4, <1>5
<1>7. g \in CallsOf /\ Clients!Total(g) + f[m] = Clients!Total(f) + n
  BY <1>1, <1>6, TotalIsSum
<1> QED
  BY <1>7 DEF g

(* What is still to be seeded *)
Parts == {"log", "delta"}
Named == Models \cup {Clients!None}

LEMMA DoIsOne ==
  ASSUME NEW a, NEW b, NEW x, NEW y
  PROVE  Clients!Do(a, x) = Clients!Do(b, y) <=> a = b /\ x = y
<1>1. ASSUME Clients!Do(a, x) = Clients!Do(b, y)
      PROVE  a = b /\ x = y
  <2>1. Clients!Do(a, x).do = a /\ Clients!Do(a, x).model = x /\ Clients!Do(b, y).do = b /\ Clients!Do(b, y).model = y
    BY DEF Clients!Do
  <2> HIDE DEF Clients!Do
  <2> QED
    BY <1>1, <2>1
<1> QED
  BY <1>1

LEMMA CallsTyped ==
  ASSUME UsageTypes, NEW model \in Named
  PROVE  /\ Clients!Calls("log", model) \in Nat /\ Clients!Calls("delta", model) \in Nat
         /\ model \in Models => Clients!Calls("log", model) + Clients!Calls("delta", model) = Larger(log[model], metrics[model])
         /\ model = Clients!None =>
              Clients!Calls("log", model) + Clients!Calls("delta", model)
                = Larger(Clients!Total(log), Clients!Total(metrics))
<1>1. Clients!Total(log) \in Nat /\ Clients!Total(metrics) \in Nat
  BY TotalLaws DEF UsageTypes
<1>2. CASE model = Clients!None
  <2>1. /\ Clients!Calls("log", model) = Clients!Total(log)
        /\ Clients!Calls("delta", model) = Clients!Delta(Clients!Total(metrics), Clients!Total(log))
    BY <1>2 DEF Clients!Calls, Clients!LogTotals, Clients!MetricsTotals
  <2> QED
    BY <1>1, <1>2, <2>1, ModelsAssumption DEF Clients!Delta, Larger
<1>3. CASE model \in Models /\ model # Clients!None
  <2>1. /\ Clients!Calls("log", model) = log[model]
        /\ Clients!Calls("delta", model) = Clients!Delta(metrics[model], log[model])
    BY <1>3 DEF Clients!Calls, Clients!LogTotalsByModel, Clients!MetricsTotalsByModel
  <2>2. log[model] \in Nat /\ metrics[model] \in Nat
    BY <1>3 DEF UsageTypes, CallsOf
  <2> QED
    BY <1>3, <2>1, <2>2 DEF Clients!Delta, Larger
<1> QED
  BY <1>2, <1>3, ModelsAssumption DEF Named

LEMMA AheadTyped ==
  ASSUME UsageTypes, NEW model \in Named
  PROVE  Ahead("log", model) \in Nat /\ Ahead("delta", model) \in Nat /\ AheadOf(model) \in Nat
BY CallsTyped DEF Ahead, AheadOf

LEMMA NothingAhead ==
  ASSUME NEW model, startup = {}
  PROVE  AheadOf(model) = 0
BY DEF AheadOf, Ahead

(* The same steps ahead, with the same log and metrics. *)
LEMMA SameAhead ==
  ASSUME NEW model, UNCHANGED <<startup, log, metrics>>
  PROVE  AheadOf(model)' = AheadOf(model)
BY DEF AheadOf, Ahead, Clients!Calls, Clients!LogTotals, Clients!MetricsTotals, Clients!LogTotalsByModel,
       Clients!MetricsTotalsByModel, Clients!Total, Clients!SumOver

(* One step is done. *)
LEMMA OneLessAhead ==
  ASSUME UsageTypes, NEW part \in Parts, NEW model \in Named, Clients!Do(part, model) \in startup,
         startup' = startup \ {Clients!Do(part, model)}, UNCHANGED <<log, metrics>>
  PROVE  /\ AheadOf(model)' \in Nat
         /\ AheadOf(model)' + Clients!Calls(part, model) = AheadOf(model)
         /\ \A x \in Named \ {model} : AheadOf(x)' = AheadOf(x)
<1>1. \A q, x : Clients!Calls(q, x)' = Clients!Calls(q, x)
  BY DEF Clients!Calls, Clients!LogTotals, Clients!MetricsTotals, Clients!LogTotalsByModel,
         Clients!MetricsTotalsByModel, Clients!Total, Clients!SumOver
<1>2. \A q, x : Clients!Do(q, x) \in startup' <=> Clients!Do(q, x) \in startup /\ ~(q = part /\ x = model)
  BY DoIsOne
<1>3. ASSUME NEW q, NEW x, ~(q = part /\ x = model)
      PROVE  Ahead(q, x)' = Ahead(q, x)
  BY <1>1, <1>2, <1>3 DEF Ahead
<1>4. Ahead(part, model)' = 0 /\ Ahead(part, model) = Clients!Calls(part, model)
  BY <1>2 DEF Ahead
<1>5. \A x \in Named \ {model} : AheadOf(x)' = AheadOf(x)
  BY <1>3 DEF AheadOf
<1>6. Ahead("log", model) \in Nat /\ Ahead("delta", model) \in Nat
  BY AheadTyped
<1>7. CASE part = "log"
  BY <1>3, <1>4, <1>6, <1>7 DEF AheadOf
<1>8. CASE part = "delta"
  BY <1>3, <1>4, <1>6, <1>8 DEF AheadOf
<1> QED
  BY <1>5, <1>7, <1>8 DEF Parts

(* What the store adds. *)
MonthsWithin(f) == f \in [Clients!Periods -> Nat] /\ \A p \in Clients!Periods : f[p] <= f[0]

LEMMA AddedWithin ==
  ASSUME NEW f, MonthsWithin(f), NEW n \in Nat, NEW mo \in 1..MaxMonth
  PROVE  MonthsWithin(Clients!Added(f, n, mo)) /\ Clients!Added(f, n, mo)[0] = f[0] + n
<1>1. 0 \in Clients!Periods /\ mo \in Clients!Periods
  BY ModelsAssumption DEF Clients!Periods, Clients!Lifetime
<1> QED
  BY <1>1 DEF MonthsWithin, Clients!Added, Clients!Lifetime

LEMMA UpsertAdds ==
  ASSUME UsageTypes, CountedSoFar, NEW n \in Nat, NEW aggregate \in BOOLEAN, NEW model \in Named,
         NEW mo \in 1..MaxMonth, Clients!Upsert(n, aggregate, model, mo)
  PROVE  /\ MonthsWithin(rollups') /\ rollups'[0] = rollups[0] + IF aggregate THEN n ELSE 0
         /\ modelRollups' \in [Models -> [Clients!Periods -> Nat]]
         /\ \A m \in Models : /\ MonthsWithin(modelRollups'[m])
                              /\ modelRollups'[m][0] = modelRollups[m][0] + IF m = model THEN n ELSE 0
<1>1. MonthsWithin(rollups) /\ \A m \in Models : MonthsWithin(modelRollups[m])
  BY DEF UsageTypes, CountedSoFar, MonthsWithin
<1>2. 0 \in Clients!Periods
  BY ModelsAssumption DEF Clients!Periods, Clients!Lifetime
<1>3. rollups[0] \in Nat /\ \A m \in Models : modelRollups[m][0] \in Nat
  BY <1>1, <1>2 DEF MonthsWithin
<1>4. MonthsWithin(rollups') /\ rollups'[0] = rollups[0] + IF aggregate THEN n ELSE 0
  <2>1. CASE aggregate
    <3>1. rollups' = Clients!Added(rollups, n, mo)
      BY <2>1 DEF Clients!Upsert
    <3> QED
      BY <1>1, <2>1, <3>1, AddedWithin
  <2>2. CASE ~aggregate
    BY <1>1, <1>3, <2>2 DEF Clients!Upsert
  <2> QED
    BY <2>1, <2>2
<1>5. CASE model = Clients!None
  <2>1. modelRollups' = modelRollups /\ model \notin Models
    BY <1>5, ModelsAssumption DEF Clients!Upsert
  <2> QED
    BY <1>1, <1>3, <1>4, <2>1 DEF UsageTypes
<1>6. CASE model # Clients!None
  <2> DEFINE a == Clients!Added(modelRollups[model], n, mo)
  <2>1. modelRollups' = [modelRollups EXCEPT ![model] = a] /\ model \in Models
    BY <1>6 DEF Clients!Upsert, Named
  <2>2. MonthsWithin(a) /\ a[0] = modelRollups[model][0] + n
    BY <1>1, <2>1, AddedWithin
  <2> HIDE DEF a
  <2>3. a \in [Clients!Periods -> Nat]
    BY <2>2 DEF MonthsWithin
  <2>4. modelRollups'[model] = a /\ \A m \in Models \ {model} : modelRollups'[m] = modelRollups[m]
    BY <2>1 DEF UsageTypes
  <2>5. modelRollups' \in [Models -> [Clients!Periods -> Nat]]
    BY <2>1, <2>3 DEF UsageTypes
  <2> QED
    BY <1>1, <1>3, <1>4, <2>1, <2>2, <2>4, <2>5
<1> QED
  BY <1>5, <1>6

(* The store and what is ahead as numbers. *)
LEMMA CountsTyped ==
  ASSUME UsageTypes
  PROVE  /\ 0 \in Clients!Periods /\ month \in Clients!Periods
         /\ rollups[0] \in Nat /\ Clients!Total(unrecorded) \in Nat /\ Clients!Total(executed) \in Nat
         /\ AheadOf(Clients!None) \in Nat /\ owed.total \in Nat
         /\ \A m \in Models : /\ modelRollups[m][0] \in Nat /\ unrecorded[m] \in Nat /\ executed[m] \in Nat
                              /\ AheadOf(m) \in Nat /\ owed.models[m] \in Nat
<1>1. 0 \in Clients!Periods /\ month \in Clients!Periods
  BY ModelsAssumption DEF Clients!Periods, Clients!Lifetime, UsageTypes
<1>2. AheadOf(Clients!None) \in Nat /\ \A m \in Models : AheadOf(m) \in Nat
  BY AheadTyped DEF Named
<1>3. Clients!Total(unrecorded) \in Nat /\ Clients!Total(executed) \in Nat
  BY TotalLaws DEF UsageTypes
<1> QED
  BY <1>1, <1>2, <1>3 DEF UsageTypes, CallsOf

(* Steps that only move what is ahead into the rollups. *)
LEMMA SeedKeeps ==
  ASSUME UsageInv, NEW part \in Parts, NEW model \in Named, NEW mo \in 1..month,
         Clients!SeedHistoricalUsage(part, model, mo)
  PROVE  UsageInv'
<1> DEFINE n == Clients!Calls(part, model)
           s == Clients!Do(part, model)
           serve == Clients!Do("serve", Clients!None)
<1>1. /\ s \in startup /\ startup' = startup \ {s}
      /\ UNCHANGED <<log, metrics, seedDone, up, unrecorded, month, summary, executed, owed, calls, faults>>
  BY DEF Clients!SeedHistoricalUsage, Clients!IsNext
<1>2. n \in Nat /\ mo \in 1..MaxMonth
  BY CallsTyped, ModelsAssumption DEF UsageInv, UsageTypes, Parts
<1>3. /\ MonthsWithin(rollups') /\ rollups'[0] = rollups[0] + IF model = Clients!None THEN n ELSE 0
      /\ modelRollups' \in [Models -> [Clients!Periods -> Nat]]
      /\ \A m \in Models : /\ MonthsWithin(modelRollups'[m])
                           /\ modelRollups'[m][0] = modelRollups[m][0] + IF m = model THEN n ELSE 0
  <2>1. CASE n = 0 /\ UNCHANGED <<rollups, modelRollups>>
    BY <2>1, CountsTyped DEF UsageInv, UsageTypes, CountedSoFar, MonthsWithin
  <2>2. CASE Clients!Upsert(n, model = Clients!None, model, mo)
    <3> DEFINE aggregate == model = Clients!None
    <3>1. aggregate \in BOOLEAN /\ Clients!Upsert(n, aggregate, model, mo)
      BY <2>2
    <3> HIDE DEF aggregate, n
    <3>2. /\ MonthsWithin(rollups') /\ rollups'[0] = rollups[0] + IF aggregate THEN n ELSE 0
          /\ modelRollups' \in [Models -> [Clients!Periods -> Nat]]
          /\ \A m \in Models : /\ MonthsWithin(modelRollups'[m])
                               /\ modelRollups'[m][0] = modelRollups[m][0] + IF m = model THEN n ELSE 0
      BY <1>2, <3>1, UpsertAdds DEF UsageInv
    <3> QED
      BY <3>2 DEF aggregate
  <2> QED
    BY <2>1, <2>2 DEF Clients!SeedHistoricalUsage
<1>4. /\ AheadOf(model)' \in Nat /\ AheadOf(model)' + n = AheadOf(model)
      /\ \A x \in Named \ {model} : AheadOf(x)' = AheadOf(x)
  BY <1>1, OneLessAhead DEF UsageInv
<1>5. serve \in startup'
  BY <1>1, DoIsOne DEF UsageInv, Phases, Parts
<1> HIDE DEF n, s, serve
<1>6. UsageTypes'
  BY <1>1, <1>3 DEF UsageInv, UsageTypes, MonthsWithin
<1>7. Phases'
  BY <1>1, <1>5 DEF UsageInv, Phases, serve
<1>8. Clients!None \in Named /\ Models \subseteq Named /\ Clients!None \notin Models
  BY ModelsAssumption DEF Named
<1>9. /\ rollups'[0] + AheadOf(Clients!None)' = rollups[0] + AheadOf(Clients!None)
      /\ \A m \in Models : modelRollups'[m][0] + AheadOf(m)' = modelRollups[m][0] + AheadOf(m)
  <2>1. rollups'[0] + AheadOf(Clients!None)' = rollups[0] + AheadOf(Clients!None)
    BY <1>2, <1>3, <1>4, <1>8, CountsTyped DEF UsageInv
  <2>2. ASSUME NEW m \in Models
        PROVE  modelRollups'[m][0] + AheadOf(m)' = modelRollups[m][0] + AheadOf(m)
    BY <1>2, <1>3, <1>4, <1>8, CountsTyped DEF UsageInv
  <2> QED
    BY <2>1, <2>2
<1>10. /\ AheadOf(Clients!None)' \in Nat /\ rollups'[0] \in Nat
       /\ \A m \in Models : AheadOf(m)' \in Nat /\ modelRollups'[m][0] \in Nat
  BY <1>2, <1>3, <1>4, <1>8, CountsTyped DEF UsageInv
<1>11. CountedSoFar'
  BY <1>1, <1>3, <1>9, <1>10, CountsTyped DEF UsageInv, CountedSoFar, MonthsWithin
<1>12. NothingLost'
  <2> SUFFICES ASSUME faults = 0
               PROVE  /\ rollups'[0] + Clients!Total(unrecorded) + AheadOf(Clients!None)' = owed.total
                      /\ \A m \in Models : modelRollups'[m][0] + unrecorded[m] + AheadOf(m)' = owed.models[m]
    BY <1>1, <1>5 DEF NothingLost, Unstarted
  <2>1. ~Unstarted
    BY <1>1 DEF Unstarted
  <2>2. /\ rollups[0] + Clients!Total(unrecorded) + AheadOf(Clients!None) = owed.total
        /\ \A m \in Models : modelRollups[m][0] + unrecorded[m] + AheadOf(m) = owed.models[m]
    BY <2>1 DEF UsageInv, NothingLost
  <2> QED
    BY <1>9, <1>10, <2>2, CountsTyped DEF UsageInv
<1>13. SummaryOK'
  BY <1>1 DEF UsageInv, SummaryOK
<1> QED
  BY <1>6, <1>7, <1>11, <1>12, <1>13 DEF UsageInv

(* Steps that leave the rollups and what is ahead of them alone. *)
LEMMA AsideKeeps ==
  ASSUME UsageInv,
         UNCHANGED <<rollups, modelRollups, unrecorded, executed, owed, faults>>,
         UsageTypes', Phases', SummaryOK', Unstarted' <=> Unstarted,
         \A m \in Models : log'[m] <= executed[m] /\ metrics'[m] <= executed[m],
         Unstarted => UNCHANGED <<log, metrics, seedDone>>,
         \A x \in Named : AheadOf(x)' = AheadOf(x)
  PROVE  UsageInv'
<1>1. CountedSoFar'
  BY DEF UsageInv, CountedSoFar, Named
<1>2. NothingLost'
  BY DEF UsageInv, NothingLost, Named
<1> QED
  BY <1>1, <1>2 DEF UsageInv

LEMMA StartKeeps ==
  ASSUME UsageInv, Clients!Start
  PROVE  UsageInv'
<1> DEFINE serve == Clients!Do("serve", Clients!None)
<1>1. /\ Unstarted
      /\ startup' = (IF Clients!NeedsUsageSeed THEN Clients!UsageSeed \cup {Clients!Do("mark", Clients!None)} ELSE {})
                    \cup (IF Clients!NeedsModelSeed THEN Clients!ModelSeed ELSE {})
                    \cup {serve}
      /\ UNCHANGED <<log, metrics, rollups, modelRollups, seedDone, up, unrecorded, month, summary, executed, owed,
                     calls, faults>>
  BY DEF Clients!Start, Clients!store, Unstarted
<1>2. serve \in startup'
  BY <1>1
<1>3. startup' \subseteq Steps
  BY <1>1 DEF Clients!UsageSeed, Clients!ModelSeed, Steps
<1>4. \A q, x : Clients!Calls(q, x)' = Clients!Calls(q, x)
  BY <1>1 DEF Clients!Calls, Clients!LogTotals, Clients!MetricsTotals, Clients!LogTotalsByModel,
         Clients!MetricsTotalsByModel, Clients!Total, Clients!SumOver
<1>5. \A q \in Parts : Clients!Do(q, Clients!None) \in startup' <=> Clients!NeedsUsageSeed
  <2> SUFFICES ASSUME NEW q \in Parts
               PROVE  Clients!Do(q, Clients!None) \in startup' <=> Clients!NeedsUsageSeed
    OBVIOUS
  <2>1. Clients!Do(q, Clients!None) \in Clients!UsageSeed
    BY DEF Clients!UsageSeed, Parts
  <2>2. Clients!Do(q, Clients!None) \notin Clients!ModelSeed /\ Clients!Do(q, Clients!None) # serve
    BY DoIsOne, ModelsAssumption DEF Clients!ModelSeed, Parts
  <2> HIDE DEF serve
  <2> QED
    BY <1>1, <2>1, <2>2
<1>6. \A q \in Parts, m \in Models : Clients!Do(q, m) \in startup' <=> Clients!NeedsModelSeed
  <2> SUFFICES ASSUME NEW q \in Parts, NEW m \in Models
               PROVE  Clients!Do(q, m) \in startup' <=> Clients!NeedsModelSeed
    OBVIOUS
  <2>1. Clients!Do(q, m) \in Clients!ModelSeed
    BY DEF Clients!ModelSeed, Parts
  <2>2. /\ Clients!Do(q, m) \notin Clients!UsageSeed \cup {Clients!Do("mark", Clients!None)}
        /\ Clients!Do(q, m) # serve
    BY DoIsOne, ModelsAssumption DEF Clients!UsageSeed, Parts
  <2> HIDE DEF serve
  <2> QED
    BY <1>1, <2>1, <2>2
<1> HIDE DEF serve
<1>7. AheadOf(Clients!None)' =
        IF Clients!NeedsUsageSeed THEN Larger(Clients!Total(log), Clients!Total(metrics)) ELSE 0
  BY <1>4, <1>5, CallsTyped DEF AheadOf, Ahead, Parts, Named, UsageInv
<1>8. ASSUME NEW m \in Models
      PROVE  AheadOf(m)' = IF Clients!NeedsModelSeed THEN Larger(log[m], metrics[m]) ELSE 0
  BY <1>4, <1>6, CallsTyped DEF AheadOf, Ahead, Parts, Named, UsageInv
<1>9. \A x \in Named : AheadOf(x) = 0
  BY <1>1, NothingAhead DEF Unstarted
<1>10. /\ \A m \in Models : unrecorded[m] = 0
       /\ Clients!Total(unrecorded) = 0
  BY <1>1, TotalLaws DEF UsageInv, Phases, Unstarted, Clients!NoCalls
<1>11. /\ Clients!Total(log) \in Nat /\ Clients!Total(metrics) \in Nat
       /\ Clients!Total(log) <= Clients!Total(executed) /\ Clients!Total(metrics) <= Clients!Total(executed)
  BY TotalLaws DEF UsageInv, UsageTypes, CountedSoFar
<1>12. Clients!NeedsUsageSeed <=> rollups[0] = 0 /\ ~seedDone
  BY DEF Clients!NeedsUsageSeed, Clients!Lifetime
<1>13. Clients!NeedsModelSeed <=> \A m \in Models : modelRollups[m][0] = 0
  BY DEF Clients!NeedsModelSeed, Clients!Lifetime
<1>14. UsageTypes'
  BY <1>1, <1>3 DEF UsageInv, UsageTypes
<1>15. Phases'
  BY <1>1, <1>2 DEF UsageInv, Phases, Unstarted, serve
<1>16. SummaryOK'
  BY <1>1 DEF UsageInv, SummaryOK
<1>17. rollups[0] + Clients!Total(unrecorded) + AheadOf(Clients!None)' <= Clients!Total(executed)
  <2>1. rollups[0] + Clients!Total(unrecorded) <= Clients!Total(executed)
    BY <1>9, CountsTyped DEF UsageInv, CountedSoFar, Named
  <2> QED
    BY <1>7, <1>10, <1>11, <1>12, <2>1, CountsTyped DEF UsageInv, Larger
<1>18. ASSUME NEW m \in Models
       PROVE  modelRollups[m][0] + unrecorded[m] + AheadOf(m)' <= executed[m]
  <2>1. /\ modelRollups[m][0] + unrecorded[m] <= executed[m]
        /\ log[m] <= executed[m] /\ metrics[m] <= executed[m] /\ log[m] \in Nat /\ metrics[m] \in Nat
    BY <1>9, CountsTyped DEF UsageInv, CountedSoFar, Named, UsageTypes, CallsOf
  <2> QED
    BY <1>8, <1>10, <1>13, <2>1, CountsTyped DEF UsageInv, Larger
<1>19. CountedSoFar'
  BY <1>1, <1>17, <1>18 DEF UsageInv, CountedSoFar
<1>20. NothingLost'
  <2> SUFFICES ASSUME faults = 0
               PROVE  /\ rollups[0] + Clients!Total(unrecorded) + AheadOf(Clients!None)' = owed.total
                      /\ \A m \in Models : modelRollups[m][0] + unrecorded[m] + AheadOf(m)' = owed.models[m]
    BY <1>1, <1>2 DEF NothingLost, Unstarted
  <2>1. /\ rollups[0] = 0 /\ ~seedDone /\ owed.total = Larger(Clients!Total(log), Clients!Total(metrics))
        /\ \A m \in Models : modelRollups[m][0] = 0 /\ owed.models[m] = Larger(log[m], metrics[m])
    BY <1>1 DEF UsageInv, NothingLost
  <2> QED
    BY <1>7, <1>8, <1>10, <1>12, <1>13, <2>1, CountsTyped DEF UsageInv
<1> QED
  BY <1>14, <1>15, <1>16, <1>19, <1>20 DEF UsageInv

LEMMA MarkKeeps ==
  ASSUME UsageInv, Clients!MarkSeeded
  PROVE  UsageInv'
<1> DEFINE mark == Clients!Do("mark", Clients!None)
           serve == Clients!Do("serve", Clients!None)
<1>1. /\ mark \in startup /\ startup' = startup \ {mark} /\ seedDone' = TRUE
      /\ UNCHANGED <<log, metrics, rollups, modelRollups, up, unrecorded, month, summary, executed, owed, calls, faults>>
  BY DEF Clients!MarkSeeded, Clients!IsNext
<1>2. serve \in startup'
  BY <1>1, DoIsOne DEF UsageInv, Phases
<1>3. ASSUME NEW x \in Named
      PROVE  AheadOf(x)' = AheadOf(x)
  <2>1. Clients!Calls("log", x)' = Clients!Calls("log", x) /\ Clients!Calls("delta", x)' = Clients!Calls("delta", x)
    BY <1>1 DEF Clients!Calls, Clients!LogTotals, Clients!MetricsTotals, Clients!LogTotalsByModel,
           Clients!MetricsTotalsByModel, Clients!Total, Clients!SumOver
  <2>2. /\ Clients!Do("log", x) \in startup' <=> Clients!Do("log", x) \in startup
        /\ Clients!Do("delta", x) \in startup' <=> Clients!Do("delta", x) \in startup
    BY <1>1, DoIsOne
  <2> QED
    BY <2>1, <2>2 DEF AheadOf, Ahead
<1>4. UsageTypes'
  <2>1. startup' \subseteq Steps /\ seedDone' \in BOOLEAN
    BY <1>1 DEF UsageInv, UsageTypes
  <2> QED
    BY <1>1, <2>1 DEF UsageInv, UsageTypes
<1>5. Phases'
  BY <1>1, <1>2 DEF UsageInv, Phases
<1>6. SummaryOK'
  BY <1>1 DEF UsageInv, SummaryOK
<1>7. (Unstarted' <=> Unstarted) /\ ~Unstarted
  BY <1>1, <1>2 DEF Unstarted
<1>8. \A m \in Models : log'[m] <= executed[m] /\ metrics'[m] <= executed[m]
  BY <1>1 DEF UsageInv, CountedSoFar
<1> QED
  BY <1>1, <1>3, <1>4, <1>5, <1>6, <1>7, <1>8, AsideKeeps

LEMMA ServeKeeps ==
  ASSUME UsageInv, Clients!Serve
  PROVE  UsageInv'
<1> DEFINE serve == Clients!Do("serve", Clients!None)
<1>1. /\ serve \in startup /\ startup' = {} /\ up' = TRUE
      /\ \A other \in startup : Clients!Stage(serve) <= Clients!Stage(other)
      /\ UNCHANGED <<log, metrics, rollups, modelRollups, seedDone, unrecorded, month, summary, executed, owed, calls,
                     faults>>
  BY DEF Clients!Serve, Clients!IsNext, Clients!store
<1>2. ASSUME NEW x \in Named
      PROVE  AheadOf(x)' = AheadOf(x)
  <2>1. Clients!Stage(serve) = 4
    BY DEF Clients!Stage, Clients!Do
  <2>2. Clients!Stage(Clients!Do("log", x)) \in {1, 2} /\ Clients!Stage(Clients!Do("delta", x)) \in {1, 2}
    BY DEF Clients!Stage, Clients!Do
  <2>3. Clients!Do("log", x) \notin startup /\ Clients!Do("delta", x) \notin startup
    BY <1>1, <2>1, <2>2
  <2>4. AheadOf(x) = 0
    BY <2>3 DEF AheadOf, Ahead
  <2>5. AheadOf(x)' = 0
    BY <1>1 DEF AheadOf, Ahead
  <2> QED
    BY <2>4, <2>5
<1>4. UsageTypes'
  <2>1. startup' \subseteq Steps /\ up' \in BOOLEAN
    BY <1>1
  <2> QED
    BY <1>1, <2>1 DEF UsageInv, UsageTypes
<1>5. Phases'
  BY <1>1 DEF UsageInv, Phases
<1>6. SummaryOK'
  BY <1>1 DEF UsageInv, SummaryOK
<1>7. (Unstarted' <=> Unstarted) /\ ~Unstarted
  BY <1>1 DEF Unstarted
<1>8. \A m \in Models : log'[m] <= executed[m] /\ metrics'[m] <= executed[m]
  BY <1>1 DEF UsageInv, CountedSoFar
<1> QED
  BY <1>1, <1>2, <1>4, <1>5, <1>6, <1>7, <1>8, AsideKeeps

LEMMA RotateKeeps ==
  ASSUME UsageInv, Clients!RotateLog
  PROVE  UsageInv'
<1>1. /\ up /\ startup = {} /\ log' = Clients!NoCalls
      /\ UNCHANGED <<metrics, rollups, modelRollups, seedDone, startup, up, unrecorded, month, summary, executed, owed,
                     calls, faults>>
  BY DEF Clients!RotateLog, Clients!store, UsageInv, Phases
<1>2. \A x \in Named : AheadOf(x)' = AheadOf(x)
  BY <1>1 DEF AheadOf, Ahead
<1>3. log' \in CallsOf /\ \A m \in Models : log'[m] = 0
  BY <1>1 DEF Clients!NoCalls, CallsOf
<1>4. UsageTypes' /\ Phases' /\ SummaryOK'
  BY <1>1, <1>3 DEF UsageInv, UsageTypes, Phases, SummaryOK
<1>5. (Unstarted' <=> Unstarted) /\ ~Unstarted
  BY <1>1 DEF Unstarted
<1>6. \A m \in Models : log'[m] <= executed[m] /\ metrics'[m] <= executed[m]
  BY <1>1, <1>3, CountsTyped DEF UsageInv, CountedSoFar
<1> QED
  BY <1>1, <1>2, <1>4, <1>5, <1>6, AsideKeeps

LEMMA MonthKeeps ==
  ASSUME UsageInv, Clients!NextMonth \/ UNCHANGED Clients!vars
  PROVE  UsageInv'
<1>1. /\ UNCHANGED <<log, metrics, rollups, modelRollups, seedDone, startup, up, unrecorded, summary, executed, owed,
                     calls, faults>>
      /\ month' = month \/ (month < MaxMonth /\ month' = month + 1)
  BY DEF Clients!NextMonth, Clients!store, Clients!vars
<1>2. \A x \in Named : AheadOf(x)' = AheadOf(x)
  BY <1>1, SameAhead
<1>3. month' \in 1..MaxMonth
  BY <1>1, ModelsAssumption DEF UsageInv, UsageTypes
<1>4. UsageTypes' /\ Phases' /\ SummaryOK'
  BY <1>1, <1>3 DEF UsageInv, UsageTypes, Phases, SummaryOK
<1>5. Unstarted' <=> Unstarted
  BY <1>1 DEF Unstarted
<1>6. \A m \in Models : log'[m] <= executed[m] /\ metrics'[m] <= executed[m]
  BY <1>1 DEF UsageInv, CountedSoFar
<1> QED
  BY <1>1, <1>2, <1>4, <1>5, <1>6, AsideKeeps

LEMMA SummaryKeeps ==
  ASSUME UsageInv, Clients!SummaryReads
  PROVE  UsageInv'
<1> DEFINE life == [m \in Models |-> modelRollups[m][0]]
           inMonth == [m \in Models |-> modelRollups[m][month]]
<1>1. UNCHANGED <<log, metrics, rollups, modelRollups, seedDone, startup, up, unrecorded, month, executed, owed,
                  calls, faults>>
  BY DEF Clients!SummaryReads, Clients!store
<1>2. \A x \in Named : AheadOf(x)' = AheadOf(x)
  BY <1>1, SameAhead
<1>3. /\ rollups[0] \in Nat /\ rollups[0] <= Clients!Total(executed)
      /\ rollups[month] \in Nat /\ rollups[month] <= Clients!Total(executed)
  BY CountsTyped DEF UsageInv, UsageTypes, CountedSoFar
<1>4. /\ life \in CallsOf /\ inMonth \in CallsOf
      /\ \A m \in Models : life[m] <= executed[m] /\ inMonth[m] <= executed[m]
  <2>1. ASSUME NEW m \in Models
        PROVE  /\ modelRollups[m][0] \in Nat /\ modelRollups[m][0] <= executed[m]
               /\ modelRollups[m][month] \in Nat /\ modelRollups[m][month] <= executed[m]
    BY CountsTyped DEF UsageInv, UsageTypes, CountedSoFar
  <2> QED
    BY <2>1 DEF CallsOf
<1>5. /\ Clients!NoCalls \in CallsOf /\ \A m \in Models : Clients!NoCalls[m] = 0
      /\ \A m \in Models : executed[m] \in Nat
      /\ Clients!Total(executed) \in Nat
  BY CountsTyped DEF Clients!NoCalls, CallsOf, UsageInv
<1>6. \/ summary' = [summary EXCEPT !.queries = 1, !.total = rollups[0]]
      \/ summary' = [summary EXCEPT !.queries = 2, !.inMonth = rollups[month]]
      \/ summary' = [summary EXCEPT !.queries = 3, !.models = life]
      \/ summary' = [summary EXCEPT !.queries = 4, !.modelsInMonth = inMonth]
      \/ summary' = [queries |-> 0, total |-> 0, inMonth |-> 0, models |-> Clients!NoCalls,
                     modelsInMonth |-> Clients!NoCalls]
  BY DEF Clients!SummaryReads, Clients!Lifetime, Clients!NoSummary, UsageInv, SummaryOK
<1> HIDE DEF life, inMonth
<1>7. SummaryOK'
  <2> HIDE DEF Clients!NoCalls
  <2>0. ASSUME NEW k \in 1..4, NEW s, s = [summary EXCEPT !.queries = k]
        PROVE  /\ s \in [queries : 0..4, total : Nat, inMonth : Nat, models : CallsOf, modelsInMonth : CallsOf]
               /\ s.total = summary.total /\ s.inMonth = summary.inMonth
               /\ s.models = summary.models /\ s.modelsInMonth = summary.modelsInMonth
    BY <2>0 DEF UsageInv, SummaryOK
  <2>1. CASE summary' = [summary EXCEPT !.queries = 1, !.total = rollups[0]]
    <3> DEFINE s == [summary EXCEPT !.queries = 1]
    <3>1. summary' = [s EXCEPT !.total = rollups[0]]
      BY <2>1, Zenon
    <3>2. /\ s \in [queries : 0..4, total : Nat, inMonth : Nat, models : CallsOf, modelsInMonth : CallsOf]
          /\ s.total = summary.total /\ s.inMonth = summary.inMonth
          /\ s.models = summary.models /\ s.modelsInMonth = summary.modelsInMonth
      BY <2>0
    <3> HIDE DEF s
    <3> QED
      BY <1>1, <1>3, <3>1, <3>2 DEF UsageInv, SummaryOK
  <2>2. CASE summary' = [summary EXCEPT !.queries = 2, !.inMonth = rollups[month]]
    <3> DEFINE s == [summary EXCEPT !.queries = 2]
    <3>1. summary' = [s EXCEPT !.inMonth = rollups[month]]
      BY <2>2, Zenon
    <3>2. /\ s \in [queries : 0..4, total : Nat, inMonth : Nat, models : CallsOf, modelsInMonth : CallsOf]
          /\ s.total = summary.total /\ s.inMonth = summary.inMonth
          /\ s.models = summary.models /\ s.modelsInMonth = summary.modelsInMonth
      BY <2>0
    <3> HIDE DEF s
    <3> QED
      BY <1>1, <1>3, <3>1, <3>2 DEF UsageInv, SummaryOK
  <2>3. CASE summary' = [summary EXCEPT !.queries = 3, !.models = life]
    <3> DEFINE s == [summary EXCEPT !.queries = 3]
    <3>1. summary' = [s EXCEPT !.models = life]
      BY <2>3, Zenon
    <3>2. /\ s \in [queries : 0..4, total : Nat, inMonth : Nat, models : CallsOf, modelsInMonth : CallsOf]
          /\ s.total = summary.total /\ s.inMonth = summary.inMonth
          /\ s.models = summary.models /\ s.modelsInMonth = summary.modelsInMonth
      BY <2>0
    <3> HIDE DEF s
    <3> QED
      BY <1>1, <1>4, <3>1, <3>2 DEF UsageInv, SummaryOK
  <2>4. CASE summary' = [summary EXCEPT !.queries = 4, !.modelsInMonth = inMonth]
    <3> DEFINE s == [summary EXCEPT !.queries = 4]
    <3>1. summary' = [s EXCEPT !.modelsInMonth = inMonth]
      BY <2>4, Zenon
    <3>2. /\ s \in [queries : 0..4, total : Nat, inMonth : Nat, models : CallsOf, modelsInMonth : CallsOf]
          /\ s.total = summary.total /\ s.inMonth = summary.inMonth
          /\ s.models = summary.models /\ s.modelsInMonth = summary.modelsInMonth
      BY <2>0
    <3> HIDE DEF s
    <3> QED
      BY <1>1, <1>4, <3>1, <3>2 DEF UsageInv, SummaryOK
  <2>5. CASE summary' = [queries |-> 0, total |-> 0, inMonth |-> 0, models |-> Clients!NoCalls,
                         modelsInMonth |-> Clients!NoCalls]
    BY <1>1, <1>5, <2>5 DEF SummaryOK
  <2> QED
    BY <1>6, <2>1, <2>2, <2>3, <2>4, <2>5
<1>8. UsageTypes' /\ Phases'
  BY <1>1 DEF UsageInv, UsageTypes, Phases
<1>9. Unstarted' <=> Unstarted
  BY <1>1 DEF Unstarted
<1>10. \A m \in Models : log'[m] <= executed[m] /\ metrics'[m] <= executed[m]
  BY <1>1 DEF UsageInv, CountedSoFar
<1> QED
  BY <1>1, <1>2, <1>7, <1>8, <1>9, <1>10, AsideKeeps

LEMMA UsageRestartKeeps ==
  ASSUME UsageInv, Clients!Restart
  PROVE  UsageInv'
<1>1. /\ ~up' /\ up' = FALSE /\ startup' = {} /\ unrecorded' = Clients!NoCalls /\ summary' = Clients!NoSummary
      /\ faults' = faults + 1
      /\ UNCHANGED <<log, metrics, rollups, modelRollups, seedDone, month, executed, owed, calls>>
  BY DEF Clients!Restart, Clients!store
<1>2. Clients!NoCalls \in CallsOf /\ (\A m \in Models : Clients!NoCalls[m] = 0) /\ Clients!Total(Clients!NoCalls) = 0
  BY TotalLaws DEF Clients!NoCalls, CallsOf
<1>3. \A x \in Named : AheadOf(x)' = 0
  BY <1>1 DEF AheadOf, Ahead
<1>4. faults' \in Nat /\ faults' # 0
  BY <1>1 DEF UsageInv, UsageTypes
<1>5. startup' \subseteq Steps /\ up' \in BOOLEAN
  BY <1>1
<1>6. UsageTypes'
  BY <1>1, <1>2, <1>4, <1>5 DEF UsageInv, UsageTypes
<1>7. Phases'
  BY <1>1 DEF Phases
<1>8. SummaryOK'
  <2>1. summary' = [queries |-> 0, total |-> 0, inMonth |-> 0, models |-> Clients!NoCalls,
                    modelsInMonth |-> Clients!NoCalls]
    BY <1>1 DEF Clients!NoSummary
  <2> QED
    BY <1>1, <1>2, <2>1, CountsTyped DEF UsageInv, SummaryOK
<1>9. CountedSoFar'
  <2>1. rollups'[0] + Clients!Total(unrecorded') + AheadOf(Clients!None)' <= Clients!Total(executed')
    BY <1>1, <1>2, <1>3, CountsTyped DEF UsageInv, CountedSoFar, Named
  <2>2. ASSUME NEW m \in Models
        PROVE  modelRollups'[m][0] + unrecorded'[m] + AheadOf(m)' <= executed'[m]
    BY <1>1, <1>2, <1>3, CountsTyped DEF UsageInv, CountedSoFar, Named
  <2> QED
    BY <1>1, <2>1, <2>2 DEF UsageInv, CountedSoFar
<1>10. NothingLost'
  BY <1>4 DEF NothingLost
<1> QED
  BY <1>6, <1>7, <1>8, <1>9, <1>10 DEF UsageInv

(* Steps of an execution. *)
Raised(f, m) == [f EXCEPT ![m] = @ + 1]
Lowered(f, m) == [f EXCEPT ![m] = @ - 1]

LEMMA OneMore ==
  ASSUME NEW f \in CallsOf, NEW m \in Models
  PROVE  /\ Raised(f, m) \in CallsOf /\ Clients!Total(Raised(f, m)) = Clients!Total(f) + 1
         /\ Raised(f, m)[m] = f[m] + 1 /\ \A x \in Models \ {m} : Raised(f, m)[x] = f[x]
<1> DEFINE g == Raised(f, m)
           n == f[m] + 1
<1>1. n \in Nat /\ f[m] \in Nat /\ g = [f EXCEPT ![m] = n]
  BY DEF CallsOf, Raised
<1>2. g[m] = n /\ \A x \in Models \ {m} : g[x] = f[x]
  BY <1>1 DEF CallsOf
<1> HIDE DEF g, n
<1>3. g \in CallsOf /\ Clients!Total(g) + f[m] = Clients!Total(f) + n
  <2>1. [f EXCEPT ![m] = n] \in CallsOf /\ Clients!Total([f EXCEPT ![m] = n]) + f[m] = Clients!Total(f) + n
    BY <1>1, TotalOfOne
  <2> QED
    BY <1>1, <2>1
<1>4. Clients!Total(g) \in Nat /\ Clients!Total(f) \in Nat
  BY <1>3, TotalLaws
<1> QED
  BY <1>1, <1>2, <1>3, <1>4 DEF g, n

LEMMA OneLess ==
  ASSUME NEW f \in CallsOf, NEW m \in Models, f[m] > 0
  PROVE  /\ Lowered(f, m) \in CallsOf /\ Clients!Total(Lowered(f, m)) + 1 = Clients!Total(f)
         /\ Lowered(f, m)[m] + 1 = f[m] /\ \A x \in Models \ {m} : Lowered(f, m)[x] = f[x]
<1> DEFINE g == Lowered(f, m)
           n == f[m] - 1
<1>1. n \in Nat /\ f[m] \in Nat /\ g = [f EXCEPT ![m] = n]
  BY DEF CallsOf, Lowered
<1>2. g[m] = n /\ \A x \in Models \ {m} : g[x] = f[x]
  BY <1>1 DEF CallsOf
<1> HIDE DEF g, n
<1>3. g \in CallsOf /\ Clients!Total(g) + f[m] = Clients!Total(f) + n
  <2>1. [f EXCEPT ![m] = n] \in CallsOf /\ Clients!Total([f EXCEPT ![m] = n]) + f[m] = Clients!Total(f) + n
    BY <1>1, TotalOfOne
  <2> QED
    BY <1>1, <2>1
<1>4. Clients!Total(g) \in Nat /\ Clients!Total(f) \in Nat
  BY <1>3, TotalLaws
<1> QED
  BY <1>1, <1>2, <1>3, <1>4 DEF g, n

LEMMA ExecuteKeeps ==
  ASSUME UsageInv, NEW m \in Models, Clients!Execute(m)
  PROVE  UsageInv'
<1>1. /\ up /\ startup = {}
      /\ metrics' = Raised(metrics, m)
      /\ log' = Raised(log, m)
      /\ unrecorded' = Raised(unrecorded, m)
      /\ executed' = Raised(executed, m)
      /\ owed' = [total |-> owed.total + 1, models |-> Raised(owed.models, m)]
      /\ UNCHANGED <<rollups, modelRollups, seedDone, startup, up, month, summary, faults>>
  BY DEF Clients!Execute, Clients!RecordSuccess, Clients!store, Raised, UsageInv, Phases
<1>2. log \in CallsOf /\ metrics \in CallsOf /\ unrecorded \in CallsOf /\ executed \in CallsOf /\ owed.models \in CallsOf
  BY DEF UsageInv, UsageTypes
<1>3. /\ log' \in CallsOf /\ log'[m] = log[m] + 1 /\ \A x \in Models \ {m} : log'[x] = log[x]
      /\ metrics' \in CallsOf /\ metrics'[m] = metrics[m] + 1 /\ \A x \in Models \ {m} : metrics'[x] = metrics[x]
  BY <1>1, <1>2, OneMore
<1>4. /\ unrecorded' \in CallsOf /\ Clients!Total(unrecorded') = Clients!Total(unrecorded) + 1
      /\ unrecorded'[m] = unrecorded[m] + 1 /\ \A x \in Models \ {m} : unrecorded'[x] = unrecorded[x]
  BY <1>1, <1>2, OneMore
<1>5. /\ executed' \in CallsOf /\ Clients!Total(executed') = Clients!Total(executed) + 1
      /\ executed'[m] = executed[m] + 1 /\ \A x \in Models \ {m} : executed'[x] = executed[x]
  BY <1>1, <1>2, OneMore
<1>6. /\ owed' \in [total : Nat, models : CallsOf] /\ owed'.total = owed.total + 1
      /\ owed'.models[m] = owed.models[m] + 1 /\ \A x \in Models \ {m} : owed'.models[x] = owed.models[x]
  <2> DEFINE g == Raised(owed.models, m)
  <2>1. g \in CallsOf /\ g[m] = owed.models[m] + 1 /\ \A x \in Models \ {m} : g[x] = owed.models[x]
    BY <1>2, OneMore
  <2>2. owed' = [total |-> owed.total + 1, models |-> g] /\ owed.total + 1 \in Nat
    BY <1>1, CountsTyped DEF UsageInv
  <2> HIDE DEF g
  <2> QED
    BY <2>1, <2>2
<1>7. /\ AheadOf(Clients!None) = 0 /\ AheadOf(Clients!None)' = 0
      /\ \A x \in Models : AheadOf(x) = 0 /\ AheadOf(x)' = 0
  BY <1>1 DEF AheadOf, Ahead
<1>8. UsageTypes'
  BY <1>1, <1>3, <1>4, <1>5, <1>6 DEF UsageInv, UsageTypes
<1>9. Phases'
  BY <1>1 DEF UsageInv, Phases
<1>10. SummaryOK'
  <2>1. Clients!Total(executed) \in Nat /\ Clients!Total(executed') = Clients!Total(executed) + 1
    BY <1>5, CountsTyped DEF UsageInv
  <2>2. \A x \in Models : executed[x] \in Nat /\ executed'[x] \in Nat /\ executed'[x] >= executed[x]
    BY <1>5, CountsTyped DEF UsageInv
  <2>3. summary \in [queries : 0..4, total : Nat, inMonth : Nat, models : CallsOf, modelsInMonth : CallsOf]
    BY DEF UsageInv, SummaryOK
  <2>4. \A x \in Models : summary.models[x] \in Nat /\ summary.modelsInMonth[x] \in Nat
    BY <2>3 DEF CallsOf
  <2>5. summary.total \in Nat /\ summary.inMonth \in Nat
    BY <2>3
  <2>6. summary.total <= Clients!Total(executed') /\ summary.inMonth <= Clients!Total(executed')
    BY <2>1, <2>5 DEF UsageInv, SummaryOK
  <2>7. \A x \in Models : summary.models[x] <= executed'[x] /\ summary.modelsInMonth[x] <= executed'[x]
    BY <2>2, <2>4 DEF UsageInv, SummaryOK
  <2> QED
    BY <1>1, <2>3, <2>6, <2>7 DEF SummaryOK
<1>11. CountedSoFar'
  <2>1. rollups[0] + Clients!Total(unrecorded') + AheadOf(Clients!None)' <= Clients!Total(executed')
    BY <1>4, <1>5, <1>7, CountsTyped DEF UsageInv, CountedSoFar
  <2>2. ASSUME NEW x \in Models
        PROVE  modelRollups[x][0] + unrecorded'[x] + AheadOf(x)' <= executed'[x]
    BY <1>4, <1>5, <1>7, CountsTyped DEF UsageInv, CountedSoFar
  <2>3. ASSUME NEW x \in Models
        PROVE  log'[x] <= executed'[x] /\ metrics'[x] <= executed'[x]
    BY <1>2, <1>3, <1>5 DEF UsageInv, CountedSoFar, CallsOf
  <2> QED
    BY <1>1, <2>1, <2>2, <2>3 DEF UsageInv, CountedSoFar
<1>12. NothingLost'
  <2> SUFFICES ASSUME faults = 0
               PROVE  /\ rollups[0] + Clients!Total(unrecorded') + AheadOf(Clients!None)' = owed'.total
                      /\ \A x \in Models : modelRollups[x][0] + unrecorded'[x] + AheadOf(x)' = owed'.models[x]
    BY <1>1 DEF NothingLost, Unstarted
  <2>1. /\ rollups[0] + Clients!Total(unrecorded) + AheadOf(Clients!None) = owed.total
        /\ \A x \in Models : modelRollups[x][0] + unrecorded[x] + AheadOf(x) = owed.models[x]
    BY <1>1 DEF UsageInv, NothingLost, Unstarted
  <2>2. rollups[0] + Clients!Total(unrecorded') + AheadOf(Clients!None)' = owed'.total
    BY <1>4, <1>6, <1>7, <2>1, CountsTyped DEF UsageInv
  <2>3. ASSUME NEW x \in Models
        PROVE  modelRollups[x][0] + unrecorded'[x] + AheadOf(x)' = owed'.models[x]
    BY <1>4, <1>6, <1>7, <2>1, CountsTyped DEF UsageInv
  <2> QED
    BY <2>2, <2>3
<1> QED
  BY <1>8, <1>9, <1>10, <1>11, <1>12 DEF UsageInv

LEMMA ExecuteExplicitKeeps ==
  ASSUME UsageInv, NEW m \in Models, Clients!ExecuteExplicit(m)
  PROVE  UsageInv'
<1>1. /\ up /\ startup = {}
      /\ metrics' = Raised(metrics, m)
      /\ executed' = Raised(executed, m)
      /\ UNCHANGED <<log, rollups, modelRollups, seedDone, startup, up, unrecorded, month, summary, owed, faults>>
  BY DEF Clients!ExecuteExplicit, Clients!RecordSuccess, Clients!store, Raised, UsageInv, Phases
<1>2. log \in CallsOf /\ metrics \in CallsOf /\ executed \in CallsOf
  BY DEF UsageInv, UsageTypes
<1>3. metrics' \in CallsOf /\ metrics'[m] = metrics[m] + 1 /\ \A x \in Models \ {m} : metrics'[x] = metrics[x]
  BY <1>1, <1>2, OneMore
<1>4. /\ executed' \in CallsOf /\ Clients!Total(executed') = Clients!Total(executed) + 1
      /\ executed'[m] = executed[m] + 1 /\ \A x \in Models \ {m} : executed'[x] = executed[x]
  BY <1>1, <1>2, OneMore
<1>5. /\ AheadOf(Clients!None) = 0 /\ AheadOf(Clients!None)' = 0
      /\ \A x \in Models : AheadOf(x) = 0 /\ AheadOf(x)' = 0
  BY <1>1 DEF AheadOf, Ahead
<1>6. UsageTypes'
  BY <1>1, <1>3, <1>4 DEF UsageInv, UsageTypes
<1>7. Phases'
  BY <1>1 DEF UsageInv, Phases
<1>8. Clients!Total(executed) \in Nat /\ \A x \in Models : executed[x] \in Nat /\ executed'[x] \in Nat /\ executed'[x] >= executed[x]
  BY <1>4, CountsTyped DEF UsageInv
<1>9. SummaryOK'
  <2>1. summary \in [queries : 0..4, total : Nat, inMonth : Nat, models : CallsOf, modelsInMonth : CallsOf]
    BY DEF UsageInv, SummaryOK
  <2>2. \A x \in Models : summary.models[x] \in Nat /\ summary.modelsInMonth[x] \in Nat
    BY <2>1 DEF CallsOf
  <2>3. summary.total \in Nat /\ summary.inMonth \in Nat
    BY <2>1
  <2>4. summary.total <= Clients!Total(executed') /\ summary.inMonth <= Clients!Total(executed')
    BY <1>4, <1>8, <2>3 DEF UsageInv, SummaryOK
  <2>5. \A x \in Models : summary.models[x] <= executed'[x] /\ summary.modelsInMonth[x] <= executed'[x]
    BY <1>4, <1>8, <2>2 DEF UsageInv, SummaryOK, CallsOf
  <2> QED
    BY <1>1, <2>1, <2>4, <2>5 DEF SummaryOK
<1>10. CountedSoFar'
  <2>1. rollups[0] + Clients!Total(unrecorded) + AheadOf(Clients!None)' <= Clients!Total(executed')
    BY <1>4, <1>5, <1>8, CountsTyped DEF UsageInv, CountedSoFar
  <2>2. ASSUME NEW x \in Models
        PROVE  modelRollups[x][0] + unrecorded[x] + AheadOf(x)' <= executed'[x]
    BY <1>4, <1>5, <1>8, CountsTyped DEF UsageInv, CountedSoFar
  <2>3. ASSUME NEW x \in Models
        PROVE  log[x] <= executed'[x] /\ metrics'[x] <= executed'[x]
    BY <1>2, <1>3, <1>4, <1>8 DEF UsageInv, CountedSoFar, CallsOf
  <2> QED
    BY <1>1, <2>1, <2>2, <2>3 DEF UsageInv, CountedSoFar
<1>11. NothingLost'
  <2> SUFFICES ASSUME faults = 0
               PROVE  /\ rollups[0] + Clients!Total(unrecorded) + AheadOf(Clients!None)' = owed.total
                      /\ \A x \in Models : modelRollups[x][0] + unrecorded[x] + AheadOf(x)' = owed.models[x]
    BY <1>1 DEF NothingLost, Unstarted
  <2>1. /\ rollups[0] + Clients!Total(unrecorded) + AheadOf(Clients!None) = owed.total
        /\ \A x \in Models : modelRollups[x][0] + unrecorded[x] + AheadOf(x) = owed.models[x]
    BY <1>1 DEF UsageInv, NothingLost, Unstarted
  <2> QED
    BY <1>5, <2>1
<1> QED
  BY <1>6, <1>7, <1>9, <1>10, <1>11 DEF UsageInv

LEMMA RecordKeeps ==
  ASSUME UsageInv, NEW m \in Models, NEW ok \in BOOLEAN, Clients!RecordClientUsage(m, ok)
  PROVE  UsageInv'
<1>1. /\ unrecorded[m] > 0 /\ unrecorded' = Lowered(unrecorded, m)
      /\ faults' = IF ok THEN faults ELSE faults + 1
      /\ UNCHANGED <<log, metrics, seedDone, startup, up, month, summary, executed, owed>>
  BY DEF Clients!RecordClientUsage, Lowered
<1>2. up /\ startup = {}
  <2>1. Clients!NoCalls[m] = 0
    BY DEF Clients!NoCalls
  <2> QED
    BY <1>1, <2>1 DEF UsageInv, Phases
<1>3. /\ unrecorded' \in CallsOf /\ Clients!Total(unrecorded') + 1 = Clients!Total(unrecorded)
      /\ unrecorded'[m] + 1 = unrecorded[m] /\ \A x \in Models \ {m} : unrecorded'[x] = unrecorded[x]
  <2>1. unrecorded \in CallsOf
    BY DEF UsageInv, UsageTypes
  <2> QED
    BY <1>1, <2>1, OneLess
<1>4. /\ AheadOf(Clients!None) = 0 /\ AheadOf(Clients!None)' = 0
      /\ \A x \in Models : AheadOf(x) = 0 /\ AheadOf(x)' = 0
  BY <1>1, <1>2 DEF AheadOf, Ahead
<1>5. /\ MonthsWithin(rollups') /\ modelRollups' \in [Models -> [Clients!Periods -> Nat]]
      /\ rollups'[0] = rollups[0] + IF ok THEN 1 ELSE 0
      /\ \A x \in Models : /\ MonthsWithin(modelRollups'[x])
                           /\ modelRollups'[x][0] = modelRollups[x][0] + IF ok /\ x = m THEN 1 ELSE 0
  <2>1. CASE ok
    <3>1. Clients!Upsert(1, TRUE, m, month)
      BY <2>1 DEF Clients!RecordClientUsage
    <3>2. month \in 1..MaxMonth /\ m \in Named
      BY DEF UsageInv, UsageTypes, Named
    <3>3. /\ MonthsWithin(rollups') /\ rollups'[0] = rollups[0] + 1
          /\ modelRollups' \in [Models -> [Clients!Periods -> Nat]]
          /\ \A x \in Models : /\ MonthsWithin(modelRollups'[x])
                               /\ modelRollups'[x][0] = modelRollups[x][0] + IF x = m THEN 1 ELSE 0
      BY <3>1, <3>2, UpsertAdds DEF UsageInv
    <3> QED
      BY <2>1, <3>3
  <2>2. CASE ~ok
    <3>1. rollups' = rollups /\ modelRollups' = modelRollups
      BY <2>2 DEF Clients!RecordClientUsage
    <3> QED
      BY <2>2, <3>1, CountsTyped DEF UsageInv, UsageTypes, CountedSoFar, MonthsWithin
  <2> QED
    BY <2>1, <2>2
<1>6. UsageTypes'
  <2>1. faults' \in Nat
    BY <1>1 DEF UsageInv, UsageTypes
  <2> QED
    BY <1>1, <1>3, <1>5, <2>1 DEF UsageInv, UsageTypes, MonthsWithin
<1>7. Phases'
  BY <1>1, <1>2 DEF Phases
<1>8. SummaryOK'
  BY <1>1 DEF UsageInv, SummaryOK
<1>9. Clients!Total(unrecorded') \in Nat /\ \A x \in Models : unrecorded'[x] \in Nat
  BY <1>3, TotalLaws DEF CallsOf
<1>10. CountedSoFar'
  <2>1. rollups'[0] + Clients!Total(unrecorded') + AheadOf(Clients!None)' <= Clients!Total(executed)
    BY <1>3, <1>4, <1>5, <1>9, CountsTyped DEF UsageInv, CountedSoFar
  <2>2. ASSUME NEW x \in Models
        PROVE  modelRollups'[x][0] + unrecorded'[x] + AheadOf(x)' <= executed[x]
    BY <1>3, <1>4, <1>5, <1>9, CountsTyped DEF UsageInv, CountedSoFar
  <2> QED
    BY <1>1, <1>5, <2>1, <2>2 DEF UsageInv, CountedSoFar, MonthsWithin
<1>11. NothingLost'
  <2> SUFFICES ASSUME faults' = 0
               PROVE  /\ rollups'[0] + Clients!Total(unrecorded') + AheadOf(Clients!None)' = owed.total
                      /\ \A x \in Models : modelRollups'[x][0] + unrecorded'[x] + AheadOf(x)' = owed.models[x]
    BY <1>1, <1>2 DEF NothingLost, Unstarted
  <2>1. ok /\ faults = 0
    BY <1>1 DEF UsageInv, UsageTypes
  <2>2. /\ rollups[0] + Clients!Total(unrecorded) + AheadOf(Clients!None) = owed.total
        /\ \A x \in Models : modelRollups[x][0] + unrecorded[x] + AheadOf(x) = owed.models[x]
    BY <1>2, <2>1 DEF UsageInv, NothingLost, Unstarted
  <2>3. rollups'[0] + Clients!Total(unrecorded') + AheadOf(Clients!None)' = owed.total
    <3>1. /\ rollups[0] \in Nat /\ Clients!Total(unrecorded) \in Nat /\ Clients!Total(unrecorded') \in Nat
          /\ owed.total \in Nat /\ AheadOf(Clients!None) = 0 /\ AheadOf(Clients!None)' = 0
      BY <1>4, <1>9, CountsTyped DEF UsageInv
    <3>2. rollups[0] + Clients!Total(unrecorded) = owed.total
      BY <2>2, <3>1
    <3>3. rollups'[0] = rollups[0] + 1
      BY <1>5, <2>1
    <3>4. Clients!Total(unrecorded') + 1 = Clients!Total(unrecorded)
      BY <1>3
    <3> QED
      BY <3>1, <3>2, <3>3, <3>4
  <2>4. ASSUME NEW x \in Models
        PROVE  modelRollups'[x][0] + unrecorded'[x] + AheadOf(x)' = owed.models[x]
    <3>1. /\ modelRollups[x][0] \in Nat /\ unrecorded[x] \in Nat /\ unrecorded'[x] \in Nat
          /\ owed.models[x] \in Nat /\ AheadOf(x) = 0 /\ AheadOf(x)' = 0
      BY <1>4, <1>9, CountsTyped DEF UsageInv
    <3>2. modelRollups[x][0] + unrecorded[x] = owed.models[x]
      BY <2>2, <3>1
    <3>3. modelRollups'[x][0] = modelRollups[x][0] + IF x = m THEN 1 ELSE 0
      BY <1>5, <2>1
    <3>4. unrecorded'[x] + (IF x = m THEN 1 ELSE 0) = unrecorded[x]
      BY <1>3, <3>1
    <3> QED
      BY <3>1, <3>2, <3>3, <3>4
  <2> QED
    BY <2>3, <2>4
<1> QED
  BY <1>6, <1>7, <1>8, <1>10, <1>11 DEF UsageInv

LEMMA UsageNextKeeps ==
  ASSUME UsageInv, [Clients!Next]_(Clients!vars)
  PROVE  UsageInv'
<1>1. ASSUME NEW part \in {"log", "delta"}, NEW model \in Models \cup {Clients!None}, NEW mo \in 1..month,
             Clients!SeedHistoricalUsage(part, model, mo)
      PROVE  UsageInv'
  BY <1>1, SeedKeeps DEF Parts, Named
<1>2. ASSUME NEW m \in Models,
             Clients!Execute(m) \/ Clients!ExecuteExplicit(m) \/ \E ok \in BOOLEAN : Clients!RecordClientUsage(m, ok)
      PROVE  UsageInv'
  BY <1>2, ExecuteKeeps, ExecuteExplicitKeeps, RecordKeeps
<1>3. CASE \/ Clients!Start \/ Clients!MarkSeeded \/ Clients!Serve \/ Clients!SummaryReads \/ Clients!RotateLog
           \/ Clients!NextMonth \/ Clients!Restart \/ UNCHANGED Clients!vars
  BY <1>3, StartKeeps, MarkKeeps, ServeKeeps, SummaryKeeps, RotateKeeps, MonthKeeps, UsageRestartKeeps
<1> QED
  BY <1>1, <1>2, <1>3 DEF Clients!Next

LEMMA UsageStarts ==
  ASSUME AccountingInit
  PROVE  UsageInv
<1>1. /\ log \in CallsOf /\ metrics \in CallsOf
      /\ rollups = [p \in Clients!Periods |-> 0]
      /\ modelRollups = [m \in Models |-> [p \in Clients!Periods |-> 0]]
      /\ seedDone = FALSE /\ startup = {} /\ up = FALSE /\ unrecorded = Clients!NoCalls /\ month = 1
      /\ summary = Clients!NoSummary
      /\ executed = [m \in Models |-> Clients!Larger(log[m], metrics[m])]
      /\ owed = [total |-> Clients!Larger(Clients!Total(log), Clients!Total(metrics)), models |-> executed]
      /\ faults = 0
  <2>1. PICK history \in Histories : log = history[1] /\ metrics = history[2]
    BY DEF AccountingInit, Clients!Init
  <2>2. log \in CallsOf /\ metrics \in CallsOf
    BY <2>1, ModelsAssumption DEF CallsOf
  <2> QED
    BY <2>2 DEF AccountingInit, Clients!Init
<1>2. \A a, b : Clients!Larger(a, b) = Larger(a, b)
  BY DEF Clients!Larger, Larger
<1>3. \A m \in Models : log[m] \in Nat /\ metrics[m] \in Nat
  BY <1>1 DEF CallsOf
<1>4. \A m \in Models : /\ executed[m] = Larger(log[m], metrics[m]) /\ executed[m] \in Nat
                        /\ log[m] <= executed[m] /\ metrics[m] <= executed[m]
  BY <1>1, <1>2, <1>3 DEF Larger
<1>5. executed \in CallsOf
  <2>1. \A m \in Models : Clients!Larger(log[m], metrics[m]) \in Nat
    BY <1>2, <1>3 DEF Larger
  <2> QED
    BY <1>1, <2>1 DEF CallsOf
<1>6. /\ Clients!Total(log) \in Nat /\ Clients!Total(metrics) \in Nat /\ Clients!Total(executed) \in Nat
      /\ Clients!Total(log) <= Clients!Total(executed) /\ Clients!Total(metrics) <= Clients!Total(executed)
      /\ Clients!Total(Clients!NoCalls) = 0
  BY <1>1, <1>4, <1>5, TotalLaws
<1>7. 0 \in Clients!Periods /\ 1 \in 1..MaxMonth
  BY ModelsAssumption DEF Clients!Periods, Clients!Lifetime
<1>8. Clients!NoCalls \in CallsOf /\ \A m \in Models : Clients!NoCalls[m] = 0
  BY DEF Clients!NoCalls, CallsOf
<1>9. UsageTypes
  <2>1. Clients!Larger(Clients!Total(log), Clients!Total(metrics)) \in Nat
    BY <1>2, <1>6 DEF Larger
  <2>2. owed \in [total : Nat, models : CallsOf]
    BY <1>1, <1>5, <2>1
  <2>3. rollups \in [Clients!Periods -> Nat] /\ modelRollups \in [Models -> [Clients!Periods -> Nat]]
    BY <1>1
  <2> QED
    BY <1>1, <1>5, <1>7, <1>8, <2>2, <2>3 DEF UsageTypes
<1>10. Phases
  BY <1>1 DEF Phases
<1>11. /\ AheadOf(Clients!None) = 0 /\ \A m \in Models : AheadOf(m) = 0
       /\ rollups[0] = 0 /\ \A m \in Models : modelRollups[m][0] = 0
  BY <1>1, <1>7, NothingAhead
<1>12. CountedSoFar
  <2>1. \A p \in Clients!Periods : rollups[p] = 0 /\ \A m \in Models : modelRollups[m][p] = 0
    BY <1>1
  <2>2. rollups[0] + Clients!Total(unrecorded) + AheadOf(Clients!None) <= Clients!Total(executed)
    BY <1>1, <1>6, <1>11
  <2>3. ASSUME NEW m \in Models
        PROVE  modelRollups[m][0] + unrecorded[m] + AheadOf(m) <= executed[m]
    BY <1>1, <1>4, <1>8, <1>11
  <2> QED
    BY <1>4, <1>11, <2>1, <2>2, <2>3 DEF CountedSoFar
<1>13. SummaryOK
  <2>1. summary = [queries |-> 0, total |-> 0, inMonth |-> 0, models |-> Clients!NoCalls,
                   modelsInMonth |-> Clients!NoCalls]
    BY <1>1 DEF Clients!NoSummary
  <2> QED
    BY <1>4, <1>6, <1>8, <2>1 DEF SummaryOK
<1>14. NothingLost
  <2>1. owed.total = Larger(Clients!Total(log), Clients!Total(metrics)) /\ owed.models = executed
    BY <1>1, <1>2
  <2> QED
    BY <1>1, <1>4, <1>11, <2>1 DEF NothingLost, Unstarted
<1> QED
  BY <1>9, <1>10, <1>12, <1>13, <1>14 DEF UsageInv

LEMMA NothingCountedTwice ==
  ASSUME UsageInv
  PROVE  UsageCountedOnce
<1>1. ASSUME NEW p \in Clients!Periods
      PROVE  Clients!Within(rollups[p], [m \in Models |-> modelRollups[m][p]])
  <2>1. /\ rollups[p] \in Nat /\ rollups[p] <= rollups[0]
        /\ \A m \in Models : modelRollups[m][p] \in Nat /\ modelRollups[m][p] <= modelRollups[m][0]
    BY DEF UsageInv, UsageTypes, CountedSoFar
  <2>2. rollups[0] <= Clients!Total(executed)
    BY CountsTyped DEF UsageInv, CountedSoFar
  <2>3. \A m \in Models : modelRollups[m][0] <= executed[m]
    BY CountsTyped DEF UsageInv, CountedSoFar
  <2>4. rollups[p] <= Clients!Total(executed)
    BY <2>1, <2>2, CountsTyped DEF UsageInv
  <2>5. \A m \in Models : modelRollups[m][p] <= executed[m]
    BY <2>1, <2>3, CountsTyped DEF UsageInv
  <2> QED
    BY <2>4, <2>5 DEF Clients!Within
<1>2. Clients!Within(summary.total, summary.models) /\ Clients!Within(summary.inMonth, summary.modelsInMonth)
  BY DEF UsageInv, SummaryOK, Clients!Within
<1>3. ASSUME up, faults = 0, unrecorded = Clients!NoCalls
      PROVE  rollups[0] = owed.total /\ \A m \in Models : modelRollups[m][0] = owed.models[m]
  <2>1. startup = {} /\ ~Unstarted
    BY <1>3 DEF UsageInv, Phases, Unstarted
  <2>2. /\ AheadOf(Clients!None) = 0 /\ \A m \in Models : AheadOf(m) = 0
    BY <2>1, NothingAhead
  <2>3. Clients!Total(unrecorded) = 0 /\ \A m \in Models : unrecorded[m] = 0
    BY <1>3, TotalLaws DEF Clients!NoCalls
  <2> QED
    BY <1>3, <2>1, <2>2, <2>3, CountsTyped DEF UsageInv, NothingLost
<1> QED
  BY <1>1, <1>2, <1>3 DEF UsageCountedOnce, Clients!UsageCountedOnce, Clients!Lifetime

(* A step of the accounts is one of the budgets, one of the usage, or none. *)
LEMMA AccountingSteps ==
  ASSUME [AccountingNext]_<<active, vars, usageVars>>
  PROVE  [Next]_vars /\ [Clients!Next]_(Clients!vars)
BY DEF AccountingNext, usageVars, Clients!vars

(* The budgets of the accounts are those of the budgeted executions: all   *)
(* that is proved of these holds in the composition.                       *)
THEOREM BudgetsUnaffected == AccountingSpec => Spec
<1>1. AccountingInit => Init
  BY DEF AccountingInit
<1>2. [AccountingNext]_<<active, vars, usageVars>> => [Next]_vars
  BY AccountingSteps
<1> QED
  BY <1>1, <1>2, PTL DEF AccountingSpec, Spec

(* No call of a client is counted twice, whatever is restarted or fails,   *)
(* and none is lost when nothing is: the totals of the log and the metrics *)
(* are seeded in parts that a start does not repeat (main.py), and what is *)
(* executed afterwards is recorded once (_record_client_usage).            *)
THEOREM CallsCountedOnce == AccountingSpec => []UsageCountedOnce
<1>1. AccountingInit => UsageInv
  BY UsageStarts
<1>2. UsageInv /\ [AccountingNext]_<<active, vars, usageVars>> => UsageInv'
  BY AccountingSteps, UsageNextKeeps
<1>3. UsageInv => UsageCountedOnce
  BY NothingCountedTwice
<1> QED
  BY <1>1, <1>2, <1>3, PTL DEF AccountingSpec
=============================================================================
