------------------------ MODULE MCBudgetedExecution ------------------------
(* What an execution costs, for TLC.                                       *)
EXTENDS Accounting, TLC

CONSTANTS t1, t2, g1, g2, openai

TwoTasks == {t1, t2}
TwoGrants == {g1, g2}

(* t1 falls under both grants, t2 under the first. *)
SomeApply == (t1 :> {g1, g2}) @@ (t2 :> {g1})
SameProvider == [t \in TwoTasks |-> openai]
Estimates == (t1 :> 1) @@ (t2 :> 3)
Limits == (g1 :> 3) @@ (g2 :> 0)
ProviderLimits == [p \in {openai} |-> 3]

ActivePolicy(w, gs) == [status |-> "active", window |-> w, grants |-> gs]

BudgetPolicies ==
  {ActivePolicy(1, TwoGrants), ActivePolicy(2, TwoGrants),
   [status |-> "inactive", window |-> 1, grants |-> {}]}

-----------------------------------------------------------------------------
TwoModels == {"m1", "m2"}

(* A new node; one that lost the metrics of a model and the log of the     *)
(* other; one whose log is shorter than its metrics.                       *)
Counts(a, b) == [m1 |-> a, m2 |-> b]
MCHistories == {<<Counts(0, 0), Counts(0, 0)>>, <<Counts(1, 0), Counts(0, 1)>>, <<Counts(1, 0), Counts(1, 1)>>}
=============================================================================
