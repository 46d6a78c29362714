-------------------------------- MODULE Sums ---------------------------------
(* Totals over finite sets, for the accounts of budgets and of usage.      *)
EXTENDS Integers

(* The sum of the weights w of the members of S.  (A recursive function:   *)
(* the fold of the community modules takes operators, of which nothing can *)
(* be proved.)                                                             *)
SumOver(S, w) ==
  LET sum[T \in SUBSET S] ==
        IF T = {} THEN 0 ELSE w[CHOOSE t \in T : TRUE] + sum[T \ {CHOOSE t \in T : TRUE}]
  IN  sum[S]
=============================================================================
