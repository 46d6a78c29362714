----------------------- MODULE BudgetedExecutionProofs -----------------------
(* The budgets of BudgetManager, for any number of tasks, grants and       *)
(* providers: reservations add up, nothing is spent or promised beyond a   *)
(* limit, every completed execution is charged to its grants and no usage  *)
(* summary is lost.                                                        *)
(*                                                                         *)
(* The totals are sums over finite sets of tasks.  Their laws come first,  *)
(* each by induction: a law that fails for some subset fails for a minimal *)
(* one, because strict inclusion of finite sets is well founded.           *)
EXTENDS BudgetedExecution, FiniteSetTheorems, TLAPS

-----------------------------------------------------------------------------
(* Finite sums                                                             *)

(* Induction over finite sets: every collection of subsets has a minimal   *)
(* member.                                                                 *)
LEMMA MinimalSubset ==
  ASSUME NEW S, IsFiniteSet(S), NEW C \in SUBSET (SUBSET S), C # {}
  PROVE  \E T \in C : \A U \in C : U \subseteq T => U = T
<1>1. IsWellFoundedOn(StrictSubsetOrdering(S), SUBSET S)
  BY FS_StrictSubsetOrderingWellFounded, FS_FiniteSubsetsOfFinite
<1>2. PICK T \in C : \A U \in C : ~(<<U, T>> \in StrictSubsetOrdering(S))
  BY <1>1, WFMin
<1>3. \A U \in C : <<U, T>> \in (SUBSET S) \X (SUBSET S)
  OBVIOUS
<1> QED
  BY <1>2, <1>3 DEF StrictSubsetOrdering

(* f sums w over the subset T, one chosen element after the other.         *)
Sums(f, w, T) ==
  f[T] = IF T = {} THEN 0 ELSE w[CHOOSE t \in T : TRUE] + f[T \ {CHOOSE t \in T : TRUE}]

(* A nonempty set has the element that is chosen from it.                  *)
LEMMA Chosen ==
  ASSUME NEW T, T # {}
  PROVE  (CHOOSE t \in T : TRUE) \in T
OBVIOUS

(* There is a function of all subsets that sums them: up to the size of    *)
(* any subset by induction, so up to the size of the set itself.           *)
LEMMA SumsExist ==
  ASSUME NEW S, IsFiniteSet(S), NEW w, \A t \in S : w[t] \in Nat
  PROVE  \E f \in [SUBSET S -> Nat] : \A T \in SUBSET S : Sums(f, w, T)
<1> DEFINE UpTo(T) ==
      \E f \in [SUBSET S -> Nat] :
        \A U \in SUBSET S : Cardinality(U) <= Cardinality(T) => Sums(f, w, U)
<1>f. \A T \in SUBSET S : IsFiniteSet(T) /\ Cardinality(T) \in Nat
  BY FS_Subset, FS_CardinalityType
<1>1. \A T \in SUBSET S : UpTo(T)
  <2> SUFFICES ASSUME \E T \in SUBSET S : ~UpTo(T) PROVE FALSE
    OBVIOUS
  <2> DEFINE C == {T \in SUBSET S : ~UpTo(T)}
  <2> HIDE DEF UpTo
  <2>1. PICK T \in C : \A U \in C : U \subseteq T => U = T
    <3>1. C \in SUBSET (SUBSET S) /\ C # {}
      OBVIOUS
    <3> HIDE DEF C
    <3> QED
      BY <3>1, MinimalSubset
  <2>2. T \in SUBSET S /\ ~UpTo(T)
    OBVIOUS
  <2>3. T # {}
    <3> SUFFICES ASSUME T = {} PROVE UpTo({})
      BY <2>2
    <3> DEFINE f == [U \in SUBSET S |-> 0]
    <3>1. f \in [SUBSET S -> Nat] /\ Sums(f, w, {})
      BY DEF Sums
    <3>2. \A U \in SUBSET S : Cardinality(U) <= Cardinality({}) => Sums(f, w, U)
      <4>1. \A U \in SUBSET S : Cardinality(U) <= Cardinality({}) => U = {}
        BY <1>f, FS_EmptySet
      <4> HIDE DEF f
      <4> QED
        BY <3>1, <4>1
    <3> HIDE DEF f
    <3> QED
      BY <3>1, <3>2 DEF UpTo
  <2>4. PICK x \in T : TRUE
    BY <2>3
  <2>5. T \ {x} \in SUBSET S /\ UpTo(T \ {x})
    BY <2>1, <2>2, <2>4
  <2>6. PICK f \in [SUBSET S -> Nat] :
          \A U \in SUBSET S : Cardinality(U) <= Cardinality(T \ {x}) => Sums(f, w, U)
    BY <2>5 DEF UpTo
  <2>7. Cardinality(T \ {x}) = Cardinality(T) - 1
    BY <1>f, <2>2, <2>4, FS_RemoveElement
  <2> DEFINE g == [U \in SUBSET S |->
                     IF Cardinality(U) < Cardinality(T) THEN f[U]
                     ELSE IF U = {} THEN 0
                     ELSE w[CHOOSE t \in U : TRUE] + f[U \ {CHOOSE t \in U : TRUE}]]
  <2>8. g \in [SUBSET S -> Nat]
    <3>1. \A U \in SUBSET S : g[U] \in Nat
      BY Chosen
    <3> QED
      BY <3>1
  <2>9. ASSUME NEW U \in SUBSET S, Cardinality(U) <= Cardinality(T)
        PROVE  Sums(g, w, U)
    <3>1. CASE Cardinality(U) < Cardinality(T)
      <4>1. Cardinality(U) <= Cardinality(T \ {x})
        BY <1>f, <2>2, <2>7, <3>1
      <4>2. Sums(f, w, U) /\ g[U] = f[U]
        BY <2>6, <3>1, <4>1
      <4>3. U # {} => /\ U \ {CHOOSE t \in U : TRUE} \in SUBSET S
                      /\ Cardinality(U \ {CHOOSE t \in U : TRUE}) < Cardinality(T)
        <5> SUFFICES ASSUME U # {}
                     PROVE  /\ U \ {CHOOSE t \in U : TRUE} \in SUBSET S
                            /\ Cardinality(U \ {CHOOSE t \in U : TRUE}) < Cardinality(T)
          OBVIOUS
        <5>1. Cardinality(U \ {CHOOSE t \in U : TRUE}) = Cardinality(U) - 1
          BY <1>f, Chosen, FS_RemoveElement
        <5>2. Cardinality(U) \in Nat /\ Cardinality(T) \in Nat
          BY <1>f, <2>2
        <5> QED
          BY <3>1, <5>1, <5>2
      <4>4. U # {} => g[U \ {CHOOSE t \in U : TRUE}] = f[U \ {CHOOSE t \in U : TRUE}]
        BY <4>3
      <4> HIDE DEF g
      <4> QED
        BY <4>2, <4>4 DEF Sums
    <3>2. CASE ~(Cardinality(U) < Cardinality(T))
      <4>1. Cardinality(U) = Cardinality(T) /\ U # {}
        BY <1>f, <2>2, <2>3, <2>9, <3>2, FS_EmptySet
      <4>2. /\ U \ {CHOOSE t \in U : TRUE} \in SUBSET S
            /\ Cardinality(U \ {CHOOSE t \in U : TRUE}) = Cardinality(U) - 1
        BY <1>f, <4>1, Chosen, FS_RemoveElement
      <4>3. Cardinality(U \ {CHOOSE t \in U : TRUE}) < Cardinality(T)
        BY <1>f, <4>1, <4>2
      <4>4. g[U \ {CHOOSE t \in U : TRUE}] = f[U \ {CHOOSE t \in U : TRUE}]
        BY <4>2, <4>3
      <4>5. g[U] = w[CHOOSE t \in U : TRUE] + f[U \ {CHOOSE t \in U : TRUE}]
        BY <3>2, <4>1
      <4> HIDE DEF g
      <4> QED
        BY <4>1, <4>4, <4>5 DEF Sums
    <3> QED
      BY <3>1, <3>2
  <2> HIDE DEF g
  <2>10. UpTo(T)
    BY <2>8, <2>9 DEF UpTo
  <2> QED
    BY <2>2, <2>10
<1>2. PICK f \in [SUBSET S -> Nat] :
        \A U \in SUBSET S : Cardinality(U) <= Cardinality(S) => Sums(f, w, U)
  BY <1>1
<1>3. \A U \in SUBSET S : Cardinality(U) <= Cardinality(S)
  BY FS_Subset
<1> QED
  BY <1>2, <1>3

(* ... and only one.                                                       *)
LEMMA SumsUnique ==
  ASSUME NEW T, IsFiniteSet(T), NEW w, NEW f, NEW g,
         \A U \in SUBSET T : Sums(f, w, U) /\ Sums(g, w, U)
  PROVE  f[T] = g[T]
<1> SUFFICES ASSUME f[T] # g[T] PROVE FALSE
  OBVIOUS
<1> DEFINE C == {U \in SUBSET T : f[U] # g[U]}
<1>1. PICK U \in C : \A V \in C : V \subseteq U => V = U
  <2>1. C \in SUBSET (SUBSET T) /\ C # {}
    OBVIOUS
  <2> HIDE DEF C
  <2> QED
    BY <2>1, MinimalSubset
<1>2. U # {}
  BY DEF Sums
<1>3. U \ {CHOOSE t \in U : TRUE} \notin C /\ U \ {CHOOSE t \in U : TRUE} \in SUBSET T
  BY <1>1, <1>2, Chosen
<1> QED
  BY <1>2, <1>3 DEF Sums

(* The recursive function of SumOver is that function.                     *)
LEMMA SumIsSums ==
  ASSUME NEW S, IsFiniteSet(S), NEW w, \A t \in S : w[t] \in Nat
  PROVE  \E f \in [SUBSET S -> Nat] : SumOver(S, w) = f[S] /\ \A T \in SUBSET S : Sums(f, w, T)
<1> DEFINE Body(f) == [T \in SUBSET S |->
             IF T = {} THEN 0 ELSE w[CHOOSE t \in T : TRUE] + f[T \ {CHOOSE t \in T : TRUE}]]
           sum == CHOOSE f : f = Body(f)
<1>1. PICK f \in [SUBSET S -> Nat] : \A T \in SUBSET S : Sums(f, w, T)
  BY SumsExist
<1>2. f = Body(f)
  BY <1>1 DEF Sums
<1>3. sum = Body(sum)
  <2> HIDE DEF Body
  <2> QED BY <1>2
<1>4. SumOver(S, w) = sum[S]
  BY DEF SumOver
<1>5. \A T \in SUBSET S : Sums(sum, w, T)
  <2> HIDE DEF sum
  <2> QED
   BY <1>3 DEF Sums
<1>6. sum[S] = f[S]
  <2> HIDE DEF sum
  <2> QED
    <3>1. \A U \in SUBSET S : Sums(sum, w, U) /\ Sums(f, w, U)
      BY <1>1, <1>5
    <3> QED
      BY <3>1, SumsUnique
<1> QED
  BY <1>1, <1>4, <1>6

(* The sums that the ledgers need.                                         *)
LEMMA SumOfNone ==
  ASSUME NEW w
  PROVE  SumOver({}, w) = 0
<1> DEFINE Body(f) == [T \in SUBSET {} |->
             IF T = {} THEN 0 ELSE w[CHOOSE t \in T : TRUE] + f[T \ {CHOOSE t \in T : TRUE}]]
           sum == CHOOSE f : f = Body(f)
           zero == [T \in SUBSET {} |-> 0]
<1>1. zero = Body(zero)
  OBVIOUS
<1>2. sum = Body(sum)
  <2> HIDE DEF Body, zero
  <2> QED BY <1>1
<1>3. SumOver({}, w) = sum[{}]
  BY DEF SumOver
<1> HIDE DEF sum
<1> QED
  BY <1>2, <1>3

LEMMA SumIsNat ==
  ASSUME NEW S, IsFiniteSet(S), NEW w, \A t \in S : w[t] \in Nat
  PROVE  SumOver(S, w) \in Nat
<1>1. PICK f \in [SUBSET S -> Nat] : SumOver(S, w) = f[S]
  BY SumIsSums
<1>2. S \in SUBSET S
  OBVIOUS
<1> QED
  BY <1>1, <1>2

(* The sum of a subset is found in the sums of the whole. *)
LEMMA SumOfSubset ==
  ASSUME NEW S, IsFiniteSet(S), NEW w, \A t \in S : w[t] \in Nat, NEW f, NEW T \in SUBSET S,
         \A U \in SUBSET S : Sums(f, w, U)
  PROVE  SumOver(T, w) = f[T]

<1>1. IsFiniteSet(T) /\ \A t \in T : w[t] \in Nat
  BY FS_Subset
<1>2. PICK g \in [SUBSET T -> Nat] :
        SumOver(T, w) = g[T] /\ \A U \in SUBSET T : Sums(g, w, U)
  BY <1>1, SumIsSums
<1>3. \A U \in SUBSET T : Sums(f, w, U) /\ Sums(g, w, U)
  BY <1>2
<1>4. f[T] = g[T]
  BY <1>1, <1>3, SumsUnique
<1> QED
  BY <1>2, <1>4

(* One element more, one element less. *)
LEMMA SumOfChosen ==
  ASSUME NEW S, IsFiniteSet(S), S # {}, NEW w, \A t \in S : w[t] \in Nat
  PROVE  LET x == CHOOSE t \in S : TRUE IN SumOver(S, w) = w[x] + SumOver(S \ {x}, w)
<1>1. PICK f \in [SUBSET S -> Nat] :
        SumOver(S, w) = f[S] /\ \A T \in SUBSET S : Sums(f, w, T)
  BY SumIsSums
<1>2. Sums(f, w, S)
  BY <1>1
<1>3. SumOver(S \ {CHOOSE t \in S : TRUE}, w) = f[S \ {CHOOSE t \in S : TRUE}]
  <2>1. S \ {CHOOSE t \in S : TRUE} \in SUBSET S
    OBVIOUS
  <2> QED
    BY <1>1, <2>1, SumOfSubset
<1> QED
  BY <1>1, <1>2, <1>3 DEF Sums

LEMMA SumWithout ==
  ASSUME NEW S, IsFiniteSet(S), NEW w, \A t \in S : w[t] \in Nat, NEW x \in S
  PROVE  SumOver(S, w) = w[x] + SumOver(S \ {x}, w)
<1> DEFINE C == {T \in SUBSET S : \E y \in T : SumOver(T, w) # w[y] + SumOver(T \ {y}, w)}
<1> SUFFICES ASSUME C # {} PROVE FALSE
  <2>1. S \in SUBSET S
    OBVIOUS
  <2> QED
    BY <2>1
<1>1. PICK T \in C : \A U \in C : U \subseteq T => U = T
  <2>1. C \in SUBSET (SUBSET S)
    OBVIOUS
  <2> HIDE DEF C
  <2> QED
    BY <2>1, MinimalSubset
<1>2. PICK y \in T : SumOver(T, w) # w[y] + SumOver(T \ {y}, w)
  OBVIOUS
<1> DEFINE z == CHOOSE t \in T : TRUE
<1>3. z \in T
  BY <1>2, Chosen
<1>4. IsFiniteSet(T) /\ T \in SUBSET S /\ \A t \in T : w[t] \in Nat
  BY FS_Subset
<1>5. SumOver(T, w) = w[z] + SumOver(T \ {z}, w)
  BY <1>2, <1>4, SumOfChosen
<1> HIDE DEF z
<1>6. y # z
  BY <1>2, <1>5
<1>7. T \ {z} \notin C /\ T \ {y} \notin C /\ T \ {z} \in SUBSET S /\ T \ {y} \in SUBSET S
  BY <1>1, <1>2, <1>3, <1>4
<1>8. SumOver(T \ {z}, w) = w[y] + SumOver((T \ {z}) \ {y}, w)
  BY <1>2, <1>6, <1>7
<1>9. SumOver(T \ {y}, w) = w[z] + SumOver((T \ {y}) \ {z}, w)
  BY <1>3, <1>6, <1>7
<1>10. (T \ {z}) \ {y} = (T \ {y}) \ {z}
  OBVIOUS
<1>11. IsFiniteSet((T \ {y}) \ {z}) /\ \A t \in (T \ {y}) \ {z} : w[t] \in Nat
  BY <1>4, FS_Subset
<1>12. SumOver((T \ {y}) \ {z}, w) \in Nat
  BY <1>11, SumIsNat
<1>13. w[y] \in Nat /\ w[z] \in Nat
  BY <1>2, <1>3, <1>4
<1>14. SumOver((T \ {z}) \ {y}, w) = SumOver((T \ {y}) \ {z}, w)
  BY <1>10
<1>15. SumOver(T, w) = w[y] + (w[z] + SumOver((T \ {y}) \ {z}, w))
  BY <1>5, <1>8, <1>12, <1>13, <1>14
<1> QED
  BY <1>2, <1>9, <1>15

LEMMA SumWith ==
  ASSUME NEW S, IsFiniteSet(S), NEW x, x \notin S, NEW w, \A t \in S \cup {x} : w[t] \in Nat
  PROVE  SumOver(S \cup {x}, w) = w[x] + SumOver(S, w)
<1>1. IsFiniteSet(S \cup {x}) /\ (S \cup {x}) \ {x} = S
  BY FS_AddElement
<1> QED
  BY <1>1, SumWithout

(* Only the weights of the members matter. *)
LEMMA SumOfSame ==
  ASSUME NEW S, IsFiniteSet(S), NEW v, NEW w,
         \A t \in S : v[t] \in Nat /\ v[t] = w[t]
  PROVE  SumOver(S, v) = SumOver(S, w)
<1> DEFINE C == {T \in SUBSET S : SumOver(T, v) # SumOver(T, w)}
<1> SUFFICES ASSUME C # {} PROVE FALSE
  <2>1. S \in SUBSET S
    OBVIOUS
  <2> QED
    BY <2>1
<1>1. PICK T \in C : \A U \in C : U \subseteq T => U = T
  <2>1. C \in SUBSET (SUBSET S)
    OBVIOUS
  <2> HIDE DEF C
  <2> QED
    BY <2>1, MinimalSubset
<1>2. T # {}
  BY SumOfNone
<1>3. PICK x \in T : TRUE
  BY <1>2
<1>4. SumOver(T \ {x}, v) = SumOver(T \ {x}, w)
  <2>1. T \ {x} \in SUBSET S /\ T \ {x} \notin C
    BY <1>1, <1>3
  <2> QED
    BY <2>1
<1>5. IsFiniteSet(T) /\ \A t \in T : v[t] \in Nat /\ w[t] \in Nat /\ v[t] = w[t]
  BY FS_Subset
<1>6. SumOver(T, v) = v[x] + SumOver(T \ {x}, v)
  BY <1>3, <1>5, SumWithout
<1>7. SumOver(T, w) = w[x] + SumOver(T \ {x}, w)
  BY <1>3, <1>5, SumWithout
<1> QED
  BY <1>3, <1>4, <1>5, <1>6, <1>7

(* Smaller weights, a smaller sum. *)
LEMMA SumOfLess ==
  ASSUME NEW S, IsFiniteSet(S), NEW v, NEW w,
         \A t \in S : v[t] \in Nat /\ w[t] \in Nat /\ v[t] <= w[t]
  PROVE  SumOver(S, v) <= SumOver(S, w)
<1> DEFINE C == {T \in SUBSET S : ~(SumOver(T, v) <= SumOver(T, w))}
<1> SUFFICES ASSUME C # {} PROVE FALSE
  <2>1. S \in SUBSET S
    OBVIOUS
  <2> QED
    BY <2>1
<1>1. PICK T \in C : \A U \in C : U \subseteq T => U = T
  <2>1. C \in SUBSET (SUBSET S) /\ C # {}
    OBVIOUS
  <2> HIDE DEF C
  <2> QED
    BY <2>1, MinimalSubset
<1>2. T \in SUBSET S /\ IsFiniteSet(T) /\ ~(SumOver(T, v) <= SumOver(T, w))
  BY FS_Subset
<1>3. T # {}
  <2>1. SumOver({}, v) = 0 /\ SumOver({}, w) = 0
    BY SumOfNone
  <2> QED
    BY <1>2, <2>1
<1>4. PICK x \in T : TRUE
  BY <1>3
<1>5. SumOver(T, v) = v[x] + SumOver(T \ {x}, v) /\ SumOver(T, w) = w[x] + SumOver(T \ {x}, w)
  BY <1>2, <1>4, SumWithout
<1>6. T \ {x} \in SUBSET S /\ IsFiniteSet(T \ {x}) /\ T \ {x} # T
  BY <1>2, <1>4, FS_Subset
<1>7. SumOver(T \ {x}, v) <= SumOver(T \ {x}, w)
  BY <1>1, <1>6
<1>8. SumOver(T \ {x}, v) \in Nat /\ SumOver(T \ {x}, w) \in Nat /\ v[x] \in Nat /\ w[x] \in Nat /\ v[x] <= w[x]
  BY <1>2, <1>4, <1>6, SumIsNat
<1> QED
  BY <1>2, <1>5, <1>7, <1>8

LEMMA SumOfZeros ==
  ASSUME NEW S, IsFiniteSet(S)
  PROVE  SumOver(S, [t \in S |-> 0]) = 0
<1> DEFINE z == [t \in S |-> 0]
           C == {T \in SUBSET S : SumOver(T, z) # 0}
<1> SUFFICES ASSUME C # {} PROVE FALSE
  <2>1. S \in SUBSET S
    OBVIOUS
  <2> QED
    BY <2>1
<1>1. PICK T \in C : \A U \in C : U \subseteq T => U = T
  <2>1. C \in SUBSET (SUBSET S) /\ C # {}
    OBVIOUS
  <2> HIDE DEF C
  <2> QED
    BY <2>1, MinimalSubset
<1>0. \A t \in S : z[t] = 0
  OBVIOUS
<1> HIDE DEF z
<1>2. T \in SUBSET S /\ IsFiniteSet(T) /\ SumOver(T, z) # 0
  BY FS_Subset
<1>3. T # {}
  BY <1>2, SumOfNone
<1>4. PICK x \in T : TRUE
  BY <1>3
<1>5. SumOver(T, z) = z[x] + SumOver(T \ {x}, z)
  BY <1>0, <1>2, <1>4, SumWithout
<1>6. T \ {x} \in SUBSET S /\ T \ {x} # T
  BY <1>2, <1>4
<1>7. SumOver(T \ {x}, z) = 0
  BY <1>1, <1>6
<1> QED
  BY <1>0, <1>2, <1>4, <1>5, <1>7

-----------------------------------------------------------------------------
(* Ledger entries                                                          *)

Entries == UsageRecord \cup SpendRecord
AddsUp(u) == u.reserved = SumOver(u.holds, Estimate)

(* Every set of tasks has a sum of estimates.                              *)
LEMMA HoldsAreFinite ==
  ASSUME NEW H \in SUBSET Tasks
  PROVE  IsFiniteSet(H) /\ \A t \in H : Estimate[t] \in Nat
BY TasksAssumption, FS_Subset

(* A reservation adds its estimate.                                        *)
LEMMA HoldAdded ==
  ASSUME NEW u \in Entries, AddsUp(u), NEW t \in Tasks, t \notin u.holds
  PROVE  /\ AddsUp(WithHold(t, u))
         /\ WithHold(t, u).reserved = u.reserved + Estimate[t]
         /\ WithHold(t, u).used = u.used
         /\ WithHold(t, u).holds = u.holds \cup {t}
<1>1. u.holds \in SUBSET Tasks /\ Estimate[t] \in Nat /\ u.reserved \in Nat
  BY TasksAssumption DEF Entries, UsageRecord, SpendRecord
<1>2. /\ WithHold(t, u).reserved = u.reserved + Estimate[t]
      /\ WithHold(t, u).used = u.used
      /\ WithHold(t, u).holds = u.holds \cup {t}
  BY DEF WithHold, Entries, UsageRecord, SpendRecord
<1>3. SumOver(u.holds \cup {t}, Estimate) = Estimate[t] + SumOver(u.holds, Estimate)
  <2>1. IsFiniteSet(u.holds) /\ \A x \in u.holds \cup {t} : Estimate[x] \in Nat
    BY <1>1, HoldsAreFinite
  <2> QED
    BY <2>1, SumWith
<1> QED
  BY <1>1, <1>2, <1>3 DEF AddsUp

(* Taking it off again takes off the estimate, and never meets the clamp   *)
(* at zero.                                                                *)
LEMMA HoldTaken ==
  ASSUME NEW u \in Entries, AddsUp(u), NEW t \in Tasks, t \in u.holds
  PROVE  /\ AddsUp(WithoutHold(t, u))
         /\ WithoutHold(t, u).reserved = u.reserved - Estimate[t]
         /\ u.reserved - Estimate[t] \in Nat
         /\ WithoutHold(t, u).used = u.used
         /\ WithoutHold(t, u).holds = u.holds \ {t}
<1>1. u.holds \in SUBSET Tasks /\ Estimate[t] \in Nat /\ u.reserved \in Nat
  BY TasksAssumption DEF Entries, UsageRecord, SpendRecord
<1>2. u.reserved = Estimate[t] + SumOver(u.holds \ {t}, Estimate)
  <2>1. IsFiniteSet(u.holds) /\ \A x \in u.holds : Estimate[x] \in Nat
    BY <1>1, HoldsAreFinite
  <2> QED
    BY <2>1, SumWithout DEF AddsUp
<1>3. SumOver(u.holds \ {t}, Estimate) \in Nat
  <2>1. u.holds \ {t} \in SUBSET Tasks
    BY <1>1
  <2> QED
    BY <2>1, HoldsAreFinite, SumIsNat
<1>4. u.reserved - Estimate[t] = SumOver(u.holds \ {t}, Estimate)
  BY <1>1, <1>2, <1>3
<1>5. (IF u.reserved > Estimate[t] THEN u.reserved - Estimate[t] ELSE 0) = u.reserved - Estimate[t]
  BY <1>1, <1>3, <1>4
<1>6. /\ WithoutHold(t, u).reserved = u.reserved - Estimate[t]
      /\ WithoutHold(t, u).used = u.used
      /\ WithoutHold(t, u).holds = u.holds \ {t}
  BY <1>5 DEF WithoutHold, Entries, UsageRecord, SpendRecord
<1> QED
  BY <1>3, <1>4, <1>6 DEF AddsUp

(* The types of the entries.                                               *)
LEMMA EntriesTyped ==
  ASSUME NEW t \in Tasks
  PROVE  /\ \A u \in UsageRecord :
              /\ WithHold(t, u) \in UsageRecord /\ WithHold(t, u).window = u.window
              /\ WithoutHold(t, u) \in UsageRecord /\ WithoutHold(t, u).window = u.window
         /\ \A s \in SpendRecord :
              WithHold(t, s) \in SpendRecord /\ WithoutHold(t, s) \in SpendRecord
<1>1. Estimate[t] \in Nat
  BY TasksAssumption
<1>2. \A n \in Nat : n + Estimate[t] \in Nat /\ (IF n > Estimate[t] THEN n - Estimate[t] ELSE 0) \in Nat
  BY <1>1
<1> QED
  BY <1>2 DEF WithHold, WithoutHold, UsageRecord, SpendRecord

(* A charge moves the reservation into the use.                            *)
LEMMA ChargedTyped ==
  ASSUME NEW t \in Tasks, NEW n \in Nat
  PROVE  /\ \A u \in UsageRecord :
              /\ Charged(t, u, n) \in UsageRecord /\ Charged(t, u, n).window = u.window
         /\ \A s \in SpendRecord : Charged(t, s, n) \in SpendRecord
         /\ \A u \in Entries :
              /\ Charged(t, u, n).reserved = WithoutHold(t, u).reserved
              /\ Charged(t, u, n).holds = WithoutHold(t, u).holds
              /\ Charged(t, u, n).used = WithoutHold(t, u).used + n
<1>1. \A u \in UsageRecord :
        /\ Charged(t, u, n) \in UsageRecord /\ Charged(t, u, n).window = u.window
  BY EntriesTyped DEF Charged, UsageRecord
<1>2. \A s \in SpendRecord : Charged(t, s, n) \in SpendRecord
  BY EntriesTyped DEF Charged, SpendRecord
<1>3. ASSUME NEW u \in Entries
      PROVE  /\ Charged(t, u, n).reserved = WithoutHold(t, u).reserved
             /\ Charged(t, u, n).holds = WithoutHold(t, u).holds
             /\ Charged(t, u, n).used = WithoutHold(t, u).used + n
  <2>1. WithoutHold(t, u) \in Entries
    BY EntriesTyped DEF Entries
  <2> QED
    BY <2>1 DEF Charged, Entries, UsageRecord, SpendRecord
<1> QED
  BY <1>1, <1>2, <1>3

-----------------------------------------------------------------------------
(* What the three steps that touch the ledgers make of them                *)

LedgersTyped ==
  /\ usage \in [Grants -> UsageRecord]
  /\ spend \in [Providers -> [Periods -> SpendRecord]]
LedgersAddUp ==
  /\ \A g \in Grants : AddsUp(usage[g])
  /\ \A p \in Providers, w \in Periods : AddsUp(spend[p][w])

LEMMA AddingUp == LedgersAddUp <=> ReservationsAddUp
BY DEF LedgersAddUp, ReservationsAddUp, AddsUp

(* Charges are whole cents, or fractions of them.                          *)
LEMMA ChargesTyped ==
  ASSUME NEW t \in Tasks, NEW cost \in Costs \cup {NoCost}
  PROVE  GrantCharge(t, cost) \in Nat /\ ProviderCharge(cost) \in Nat
<1>1. ProviderCharge(cost) \in Nat
  BY CostsAssumption DEF ProviderCharge
<1>2. CASE cost = NoCost
  BY <1>2, TasksAssumption, <1>1 DEF GrantCharge
<1>3. CASE cost # NoCost
  <2>1. cost + UnitsPerCent - 1 \in Nat /\ UnitsPerCent \in Nat \ {0}
    BY <1>3, CostsAssumption
  <2>2. \A a \in Nat, b \in Nat \ {0} : a \div b \in Nat
    OBVIOUS
  <2>3. (cost + UnitsPerCent - 1) \div UnitsPerCent \in Nat
    BY <2>1, <2>2
  <2> QED
    BY <1>1, <1>3, <2>3 DEF GrantCharge
<1> QED
  BY <1>2, <1>3

LEMMA PolicyTyped ==
  ASSUME policy \in Policies \cup {Unconfigured}, NEW bundle \in Policies \cup {NoPolicy}
  PROVE  /\ CachedPolicy(bundle) \in Policies \cup {Unconfigured}
         /\ CachedPolicy(bundle).window \in Nat
         /\ CachedPolicy(bundle).grants \subseteq Grants
BY PoliciesAssumption DEF CachedPolicy, PolicyOK, Unconfigured

ReservedGrants(t, pol) == IF pol.status = "active" THEN ApplicableGrants(t, pol) ELSE {}

(* A reservation is new to every entry it is made in, it fits, and the     *)
(* entries are those of the current period.                                *)
LEMMA ReserveEffects ==
  ASSUME TypeOK, LedgersAddUp, NEW t \in Tasks, NEW bundle \in Policies \cup {NoPolicy},
         Reserve(t, bundle)
  PROVE  LET pol == CachedPolicy(bundle)
             gs == ReservedGrants(t, pol)
             p == ProviderOf[t]
         IN  /\ gs \subseteq Grants
             /\ gs # {} => pol.window = clock
             /\ \A g \in gs :
                  LET e == EnsuredUsage(g, clock)
                  IN  /\ e \in UsageRecord /\ e.window = clock /\ AddsUp(e) /\ t \notin e.holds
                      /\ GrantFits(t, e, GrantLimit[g])
                      /\ usage'[g] = WithHold(t, e)
             /\ \A g \in Grants \ gs : usage'[g] = usage[g]
             /\ p \in Providers /\ clock \in Periods
             /\ ProviderLimit[p] = NoLimit => spend' = spend
             /\ ProviderLimit[p] # NoLimit =>
                  /\ t \notin spend[p][clock].holds
                  /\ spend[p][clock].used + (spend[p][clock].reserved + Estimate[t]) * UnitsPerCent
                       <= ProviderLimit[p] * UnitsPerCent
                  /\ spend' = [spend EXCEPT ![p][clock] = WithHold(t, @)]
             /\ LedgersTyped'
<1> DEFINE pol == CachedPolicy(bundle)
           gs == ReservedGrants(t, pol)
           p == ProviderOf[t]
           e(g) == EnsuredUsage(g, clock)
<1>1. pol.grants \subseteq Grants /\ gs \subseteq Grants
  BY PolicyTyped DEF ReservedGrants, ApplicableGrants, TypeOK
<1>2. gs # {} => pol.window = clock
  BY DEF ReservedGrants, ApplicableGrants
<1>3. p \in Providers /\ clock \in Periods /\ clock \in Nat
  BY TasksAssumption, BoundsAssumption DEF TypeOK, Periods
<1>4. \A g \in Grants : e(g) \in UsageRecord /\ e(g).window = clock /\ AddsUp(e(g))
  <2> TAKE g \in Grants
  <2>1. usage[g] \in UsageRecord /\ AddsUp(usage[g])
    BY DEF TypeOK, LedgersAddUp
  <2>2. NewUsage(clock) \in UsageRecord /\ NewUsage(clock).window = clock
    BY <1>3 DEF NewUsage, UsageRecord
  <2>3. AddsUp(NewUsage(clock))
    BY SumOfNone DEF NewUsage, AddsUp
  <2> QED
    BY <2>1, <2>2, <2>3 DEF EnsuredUsage
<1>5. \A g \in gs : t \notin e(g).holds /\ GrantFits(t, e(g), GrantLimit[g])
  <2> SUFFICES ASSUME NEW g \in gs PROVE t \notin e(g).holds /\ GrantFits(t, e(g), GrantLimit[g])
    OBVIOUS
  <2>1. pol.status = "active" /\ g \in ApplicableGrants(t, pol) /\ pol.window = clock
    BY <1>2 DEF ReservedGrants
  <2>2. ~Refused(t, pol)
    BY DEF Reserve
  <2> HIDE DEF pol
  <2> QED
    BY <2>1, <2>2 DEF Refused
<1>6. \A g \in gs : usage'[g] = WithHold(t, e(g))
  BY <1>1, <1>2 DEF Reserve, ReservedGrants
<1>7. \A g \in Grants \ gs : usage'[g] = usage[g]
  BY DEF Reserve, ReservedGrants
<1>8. ProviderLimit[p] = NoLimit => spend' = spend
  BY DEF Reserve
<1>9. ProviderLimit[p] # NoLimit =>
        /\ t \notin spend[p][clock].holds
        /\ spend[p][clock].used + (spend[p][clock].reserved + Estimate[t]) * UnitsPerCent
             <= ProviderLimit[p] * UnitsPerCent
        /\ spend' = [spend EXCEPT ![p][clock] = WithHold(t, @)]
  <2> SUFFICES ASSUME ProviderLimit[p] # NoLimit
               PROVE  /\ t \notin spend[p][clock].holds
                      /\ spend[p][clock].used + (spend[p][clock].reserved + Estimate[t]) * UnitsPerCent
                           <= ProviderLimit[p] * UnitsPerCent
                      /\ spend' = [spend EXCEPT ![p][clock] = WithHold(t, @)]
    OBVIOUS
  <2>1. ~ProviderRefuses(t)
    BY DEF Reserve, Refused
  <2>2. t \notin spend[p][clock].holds
    BY <2>1 DEF ProviderRefuses
  <2>3. ~(spend[p][clock].used + (spend[p][clock].reserved + Estimate[t]) * UnitsPerCent
            > ProviderLimit[p] * UnitsPerCent)
    BY <2>1 DEF ProviderRefuses
  <2>4. /\ spend[p][clock].used \in Nat /\ spend[p][clock].reserved \in Nat
        /\ Estimate[t] \in Nat /\ UnitsPerCent \in Nat /\ ProviderLimit[p] \in Nat
    BY <1>3, TasksAssumption, CostsAssumption, LimitsAssumption DEF TypeOK, SpendRecord
  <2>5. \A a, b, c, d, u \in Nat : ~(a + (b + c) * u > d * u) => a + (b + c) * u <= d * u
    OBVIOUS
  <2>6. spend[p][clock].used + (spend[p][clock].reserved + Estimate[t]) * UnitsPerCent
          <= ProviderLimit[p] * UnitsPerCent
    BY <2>3, <2>4, <2>5
  <2> QED
    BY <2>2, <2>6 DEF Reserve
<1>10. LedgersTyped'
  <2>1. \A g \in Grants : usage'[g] \in UsageRecord
    BY <1>4, <1>6, <1>7, EntriesTyped DEF TypeOK
  <2>2. usage' = [g \in Grants |-> usage'[g]]
    BY DEF Reserve
  <2>3. usage' \in [Grants -> UsageRecord]
    BY <2>1, <2>2
  <2>4. spend' \in [Providers -> [Periods -> SpendRecord]]
    <3>1. CASE ProviderLimit[p] = NoLimit
      BY <1>8, <3>1 DEF TypeOK
    <3>2. CASE ProviderLimit[p] # NoLimit
      <4>1. spend[p][clock] \in SpendRecord
        BY <1>3 DEF TypeOK
      <4>2. WithHold(t, spend[p][clock]) \in SpendRecord
        BY <4>1, EntriesTyped
      <4> QED
        BY <1>3, <1>9, <3>2, <4>2 DEF TypeOK
    <3> QED
      BY <3>1, <3>2
  <2> QED
    BY <2>3, <2>4 DEF LedgersTyped
<1> HIDE DEF pol, gs, p
<1>11. gs = ReservedGrants(t, pol) /\ pol = CachedPolicy(bundle) /\ p = ProviderOf[t]
  BY DEF gs, pol, p
<1> QED
  BY <1>1, <1>2, <1>3, <1>4, <1>5, <1>6, <1>7, <1>8, <1>9, <1>10, <1>11

(* Entries of t lose its reservation and gain a charge; nothing else moves. *)
Settled(t, amount, charge) ==
  /\ LedgersTyped' /\ LedgersAddUp'
  /\ \A g \in Grants :
       IF t \in usage[g].holds
       THEN /\ usage'[g].window = usage[g].window
            /\ usage'[g].holds = usage[g].holds \ {t}
            /\ usage[g].reserved - Estimate[t] \in Nat
            /\ usage'[g].reserved = usage[g].reserved - Estimate[t]
            /\ usage'[g].used = usage[g].used + amount
       ELSE usage'[g] = usage[g]
  /\ \A p \in Providers, w \in Periods :
       IF t \in spend[p][w].holds
       THEN /\ spend[p][w].reserved - Estimate[t] \in Nat
            /\ spend'[p][w].reserved = spend[p][w].reserved - Estimate[t]
            /\ spend'[p][w].used = spend[p][w].used + charge
       ELSE spend'[p][w] = spend[p][w]

LEMMA SettledBy ==
  ASSUME TypeOK, LedgersAddUp, NEW t \in Tasks, NEW amount \in Nat, NEW charge \in Nat,
         \/ /\ amount = 0 /\ charge = 0 /\ Release(t)
         \/ /\ usage' = [g \in Grants |-> IF t \in usage[g].holds THEN Charged(t, usage[g], amount)
                                                                  ELSE usage[g]]
            /\ spend' = [p \in Providers |-> [w \in Periods |->
                           IF t \in spend[p][w].holds THEN Charged(t, spend[p][w], charge)
                                                      ELSE spend[p][w]]]
  PROVE  Settled(t, amount, charge)
<1>1. ASSUME NEW g \in Grants
      PROVE  /\ usage'[g] \in UsageRecord /\ AddsUp(usage'[g])
             /\ t \notin usage[g].holds => usage'[g] = usage[g]
             /\ t \in usage[g].holds =>
                  /\ usage'[g].window = usage[g].window
                  /\ usage'[g].holds = usage[g].holds \ {t}
                  /\ usage[g].reserved - Estimate[t] \in Nat
                  /\ usage'[g].reserved = usage[g].reserved - Estimate[t]
                  /\ usage'[g].used = usage[g].used + amount
  <2>1. usage[g] \in UsageRecord /\ usage[g] \in Entries /\ AddsUp(usage[g]) /\ usage[g].used \in Nat
    BY DEF TypeOK, LedgersAddUp, Entries, UsageRecord
  <2>2. CASE t \notin usage[g].holds
    <3>1. usage'[g] = usage[g]
      BY <2>2 DEF Release
    <3> QED
      BY <2>1, <2>2, <3>1
  <2>3. CASE t \in usage[g].holds
    <3>1. /\ AddsUp(WithoutHold(t, usage[g]))
          /\ WithoutHold(t, usage[g]).reserved = usage[g].reserved - Estimate[t]
          /\ usage[g].reserved - Estimate[t] \in Nat
          /\ WithoutHold(t, usage[g]).used = usage[g].used
          /\ WithoutHold(t, usage[g]).holds = usage[g].holds \ {t}
      BY <2>1, <2>3, HoldTaken
    <3>2. /\ WithoutHold(t, usage[g]) \in UsageRecord
          /\ WithoutHold(t, usage[g]).window = usage[g].window
      BY <2>1, EntriesTyped
    <3>3. CASE amount = 0 /\ usage'[g] = WithoutHold(t, usage[g])
      BY <2>1, <2>3, <3>1, <3>2, <3>3
    <3>4. CASE usage'[g] = Charged(t, usage[g], amount)
      <4>1. /\ Charged(t, usage[g], amount) \in UsageRecord
            /\ Charged(t, usage[g], amount).window = usage[g].window
            /\ Charged(t, usage[g], amount).reserved = WithoutHold(t, usage[g]).reserved
            /\ Charged(t, usage[g], amount).holds = WithoutHold(t, usage[g]).holds
            /\ Charged(t, usage[g], amount).used = WithoutHold(t, usage[g]).used + amount
        BY <2>1, ChargedTyped
      <4>2. AddsUp(Charged(t, usage[g], amount))
        BY <3>1, <4>1 DEF AddsUp
      <4> QED
        BY <2>3, <3>1, <3>4, <4>1, <4>2
    <3> QED
      BY <2>3, <3>3, <3>4 DEF Release
  <2> QED
    BY <2>2, <2>3
<1>2. ASSUME NEW p \in Providers, NEW w \in Periods
      PROVE  /\ spend'[p][w] \in SpendRecord /\ AddsUp(spend'[p][w])
             /\ t \notin spend[p][w].holds => spend'[p][w] = spend[p][w]
             /\ t \in spend[p][w].holds =>
                  /\ spend[p][w].reserved - Estimate[t] \in Nat
                  /\ spend'[p][w].reserved = spend[p][w].reserved - Estimate[t]
                  /\ spend'[p][w].used = spend[p][w].used + charge
  <2>1. /\ spend[p][w] \in SpendRecord /\ spend[p][w] \in Entries /\ AddsUp(spend[p][w])
        /\ spend[p][w].used \in Nat
    BY DEF TypeOK, LedgersAddUp, Entries, SpendRecord
  <2>2. CASE t \notin spend[p][w].holds
    <3>1. spend'[p][w] = spend[p][w]
      BY <2>2 DEF Release, SpendReleased
    <3> QED
      BY <2>1, <2>2, <3>1
  <2>3. CASE t \in spend[p][w].holds
    <3>1. /\ AddsUp(WithoutHold(t, spend[p][w]))
          /\ WithoutHold(t, spend[p][w]).reserved = spend[p][w].reserved - Estimate[t]
          /\ spend[p][w].reserved - Estimate[t] \in Nat
          /\ WithoutHold(t, spend[p][w]).used = spend[p][w].used
      BY <2>1, <2>3, HoldTaken
    <3>2. WithoutHold(t, spend[p][w]) \in SpendRecord
      BY <2>1, EntriesTyped
    <3>3. CASE charge = 0 /\ spend'[p][w] = WithoutHold(t, spend[p][w])
      BY <2>1, <2>3, <3>1, <3>2, <3>3
    <3>4. CASE spend'[p][w] = Charged(t, spend[p][w], charge)
      <4>1. /\ Charged(t, spend[p][w], charge) \in SpendRecord
            /\ Charged(t, spend[p][w], charge).reserved = WithoutHold(t, spend[p][w]).reserved
            /\ Charged(t, spend[p][w], charge).holds = WithoutHold(t, spend[p][w]).holds
            /\ Charged(t, spend[p][w], charge).used = WithoutHold(t, spend[p][w]).used + charge
        BY <2>1, ChargedTyped
      <4>2. AddsUp(Charged(t, spend[p][w], charge))
        BY <3>1, <4>1 DEF AddsUp
      <4> QED
        BY <2>3, <3>1, <3>4, <4>1, <4>2
    <3> QED
      BY <2>3, <3>3, <3>4 DEF Release, SpendReleased
  <2> QED
    BY <2>2, <2>3
<1>3. LedgersTyped'
  <2>1. /\ usage' = [g \in Grants |-> usage'[g]]
        /\ spend' = [p \in Providers |-> [w \in Periods |-> spend'[p][w]]]
    BY DEF Release, SpendReleased
  <2> QED
    BY <1>1, <1>2, <2>1 DEF LedgersTyped
<1>4. LedgersAddUp'
  BY <1>1, <1>2 DEF LedgersAddUp, AddsUp
<1> QED
  BY <1>1, <1>2, <1>3, <1>4 DEF Settled

LEMMA FailSettles ==
  ASSUME TypeOK, LedgersAddUp, NEW t \in Tasks, Fail(t)
  PROVE  Settled(t, 0, 0)
BY SettledBy DEF Fail

LEMMA FinalizeSettles ==
  ASSUME TypeOK, LedgersAddUp, NEW t \in Tasks, Finalize(t)
  PROVE  /\ GrantCharge(t, exec[t].cost) \in Nat /\ ProviderCharge(exec[t].cost) \in Nat
         /\ Settled(t, GrantCharge(t, exec[t].cost), ProviderCharge(exec[t].cost))
<1>1. exec[t].cost \in Costs \cup {NoCost}
  BY DEF TypeOK, ExecRecord
<1>2. GrantCharge(t, exec[t].cost) \in Nat /\ ProviderCharge(exec[t].cost) \in Nat
  BY <1>1, ChargesTyped
<1>3. /\ usage' = [g \in Grants |-> IF t \in usage[g].holds
                                      THEN Charged(t, usage[g], GrantCharge(t, exec[t].cost))
                                      ELSE usage[g]]
      /\ spend' = [p \in Providers |-> [w \in Periods |->
                     IF t \in spend[p][w].holds
                     THEN Charged(t, spend[p][w], ProviderCharge(exec[t].cost)) ELSE spend[p][w]]]
  BY DEF Finalize, SpendFinalized
<1> QED
  BY <1>2, <1>3, SettledBy

-----------------------------------------------------------------------------
(* Types and totals                                                        *)

(* The steps that leave the ledgers alone.                                 *)
Elsewhere ==
  \/ \E t \in Tasks :
       \/ \E bundle \in Policies \cup {NoPolicy} : Reject(t, bundle)
       \/ Dispatch(t) \/ Interrupt(t) \/ Resubmit(t) \/ Flush(t)
       \/ \E cost \in Costs \cup {NoCost} : Respond(t, cost)
  \/ Crash \/ NextPeriod \/ UNCHANGED vars
  \/ \E p \in Policies : RefreshPolicy(p)

LEMMA StepsSplit ==
  ASSUME [Next]_vars
  PROVE  \/ Elsewhere
         \/ \E t \in Tasks :
              \/ \E bundle \in Policies \cup {NoPolicy} : Reserve(t, bundle)
              \/ Fail(t) \/ Finalize(t)
<1>1. CASE UNCHANGED vars
  BY <1>1 DEF Elsewhere
<1>2. CASE Next
  BY <1>2 DEF Next, Execute, Elsewhere
<1> QED
  BY <1>1, <1>2

LEMMA ElsewhereStays ==
  ASSUME Elsewhere
  PROVE  UNCHANGED <<usage, spend>>
BY DEF Elsewhere, Reject, Dispatch, Interrupt, Resubmit, Flush, FlushStart, FlushAbandoned,
       SubmitAccepted, SubmitRefused, SubmitRaises, Respond, Crash, RefreshPolicy, NextPeriod, vars

LEMMA RecordsOfNothing ==
  /\ NewExec \in ExecRecord
  /\ Unconfigured \in [status : {"unconfigured"}, window : Nat, grants : SUBSET Grants]
  /\ NewUsage(0) \in UsageRecord /\ NewSpend \in SpendRecord
  /\ AddsUp(NewUsage(0)) /\ AddsUp(NewSpend)
<1>1. NoCost \in Costs \cup {NoCost} /\ 0 \in Nat
  OBVIOUS
<1>2. AddsUp(NewUsage(0)) /\ AddsUp(NewSpend)
  BY SumOfNone DEF AddsUp, NewUsage, NewSpend
<1>3. NewExec \in ExecRecord
  BY <1>1 DEF NewExec, ExecRecord, InFlight
<1>4. Unconfigured \in [status : {"unconfigured"}, window : Nat, grants : SUBSET Grants]
  BY DEF Unconfigured
<1>5. NewUsage(0) \in UsageRecord /\ NewSpend \in SpendRecord
  BY DEF NewUsage, UsageRecord, NewSpend, SpendRecord
<1> QED
  BY <1>2, <1>3, <1>4, <1>5

(* The execution of t takes up new values of some of its fields.           *)
LEMMA ExecTyped ==
  ASSUME exec \in [Tasks -> ExecRecord], NEW t \in Tasks,
         NEW pc \in {"new", "ended", "flushing", "done", "interrupted"} \cup InFlight
  PROVE  /\ [exec EXCEPT ![t].pc = pc] \in [Tasks -> ExecRecord]
         /\ \A o \in {"none", "rejected", "failed", "completed"} :
              [exec EXCEPT ![t].pc = pc, ![t].outcome = o] \in [Tasks -> ExecRecord]
         /\ \A gs \in SUBSET Grants, w \in Nat :
              [exec EXCEPT ![t].pc = pc, ![t].grants = gs, ![t].window = w] \in [Tasks -> ExecRecord]
         /\ \A c \in Costs \cup {NoCost} :
              [exec EXCEPT ![t].pc = pc, ![t].cost = c] \in [Tasks -> ExecRecord]
         /\ \A b \in SUBSET Summary :
              [exec EXCEPT ![t].pc = pc, ![t].batch = b] \in [Tasks -> ExecRecord]
<1> DEFINE e == exec[t]
<1>1. e \in ExecRecord
  OBVIOUS
<1>2. /\ [e EXCEPT !.pc = pc] \in ExecRecord
      /\ \A o \in {"none", "rejected", "failed", "completed"} :
           [e EXCEPT !.pc = pc, !.outcome = o] \in ExecRecord
  BY <1>1 DEF ExecRecord
<1>3. \A gs \in SUBSET Grants, w \in Nat :
        [e EXCEPT !.pc = pc, !.grants = gs, !.window = w] \in ExecRecord
  BY <1>1 DEF ExecRecord
<1>4. \A c \in Costs \cup {NoCost} : [e EXCEPT !.pc = pc, !.cost = c] \in ExecRecord
  BY <1>1 DEF ExecRecord
<1>5. \A b \in SUBSET Summary : [e EXCEPT !.pc = pc, !.batch = b] \in ExecRecord
  BY <1>1 DEF ExecRecord
<1>6. \A x \in ExecRecord : [exec EXCEPT ![t] = x] \in [Tasks -> ExecRecord]
  OBVIOUS
<1>7. /\ [exec EXCEPT ![t].pc = pc] = [exec EXCEPT ![t] = [e EXCEPT !.pc = pc]]
      /\ \A o \in {"none", "rejected", "failed", "completed"} :
           [exec EXCEPT ![t].pc = pc, ![t].outcome = o]
             = [exec EXCEPT ![t] = [e EXCEPT !.pc = pc, !.outcome = o]]
  OBVIOUS
<1>8. \A gs \in SUBSET Grants, w \in Nat :
        [exec EXCEPT ![t].pc = pc, ![t].grants = gs, ![t].window = w]
          = [exec EXCEPT ![t] = [e EXCEPT !.pc = pc, !.grants = gs, !.window = w]]
  OBVIOUS
<1>9. \A c \in Costs \cup {NoCost} :
        [exec EXCEPT ![t].pc = pc, ![t].cost = c]
          = [exec EXCEPT ![t] = [e EXCEPT !.pc = pc, !.cost = c]]
  OBVIOUS
<1>10. \A b \in SUBSET Summary :
         [exec EXCEPT ![t].pc = pc, ![t].batch = b]
           = [exec EXCEPT ![t] = [e EXCEPT !.pc = pc, !.batch = b]]
  OBVIOUS
<1> HIDE DEF e
<1>a. /\ [exec EXCEPT ![t].pc = pc] \in [Tasks -> ExecRecord]
      /\ \A o \in {"none", "rejected", "failed", "completed"} :
           [exec EXCEPT ![t].pc = pc, ![t].outcome = o] \in [Tasks -> ExecRecord]
  BY <1>2, <1>6, <1>7
<1>b. \A gs \in SUBSET Grants, w \in Nat :
        [exec EXCEPT ![t].pc = pc, ![t].grants = gs, ![t].window = w] \in [Tasks -> ExecRecord]
  <2> TAKE gs \in SUBSET Grants, w \in Nat
  <2>1. [e EXCEPT !.pc = pc, !.grants = gs, !.window = w] \in ExecRecord
    BY <1>3
  <2>2. [exec EXCEPT ![t].pc = pc, ![t].grants = gs, ![t].window = w]
          = [exec EXCEPT ![t] = [e EXCEPT !.pc = pc, !.grants = gs, !.window = w]]
    BY <1>8
  <2> QED
    BY <1>6, <2>1, <2>2
<1>c. \A c \in Costs \cup {NoCost} : [exec EXCEPT ![t].pc = pc, ![t].cost = c] \in [Tasks -> ExecRecord]
  BY <1>4, <1>6, <1>9
<1>d. \A b \in SUBSET Summary : [exec EXCEPT ![t].pc = pc, ![t].batch = b] \in [Tasks -> ExecRecord]
  BY <1>5, <1>6, <1>10
<1> QED
  BY <1>a, <1>b, <1>c, <1>d

LEMMA ReturnedTyped ==
  ASSUME exec \in [Tasks -> ExecRecord], NEW t \in Tasks
  PROVE  Returned(t) \in [Tasks -> ExecRecord]
<1>1. [exec[t] EXCEPT !.pc = "done", !.batch = {}, !.sent = {}] \in ExecRecord
  BY DEF ExecRecord
<1>2. Returned(t) = [exec EXCEPT ![t] = [exec[t] EXCEPT !.pc = "done", !.batch = {}, !.sent = {}]]
  BY DEF Returned
<1> QED
  BY <1>1, <1>2

LEMMA TypeStep ==
  ASSUME TypeOK, LedgersAddUp, [Next]_vars
  PROVE  TypeOK'
<1>1. CASE Elsewhere
  <2>0. UNCHANGED <<usage, spend>>
    BY <1>1, ElsewhereStays
  <2> USE <2>0
  <2>1. ASSUME NEW t \in Tasks, NEW bundle \in Policies \cup {NoPolicy}, Reject(t, bundle)
        PROVE  TypeOK'
    <3>1. CachedPolicy(bundle) \in Policies \cup {Unconfigured}
      BY PolicyTyped DEF TypeOK
    <3>2. exec' \in [Tasks -> ExecRecord]
      BY <2>1, ExecTyped DEF TypeOK, Reject
    <3> QED
      BY <2>1, <3>1, <3>2 DEF TypeOK, Reject
  <2>2. ASSUME NEW t \in Tasks, Dispatch(t) \/ Interrupt(t)
        PROVE  TypeOK'
    <3>1. exec' \in [Tasks -> ExecRecord]
      <4>1. "dispatched" \in InFlight
        BY DEF InFlight
      <4>2. exec' = [exec EXCEPT ![t].pc = "dispatched"] \/ exec' = [exec EXCEPT ![t].pc = "interrupted"]
        BY <2>2 DEF Dispatch, Interrupt
      <4> QED
        <5>1. exec \in [Tasks -> ExecRecord]
          BY DEF TypeOK
        <5>2. [exec EXCEPT ![t].pc = "dispatched"] \in [Tasks -> ExecRecord]
          BY <4>1, <5>1, ExecTyped
        <5>3. [exec EXCEPT ![t].pc = "interrupted"] \in [Tasks -> ExecRecord]
          BY <5>1, ExecTyped
        <5> QED
          BY <4>2, <5>2, <5>3
    <3> QED
      BY <2>2, <3>1 DEF TypeOK, Dispatch, Interrupt
  <2>3. ASSUME NEW t \in Tasks, NEW cost \in Costs \cup {NoCost}, Respond(t, cost)
        PROVE  TypeOK'
    <3>1. exec' \in [Tasks -> ExecRecord]
      BY <2>3, ExecTyped DEF TypeOK, Respond, InFlight
    <3> QED
      BY <2>3, <3>1 DEF TypeOK, Respond
  <2>4. ASSUME NEW t \in Tasks, Resubmit(t)
        PROVE  TypeOK'
    <3>1. [NewExec EXCEPT !.attempts = exec[t].attempts + 1] \in ExecRecord
      BY SMTT(30), RecordsOfNothing DEF TypeOK, ExecRecord
    <3>2. exec' \in [Tasks -> ExecRecord]
      BY <2>4, <3>1 DEF TypeOK, Resubmit
    <3> QED
      BY <2>4, <3>2 DEF TypeOK, Resubmit
  <2>5. ASSUME NEW t \in Tasks, Flush(t)
        PROVE  TypeOK'
    <3>1. Returned(t) \in [Tasks -> ExecRecord]
      BY ReturnedTyped DEF TypeOK
    <3>2. CASE FlushStart(t)
      <4>1. exec' \in [Tasks -> ExecRecord]
        BY <3>1, <3>2, ExecTyped DEF TypeOK, FlushStart
      <4> QED
        BY <3>2, <4>1 DEF TypeOK, FlushStart
    <3>3. CASE FlushAbandoned(t)
      BY <3>1, <3>3 DEF TypeOK, FlushAbandoned
    <3>b. exec[t].batch \in SUBSET Summary /\ exec[t].sent \in SUBSET Summary
      BY DEF TypeOK, ExecRecord
    <3>4. CASE SubmitAccepted(t)
      <4>1. PICK s \in NextSummaries(t) :
              /\ delivered' = delivered \cup {s}
              /\ \/ FlushEnd(t, exec[t].sent \cup {s})
                 \/ exec' = [exec EXCEPT ![t].sent = exec[t].sent \cup {s}] /\ UNCHANGED pending
        BY <3>4 DEF SubmitAccepted
      <4>2. s \in Summary
        BY <3>b DEF NextSummaries
      <4>3. [exec EXCEPT ![t].sent = exec[t].sent \cup {s}] \in [Tasks -> ExecRecord]
        BY SMTT(30), <3>b, <4>2 DEF TypeOK, ExecRecord
      <4>4. exec' \in [Tasks -> ExecRecord] /\ pending' \subseteq Summary
        <5>1. CASE FlushEnd(t, exec[t].sent \cup {s})
          BY <3>1, <5>1 DEF FlushEnd, TypeOK
        <5>2. CASE exec' = [exec EXCEPT ![t].sent = exec[t].sent \cup {s}] /\ UNCHANGED pending
          BY <4>3, <5>2 DEF TypeOK
        <5> QED
          BY <4>1, <5>1, <5>2
      <4> QED
        BY <3>4, <4>1, <4>2, <4>4 DEF TypeOK, SubmitAccepted
    <3>5. CASE SubmitRefused(t)
      BY <3>1, <3>5 DEF TypeOK, SubmitRefused, FlushEnd
    <3>6. CASE SubmitRaises(t)
      <4>1. delivered' \subseteq Summary
        BY <3>6, <3>b DEF SubmitRaises, NextSummaries, TypeOK
      <4> QED
        BY <3>1, <3>6, <4>1 DEF TypeOK, SubmitRaises
    <3> QED
      BY <2>5, <3>2, <3>3, <3>4, <3>5, <3>6 DEF Flush
  <2>6. CASE Crash
    <3>1. \A t \in Tasks : /\ [exec[t] EXCEPT !.pc = "interrupted"] \in ExecRecord
                           /\ Returned(t)[t] \in ExecRecord /\ exec[t] \in ExecRecord
      BY ZenonT(60), ReturnedTyped DEF TypeOK, ExecRecord
    <3>2. exec' \in [Tasks -> ExecRecord]
      <4>1. \A t \in Tasks : exec'[t] \in {[exec[t] EXCEPT !.pc = "interrupted"], Returned(t)[t], exec[t]}
        BY <2>6 DEF Crash
      <4>2. \A t \in Tasks : exec'[t] \in ExecRecord
        BY <3>1, <4>1
      <4>3. exec' = [t \in Tasks |-> exec'[t]]
        BY <2>6 DEF Crash
      <4> QED
        BY <4>2, <4>3
    <3> QED
      BY <2>6, <3>2 DEF TypeOK, Crash
  <2>7. CASE (\E p \in Policies : RefreshPolicy(p)) \/ UNCHANGED vars
    BY <2>7 DEF TypeOK, RefreshPolicy, vars
  <2>8. CASE NextPeriod
    <3>1. clock' \in Periods
      BY <2>8, BoundsAssumption DEF TypeOK, NextPeriod, Periods
    <3> QED
      BY <2>8, <3>1 DEF TypeOK, NextPeriod
  <2> QED
    BY <1>1, <2>1, <2>2, <2>3, <2>4, <2>5, <2>6, <2>7, <2>8 DEF Elsewhere
<1>2. ASSUME NEW t \in Tasks, NEW bundle \in Policies \cup {NoPolicy}, Reserve(t, bundle)
      PROVE  TypeOK'
  <2>1. CachedPolicy(bundle) \in Policies \cup {Unconfigured}
    BY PolicyTyped DEF TypeOK
  <2>2. LedgersTyped' /\ ReservedGrants(t, CachedPolicy(bundle)) \subseteq Grants
    BY <1>2, ReserveEffects
  <2>3. clock \in Nat
    BY BoundsAssumption DEF TypeOK, Periods
  <2>5. exec' \in [Tasks -> ExecRecord]
    <3>1. "reserved" \in InFlight
      BY DEF InFlight
    <3>2. exec' = [exec EXCEPT ![t].pc = "reserved",
                               ![t].grants = ReservedGrants(t, CachedPolicy(bundle)), ![t].window = clock]
      BY <1>2 DEF Reserve, ReservedGrants
    <3> QED
      BY <2>2, <2>3, <3>1, <3>2, ExecTyped DEF TypeOK
  <2> QED
    BY <1>2, <2>1, <2>2, <2>5 DEF TypeOK, LedgersTyped, Reserve
<1>3. ASSUME NEW t \in Tasks, Fail(t)
      PROVE  TypeOK'
  <2>1. LedgersTyped'
    BY <1>3, FailSettles DEF Settled
  <2>2. exec' \in [Tasks -> ExecRecord]
    BY <1>3, ExecTyped DEF TypeOK, Fail
  <2> QED
    BY <1>3, <2>1, <2>2 DEF TypeOK, LedgersTyped, Fail
<1>4. ASSUME NEW t \in Tasks, Finalize(t)
      PROVE  TypeOK'
  <2>1. LedgersTyped'
    BY <1>4, FinalizeSettles DEF Settled
  <2>2. exec' \in [Tasks -> ExecRecord]
    BY <1>4, ExecTyped DEF TypeOK, Finalize
  <2>3. stamp \in Nat /\ stamp' = stamp + 1
    BY <1>4 DEF TypeOK, Finalize
  <2>4. pending' \subseteq Summary
    <3>1. \A g \in Grants : [grant |-> g, window |-> usage'[g].window, used |-> usage'[g].used,
                             id |-> stamp] \in Summary
      BY <2>1, <2>3 DEF LedgersTyped, UsageRecord, Summary
    <3> QED
      BY <1>4, <3>1 DEF TypeOK, Finalize
  <2> QED
    BY <1>4, <2>1, <2>2, <2>3, <2>4 DEF TypeOK, LedgersTyped, Finalize
<1> QED
  BY <1>1, <1>2, <1>3, <1>4, StepsSplit

(* Reservations add up after every step.                                   *)
LEMMA TotalsStep ==
  ASSUME TypeOK, LedgersAddUp, [Next]_vars
  PROVE  LedgersAddUp'
<1>1. CASE Elsewhere
  BY <1>1, ElsewhereStays DEF LedgersAddUp, AddsUp
<1>2. ASSUME NEW t \in Tasks, NEW bundle \in Policies \cup {NoPolicy}, Reserve(t, bundle)
      PROVE  LedgersAddUp'
  <2> DEFINE gs == ReservedGrants(t, CachedPolicy(bundle))
             p == ProviderOf[t]
  <2>0. /\ \A g \in gs : /\ EnsuredUsage(g, clock) \in UsageRecord /\ AddsUp(EnsuredUsage(g, clock))
                        /\ t \notin EnsuredUsage(g, clock).holds
                        /\ usage'[g] = WithHold(t, EnsuredUsage(g, clock))
        /\ \A g \in Grants \ gs : usage'[g] = usage[g]
        /\ p \in Providers /\ clock \in Periods
        /\ ProviderLimit[p] = NoLimit => spend' = spend
        /\ ProviderLimit[p] # NoLimit => /\ t \notin spend[p][clock].holds
                                         /\ spend' = [spend EXCEPT ![p][clock] = WithHold(t, @)]
    BY <1>2, ReserveEffects
  <2> HIDE DEF gs, p
  <2>1. \A g \in Grants : AddsUp(usage'[g])
    <3>1. \A g \in gs : AddsUp(WithHold(t, EnsuredUsage(g, clock)))
      BY <2>0, HoldAdded DEF Entries
    <3> QED
      BY <2>0, <3>1 DEF LedgersAddUp
  <2>2. \A q \in Providers, w \in Periods : AddsUp(spend'[q][w])
    <3>1. CASE ProviderLimit[p] = NoLimit
      BY <2>0, <3>1 DEF LedgersAddUp
    <3>2. CASE ProviderLimit[p] # NoLimit
      <4>1. spend[p][clock] \in Entries /\ AddsUp(spend[p][clock])
        BY <2>0 DEF TypeOK, LedgersAddUp, Entries
      <4>2. AddsUp(WithHold(t, spend[p][clock]))
        BY <2>0, <3>2, <4>1, HoldAdded
      <4> QED
        BY <2>0, <3>2, <4>2 DEF LedgersAddUp, TypeOK
    <3> QED
      BY <3>1, <3>2
  <2> QED
    BY <2>1, <2>2 DEF LedgersAddUp, AddsUp
<1>3. ASSUME NEW t \in Tasks, Fail(t) \/ Finalize(t)
      PROVE  LedgersAddUp'
  BY <1>3, FailSettles, FinalizeSettles DEF Settled
<1> QED
  BY <1>1, <1>2, <1>3, StepsSplit

LEMMA StartsTyped ==
  ASSUME Init
  PROVE  TypeOK /\ LedgersAddUp
<1>1. TypeOK
  <2>1. 1 \in Periods
    BY BoundsAssumption DEF Periods
  <2>2. /\ usage \in [Grants -> UsageRecord] /\ spend \in [Providers -> [Periods -> SpendRecord]]
        /\ exec \in [Tasks -> ExecRecord]
    BY RecordsOfNothing DEF Init
  <2>3. /\ policy \in Policies \cup {Unconfigured} /\ clock \in Periods /\ stamp \in Nat
        /\ pending \subseteq Summary /\ delivered \subseteq Summary
        /\ interrupted \in BOOLEAN /\ overrun \in BOOLEAN
    BY <2>1 DEF Init
  <2> QED
    BY <2>2, <2>3 DEF TypeOK
<1>2. LedgersAddUp
  BY RecordsOfNothing DEF Init, LedgersAddUp
<1> QED
  BY <1>1, <1>2

LEMMA BudgetInvariant == Spec => [](TypeOK /\ LedgersAddUp)
BY StartsTyped, TypeStep, TotalsStep, PTL DEF Spec

(* Every variable of the budget model keeps its type.                      *)
THEOREM TypeCorrect == Spec => []TypeOK
BY BudgetInvariant, PTL

(* For any number of tasks, grants and providers, any limits and any       *)
(* interleaving of reservations, settlements, cancellations, crashes,      *)
(* retries and policy changes: the reserved cost of every ledger entry     *)
(* (BudgetManager's grant_usage and provider_budget_usage) is the sum of   *)
(* the reservations it lists, so the clamp at zero never hides a loss.     *)
THEOREM TotalsAreExact == Spec => []ReservationsAddUp
BY BudgetInvariant, AddingUp, PTL

-----------------------------------------------------------------------------
(* Nothing beyond a limit                                                  *)

(* What providers have charged for the executions not settled yet.         *)
CostsFit ==
  \A t \in Tasks :
    exec[t].pc = "responded" /\ exec[t].cost # NoCost => exec[t].cost <= Estimate[t] * UnitsPerCent

LimitInv == WithinLimits /\ (~overrun => CostsFit)

(* Rounding up to whole cents does not exceed the estimate.                *)
LEMMA RoundedUp ==
  ASSUME NEW c \in Nat, NEW e \in Nat, NEW u \in Nat \ {0}, c <= e * u
  PROVE  (c + u - 1) \div u <= e
<1>1. c + u - 1 \in Nat
  OBVIOUS
<1> DEFINE a == c + u - 1
           q == a \div u
<1>2. q \in Nat /\ q * u <= a
  <2>1. \A x \in Nat, y \in Nat \ {0} : x \div y \in Nat /\ (x \div y) * y <= x
    BY SMTT(30)
  <2> HIDE DEF a
  <2> QED
    BY <1>1, <2>1 DEF a
<1>3. a < (e + 1) * u
  <2>1. e * u \in Nat /\ (e + 1) * u = e * u + u
    BY SMTT(30)
  <2> QED
    BY <2>1
<1> HIDE DEF q, a
<1>4. ASSUME q >= e + 1 PROVE FALSE
  <2>1. q * u >= (e + 1) * u
    <3>1. \A x, y, z \in Nat : x >= y => x * z >= y * z
      BY SMTT(30)
    <3>2. e + 1 \in Nat
      OBVIOUS
    <3> QED
      BY <1>2, <1>4, <3>1, <3>2
  <2>2. q * u \in Int /\ (e + 1) * u \in Int
    BY <1>2
  <2>3. a \in Int
    BY DEF a
  <2> QED
    BY <1>2, <1>3, <2>1, <2>2, <2>3
<1>5. q <= e
  BY <1>2, <1>4
<1> QED
  BY <1>5 DEF q, a

LEMMA ChargesFit ==
  ASSUME NEW t \in Tasks, NEW cost \in Costs \cup {NoCost},
         cost # NoCost => cost <= Estimate[t] * UnitsPerCent
  PROVE  /\ GrantCharge(t, cost) <= Estimate[t]
         /\ ProviderCharge(cost) <= Estimate[t] * UnitsPerCent
<1>1. Estimate[t] \in Nat /\ UnitsPerCent \in Nat \ {0}
  BY TasksAssumption, CostsAssumption
<1>2. CASE cost = NoCost
  <2>1. Estimate[t] * UnitsPerCent >= 0
    <3>1. \A x, y \in Nat : x * y >= 0
      BY SMTT(30)
    <3> QED
      BY <1>1, <3>1
  <2> QED
    BY <1>1, <1>2, <2>1 DEF GrantCharge, ProviderCharge
<1>3. CASE cost # NoCost
  <2>1. cost \in Nat
    BY <1>3, CostsAssumption
  <2>2. (cost + UnitsPerCent - 1) \div UnitsPerCent <= Estimate[t]
    BY <1>1, <1>3, <2>1, RoundedUp
  <2> QED
    BY <1>3, <2>2 DEF GrantCharge, ProviderCharge
<1> QED
  BY <1>2, <1>3

(* A provider's answer is the only way to a new cost, and an overrun is    *)
(* never forgotten.                                                        *)
LEMMA CostsStep ==
  ASSUME TypeOK, [Next]_vars
  PROVE  /\ overrun => overrun'
         /\ ~overrun' /\ CostsFit => CostsFit'
<1> SUFFICES ASSUME NEW u \in Tasks
             PROVE  /\ overrun => overrun'
                    /\ ~overrun' /\ exec'[u].pc = "responded" /\ exec'[u].cost # NoCost =>
                         \/ exec[u].pc = "responded" /\ exec'[u].cost = exec[u].cost
                         \/ exec'[u].cost <= Estimate[u] * UnitsPerCent
  <2>1. CASE Tasks = {}
    <3>1. CostsFit'
      BY <2>1 DEF CostsFit
    <3>2. UNCHANGED overrun
      BY <2>1 DEF Next, Crash, RefreshPolicy, NextPeriod, vars
    <3> QED
      BY <3>1, <3>2
  <2>2. CASE Tasks # {}
    BY <2>2 DEF CostsFit
  <2> QED
    BY <2>1, <2>2
<1> DEFINE Goal == /\ overrun => overrun'
                   /\ ~overrun' /\ exec'[u].pc = "responded" /\ exec'[u].cost # NoCost =>
                         \/ exec[u].pc = "responded" /\ exec'[u].cost = exec[u].cost
                         \/ exec'[u].cost <= Estimate[u] * UnitsPerCent
<1>0. exec \in [Tasks -> ExecRecord] /\ exec[u] \in ExecRecord
  BY DEF TypeOK
<1>1. ASSUME NEW t \in Tasks, NEW pc \in {"new", "ended", "flushing", "done", "interrupted", "reserved",
                                         "dispatched"},
             exec'[t].pc = pc, \A x \in Tasks \ {t} : exec'[x] = exec[x], UNCHANGED overrun
      PROVE  Goal
  BY <1>1
<1>2. ASSUME exec' = exec, UNCHANGED overrun
      PROVE  Goal
  BY <1>2
<1>3. ASSUME NEW t \in Tasks, NEW bundle \in Policies \cup {NoPolicy}, Reserve(t, bundle) \/ Reject(t, bundle)
      PROVE  Goal
  <2>1. CASE Reserve(t, bundle)
    <3>1. exec'[t].pc = "reserved" /\ \A x \in Tasks \ {t} : exec'[x] = exec[x]
      BY <1>0, <2>1 DEF Reserve, ExecRecord
    <3> HIDE DEF Goal
    <3> QED
      BY <1>1, <2>1, <3>1 DEF Reserve
  <2>2. CASE Reject(t, bundle)
    <3>1. exec'[t].pc = "ended" /\ \A x \in Tasks \ {t} : exec'[x] = exec[x]
      BY <1>0, <2>2 DEF Reject, ExecRecord
    <3> HIDE DEF Goal
    <3> QED
      BY <1>1, <2>2, <3>1 DEF Reject
  <2> QED
    BY <1>3, <2>1, <2>2
<1>4. ASSUME NEW t \in Tasks, Dispatch(t) \/ Interrupt(t) \/ Resubmit(t) \/ Fail(t) \/ Finalize(t)
      PROVE  Goal
  <2>1. /\ exec'[t].pc \in {"dispatched", "interrupted", "new", "ended"}
        /\ \A x \in Tasks \ {t} : exec'[x] = exec[x]
        /\ UNCHANGED overrun
    BY <1>0, <1>4 DEF Dispatch, Interrupt, Resubmit, Fail, Finalize, ExecRecord, NewExec
  <2> HIDE DEF Goal
  <2> QED
    BY <1>1, <2>1
<1>5. ASSUME NEW t \in Tasks, Flush(t)
      PROVE  Goal
  <2>1. CASE exec' = Returned(t) /\ UNCHANGED overrun
    <3>1. exec'[t].pc = "done" /\ \A x \in Tasks \ {t} : exec'[x] = exec[x]
      BY <1>0, <2>1 DEF Returned, ExecRecord
    <3> HIDE DEF Goal
    <3> QED
      BY <1>1, <2>1, <3>1
  <2>2. CASE exec' = [exec EXCEPT ![t].pc = "flushing", ![t].batch = pending] /\ UNCHANGED overrun
    <3>1. exec'[t].pc = "flushing" /\ \A x \in Tasks \ {t} : exec'[x] = exec[x]
      BY <1>0, <2>2 DEF ExecRecord
    <3> HIDE DEF Goal
    <3> QED
      BY <1>1, <2>2, <3>1
  <2>3. ASSUME NEW sent, exec[t].pc = "flushing", exec' = [exec EXCEPT ![t].sent = sent], UNCHANGED overrun
        PROVE  Goal
    <3>1. exec'[t].pc = "flushing" /\ \A x \in Tasks \ {t} : exec'[x] = exec[x]
      BY <1>0, <2>3 DEF ExecRecord
    <3> HIDE DEF Goal
    <3> QED
      BY <1>1, <2>3, <3>1
  <2>4. \/ exec' = Returned(t) /\ UNCHANGED overrun
        \/ exec' = [exec EXCEPT ![t].pc = "flushing", ![t].batch = pending] /\ UNCHANGED overrun
        \/ \E sent : exec[t].pc = "flushing" /\ exec' = [exec EXCEPT ![t].sent = sent] /\ UNCHANGED overrun
    <3>1. CASE FlushStart(t) \/ FlushAbandoned(t) \/ SubmitRefused(t) \/ SubmitRaises(t)
      BY <3>1 DEF FlushStart, FlushAbandoned, SubmitRefused, SubmitRaises, FlushEnd
    <3>2. CASE SubmitAccepted(t)
      BY <3>2 DEF SubmitAccepted, FlushEnd
    <3> QED
      BY <1>5, <3>1, <3>2 DEF Flush
  <2> HIDE DEF Goal
  <2> QED
    BY <2>1, <2>2, <2>3, <2>4
<1>6. ASSUME NEW t \in Tasks, NEW cost \in Costs \cup {NoCost}, Respond(t, cost)
      PROVE  Goal
  <2>1. exec'[t].cost = cost /\ \A x \in Tasks \ {t} : exec'[x] = exec[x]
    BY <1>0, <1>6 DEF Respond, ExecRecord
  <2>2. ~overrun' => ~overrun /\ ~(cost # NoCost /\ cost > Estimate[t] * UnitsPerCent)
    BY <1>6 DEF Respond
  <2>3. overrun => overrun'
    BY <1>6 DEF Respond
  <2>4. cost # NoCost /\ ~(cost > Estimate[t] * UnitsPerCent) => cost <= Estimate[t] * UnitsPerCent
    <3>1. cost # NoCost => cost \in Nat
      BY CostsAssumption
    <3>2. Estimate[t] * UnitsPerCent \in Nat
      <4>1. \A x, y \in Nat : x * y \in Nat
        BY SMTT(30)
      <4> QED
        BY <4>1, TasksAssumption, CostsAssumption
    <3> QED
      BY <3>1, <3>2
  <2> QED
    BY <2>1, <2>2, <2>3, <2>4
<1>7. ASSUME Crash
      PROVE  Goal
  <2>1. exec'[u].pc = "responded" => exec'[u] = exec[u]
    <3>1. Returned(u)[u].pc = "done"
      BY <1>0 DEF Returned, ExecRecord
    <3>2. [exec[u] EXCEPT !.pc = "interrupted"].pc = "interrupted"
      BY <1>0 DEF ExecRecord
    <3>3. exec'[u] \in {[exec[u] EXCEPT !.pc = "interrupted"], Returned(u)[u], exec[u]}
      BY <1>7 DEF Crash
    <3> QED
      BY <3>1, <3>2, <3>3
  <2>2. exec'[u].pc = "responded" => exec[u].pc = "responded"
    BY <2>1
  <2>3. UNCHANGED overrun
    BY <1>7 DEF Crash
  <2> QED
    BY <2>1, <2>2, <2>3
<1>8. ASSUME NextPeriod \/ UNCHANGED vars \/ \E p \in Policies : RefreshPolicy(p)
      PROVE  Goal
  <2>1. exec' = exec /\ UNCHANGED overrun
    BY <1>8 DEF NextPeriod, RefreshPolicy, vars
  <2> HIDE DEF Goal
  <2> QED
    BY <1>2, <2>1
<1> HIDE DEF Goal
<1>9. Goal
  <2>1. ASSUME NEW t \in Tasks,
               \/ \E bundle \in Policies \cup {NoPolicy} : Reserve(t, bundle) \/ Reject(t, bundle)
               \/ \E cost \in Costs \cup {NoCost} : Respond(t, cost)
        PROVE  Goal
    BY <1>3, <1>6, <2>1
  <2>2. CASE Elsewhere
    <3>1. ASSUME NEW t \in Tasks, Dispatch(t) \/ Interrupt(t) \/ Resubmit(t)
          PROVE  Goal
      BY <1>4, <3>1
    <3>2. ASSUME NEW t \in Tasks, Flush(t)
          PROVE  Goal
      BY <1>5, <3>2
    <3>3. ASSUME NEW t \in Tasks, \E bundle \in Policies \cup {NoPolicy} : Reject(t, bundle)
          PROVE  Goal
      BY <2>1, <3>3
    <3>4. ASSUME NEW t \in Tasks, \E cost \in Costs \cup {NoCost} : Respond(t, cost)
          PROVE  Goal
      BY <2>1, <3>4
    <3>5. CASE \E t \in Tasks :
                  \/ \E bundle \in Policies \cup {NoPolicy} : Reject(t, bundle)
                  \/ Dispatch(t) \/ Interrupt(t) \/ Resubmit(t) \/ Flush(t)
                  \/ \E cost \in Costs \cup {NoCost} : Respond(t, cost)
      <4> PICK t \in Tasks :
             \/ \E bundle \in Policies \cup {NoPolicy} : Reject(t, bundle)
             \/ Dispatch(t) \/ Interrupt(t) \/ Resubmit(t) \/ Flush(t)
             \/ \E cost \in Costs \cup {NoCost} : Respond(t, cost)
        BY <3>5, Zenon
      <4> QED
        BY <3>1, <3>2, <3>3, <3>4, Zenon
    <3> QED
      BY <1>7, <1>8, <2>2, <3>5 DEF Elsewhere
  <2>3. CASE \E t \in Tasks : \/ \E bundle \in Policies \cup {NoPolicy} : Reserve(t, bundle)
                             \/ Fail(t) \/ Finalize(t)
    BY <1>4, <2>1, <2>3
  <2> QED
    BY <2>2, <2>3, StepsSplit
<1> QED
  BY <1>9 DEF Goal

(* A reservation that fits keeps an entry within its limit; a settlement   *)
(* within the reservation does.                                            *)
LEMMA LimitsStep ==
  ASSUME TypeOK, LedgersAddUp, LimitInv, [Next]_vars
  PROVE  LimitInv'
<1>1. (overrun => overrun') /\ (~overrun' => CostsFit')
  BY CostsStep DEF LimitInv
<1>0. overrun' => WithinLimits'
  BY DEF WithinLimits
<1> SUFFICES ASSUME ~overrun' PROVE WithinLimits'
  BY <1>0, <1>1 DEF LimitInv
<1>2. /\ \A g \in Grants : GrantLimit[g] > 0 => usage[g].used + usage[g].reserved <= GrantLimit[g]
      /\ \A p \in Providers, w \in Periods :
           ProviderLimit[p] # NoLimit =>
             spend[p][w].used + spend[p][w].reserved * UnitsPerCent <= ProviderLimit[p] * UnitsPerCent
  BY <1>1 DEF LimitInv, WithinLimits
<1>n. /\ \A g \in Grants : usage[g].used \in Nat /\ usage[g].reserved \in Nat /\ GrantLimit[g] \in Nat
      /\ \A p \in Providers, w \in Periods : spend[p][w].used \in Nat /\ spend[p][w].reserved \in Nat
      /\ \A p \in Providers : ProviderLimit[p] # NoLimit => ProviderLimit[p] \in Nat
      /\ \A t \in Tasks : Estimate[t] \in Nat
      /\ UnitsPerCent \in Nat
  BY LimitsAssumption, TasksAssumption, CostsAssumption DEF TypeOK, UsageRecord, SpendRecord
<1>3. CASE Elsewhere
  BY <1>2, <1>3, ElsewhereStays DEF WithinLimits
<1>4. ASSUME NEW t \in Tasks, NEW bundle \in Policies \cup {NoPolicy}, Reserve(t, bundle)
      PROVE  WithinLimits'
  <2> DEFINE gs == ReservedGrants(t, CachedPolicy(bundle))
             p == ProviderOf[t]
  <2>0. /\ \A g \in gs : /\ EnsuredUsage(g, clock) \in UsageRecord /\ AddsUp(EnsuredUsage(g, clock))
                        /\ t \notin EnsuredUsage(g, clock).holds
                        /\ GrantFits(t, EnsuredUsage(g, clock), GrantLimit[g])
                        /\ usage'[g] = WithHold(t, EnsuredUsage(g, clock))
        /\ \A g \in Grants \ gs : usage'[g] = usage[g]
        /\ p \in Providers /\ clock \in Periods
        /\ ProviderLimit[p] = NoLimit => spend' = spend
        /\ ProviderLimit[p] # NoLimit =>
             /\ t \notin spend[p][clock].holds
             /\ spend[p][clock].used + (spend[p][clock].reserved + Estimate[t]) * UnitsPerCent
                  <= ProviderLimit[p] * UnitsPerCent
             /\ spend' = [spend EXCEPT ![p][clock] = WithHold(t, @)]
    BY <1>4, ReserveEffects
  <2> HIDE DEF gs, p
  <2>1. ASSUME NEW g \in Grants, GrantLimit[g] > 0
        PROVE  usage'[g].used + usage'[g].reserved <= GrantLimit[g]
    <3>1. CASE g \in gs
      <4> DEFINE e == EnsuredUsage(g, clock)
      <4>1. /\ e \in Entries /\ e \in UsageRecord /\ AddsUp(e) /\ t \notin e.holds
            /\ GrantFits(t, e, GrantLimit[g]) /\ usage'[g] = WithHold(t, e)
        BY <2>0, <3>1 DEF Entries
      <4> HIDE DEF e
      <4>2. usage'[g].reserved = e.reserved + Estimate[t] /\ usage'[g].used = e.used
        BY <4>1, HoldAdded
      <4>3. e.used + e.reserved + Estimate[t] <= GrantLimit[g]
        BY <2>1, <4>1 DEF GrantFits
      <4>4. e.used \in Nat /\ e.reserved \in Nat
        BY <4>1 DEF UsageRecord
      <4> QED
        BY <1>n, <4>2, <4>3, <4>4
    <3>2. CASE g \notin gs
      BY <1>2, <2>0, <2>1, <3>2
    <3> QED
      BY <3>1, <3>2
  <2>2. ASSUME NEW q \in Providers, NEW w \in Periods, ProviderLimit[q] # NoLimit
        PROVE  spend'[q][w].used + spend'[q][w].reserved * UnitsPerCent <= ProviderLimit[q] * UnitsPerCent
    <3>1. CASE q = p /\ w = clock
      <4>1. spend[p][clock] \in Entries /\ AddsUp(spend[p][clock])
        BY <2>0 DEF TypeOK, LedgersAddUp, Entries
      <4>2. /\ WithHold(t, spend[p][clock]).reserved = spend[p][clock].reserved + Estimate[t]
            /\ WithHold(t, spend[p][clock]).used = spend[p][clock].used
        BY <2>0, <2>2, <3>1, <4>1, HoldAdded
      <4>3. spend'[p][clock] = WithHold(t, spend[p][clock])
        BY <2>0, <2>2, <3>1 DEF TypeOK
      <4> QED
        BY <2>0, <2>2, <3>1, <4>2, <4>3
    <3>2. CASE ~(q = p /\ w = clock)
      <4>1. spend'[q][w] = spend[q][w]
        BY <2>0, <3>2 DEF TypeOK
      <4> QED
        BY <1>2, <2>2, <4>1
    <3> QED
      BY <3>1, <3>2
  <2> QED
    BY <2>1, <2>2 DEF WithinLimits
<1>5. ASSUME NEW t \in Tasks, NEW amount \in Nat, NEW charge \in Nat,
             amount <= Estimate[t], charge <= Estimate[t] * UnitsPerCent,
             Settled(t, amount, charge)
      PROVE  WithinLimits'
  <2>1. ASSUME NEW g \in Grants, GrantLimit[g] > 0
        PROVE  usage'[g].used + usage'[g].reserved <= GrantLimit[g]
    <3>1. CASE t \in usage[g].holds
      <4>1. /\ usage'[g].reserved = usage[g].reserved - Estimate[t]
            /\ usage'[g].used = usage[g].used + amount
        BY <1>5, <3>1 DEF Settled
      <4>2. usage[g].used + usage[g].reserved <= GrantLimit[g]
        BY <1>2, <2>1
      <4> QED
        BY <1>n, <1>5, <4>1, <4>2
    <3>2. CASE t \notin usage[g].holds
      BY <1>2, <1>5, <2>1, <3>2 DEF Settled
    <3> QED
      BY <3>1, <3>2
  <2>2. ASSUME NEW q \in Providers, NEW w \in Periods, ProviderLimit[q] # NoLimit
        PROVE  spend'[q][w].used + spend'[q][w].reserved * UnitsPerCent <= ProviderLimit[q] * UnitsPerCent
    <3>1. CASE t \in spend[q][w].holds
      <4>1. /\ spend'[q][w].reserved = spend[q][w].reserved - Estimate[t]
            /\ spend'[q][w].used = spend[q][w].used + charge
        BY <1>5, <3>1 DEF Settled
      <4>2. spend[q][w].used + spend[q][w].reserved * UnitsPerCent <= ProviderLimit[q] * UnitsPerCent
        BY <1>2, <2>2
      <4>3. (spend[q][w].reserved - Estimate[t]) * UnitsPerCent
              = spend[q][w].reserved * UnitsPerCent - Estimate[t] * UnitsPerCent
        <5>1. \A x, y, z \in Nat : (x - y) * z = x * z - y * z
          BY SMTT(30)
        <5> QED
          BY <1>n, <5>1
      <4>4. /\ spend[q][w].reserved * UnitsPerCent \in Int /\ Estimate[t] * UnitsPerCent \in Int
            /\ ProviderLimit[q] * UnitsPerCent \in Int
        <5>1. \A x, y \in Nat : x * y \in Int
          BY SMTT(30)
        <5> QED
          BY <1>n, <2>2, <5>1
      <4> DEFINE a == spend[q][w].reserved * UnitsPerCent
                 b == Estimate[t] * UnitsPerCent
                 c == ProviderLimit[q] * UnitsPerCent
      <4>5. a \in Int /\ b \in Int /\ c \in Int /\ spend[q][w].used + a <= c /\ charge <= b
        BY <1>5, <4>2, <4>4
      <4>6. spend'[q][w].used + spend'[q][w].reserved * UnitsPerCent = (spend[q][w].used + charge) + (a - b)
        BY <4>1, <4>3
      <4>7. spend[q][w].used \in Nat
        BY <1>n
      <4> HIDE DEF a, b
      <4> QED
        BY <4>5, <4>6, <4>7
    <3>2. CASE t \notin spend[q][w].holds
      BY <1>2, <1>5, <2>2, <3>2 DEF Settled
    <3> QED
      BY <3>1, <3>2
  <2> QED
    BY <2>1, <2>2 DEF WithinLimits
<1>6. ASSUME NEW t \in Tasks, Fail(t)
      PROVE  WithinLimits'
  <2>1. 0 <= Estimate[t] /\ 0 <= Estimate[t] * UnitsPerCent
    <3>1. \A x, y \in Nat : 0 <= x * y
      BY SMTT(30)
    <3> QED
      BY <1>n, <3>1
  <2> QED
    BY <1>5, <1>6, <2>1, FailSettles
<1>7. ASSUME NEW t \in Tasks, Finalize(t)
      PROVE  WithinLimits'
  <2>1. exec[t].pc = "responded" /\ exec[t].cost \in Costs \cup {NoCost}
    BY <1>7 DEF Finalize, TypeOK, ExecRecord
  <2>2. exec[t].cost # NoCost => exec[t].cost <= Estimate[t] * UnitsPerCent
    BY <1>1, <2>1 DEF LimitInv, CostsFit
  <2>3. /\ GrantCharge(t, exec[t].cost) <= Estimate[t]
        /\ ProviderCharge(exec[t].cost) <= Estimate[t] * UnitsPerCent
    BY <2>1, <2>2, ChargesFit
  <2> QED
    BY <1>5, <1>7, <2>3, FinalizeSettles
<1> QED
  BY <1>3, <1>4, <1>6, <1>7, StepsSplit

(* As long as no provider charges more than the estimate of an execution,  *)
(* no grant and no local provider budget is ever exceeded by what is spent *)
(* and reserved together, however many executions reserve concurrently     *)
(* (BudgetManager.reserve_execution and finalize_execution).               *)
THEOREM LimitsKept == Spec => []WithinLimits
<1>1. Init => LimitInv
  <2> SUFFICES ASSUME Init PROVE LimitInv
    OBVIOUS
  <2>1. CostsFit
    BY DEF Init, CostsFit, NewExec
  <2>2. WithinLimits
    <3>1. \A g \in Grants : usage[g].used = 0 /\ usage[g].reserved = 0 /\ GrantLimit[g] \in Nat
      BY LimitsAssumption DEF Init, NewUsage
    <3>2. \A p \in Providers, w \in Periods : spend[p][w].used = 0 /\ spend[p][w].reserved = 0
      BY DEF Init, NewSpend
    <3>3. \A p \in Providers : ProviderLimit[p] # NoLimit =>
            0 + 0 * UnitsPerCent <= ProviderLimit[p] * UnitsPerCent
      <4>1. \A x, y \in Nat : 0 + 0 * y <= x * y
        BY SMTT(30)
      <4> QED
        BY <4>1, LimitsAssumption, CostsAssumption
    <3> QED
      BY <3>1, <3>2, <3>3 DEF WithinLimits
  <2> QED
    BY <2>1, <2>2 DEF LimitInv
<1>2. LimitInv => WithinLimits
  BY DEF LimitInv
<1> QED
  BY <1>1, <1>2, BudgetInvariant, LimitsStep, PTL DEF Spec
=============================================================================
