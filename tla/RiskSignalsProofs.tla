------------------------- MODULE RiskSignalsProofs -------------------------
(***************************************************************************)
(* Theorems about RiskSignals and the Ranking it extends, for every number *)
(* of students and weeks, all marks, hours, settings, thresholds and views *)
(* and any number of changes.                                              *)
(***************************************************************************)
EXTENDS RiskSignals, FiniteSetTheorems, WellFoundedInduction, TLAPS

----------------------------------------------------------------------------
(* Types *)

\* Every patch fits every class: what it brings is of the type of its field.
LEMMA PatchedSettings ==
    ASSUME NEW patch \in Patches, NEW settings \in Settings
    PROVE  Merged(patch, settings) \in Settings
<1>1. SeedSettings \in Settings /\ Merged(patch, SeedSettings) \in Settings
  BY RankingConstants
<1> QED BY <1>1 DEF Merged, Settings

\* Thresholds and switches: the same.
LEMMA PatchedThresholds ==
    ASSUME NEW patch \in RiskPatches, NEW rs \in RiskSettings
    PROVE  /\ Merged(patch.thresholds, rs.thresholds) \in Thresholds
           /\ Merged(patch.active, rs.active) \in [Signals -> BOOLEAN]
<1>1. /\ SeedRisk.thresholds \in Thresholds /\ SeedRisk.active \in [Signals -> BOOLEAN]
      /\ Merged(patch.thresholds, SeedRisk.thresholds) \in Thresholds
      /\ Merged(patch.active, SeedRisk.active) \in [Signals -> BOOLEAN]
  BY RiskConstants DEF RiskSettings
<1>2. rs.thresholds \in Thresholds /\ rs.active \in [Signals -> BOOLEAN]
  BY DEF RiskSettings
<1>3. Merged(patch.thresholds, rs.thresholds) \in Thresholds
  BY <1>1, <1>2 DEF Merged, Thresholds
<1>4. Merged(patch.active, rs.active) \in [Signals -> BOOLEAN]
  BY <1>1, <1>2 DEF Merged
<1> QED BY <1>3, <1>4

\* The class's marks, hours, settings and thresholds keep their types, whatever is
\* patched.
THEOREM RiskTypeCorrect == RiskSpec => []RiskTypeOK
<1>1. RiskInit => RiskTypeOK
  <2> SUFFICES ASSUME RiskInit PROVE RiskTypeOK
    OBVIOUS
  <2>1. [s \in Students |-> [w \in Weeks |-> 0]] \in [Students -> [Weeks -> HoursValues]]
    BY RankingConstants
  <2>2. snapshot \in Snapshot
    BY <2>1, RankingConstants DEF RiskInit, Init, Snapshot
  <2>3. changes \in 0..MaxChanges /\ risk \in RiskSettings
    BY RankingConstants, RiskConstants DEF RiskInit, Init
  <2> QED BY <2>2, <2>3 DEF RiskTypeOK, TypeOK
<1>2. RiskTypeOK /\ [RiskNext]_riskVars => RiskTypeOK'
  <2> SUFFICES ASSUME RiskTypeOK, [RiskNext]_riskVars PROVE RiskTypeOK'
    OBVIOUS
  <2>1. snapshot \in Snapshot /\ changes \in 0..MaxChanges /\ risk \in RiskSettings
    BY DEF RiskTypeOK, TypeOK
  <2>2. Change => changes' \in 0..MaxChanges
    BY <2>1, RankingConstants DEF Change
  <2>3. ASSUME NEW s \in Students, NEW w \in Weeks, NEW c \in Criteria, NEW cell \in Cells,
               EnterMark(s, w, c, cell), UNCHANGED risk
        PROVE  RiskTypeOK'
    <3>1. snapshot.marks \in [Students -> [Weeks -> [Criteria -> Cells]]]
      BY <2>1 DEF Snapshot
    <3>2. [snapshot.marks EXCEPT ![s][w][c] = cell] \in [Students -> [Weeks -> [Criteria -> Cells]]]
      BY <3>1
    <3>3. snapshot' = [snapshot EXCEPT !.marks = [snapshot.marks EXCEPT ![s][w][c] = cell]]
      BY <2>1, <2>3 DEF EnterMark, Snapshot
    <3>4. snapshot' \in Snapshot
      BY <2>1, <3>2, <3>3 DEF Snapshot
    <3> QED BY <2>1, <2>2, <2>3, <3>4 DEF EnterMark, RiskTypeOK, TypeOK
  <2>4. ASSUME NEW s \in Students, NEW w \in Weeks, NEW h \in HoursValues,
               ChangeHours(s, w, h), UNCHANGED risk
        PROVE  RiskTypeOK'
    <3>1. snapshot.hours \in [Students -> [Weeks -> HoursValues]]
      BY <2>1 DEF Snapshot
    <3>2. [snapshot.hours EXCEPT ![s][w] = h] \in [Students -> [Weeks -> HoursValues]]
      BY <3>1
    <3>3. snapshot' = [snapshot EXCEPT !.hours = [snapshot.hours EXCEPT ![s][w] = h]]
      BY <2>1, <2>4 DEF ChangeHours, Snapshot
    <3>4. snapshot' \in Snapshot
      BY <2>1, <3>2, <3>3 DEF Snapshot
    <3> QED BY <2>1, <2>2, <2>4, <3>4 DEF ChangeHours, RiskTypeOK, TypeOK
  <2>5. ASSUME NEW patch \in Patches, SaveSettings(patch), UNCHANGED risk
        PROVE  RiskTypeOK'
    <3>1. Patched(patch) \in Settings
      BY <2>1, PatchedSettings DEF Patched, Snapshot
    <3>2. snapshot' \in Snapshot
      BY <2>1, <2>5, <3>1 DEF SaveSettings, Snapshot
    <3> QED BY <2>1, <2>2, <2>5, <3>2 DEF SaveSettings, RiskTypeOK, TypeOK
  <2>6. ASSUME NEW patch \in RiskPatches, SaveRiskSettings(patch)
        PROVE  RiskTypeOK'
    <3>1. risk' \in RiskSettings
      BY <2>1, <2>6, PatchedThresholds DEF SaveRiskSettings, RiskSettings
    <3> QED BY <2>1, <2>2, <2>6, <3>1 DEF SaveRiskSettings, RiskTypeOK, TypeOK
  <2>7. CASE UNCHANGED riskVars
    BY <2>1, <2>7 DEF riskVars, RiskTypeOK, TypeOK
  <2> QED BY <2>3, <2>4, <2>5, <2>6, <2>7 DEF RiskNext
<1> QED BY <1>1, <1>2, PTL DEF RiskSpec

----------------------------------------------------------------------------
(* Sums *)

\* The element of a set that a sum adds first.
Pick(S) == CHOOSE x \in S : TRUE

\* sum gives for each part of D the sum of f over it.
IsSum(f, D, sum) ==
    sum = [S \in SUBSET D |-> IF S = {} THEN 0 ELSE f[Pick(S)] + sum[S \ {Pick(S)}]]

\* The sum of f over S, as the folds of the library compute it.
SumOn(f, S) == (CHOOSE sum : IsSum(f, S, sum))[S]

\* SumFunction is that sum over the function's whole domain.
LEMMA SumFunctionIsSumOn ==
    ASSUME NEW f
    PROVE  SumFunction(f) = SumOn(f, DOMAIN f)
BY Zenon DEF SumFunction, SumFunctionOnSet, FoldFunctionOnSet, MapThenFoldSet, SumOn, IsSum, Pick

\* Of a set of finite sets, one has none of the others as a part.
LEMMA SmallestSet ==
    ASSUME NEW D, IsFiniteSet(D), NEW bad \in SUBSET (SUBSET D), bad # {}
    PROVE  \E T \in bad : \A U \in SUBSET T : U # T => U \notin bad
<1>1. FiniteSubsetsOf(D) = SUBSET D
  BY FS_FiniteSubsetsOfFinite
<1>2. IsWellFoundedOn(StrictSubsetOrdering(D), SUBSET D)
  BY <1>1, FS_StrictSubsetOrderingWellFounded
<1>3. PICK T \in bad : \A U \in bad : <<U, T>> \notin StrictSubsetOrdering(D)
  BY <1>2, WFMin, Zenon
<1>4. ASSUME NEW U \in SUBSET T, U # T, U \in bad
      PROVE  FALSE
  <2>1. <<U, T>> \in StrictSubsetOrdering(D)
    BY <1>4 DEF StrictSubsetOrdering
  <2> QED BY <1>3, <1>4, <2>1
<1> QED BY <1>4

\* Only one function gives the sums of f over the parts of a finite set, so that the sums
\* over two sets agree on the parts of both.
LEMMA SumUnique ==
    ASSUME NEW f, NEW D, IsFiniteSet(D), NEW E, NEW one, NEW other,
           IsSum(f, D, one), IsSum(f, E, other), D \subseteq E
    PROVE  \A S \in SUBSET D : one[S] = other[S]
<1> DEFINE bad == {S \in SUBSET D : one[S] # other[S]}
<1> SUFFICES ASSUME bad # {} PROVE FALSE
  OBVIOUS
<1>1. PICK T \in bad : \A U \in SUBSET T : U # T => U \notin bad
  <2>1. bad \in SUBSET (SUBSET D)
    OBVIOUS
  <2> HIDE DEF bad
  <2> QED BY <2>1, SmallestSet
<1>2. /\ one[T] = IF T = {} THEN 0 ELSE f[Pick(T)] + one[T \ {Pick(T)}]
      /\ other[T] = IF T = {} THEN 0 ELSE f[Pick(T)] + other[T \ {Pick(T)}]
  BY DEF IsSum
<1>3. T # {}
  BY <1>2
<1>4. Pick(T) \in T
  BY <1>3 DEF Pick
<1>5. T \ {Pick(T)} \in SUBSET T /\ T \ {Pick(T)} # T /\ T \ {Pick(T)} \in SUBSET D
  BY <1>4
<1>6. one[T \ {Pick(T)}] = other[T \ {Pick(T)}]
  BY <1>1, <1>5
<1> QED BY <1>2, <1>6

\* How a sum is computed, where there is one.
LEMMA SumStep ==
    ASSUME NEW f, NEW S, IsFiniteSet(S),
           \E sum : IsSum(f, S, sum),
           S # {} => \E sum : IsSum(f, S \ {Pick(S)}, sum)
    PROVE  /\ S = {} => SumOn(f, S) = 0
           /\ S # {} => SumOn(f, S) = f[Pick(S)] + SumOn(f, S \ {Pick(S)})
<1> DEFINE V == S \ {Pick(S)}
           whole == CHOOSE sum : IsSum(f, S, sum)
           part == CHOOSE sum : IsSum(f, V, sum)
<1>1. IsSum(f, S, whole) /\ (S # {} => IsSum(f, V, part))
  OBVIOUS
<1>2. SumOn(f, S) = whole[S] /\ SumOn(f, V) = part[V]
  BY DEF SumOn
<1> HIDE DEF whole, part
<1>3. whole[S] = IF S = {} THEN 0 ELSE f[Pick(S)] + whole[V]
  <2>1. IsSum(f, S, whole) /\ S \in SUBSET S
    BY <1>1
  <2> QED BY <2>1 DEF IsSum
<1>4. S # {} => part[V] = whole[V]
  <2> SUFFICES ASSUME S # {} PROVE part[V] = whole[V]
    OBVIOUS
  <2>1. V \subseteq S /\ V \in SUBSET V
    OBVIOUS
  <2>2. IsFiniteSet(V)
    BY <2>1, FS_Subset
  <2>3. IsSum(f, V, part) /\ IsSum(f, S, whole)
    BY <1>1
  <2> HIDE DEF V
  <2>4. \A U \in SUBSET V : part[U] = whole[U]
    BY <2>1, <2>2, <2>3, SumUnique
  <2> QED BY <2>1, <2>4
<1> QED BY <1>2, <1>3, <1>4

\* There is such a function for every finite set: of the sets without one, a smallest
\* could be given one.
LEMMA SumExists ==
    ASSUME NEW f, NEW D, IsFiniteSet(D)
    PROVE  \E sum : IsSum(f, D, sum)
<1> DEFINE bad == {S \in SUBSET D : ~\E sum : IsSum(f, S, sum)}
<1> SUFFICES ASSUME bad # {} PROVE FALSE
  OBVIOUS
<1>1. PICK T \in bad : \A U \in SUBSET T : U # T => U \notin bad
  <2>1. bad \in SUBSET (SUBSET D)
    OBVIOUS
  <2> HIDE DEF bad
  <2> QED BY <2>1, SmallestSet
<1>2. ASSUME NEW U \in SUBSET T, U # T
      PROVE  \E sum : IsSum(f, U, sum)
  BY <1>1, <1>2
<1>3. ASSUME NEW U \in SUBSET T, U # T
      PROVE  SumOn(f, U) = IF U = {} THEN 0 ELSE f[Pick(U)] + SumOn(f, U \ {Pick(U)})
  <2>1. U # {} => Pick(U) \in U
    BY DEF Pick
  <2>2. U # {} => U \ {Pick(U)} \in SUBSET T /\ U \ {Pick(U)} # T
    BY <2>1, <1>3
  <2>3. /\ \E sum : IsSum(f, U, sum)
        /\ U # {} => \E sum : IsSum(f, U \ {Pick(U)}, sum)
    BY <1>2, <1>3, <2>2
  <2>4. IsFiniteSet(U)
    <3>1. U \in SUBSET D
      OBVIOUS
    <3> QED BY <3>1, FS_Subset
  <2> QED BY <2>3, <2>4, SumStep
<1> DEFINE sum == [S \in SUBSET T |-> IF S = {} THEN 0 ELSE f[Pick(S)] + SumOn(f, S \ {Pick(S)})]
<1>4. ASSUME NEW S \in SUBSET T, S # {}
      PROVE  sum[S \ {Pick(S)}] = SumOn(f, S \ {Pick(S)})
  <2> DEFINE U == S \ {Pick(S)}
  <2>1. Pick(S) \in S
    BY <1>4 DEF Pick
  <2>2. U \in SUBSET T /\ U # T
    BY <2>1
  <2>3. sum[U] = IF U = {} THEN 0 ELSE f[Pick(U)] + SumOn(f, U \ {Pick(U)})
    BY <2>2
  <2> QED BY <1>3, <2>2, <2>3
<1>5. sum = [S \in SUBSET T |-> IF S = {} THEN 0 ELSE f[Pick(S)] + sum[S \ {Pick(S)}]]
  <2>1. \A S \in SUBSET T : sum[S] = IF S = {} THEN 0 ELSE f[Pick(S)] + sum[S \ {Pick(S)}]
    BY <1>4
  <2> QED BY <2>1
<1>6. IsSum(f, T, sum)
  BY <1>5 DEF IsSum
<1> QED BY <1>1, <1>6

\* How a sum is computed, one element at a time.
LEMMA SumRule ==
    ASSUME NEW f, NEW S, IsFiniteSet(S)
    PROVE  /\ S = {} => SumOn(f, S) = 0
           /\ S # {} => /\ Pick(S) \in S
                        /\ IsFiniteSet(S \ {Pick(S)})
                        /\ SumOn(f, S) = f[Pick(S)] + SumOn(f, S \ {Pick(S)})
<1>1. IsFiniteSet(S \ {Pick(S)})
  BY FS_RemoveElement
<1>2. S # {} => Pick(S) \in S
  BY DEF Pick
<1>3. /\ \E sum : IsSum(f, S, sum)
      /\ \E sum : IsSum(f, S \ {Pick(S)}, sum)
  BY <1>1, SumExists
<1> QED BY <1>1, <1>2, <1>3, SumStep

\* Sums of numbers are numbers, and a sum of positive numbers is positive.
LEMMA SumType ==
    ASSUME NEW f, NEW D, IsFiniteSet(D), \A x \in D : f[x] \in Int
    PROVE  /\ SumOn(f, D) \in Int
           /\ (\A x \in D : f[x] >= 0) => SumOn(f, D) >= 0
           /\ (\A x \in D : f[x] > 0) /\ D # {} => SumOn(f, D) > 0
<1> DEFINE Typed(S) == /\ SumOn(f, S) \in Int
                       /\ (\A x \in D : f[x] >= 0) => SumOn(f, S) >= 0
                       /\ (\A x \in D : f[x] > 0) /\ S # {} => SumOn(f, S) > 0
           bad == {S \in SUBSET D : ~Typed(S)}
<1> SUFFICES bad = {}
  OBVIOUS
<1> SUFFICES ASSUME bad # {} PROVE FALSE
  OBVIOUS
<1>1. PICK T \in bad : \A U \in SUBSET T : U # T => U \notin bad
  <2>1. bad \in SUBSET (SUBSET D)
    OBVIOUS
  <2> HIDE DEF bad
  <2> QED BY <2>1, SmallestSet
<1>2. T \in SUBSET D /\ IsFiniteSet(T) /\ ~Typed(T)
  BY <1>1, FS_Subset
<1>3. T # {}
  <2>1. T = {} => SumOn(f, T) = 0
    BY <1>2, SumRule
  <2>2. T = {} => Typed(T)
    BY <2>1
  <2> QED BY <1>2, <2>2
<1>4. /\ Pick(T) \in T
      /\ SumOn(f, T) = f[Pick(T)] + SumOn(f, T \ {Pick(T)})
  BY <1>2, <1>3, SumRule
<1>5. Typed(T \ {Pick(T)})
  <2>1. T \ {Pick(T)} \in SUBSET T /\ T \ {Pick(T)} # T /\ T \ {Pick(T)} \in SUBSET D
    BY <1>2, <1>4
  <2> HIDE DEF Typed
  <2> QED BY <1>1, <2>1
<1>6. f[Pick(T)] \in Int
  BY <1>2, <1>4
<1>7. T \ {Pick(T)} = {} => SumOn(f, T \ {Pick(T)}) = 0
  BY SumRule, FS_EmptySet
<1> QED BY <1>2, <1>4, <1>5, <1>6, <1>7

\* A sum can be taken apart at any of its elements.
LEMMA SumTake ==
    ASSUME NEW f, NEW D, IsFiniteSet(D), \A x \in D : f[x] \in Int, NEW d \in D
    PROVE  SumOn(f, D) = f[d] + SumOn(f, D \ {d})
<1> DEFINE Apart(S) == \A x \in S : SumOn(f, S) = f[x] + SumOn(f, S \ {x})
           bad == {S \in SUBSET D : ~Apart(S)}
<1> SUFFICES bad = {}
  OBVIOUS
<1> SUFFICES ASSUME bad # {} PROVE FALSE
  OBVIOUS
<1>1. PICK T \in bad : \A U \in SUBSET T : U # T => U \notin bad
  <2>1. bad \in SUBSET (SUBSET D)
    OBVIOUS
  <2> HIDE DEF bad
  <2> QED BY <2>1, SmallestSet
<1>2. T \in SUBSET D /\ IsFiniteSet(T)
  BY <1>1, FS_Subset
<1>3. PICK x \in T : SumOn(f, T) # f[x] + SumOn(f, T \ {x})
  BY <1>1
<1> DEFINE p == Pick(T)
<1>4. p \in T /\ SumOn(f, T) = f[p] + SumOn(f, T \ {p})
  BY <1>2, <1>3, SumRule
<1> HIDE DEF p
<1>5. p # x
  BY <1>3, <1>4
<1>6. ASSUME NEW y \in T
      PROVE  \A z \in T \ {y} : SumOn(f, T \ {y}) = f[z] + SumOn(f, (T \ {y}) \ {z})
  <2>1. T \ {y} \in SUBSET T /\ T \ {y} # T /\ T \ {y} \in SUBSET D
    BY <1>2
  <2>2. Apart(T \ {y})
    <3> HIDE DEF Apart
    <3> QED BY <1>1, <2>1
  <2> QED BY <2>2
<1>7. /\ SumOn(f, T \ {p}) = f[x] + SumOn(f, (T \ {p}) \ {x})
      /\ SumOn(f, T \ {x}) = f[p] + SumOn(f, (T \ {x}) \ {p})
  BY <1>4, <1>5, <1>6
<1>8. (T \ {p}) \ {x} = (T \ {x}) \ {p}
  OBVIOUS
<1>9. f[p] \in Int /\ f[x] \in Int /\ SumOn(f, (T \ {x}) \ {p}) \in Int
  <2>1. (T \ {x}) \ {p} \in SUBSET D
    BY <1>2
  <2>2. IsFiniteSet((T \ {x}) \ {p}) /\ \A y \in (T \ {x}) \ {p} : f[y] \in Int
    BY <2>1, FS_Subset
  <2> QED BY <1>2, <1>4, <2>2, SumType
<1>10. PICK z \in Int : z = SumOn(f, (T \ {x}) \ {p})
  BY <1>9
<1>11. /\ SumOn(f, T) = f[p] + (f[x] + z)
       /\ f[x] + SumOn(f, T \ {x}) = f[x] + (f[p] + z)
  BY <1>4, <1>7, <1>8, <1>10
<1>12. f[p] + (f[x] + z) = f[x] + (f[p] + z)
  BY <1>9
<1> QED BY <1>3, <1>11, <1>12

\* A sum grows with what is summed.
LEMMA SumMonotone ==
    ASSUME NEW f, NEW g, NEW D, IsFiniteSet(D),
           \A x \in D : f[x] \in Int /\ g[x] \in Int /\ f[x] <= g[x]
    PROVE  SumOn(f, D) <= SumOn(g, D)
<1> DEFINE bad == {S \in SUBSET D : ~(SumOn(f, S) <= SumOn(g, S))}
<1> SUFFICES bad = {}
  OBVIOUS
<1> SUFFICES ASSUME bad # {} PROVE FALSE
  OBVIOUS
<1>1. PICK T \in bad : \A U \in SUBSET T : U # T => U \notin bad
  <2>1. bad \in SUBSET (SUBSET D)
    OBVIOUS
  <2> HIDE DEF bad
  <2> QED BY <2>1, SmallestSet
<1>2. T \in SUBSET D /\ IsFiniteSet(T) /\ ~(SumOn(f, T) <= SumOn(g, T))
  BY <1>1, FS_Subset
<1>3. T # {}
  <2>1. T = {} => SumOn(f, T) = 0 /\ SumOn(g, T) = 0
    BY <1>2, SumRule
  <2> QED BY <1>2, <2>1
<1> DEFINE p == Pick(T)
           rest == T \ {p}
<1>4. /\ p \in T /\ IsFiniteSet(rest)
      /\ SumOn(f, T) = f[p] + SumOn(f, rest) /\ SumOn(g, T) = g[p] + SumOn(g, rest)
  BY <1>2, <1>3, SumRule
<1>5. rest \in SUBSET T /\ rest # T /\ rest \in SUBSET D
  BY <1>2, <1>4
<1>6. SumOn(f, rest) <= SumOn(g, rest)
  BY <1>1, <1>5
<1>7. SumOn(f, rest) \in Int /\ SumOn(g, rest) \in Int
  <2>1. \A x \in rest : f[x] \in Int /\ g[x] \in Int
    BY <1>5
  <2> HIDE DEF rest
  <2> QED BY <1>4, <2>1, SumType
<1>8. f[p] \in Int /\ g[p] \in Int /\ f[p] <= g[p]
  BY <1>2, <1>4
<1> HIDE DEF rest, p
<1> QED BY <1>2, <1>4, <1>6, <1>7, <1>8

\* Sums of the same are the same.
LEMMA SumSame ==
    ASSUME NEW f, NEW g, NEW D, IsFiniteSet(D),
           \A x \in D : f[x] \in Int /\ g[x] = f[x]
    PROVE  SumOn(f, D) = SumOn(g, D)
<1>1. SumOn(f, D) <= SumOn(g, D) /\ SumOn(g, D) <= SumOn(f, D)
  BY SumMonotone
<1>2. SumOn(f, D) \in Int /\ SumOn(g, D) \in Int
  BY SumType
<1> QED BY <1>1, <1>2
----------------------------------------------------------------------------
(* Scores *)

\* A quotient of natural numbers, by what it is the greatest of.
LEMMA Quotient ==
    ASSUME NEW a \in Nat, NEW b \in Nat, b > 0
    PROVE  /\ a \div b \in Nat
           /\ b * (a \div b) <= a
           /\ a < b * (a \div b + 1)
<1>1. a \div b \in Int /\ a = b * (a \div b) + (a % b) /\ a % b \in 0..(b - 1)
  OBVIOUS
<1>2. b * (a \div b + 1) = b * (a \div b) + b
  BY <1>1
<1>3. a \div b >= 0
  BY <1>1
<1> QED BY <1>1, <1>2, <1>3

\* Products of natural numbers are natural numbers.
LEMMA Product ==
    ASSUME NEW a \in Nat, NEW b \in Nat
    PROVE  /\ a * b \in Nat
           /\ a > 0 /\ b > 0 => a * b > 0
OBVIOUS

\* The larger factor has the larger product.
LEMMA LargerProduct ==
    ASSUME NEW a \in Nat, NEW b \in Nat, NEW x \in Nat, a <= b
    PROVE  a * x <= b * x /\ a * x \in Nat /\ b * x \in Nat
<1>1. b - a \in Nat /\ b = a + (b - a)
  OBVIOUS
<1>2. (b - a) * x \in Nat
  BY <1>1, Product
<1>3. b * x = a * x + (b - a) * x
  BY <1>1
<1>4. a * x \in Nat /\ b * x \in Nat
  BY Product
<1> QED BY <1>2, <1>3, <1>4

\* A quotient grows with its numerator.
LEMMA LargerQuotient ==
    ASSUME NEW a \in Nat, NEW b \in Nat, NEW d \in Nat, d > 0, a <= b
    PROVE  a \div d <= b \div d
<1> DEFINE p == a \div d
           q == b \div d
<1>1. p \in Nat /\ q \in Nat /\ d * p <= a /\ b < d * (q + 1)
  BY Quotient
<1> HIDE DEF p, q
<1>2. ASSUME q + 1 <= p
      PROVE  FALSE
  <2>1. (q + 1) * d <= p * d /\ (q + 1) * d \in Nat /\ p * d \in Nat
    BY <1>1, <1>2, LargerProduct
  <2>2. (q + 1) * d = d * (q + 1) /\ p * d = d * p
    BY <1>1
  <2> QED BY <1>1, <2>1, <2>2
<1> QED BY <1>1, <1>2 DEF p, q

\* Marks of a student's week.
LEMMA CellType ==
    ASSUME NEW snap \in Snapshot, NEW s \in Students, NEW w \in Weeks, NEW c \in Criteria
    PROVE  /\ snap.marks[s][w][c] \in Cells
           /\ snap.marks[s][w][c] # NoMark => /\ snap.marks[s][w][c].earned \in Nat
                                              /\ snap.marks[s][w][c].possible \in Nat
           /\ snap.settings.weights[c] \in Nat
           /\ snap.hours[s][w] \in Nat
<1>1. /\ snap.marks[s][w][c] \in Cells
      /\ snap.settings.weights[c] \in Nat
      /\ snap.hours[s][w] \in HoursValues
  BY DEF Snapshot, Settings
<1> QED BY <1>1, RankingConstants DEF Cells

\* Nothing divides by zero points possible.
LEMMA NormalisedType ==
    ASSUME NEW mark \in Cells
    PROVE  Normalised(mark) \in Nat
<1>1. CASE mark = NoMark \/ mark.possible = 0
  BY <1>1 DEF Normalised
<1>2. CASE ~(mark = NoMark \/ mark.possible = 0)
  <2>1. mark.earned \in Nat /\ mark.possible \in Nat /\ mark.possible > 0
    BY <1>2, RankingConstants DEF Cells
  <2>2. TopScore \in Nat
    BY RankingConstants DEF TopScore
  <2>3. TopScore * mark.earned \in Nat
    BY <2>1, <2>2
  <2> QED BY <1>2, <2>1, <2>3, Quotient DEF Normalised
<1> QED BY <1>1, <1>2

\* What a week's score is the quotient of.
Points(snap, view, s, w) ==
    SumOn([c \in Present(snap, view, s, w) |->
             Normalised(snap.marks[s][w][c]) * snap.settings.weights[c]], Present(snap, view, s, w))

\* And what by.
Weight(snap, view, s, w) ==
    SumOn([c \in Present(snap, view, s, w) |-> snap.settings.weights[c]], Present(snap, view, s, w))

\* A week's score divides natural numbers, and never by zero in a week that has one.
LEMMA RawParts ==
    ASSUME NEW snap \in Snapshot, NEW view, view.criteria \subseteq Criteria,
           NEW s \in Students, NEW w \in Weeks
    PROVE  /\ Raw(snap, view, s, w) = Points(snap, view, s, w) \div Weight(snap, view, s, w)
           /\ Present(snap, view, s, w) \subseteq Criteria
           /\ IsFiniteSet(Present(snap, view, s, w))
           /\ Points(snap, view, s, w) \in Nat
           /\ Weight(snap, view, s, w) \in Nat
           /\ Present(snap, view, s, w) # {} => Weight(snap, view, s, w) > 0
<1> DEFINE present == Present(snap, view, s, w)
           points == [c \in present |-> Normalised(snap.marks[s][w][c]) * snap.settings.weights[c]]
           weights == [c \in present |-> snap.settings.weights[c]]
<1>1. Raw(snap, view, s, w) = SumFunction(points) \div SumFunction(weights)
  BY DEF Raw
<1>2. DOMAIN points = present /\ DOMAIN weights = present
  OBVIOUS
<1>3. SumFunction(points) = Points(snap, view, s, w) /\ SumFunction(weights) = Weight(snap, view, s, w)
  BY <1>2, SumFunctionIsSumOn, Zenon DEF Points, Weight
<1>4. present \subseteq Criteria /\ IsFiniteSet(present)
  <2>1. present \in SUBSET Criteria
    BY DEF Present
  <2> QED BY <2>1, FS_Subset, RankingConstants
<1>5. ASSUME NEW c \in present
      PROVE  /\ weights[c] \in Int /\ weights[c] > 0
             /\ points[c] \in Int /\ points[c] >= 0
  <2>1. snap.settings.weights[c] \in Nat /\ snap.settings.weights[c] > 0
    BY <1>4, CellType DEF Present
  <2>2. Normalised(snap.marks[s][w][c]) \in Nat
    BY <1>4, CellType, NormalisedType
  <2>3. Normalised(snap.marks[s][w][c]) * snap.settings.weights[c] \in Nat
    BY <2>1, <2>2, Product
  <2> QED BY <2>1, <2>3
<1> HIDE DEF present, points, weights
<1>6. SumOn(weights, present) \in Nat /\ (present # {} => SumOn(weights, present) > 0)
  <2>1. present = {} => SumOn(weights, present) = 0
    BY <1>4, SumRule
  <2> QED BY <1>4, <1>5, <2>1, SumType
<1>7. SumOn(points, present) \in Nat
  BY <1>4, <1>5, SumType
<1> QED BY <1>1, <1>3, <1>4, <1>6, <1>7 DEF Points, Weight, present, points, weights

\* So a week's score is a natural number.
LEMMA RawType ==
    ASSUME NEW snap \in Snapshot, NEW view, view.criteria \subseteq Criteria,
           NEW s \in Students, NEW w \in Weeks, Present(snap, view, s, w) # {}
    PROVE  Raw(snap, view, s, w) \in Nat
BY RawParts, Quotient

----------------------------------------------------------------------------
(* Sequences in a total order *)

\* Of two elements of S one comes first in R.
IsTotalOrder(S, R) ==
    /\ R \subseteq S \X S
    /\ \A x \in S : <<x, x>> \notin R
    /\ \A x, y, z \in S : <<x, y>> \in R /\ <<y, z>> \in R => <<x, z>> \in R
    /\ \A x, y \in S : x = y \/ <<x, y>> \in R \/ <<y, x>> \in R

\* What comes before x.
Ahead(S, R, x) == {y \in S : <<y, x>> \in R}

\* The elements in that order.
Arranged(S, R) == [i \in 1..Cardinality(S) |-> CHOOSE x \in S : Cardinality(Ahead(S, R, x)) = i - 1]

\* An element has as many before it as its place says, and every place is taken.
LEMMA EveryPlaceTaken ==
    ASSUME NEW S, IsFiniteSet(S), NEW R, IsTotalOrder(S, R)
    PROVE  /\ Cardinality(S) \in Nat
           /\ \A x \in S : Cardinality(Ahead(S, R, x)) + 1 \in 1..Cardinality(S)
           /\ \A x, y \in S : <<x, y>> \in R => Cardinality(Ahead(S, R, x)) < Cardinality(Ahead(S, R, y))
           /\ \A i \in 1..Cardinality(S) : \E x \in S : Cardinality(Ahead(S, R, x)) = i - 1
<1> DEFINE n == Cardinality(S)
           ahead(x) == Ahead(S, R, x)
           place == [x \in S |-> Cardinality(ahead(x)) + 1]
<1>1. n \in Nat
  BY FS_CardinalityType
<1>2. ASSUME NEW x \in S
      PROVE  IsFiniteSet(ahead(x)) /\ Cardinality(ahead(x)) \in Nat /\ Cardinality(ahead(x)) < n
  <2>1. ahead(x) \in SUBSET S /\ ahead(x) # S
    BY DEF IsTotalOrder, Ahead
  <2>2. IsFiniteSet(ahead(x)) /\ Cardinality(ahead(x)) <= n /\ Cardinality(ahead(x)) # n
    BY <2>1, FS_Subset
  <2>3. Cardinality(ahead(x)) \in Nat
    BY <2>2, FS_CardinalityType
  <2> HIDE DEF n, ahead
  <2> QED BY <1>1, <2>2, <2>3
<1>3. ASSUME NEW x \in S, NEW y \in S, <<x, y>> \in R
      PROVE  Cardinality(ahead(x)) < Cardinality(ahead(y))
  <2>1. ahead(x) \in SUBSET ahead(y)
    BY <1>3 DEF IsTotalOrder, Ahead
  <2>2. ahead(x) # ahead(y)
    BY <1>3 DEF IsTotalOrder, Ahead
  <2>3. IsFiniteSet(ahead(y)) /\ Cardinality(ahead(x)) \in Nat /\ Cardinality(ahead(y)) \in Nat
    BY <1>2
  <2> HIDE DEF ahead
  <2>4. Cardinality(ahead(x)) <= Cardinality(ahead(y)) /\ Cardinality(ahead(x)) # Cardinality(ahead(y))
    BY <2>1, <2>2, <2>3, FS_Subset
  <2> QED BY <2>3, <2>4
<1>4. place \in Injection(S, 1..n)
  <2>1. ASSUME NEW x \in S
        PROVE  place[x] \in 1..n /\ place[x] = Cardinality(ahead(x)) + 1
    <3> HIDE DEF n, ahead
    <3> QED BY <1>1, <1>2
  <2>2. ASSUME NEW x \in S, NEW y \in S, place[x] = place[y]
        PROVE  x = y
    <3>1. Cardinality(ahead(x)) = Cardinality(ahead(y))
      <4> HIDE DEF ahead, place
      <4> QED BY <1>2, <2>1, <2>2
    <3>2. <<x, y>> \notin R /\ <<y, x>> \notin R
      <4> HIDE DEF ahead
      <4> QED BY <1>2, <1>3, <3>1
    <3> QED BY <3>2 DEF IsTotalOrder
  <2>3. place \in [S -> 1..n] /\ DOMAIN place = S
    BY <2>1
  <2> HIDE DEF place
  <2> QED BY <2>2, <2>3 DEF Injection, IsInjective
<1>5. IsFiniteSet(1..n) /\ Cardinality(1..n) = n
  <2> HIDE DEF n
  <2> QED BY <1>1, FS_Interval
<1>6. place \in Surjection(S, 1..n)
  <2> HIDE DEF place
  <2> QED BY <1>4, <1>5, FS_Injection
<1>7. ASSUME NEW i \in 1..n
      PROVE  \E x \in S : Cardinality(ahead(x)) = i - 1
  <2>1. PICK x \in S : place[x] = i
    <3> HIDE DEF place, n
    <3> QED BY <1>6, Zenon DEF Surjection
  <2>2. Cardinality(ahead(x)) + 1 = i
    BY <2>1
  <2> HIDE DEF ahead
  <2> QED BY <1>2, <2>2
<1>8. \A x \in S : Cardinality(ahead(x)) + 1 \in 1..n
  <2> HIDE DEF ahead, n
  <2> QED BY <1>1, <1>2
<1> QED BY <1>1, <1>3, <1>7, <1>8

\* Such a sequence lists the set, every element once and in order.
LEMMA ArrangedInOrder ==
    ASSUME NEW S, IsFiniteSet(S), NEW R, IsTotalOrder(S, R)
    PROVE  /\ Cardinality(S) \in Nat
           /\ DOMAIN Arranged(S, R) = 1..Cardinality(S)
           /\ \A i \in 1..Cardinality(S) : /\ Arranged(S, R)[i] \in S
                                           /\ Cardinality(Ahead(S, R, Arranged(S, R)[i])) = i - 1
           /\ \A x \in S : /\ Cardinality(Ahead(S, R, x)) + 1 \in 1..Cardinality(S)
                           /\ Arranged(S, R)[Cardinality(Ahead(S, R, x)) + 1] = x
           /\ \A i, j \in 1..Cardinality(S) : <<Arranged(S, R)[i], Arranged(S, R)[j]>> \in R <=> i < j
<1> DEFINE n == Cardinality(S)
           many(x) == Cardinality(Ahead(S, R, x))
           seq == Arranged(S, R)
<1>1. /\ n \in Nat
      /\ \A x \in S : many(x) + 1 \in 1..n
      /\ \A x, y \in S : <<x, y>> \in R => many(x) < many(y)
      /\ \A i \in 1..n : \E x \in S : many(x) = i - 1
  BY EveryPlaceTaken, Zenon
<1>2. \A x \in S : many(x) \in Nat
  <2>1. \A x \in S : Ahead(S, R, x) \in SUBSET S
    BY DEF Ahead
  <2>2. \A x \in S : IsFiniteSet(Ahead(S, R, x))
    BY <2>1, FS_Subset
  <2> QED BY <2>2, FS_CardinalityType
<1>3. seq = [i \in 1..n |-> CHOOSE x \in S : many(x) = i - 1]
  BY DEF Arranged
<1> HIDE DEF n, many, seq
<1>4. ASSUME NEW i \in 1..n
      PROVE  seq[i] \in S /\ many(seq[i]) = i - 1
  <2>1. \E x \in S : many(x) = i - 1
    BY <1>1
  <2> QED BY <1>3, <2>1
<1>5. ASSUME NEW x \in S, NEW y \in S, many(x) = many(y)
      PROVE  x = y
  <2>1. <<x, y>> \notin R /\ <<y, x>> \notin R
    BY <1>1, <1>2, <1>5
  <2> QED BY <2>1 DEF IsTotalOrder
<1>6. ASSUME NEW x \in S
      PROVE  seq[many(x) + 1] = x
  <2>1. PICK k \in 1..n : k = many(x) + 1
    BY <1>1
  <2>2. seq[k] \in S /\ many(seq[k]) = k - 1
    BY <1>4
  <2>3. k - 1 = many(x)
    BY <1>2, <2>1
  <2> QED BY <1>5, <2>1, <2>2, <2>3
<1>7. ASSUME NEW i \in 1..n, NEW j \in 1..n
      PROVE  <<seq[i], seq[j]>> \in R <=> i < j
  <2>1. seq[i] \in S /\ seq[j] \in S /\ many(seq[i]) = i - 1 /\ many(seq[j]) = j - 1
    BY <1>4
  <2>2. <<seq[i], seq[j]>> \in R => i < j
    <3>1. <<seq[i], seq[j]>> \in R => many(seq[i]) < many(seq[j])
      BY <1>1, <2>1
    <3> QED BY <1>1, <2>1, <3>1
  <2>3. <<seq[j], seq[i]>> \in R => j < i
    <3>1. <<seq[j], seq[i]>> \in R => many(seq[j]) < many(seq[i])
      BY <1>1, <2>1
    <3> QED BY <1>1, <2>1, <3>1
  <2>4. seq[i] = seq[j] => i = j
    BY <1>1, <2>1
  <2>5. seq[i] = seq[j] \/ <<seq[i], seq[j]>> \in R \/ <<seq[j], seq[i]>> \in R
    BY <2>1 DEF IsTotalOrder
  <2>6. i < j => ~(j < i) /\ i # j
    BY <1>1
  <2> QED BY <2>2, <2>3, <2>4, <2>5, <2>6
<1>8. DOMAIN seq = 1..n
  BY <1>3
<1> QED BY <1>1, <1>4, <1>6, <1>7, <1>8 DEF n, many, seq

\* Weeks in their order.
Earlier(S) == {p \in S \X S : p[1] < p[2]}

\* It is total.
LEMMA EarlierIsTotal ==
    ASSUME NEW S \in SUBSET Int
    PROVE  IsTotalOrder(S, Earlier(S))
BY DEF IsTotalOrder, Earlier

\* InOrder lists weeks in it.
LEMMA WeeksInOrder ==
    ASSUME NEW S
    PROVE  InOrder(S, <) = Arranged(S, Earlier(S))
<1>1. \A x \in S : Ahead(S, Earlier(S), x) = {y \in S : y < x}
  BY DEF Ahead, Earlier
<1>2. \A i, x : (x \in S /\ Cardinality({y \in S : y < x}) = i - 1)
                <=> (x \in S /\ Cardinality(Ahead(S, Earlier(S), x)) = i - 1)
  BY <1>1
<1> DEFINE here(i) == CHOOSE x \in S : Cardinality({y \in S : y < x}) = i - 1
           there(i) == CHOOSE x \in S : Cardinality(Ahead(S, Earlier(S), x)) = i - 1
<1>3. \A i : here(i) = there(i)
  BY <1>2, Zenon
<1>4. /\ InOrder(S, <) = [i \in 1..Cardinality(S) |-> here(i)]
      /\ Arranged(S, Earlier(S)) = [i \in 1..Cardinality(S) |-> there(i)]
  BY Zenon DEF InOrder, Arranged
<1> HIDE DEF here, there
<1> QED BY <1>3, <1>4

\* Rows in the order of the table.
AboveIn(S) == {p \in S \X S : Above(p[1], p[2])}

\* InOrder lists rows in it.
LEMMA RowsInOrder ==
    ASSUME NEW S
    PROVE  InOrder(S, Above) = Arranged(S, AboveIn(S))
<1>1. \A x \in S : Ahead(S, AboveIn(S), x) = {y \in S : Above(y, x)}
  BY DEF Ahead, AboveIn
<1>2. \A i, x : (x \in S /\ Cardinality({y \in S : Above(y, x)}) = i - 1)
                <=> (x \in S /\ Cardinality(Ahead(S, AboveIn(S), x)) = i - 1)
  BY <1>1
<1> DEFINE here(i) == CHOOSE x \in S : Cardinality({y \in S : Above(y, x)}) = i - 1
           there(i) == CHOOSE x \in S : Cardinality(Ahead(S, AboveIn(S), x)) = i - 1
<1>3. \A i : here(i) = there(i)
  BY <1>2, Zenon
<1>4. /\ InOrder(S, Above) = [i \in 1..Cardinality(S) |-> here(i)]
      /\ Arranged(S, AboveIn(S)) = [i \in 1..Cardinality(S) |-> there(i)]
  BY Zenon DEF InOrder, Arranged
<1> HIDE DEF here, there
<1> QED BY <1>3, <1>4

----------------------------------------------------------------------------
(* Rows of a table *)

\* What a view is: any week, mode and criteria.
AView == [week : Weeks, mode : {"week", "rolling", "cumulative"}, criteria : SUBSET Criteria]

\* The factor of a week is a natural number.
LEMMA FactorType ==
    ASSUME NEW snap \in Snapshot, NEW s \in Students, NEW w \in Weeks
    PROVE  Factor(snap, s, w) \in Nat
<1>1. snap.settings.rate \in Nat /\ snap.settings.cap \in Nat /\ snap.hours[s][w] \in Nat
  <2>1. snap.settings \in Settings /\ snap.hours[s][w] \in HoursValues
    BY DEF Snapshot
  <2> QED BY <2>1, RankingConstants DEF Settings
<1>2. snap.settings.rate * snap.hours[s][w] \in Nat
  BY <1>1, Product
<1> QED BY <1>1, <1>2 DEF Factor, Lesser

\* So is the adjusted score of a week that has one.
LEMMA AdjustedType ==
    ASSUME NEW snap \in Snapshot, NEW view, view.criteria \subseteq Criteria,
           NEW s \in Students, NEW w \in Weeks, Present(snap, view, s, w) # {}
    PROVE  Adjusted(snap, view, s, w) \in Nat
<1>1. Raw(snap, view, s, w) * Factor(snap, s, w) \in Nat
  BY RawType, FactorType, Product
<1>2. (Raw(snap, view, s, w) * Factor(snap, s, w)) \div 100 \in Nat
  BY <1>1, Quotient
<1>3. TopScore \in Nat
  BY RankingConstants DEF TopScore
<1> QED BY <1>2, <1>3 DEF Adjusted, Lesser

\* And a rounded mean.
LEMMA Round1Type ==
    ASSUME NEW total \in Nat, NEW n \in Nat, n > 0
    PROVE  Round1(total, n) \in Nat
<1>1. Unit * n \in Nat /\ Unit * n > 0 /\ 20 * total \in Nat
  BY Product, RankingConstants
<1>2. 2 * Unit * n = 2 * (Unit * n)
  BY RankingConstants
<1>3. 2 * Unit * n \in Nat /\ 2 * Unit * n > 0
  BY <1>1, <1>2
<1> QED BY <1>1, <1>3, Quotient DEF Round1

\* A set of numbers with a bound has a greatest, and Max is it.
LEMMA GreatestOf ==
    ASSUME NEW n \in Nat, NEW S \in SUBSET (0..n), S # {}
    PROVE  Max(S) \in S /\ \A i \in S : i <= Max(S)
<1> DEFINE above == {n - i : i \in S}
<1>1. above \in SUBSET Nat /\ above # {}
  OBVIOUS
<1>2. PICK m \in above : \A k \in above : <<k, m>> \notin OpToRel(<, Nat)
  BY <1>1, WFMin, NatLessThanWellFounded, Zenon
<1>3. \A k \in above : ~(k < m)
  <2> HIDE DEF above
  <2>1. \A k \in above : k \in Nat /\ m \in Nat
    BY <1>1
  <2> QED BY <1>2, <2>1, Zenon DEF OpToRel
<1>4. PICK i \in S : m = n - i
  OBVIOUS
<1>5. \A j \in S : i >= j
  <2> SUFFICES ASSUME NEW j \in S PROVE i >= j
    OBVIOUS
  <2>1. n - j \in above
    OBVIOUS
  <2>2. ~(n - j < n - i)
    <3> HIDE DEF above
    <3> QED BY <1>3, <1>4, <2>1
  <2>3. i \in Int /\ j \in Int
    OBVIOUS
  <2> QED BY <2>2, <2>3
<1> HIDE DEF above
<1>6. Max(S) \in S /\ \A j \in S : Max(S) >= j
  BY <1>5 DEF Max
<1> QED BY <1>6

\* A set of natural numbers has a least, and Min is it.
LEMMA LeastOf ==
    ASSUME NEW S \in SUBSET Nat, S # {}
    PROVE  Min(S) \in S /\ \A i \in S : Min(S) <= i
<1>1. PICK m \in S : \A k \in S : <<k, m>> \notin OpToRel(<, Nat)
  BY WFMin, NatLessThanWellFounded, Zenon
<1>2. \A k \in S : ~(k < m)
  BY <1>1, Zenon DEF OpToRel
<1>3. \A k \in S : m =< k
  BY <1>2
<1>4. Min(S) \in S /\ \A k \in S : Min(S) =< k
  BY <1>3 DEF Min
<1> QED BY <1>4

\* The weeks that count for a student in a view.
LEMMA WeeksOfView ==
    ASSUME NEW snap \in Snapshot, NEW view \in AView, NEW s \in Students
    PROVE  /\ Window(view.week, view.mode) \subseteq Weeks
           /\ ScoredWeeks(snap, view, s) \subseteq Weeks
           /\ IsFiniteSet(ScoredWeeks(snap, view, s))
           /\ \A w \in ScoredWeeks(snap, view, s) : Present(snap, view, s, w) # {}
<1>1. view.week \in Weeks /\ view.mode \in {"week", "rolling", "cumulative"}
  BY DEF AView
<1>2. NumWeeks \in Nat /\ RollingN \in Nat /\ RollingN > 0
  BY RankingConstants
<1>3. Window(view.week, view.mode) \subseteq Weeks
  <2>1. CASE view.mode = "cumulative"
    BY <1>1, <1>2, <2>1 DEF Window, Weeks
  <2>2. CASE view.mode = "rolling"
    <3>1. Window(view.week, view.mode) = Larger(1, view.week + 1 - RollingN) .. view.week
      BY <2>2 DEF Window
    <3>2. Larger(1, view.week + 1 - RollingN) \in Int /\ Larger(1, view.week + 1 - RollingN) >= 1
      BY <1>1, <1>2 DEF Larger, Weeks
    <3> QED BY <1>1, <1>2, <3>1, <3>2 DEF Weeks
  <2>3. CASE view.mode = "week"
    BY <1>1, <2>3 DEF Window
  <2> QED BY <1>1, <2>1, <2>2, <2>3
<1>4. ScoredWeeks(snap, view, s) \in SUBSET Weeks
  BY <1>3 DEF ScoredWeeks
<1>5. IsFiniteSet(Weeks)
  BY <1>2, FS_Interval DEF Weeks
<1>6. IsFiniteSet(ScoredWeeks(snap, view, s))
  BY <1>4, <1>5, FS_Subset
<1> QED BY <1>3, <1>4, <1>6 DEF ScoredWeeks

\* The mean of a student's weeks, rounded.
MeanOf(snap, view, s, score) ==
    Round1(SumOn(score, ScoredWeeks(snap, view, s)), Cardinality(ScoredWeeks(snap, view, s)))

\* The mean of scores is a natural number.
LEMMA MeanType ==
    ASSUME NEW snap \in Snapshot, NEW view \in AView, NEW s \in Students,
           ScoredWeeks(snap, view, s) # {},
           NEW score, \A w \in ScoredWeeks(snap, view, s) : score[w] \in Nat
    PROVE  MeanOf(snap, view, s, score) \in Nat
<1> DEFINE weeks == ScoredWeeks(snap, view, s)
<1>1. IsFiniteSet(weeks)
  BY WeeksOfView
<1>2. SumOn(score, weeks) \in Nat
  BY <1>1, SumType
<1>3. Cardinality(weeks) \in Nat /\ Cardinality(weeks) > 0
  BY <1>1, FS_CardinalityType, FS_EmptySet
<1> QED BY <1>2, <1>3, Round1Type DEF MeanOf

\* What a row is: a student, a score and as many keys as there are tie-breakers and two,
\* of which the score is the first.
ARow(snap) ==
    [student : Students, score : Nat, key : [1..(Len(snap.settings.tieBreakers) + 2) -> Int]]

\* Every student with a score in the view has such a row.
LEMMA RowType ==
    ASSUME NEW snap \in Snapshot, NEW view \in AView, NEW s \in Students,
           ScoredWeeks(snap, view, s) # {}
    PROVE  /\ Row(snap, view, s) \in ARow(snap)
           /\ Row(snap, view, s).student = s
           /\ Row(snap, view, s).key[1] = Row(snap, view, s).score
<1> DEFINE weeks == ScoredWeeks(snap, view, s)
           n == Cardinality(weeks)
           adjusted == [w \in weeks |-> Adjusted(snap, view, s, w)]
           raw == [w \in weeks |-> Raw(snap, view, s, w)]
           last == snap.marks[s][Max(weeks)]
           norm(c) == IF c \in view.criteria /\ last[c] # NoMark /\ last[c].possible > 0
                      THEN Normalised(last[c]) ELSE -1
           tie == snap.settings.tieBreakers
           broken == [i \in DOMAIN tie |-> norm(tie[i])]
           mean == MeanOf(snap, view, s, adjusted)
           meanRaw == MeanOf(snap, view, s, raw)
<1>1. SumFunction(adjusted) = SumOn(adjusted, weeks) /\ SumFunction(raw) = SumOn(raw, weeks)
  <2>1. DOMAIN adjusted = weeks /\ DOMAIN raw = weeks
    OBVIOUS
  <2> HIDE DEF adjusted, raw, weeks
  <2> QED BY <2>1, SumFunctionIsSumOn
<1>2. Row(snap, view, s) = [student |-> s, score |-> mean, key |-> <<mean, meanRaw>> \o broken]
  BY <1>1 DEF Row, MeanOf
<1>3. view.criteria \subseteq Criteria /\ weeks \subseteq Weeks
  BY WeeksOfView DEF AView
<1>4. \A w \in weeks : adjusted[w] \in Nat /\ raw[w] \in Nat
  BY <1>3, WeeksOfView, AdjustedType, RawType
<1>5. mean \in Nat /\ meanRaw \in Nat
  <2> HIDE DEF adjusted, raw
  <2> QED BY <1>4, MeanType
<1>6. Max(weeks) \in Weeks
  <2>1. weeks \in SUBSET (0..NumWeeks) /\ NumWeeks \in Nat
    BY <1>3, RankingConstants DEF Weeks
  <2>2. Max(weeks) \in weeks
    BY <2>1, GreatestOf
  <2> QED BY <1>3, <2>2
<1>7. \A c \in Criteria : norm(c) \in Int
  <2> SUFFICES ASSUME NEW c \in Criteria PROVE norm(c) \in Int
    OBVIOUS
  <2>1. last[c] \in Cells
    BY <1>6, CellType
  <2>2. Normalised(last[c]) \in Nat
    BY <2>1, NormalisedType
  <2> QED BY <2>2
<1>8. tie \in Seq(Criteria)
  BY DEF Snapshot, Settings
<1> HIDE DEF mean, meanRaw, norm
<1>9. broken \in Seq(Int) /\ Len(broken) = Len(tie) /\ Len(tie) \in Nat
  <2>1. DOMAIN tie = 1..Len(tie) /\ Len(tie) \in Nat /\ \A i \in DOMAIN tie : tie[i] \in Criteria
    BY <1>8
  <2>2. \A i \in 1..Len(tie) : norm(tie[i]) \in Int
    BY <1>7, <2>1
  <2>3. broken = [i \in 1..Len(tie) |-> norm(tie[i])]
    BY <2>1
  <2> QED BY <2>1, <2>2, <2>3
<1> HIDE DEF tie, broken
<1>10. <<mean, meanRaw>> \o broken \in [1..(Len(tie) + 2) -> Int] /\ (<<mean, meanRaw>> \o broken)[1] = mean
  <2>1. <<mean, meanRaw>> \in Seq(Int) /\ Len(<<mean, meanRaw>>) = 2
    BY <1>5
  <2>2. <<mean, meanRaw>> \o broken \in Seq(Int) /\ Len(<<mean, meanRaw>> \o broken) = Len(tie) + 2
    BY <1>9, <2>1
  <2>3. (<<mean, meanRaw>> \o broken)[1] = mean
    BY <1>9, <2>1
  <2> DEFINE key == <<mean, meanRaw>> \o broken
  <2>4. key \in Seq(Int) /\ Len(key) = Len(tie) + 2
    BY <2>2
  <2> HIDE DEF key
  <2>5. key \in [1..Len(key) -> Int]
    BY <2>4
  <2> QED BY <2>3, <2>4, <2>5 DEF key
<1> DEFINE key == <<mean, meanRaw>> \o broken
           row == Row(snap, view, s)
<1>11. row = [student |-> s, score |-> mean, key |-> key]
  BY <1>2
<1>12. key \in [1..(Len(tie) + 2) -> Int] /\ key[1] = mean
  BY <1>10
<1>13. key \in [1..(Len(snap.settings.tieBreakers) + 2) -> Int]
  BY <1>12 DEF tie
<1> HIDE DEF key, row
<1>14. row.student = s /\ row.key[1] = row.score
  BY <1>11, <1>12
<1>15. row \in ARow(snap)
  BY <1>5, <1>11, <1>13 DEF ARow
<1> QED BY <1>14, <1>15 DEF row

----------------------------------------------------------------------------
(* The order of the rows *)

\* Above, without its two least positions.
Beats(K, r, q) ==
    \/ \E d \in 1..K : /\ r.key[d] > q.key[d]
                       /\ \A e \in 1..K : e < d => r.key[e] = q.key[e]
    \/ /\ \A e \in 1..K : r.key[e] = q.key[e]
       /\ r.student < q.student

\* Above is that order.
LEMMA AboveBeats ==
    ASSUME NEW K \in Nat, NEW r, NEW q, r.key \in [1..K -> Int], q.key \in [1..K -> Int]
    PROVE  Above(r, q) <=> Beats(K, r, q)
<1> DEFINE differ == {i \in DOMAIN r.key : r.key[i] # q.key[i]}
<1>1. differ \in SUBSET Nat /\ differ \in SUBSET (1..K)
      /\ \A i \in 1..K : i \in differ <=> r.key[i] # q.key[i]
  OBVIOUS
<1>2. Above(r, q) <=> IF differ = {} THEN r.student < q.student
                      ELSE r.key[Min(differ)] > q.key[Min(differ)]
  BY DEF Above
<1> HIDE DEF differ
<1>3. CASE differ = {}
  <2>1. \A e \in 1..K : r.key[e] = q.key[e]
    BY <1>1, <1>3
  <2>2. \A d \in 1..K : ~(r.key[d] > q.key[d])
    BY <2>1
  <2> QED BY <1>2, <1>3, <2>1, <2>2 DEF Beats
<1>4. CASE differ # {}
  <2>1. PICK m \in differ : m = Min(differ) /\ \A i \in differ : m <= i
    BY <1>1, <1>4, LeastOf
  <2>2. m \in 1..K /\ r.key[m] # q.key[m]
    BY <1>1, <2>1
  <2>3. \A e \in 1..K : e < m => r.key[e] = q.key[e]
    <3> SUFFICES ASSUME NEW e \in 1..K, e < m, r.key[e] # q.key[e] PROVE FALSE
      OBVIOUS
    <3>1. m <= e
      BY <1>1, <2>1
    <3> QED BY <2>2, <3>1
  <2>4. ASSUME Beats(K, r, q)
        PROVE  r.key[m] > q.key[m]
    <3>1. PICK d \in 1..K : /\ r.key[d] > q.key[d]
                            /\ \A e \in 1..K : e < d => r.key[e] = q.key[e]
      BY <2>2, <2>4 DEF Beats
    <3>2. d \in differ
      BY <1>1, <3>1
    <3>3. ~(m < d)
      BY <2>2, <3>1
    <3>4. m = d
      BY <2>1, <2>2, <3>2, <3>3
    <3> QED BY <3>1, <3>4
  <2>5. r.key[m] > q.key[m] => Beats(K, r, q)
    BY <2>2, <2>3 DEF Beats
  <2> QED BY <1>2, <1>4, <2>1, <2>4, <2>5
<1> QED BY <1>3, <1>4

\* It is transitive.
LEMMA BeatsTransitive ==
    ASSUME NEW K \in Nat, NEW r, NEW q, NEW t,
           r.key \in [1..K -> Int], q.key \in [1..K -> Int], t.key \in [1..K -> Int],
           r.student \in Int, q.student \in Int, t.student \in Int,
           Beats(K, r, q), Beats(K, q, t)
    PROVE  Beats(K, r, t)
<1>1. CASE /\ \A e \in 1..K : r.key[e] = q.key[e]
           /\ r.student < q.student
  <2>1. CASE \E d \in 1..K : /\ q.key[d] > t.key[d]
                             /\ \A e \in 1..K : e < d => q.key[e] = t.key[e]
    BY <1>1, <2>1 DEF Beats
  <2>2. CASE (\A e \in 1..K : q.key[e] = t.key[e]) /\ q.student < t.student
    <3>1. \A e \in 1..K : r.key[e] = t.key[e]
      BY <1>1, <2>2
    <3>2. r.student < t.student
      BY <1>1, <2>2
    <3> QED BY <3>1, <3>2 DEF Beats
  <2> QED BY <2>1, <2>2 DEF Beats
<1>2. ASSUME NEW d \in 1..K, r.key[d] > q.key[d], \A e \in 1..K : e < d => r.key[e] = q.key[e]
      PROVE  Beats(K, r, t)
  <2>1. CASE \A e \in 1..K : q.key[e] = t.key[e]
    BY <1>2, <2>1 DEF Beats
  <2>2. ASSUME NEW c \in 1..K, q.key[c] > t.key[c], \A e \in 1..K : e < c => q.key[e] = t.key[e]
        PROVE  Beats(K, r, t)
    <3>1. CASE d < c
      <4>1. r.key[d] > t.key[d]
        BY <1>2, <2>2, <3>1
      <4>2. \A e \in 1..K : e < d => r.key[e] = t.key[e]
        <5> SUFFICES ASSUME NEW e \in 1..K, e < d PROVE r.key[e] = t.key[e]
          OBVIOUS
        <5>1. e < c
          BY <3>1
        <5> QED BY <1>2, <2>2, <5>1
      <4> QED BY <4>1, <4>2 DEF Beats
    <3>2. CASE ~(d < c)
      <4>1. r.key[c] > t.key[c]
        <5>1. r.key[c] >= q.key[c]
          BY <1>2, <3>2
        <5>2. r.key[c] \in Int /\ q.key[c] \in Int /\ t.key[c] \in Int
          OBVIOUS
        <5> QED BY <2>2, <5>1, <5>2
      <4>2. \A e \in 1..K : e < c => r.key[e] = t.key[e]
        <5> SUFFICES ASSUME NEW e \in 1..K, e < c PROVE r.key[e] = t.key[e]
          OBVIOUS
        <5>1. e < d
          BY <3>2
        <5> QED BY <1>2, <2>2, <5>1
      <4> QED BY <4>1, <4>2 DEF Beats
    <3> QED BY <3>1, <3>2
  <2> QED BY <2>1, <2>2 DEF Beats
<1> QED BY <1>1, <1>2 DEF Beats

\* Two rows are in order one way or the other.
LEMMA BeatsTotal ==
    ASSUME NEW K \in Nat, NEW r, NEW q, r.key \in [1..K -> Int], q.key \in [1..K -> Int],
           r.student \in Int, q.student \in Int
    PROVE  /\ ~Beats(K, r, r)
           /\ r.student # q.student => Beats(K, r, q) \/ Beats(K, q, r)
<1>1. ~Beats(K, r, r)
  BY DEF Beats
<1>2. CASE \A e \in 1..K : r.key[e] = q.key[e]
  BY <1>2 DEF Beats
<1>3. CASE \E e \in 1..K : r.key[e] # q.key[e]
  <2> DEFINE differ == {e \in 1..K : r.key[e] # q.key[e]}
  <2>1. differ \in SUBSET Nat /\ differ # {}
    BY <1>3
  <2>2. PICK m \in differ : \A i \in differ : m <= i
    BY <2>1, LeastOf
  <2>3. \A e \in 1..K : e < m => r.key[e] = q.key[e]
    BY <2>2
  <2>4. r.key[m] > q.key[m] \/ q.key[m] > r.key[m]
    OBVIOUS
  <2> QED BY <2>3, <2>4 DEF Beats
<1> QED BY <1>1, <1>2, <1>3

\* What is used of a table's rows: one per student, by falling scores.
IsTable(rows, n) ==
    /\ DOMAIN rows = 1..n
    /\ \A i \in 1..n : rows[i].score \in Nat /\ rows[i].student \in Students
    /\ \A i, j \in 1..n : i < j => rows[i].score >= rows[j].score
    /\ \A i, j \in 1..n : rows[i].student = rows[j].student => i = j

\* The rows of a view are finitely many, one per student.
LEMMA RowsOfView ==
    ASSUME NEW snap \in Snapshot, NEW view \in AView
    PROVE  /\ IsFiniteSet(Rows(snap, view))
           /\ Rows(snap, view) \subseteq ARow(snap)
           /\ \A r \in Rows(snap, view) :
                 /\ ScoredWeeks(snap, view, r.student) # {}
                 /\ r = Row(snap, view, r.student)
                 /\ r.key[1] = r.score
<1> DEFINE U == {u \in Students : ScoredWeeks(snap, view, u) # {}}
           row == [u \in U |-> Row(snap, view, u)]
<1>1. IsFiniteSet(U)
  <2>1. IsFiniteSet(Students)
    BY RankingConstants, FS_Interval DEF Students
  <2> QED BY <2>1, FS_Subset
<1>2. Rows(snap, view) = {Row(snap, view, u) : u \in U}
  BY DEF Rows
<1>3. row \in Surjection(U, Rows(snap, view))
  <2>1. row \in [U -> Rows(snap, view)]
    BY <1>2
  <2>2. \A r \in Rows(snap, view) : \E u \in U : row[u] = r
    BY <1>2
  <2> HIDE DEF row
  <2> QED BY <2>1, <2>2 DEF Surjection
<1>4. IsFiniteSet(Rows(snap, view))
  BY <1>1, <1>3, FS_Surjection
<1>5. ASSUME NEW r \in Rows(snap, view)
      PROVE  /\ r \in ARow(snap)
             /\ ScoredWeeks(snap, view, r.student) # {}
             /\ r = Row(snap, view, r.student)
             /\ r.key[1] = r.score
  <2>1. PICK u \in U : r = Row(snap, view, u)
    BY <1>2
  <2> QED BY <2>1, RowType
<1> QED BY <1>4, <1>5

\* Of two rows of a view, exactly one is above the other: names break the last tie.
LEMMA AboveIsTotal ==
    ASSUME NEW snap \in Snapshot, NEW view \in AView
    PROVE  IsTotalOrder(Rows(snap, view), AboveIn(Rows(snap, view)))
<1> DEFINE S == Rows(snap, view)
           K == Len(snap.settings.tieBreakers) + 2
<1>1. K \in Nat
  <2>1. snap.settings.tieBreakers \in Seq(Criteria)
    BY DEF Snapshot, Settings
  <2> QED BY <2>1
<1>2. \A r \in S : r.key \in [1..K -> Int] /\ r.student \in Int
  <2>1. \A r \in S : r \in ARow(snap)
    BY RowsOfView
  <2> QED BY <2>1 DEF ARow, Students
<1>3. \A r, q \in S : r.student = q.student => r = q
  BY RowsOfView
<1> HIDE DEF K, S
<1>4. \A r, q \in S : <<r, q>> \in AboveIn(S) <=> Beats(K, r, q)
  <2>1. \A r, q \in S : <<r, q>> \in AboveIn(S) <=> Above(r, q)
    BY DEF AboveIn
  <2> QED BY <1>1, <1>2, <2>1, AboveBeats
<1>5. \A r \in S : <<r, r>> \notin AboveIn(S)
  BY <1>1, <1>2, <1>4, BeatsTotal
<1>6. \A x, y, z \in S : <<x, y>> \in AboveIn(S) /\ <<y, z>> \in AboveIn(S) => <<x, z>> \in AboveIn(S)
  BY <1>1, <1>2, <1>4, BeatsTransitive
<1>7. \A x, y \in S : x = y \/ <<x, y>> \in AboveIn(S) \/ <<y, x>> \in AboveIn(S)
  BY <1>1, <1>2, <1>3, <1>4, BeatsTotal
<1>8. AboveIn(S) \subseteq S \X S
  BY DEF AboveIn
<1>9. IsTotalOrder(S, AboveIn(S))
  BY <1>5, <1>6, <1>7, <1>8 DEF IsTotalOrder
<1> QED BY <1>9 DEF S

\* The table of a view lists each student with a score once, the best score first.
LEMMA SortedIsTable ==
    ASSUME NEW snap \in Snapshot, NEW view \in AView
    PROVE  /\ Cardinality(Rows(snap, view)) \in Nat
           /\ IsTable(Sorted(snap, view), Cardinality(Rows(snap, view)))
<1> DEFINE S == Rows(snap, view)
           n == Cardinality(S)
           rows == Sorted(snap, view)
           K == Len(snap.settings.tieBreakers) + 2
<1>1. rows = Arranged(S, AboveIn(S))
  BY RowsInOrder DEF Sorted
<1>2. IsFiniteSet(S) /\ IsTotalOrder(S, AboveIn(S))
  BY RowsOfView, AboveIsTotal
<1>3. S \subseteq ARow(snap) /\ \A r \in S : r.key[1] = r.score /\ r = Row(snap, view, r.student)
  BY RowsOfView
<1>4. K \in Nat /\ K >= 1
  <2>1. snap.settings.tieBreakers \in Seq(Criteria)
    BY DEF Snapshot, Settings
  <2> QED BY <2>1
<1> HIDE DEF S, rows
<1>5. /\ n \in Nat
      /\ DOMAIN rows = 1..n
      /\ \A i \in 1..n : rows[i] \in S
      /\ \A i, j \in 1..n : <<rows[i], rows[j]>> \in AboveIn(S) <=> i < j
  <2> HIDE DEF n
  <2>1. /\ Cardinality(S) \in Nat
        /\ DOMAIN Arranged(S, AboveIn(S)) = 1..Cardinality(S)
        /\ \A i \in 1..Cardinality(S) : Arranged(S, AboveIn(S))[i] \in S
        /\ \A i, j \in 1..Cardinality(S) :
              <<Arranged(S, AboveIn(S))[i], Arranged(S, AboveIn(S))[j]>> \in AboveIn(S) <=> i < j
    BY <1>2, ArrangedInOrder, Zenon
  <2> QED BY <1>1, <2>1 DEF n
<1> HIDE DEF n
<1>6. \A i \in 1..n : rows[i].score \in Nat /\ rows[i].student \in Students
  BY <1>3, <1>5 DEF ARow
<1>7. ASSUME NEW i \in 1..n, NEW j \in 1..n, i < j
      PROVE  rows[i].score >= rows[j].score
  <2>1. rows[i] \in S /\ rows[j] \in S /\ Above(rows[i], rows[j])
    BY <1>5, <1>7 DEF AboveIn
  <2>2. rows[i].key \in [1..K -> Int] /\ rows[j].key \in [1..K -> Int]
    BY <1>3, <2>1 DEF ARow
  <2>3. rows[i].key[1] = rows[i].score /\ rows[j].key[1] = rows[j].score
    BY <1>3, <2>1
  <2> HIDE DEF K
  <2>4. Beats(K, rows[i], rows[j])
    BY <1>4, <2>1, <2>2, AboveBeats
  <2>5. 1 \in 1..K
    BY <1>4
  <2>6. rows[i].key[1] >= rows[j].key[1]
    <3>1. rows[i].key[1] \in Int /\ rows[j].key[1] \in Int
      BY <2>2, <2>5
    <3>2. CASE \A e \in 1..K : rows[i].key[e] = rows[j].key[e]
      BY <2>5, <3>1, <3>2
    <3>3. ASSUME NEW d \in 1..K, rows[i].key[d] > rows[j].key[d],
                 \A e \in 1..K : e < d => rows[i].key[e] = rows[j].key[e]
          PROVE  rows[i].key[1] >= rows[j].key[1]
      <4>1. d = 1 \/ 1 < d
        BY <1>4
      <4>2. 1 < d => rows[i].key[1] = rows[j].key[1]
        BY <2>5, <3>3
      <4> QED BY <3>1, <3>3, <4>1, <4>2
    <3> QED BY <2>4, <3>2, <3>3 DEF Beats
  <2> QED BY <2>3, <2>6
<1>8. ASSUME NEW i \in 1..n, NEW j \in 1..n, rows[i].student = rows[j].student
      PROVE  i = j
  <2>1. rows[i] = rows[j]
    BY <1>3, <1>5, <1>8
  <2>2. ~(i < j) /\ ~(j < i)
    BY <1>2, <1>5, <2>1 DEF IsTotalOrder
  <2> QED BY <1>5, <2>2
<1> QED BY <1>5, <1>6, <1>7, <1>8 DEF IsTable, n, rows, S

----------------------------------------------------------------------------
(* Ranks *)

\* The rows with a higher score than score.
Better(rows, score) == {j \in DOMAIN rows : rows[j].score > score}

\* One more than the number of rows with a better score.
CompetitionRank(rows, i) == 1 + Cardinality(Better(rows, rows[i].score))

\* The rows with a higher score than a row are the first ones.
LEMMA BetterRows ==
    ASSUME NEW n \in Nat, NEW rows, IsTable(rows, n), NEW i \in 1..n
    PROVE  /\ IsFiniteSet(Better(rows, rows[i].score))
           /\ Cardinality(Better(rows, rows[i].score)) \in Nat
           /\ \A j \in Better(rows, rows[i].score) : j \in 1..n /\ j < i
           /\ \A j \in 1..n : j \in Better(rows, rows[i].score) <=> rows[j].score > rows[i].score
           /\ i = 1 \/ rows[i].score # rows[i - 1].score => Better(rows, rows[i].score) = 1..(i - 1)
<1> DEFINE B == Better(rows, rows[i].score)
<1>1. B \in SUBSET (1..n) /\ \A j \in 1..n : j \in B <=> rows[j].score > rows[i].score
  BY DEF Better, IsTable
<1>2. IsFiniteSet(B) /\ Cardinality(B) \in Nat
  <2>1. IsFiniteSet(1..n)
    BY FS_Interval
  <2> QED BY <1>1, <2>1, FS_Subset, FS_CardinalityType
<1> HIDE DEF B
<1>3. \A j \in B : j < i
  <2> SUFFICES ASSUME NEW j \in B, ~(j < i) PROVE FALSE
    OBVIOUS
  <2>1. j \in 1..n /\ rows[j].score > rows[i].score
    BY <1>1
  <2>2. rows[i].score \in Nat /\ rows[j].score \in Nat
    BY <2>1 DEF IsTable
  <2>3. i < j \/ i = j
    BY <2>1
  <2>4. rows[i].score >= rows[j].score
    BY <2>1, <2>2, <2>3 DEF IsTable
  <2> QED BY <2>1, <2>2, <2>4
<1>4. ASSUME i = 1 \/ rows[i].score # rows[i - 1].score
      PROVE  B = 1..(i - 1)
  <2>1. ASSUME NEW j \in 1..(i - 1)
        PROVE  j \in B
    <3>1. i # 1 /\ i - 1 \in 1..n /\ j \in 1..n /\ i - 1 < i /\ (j < i - 1 \/ j = i - 1)
      BY <2>1
    <3>2. rows[i].score \in Nat /\ rows[i - 1].score \in Nat /\ rows[j].score \in Nat
      BY <3>1 DEF IsTable
    <3>3. rows[i - 1].score >= rows[i].score
      BY <3>1 DEF IsTable
    <3>4. rows[j].score >= rows[i - 1].score
      BY <3>1, <3>2 DEF IsTable
    <3>5. rows[j].score > rows[i].score
      BY <1>4, <3>1, <3>2, <3>3, <3>4
    <3> QED BY <1>1, <3>1, <3>5
  <2>2. ASSUME NEW j \in B
        PROVE  j \in 1..(i - 1)
    BY <1>1, <1>3
  <2> QED BY <2>1, <2>2
<1> QED BY <1>1, <1>2, <1>3, <1>4 DEF B

\* Ranks follows its recursion, which the competition ranks fulfil and nothing else does.
LEMMA RanksAreCompetitionRanks ==
    ASSUME NEW n \in Nat, NEW rows, IsTable(rows, n)
    PROVE  \A i \in 1..n : Ranks(rows)[i] = CompetitionRank(rows, i)
<1> DEFINE IsRank(rank) ==
             rank = [i \in DOMAIN rows |->
                       IF i > 1 /\ rows[i].score = rows[i - 1].score THEN rank[i - 1] ELSE i]
           shown == [i \in DOMAIN rows |-> CompetitionRank(rows, i)]
<1>1. Ranks(rows) = CHOOSE rank : IsRank(rank)
  BY DEF Ranks
<1>2. DOMAIN rows = 1..n
  BY DEF IsTable
<1>3. ASSUME NEW i \in 1..n
      PROVE  shown[i] = IF i > 1 /\ rows[i].score = rows[i - 1].score THEN shown[i - 1] ELSE i
  <2>1. CASE i > 1 /\ rows[i].score = rows[i - 1].score
    <3>1. i - 1 \in 1..n
      BY <2>1
    <3> QED BY <1>2, <2>1, <3>1 DEF CompetitionRank
  <2>2. CASE ~(i > 1 /\ rows[i].score = rows[i - 1].score)
    <3>1. i = 1 \/ rows[i].score # rows[i - 1].score
      BY <2>2
    <3>2. Better(rows, rows[i].score) = 1..(i - 1)
      BY <3>1, BetterRows
    <3>3. Cardinality(1..(i - 1)) = i - 1
      BY FS_Interval
    <3> QED BY <1>2, <2>2, <3>2, <3>3 DEF CompetitionRank
  <2> QED BY <2>1, <2>2
<1>4. IsRank(shown)
  <2>1. \A i \in DOMAIN rows :
           shown[i] = IF i > 1 /\ rows[i].score = rows[i - 1].score THEN shown[i - 1] ELSE i
    BY <1>2, <1>3
  <2> QED BY <2>1
<1> HIDE DEF shown
<1>5. IsRank(Ranks(rows))
  <2> HIDE DEF IsRank
  <2> QED BY <1>1, <1>4
<1>6. \A i \in 1..n :
         Ranks(rows)[i] = IF i > 1 /\ rows[i].score = rows[i - 1].score THEN Ranks(rows)[i - 1] ELSE i
  BY <1>2, <1>5
<1> HIDE DEF IsRank
<1> DEFINE bad == {i \in 1..n : Ranks(rows)[i] # shown[i]}
<1>7. bad = {}
  <2> SUFFICES ASSUME bad # {} PROVE FALSE
    OBVIOUS
  <2>1. bad \in SUBSET Nat
    OBVIOUS
  <2>2. PICK i \in bad : \A k \in bad : i <= k
    <3> HIDE DEF bad
    <3> QED BY <2>1, LeastOf
  <2>3. i \in 1..n /\ (i > 1 => i - 1 \in 1..n /\ ~(i <= i - 1))
    OBVIOUS
  <2>4. i > 1 => Ranks(rows)[i - 1] = shown[i - 1]
    BY <2>2, <2>3
  <2> QED BY <1>3, <1>6, <2>3, <2>4
<1> QED BY <1>2, <1>7 DEF shown

\* Ranks stand for scores.
LEMMA RanksFollowScores ==
    ASSUME NEW n \in Nat, NEW rows, IsTable(rows, n)
    PROVE  /\ \A i \in 1..n : Ranks(rows)[i] \in Nat
           /\ \A i, j \in 1..n : Ranks(rows)[i] < Ranks(rows)[j] <=> rows[i].score > rows[j].score
           /\ \A i, j \in 1..n : Ranks(rows)[i] = Ranks(rows)[j] <=> rows[i].score = rows[j].score
<1>1. ASSUME NEW i \in 1..n
      PROVE  /\ Ranks(rows)[i] = 1 + Cardinality(Better(rows, rows[i].score))
             /\ Ranks(rows)[i] \in Nat
             /\ rows[i].score \in Nat
  <2>1. Ranks(rows)[i] = 1 + Cardinality(Better(rows, rows[i].score))
    BY RanksAreCompetitionRanks DEF CompetitionRank
  <2>2. Cardinality(Better(rows, rows[i].score)) \in Nat
    BY BetterRows
  <2>3. rows[i].score \in Nat
    BY DEF IsTable
  <2> QED BY <2>1, <2>2, <2>3
<1>2. ASSUME NEW i \in 1..n, NEW j \in 1..n, rows[i].score > rows[j].score
      PROVE  Ranks(rows)[i] < Ranks(rows)[j]
  <2> DEFINE B == Better(rows, rows[i].score)
             C == Better(rows, rows[j].score)
  <2>1. B \subseteq C
    <3> SUFFICES ASSUME NEW k \in B PROVE k \in C
      OBVIOUS
    <3>1. k \in DOMAIN rows /\ rows[k].score > rows[i].score
      BY DEF Better
    <3>2. rows[k].score \in Nat
      BY <3>1 DEF IsTable
    <3>3. rows[k].score > rows[j].score
      BY <1>1, <1>2, <3>1, <3>2
    <3> QED BY <3>1, <3>3 DEF Better
  <2>2. i \in C /\ i \notin B
    <3>1. i \in DOMAIN rows /\ rows[i].score \in Nat
      BY DEF IsTable
    <3> QED BY <1>2, <3>1 DEF Better
  <2>3. IsFiniteSet(C) /\ Cardinality(B) \in Nat /\ Cardinality(C) \in Nat
    BY BetterRows
  <2>4. Cardinality(B) <= Cardinality(C) /\ Cardinality(B) # Cardinality(C)
    <3> HIDE DEF B, C
    <3> QED BY <2>1, <2>2, <2>3, FS_Subset
  <2>5. Ranks(rows)[i] = 1 + Cardinality(B) /\ Ranks(rows)[j] = 1 + Cardinality(C)
    BY <1>1
  <2> HIDE DEF B, C
  <2> QED BY <2>3, <2>4, <2>5
<1>3. ASSUME NEW i \in 1..n, NEW j \in 1..n
      PROVE  /\ Ranks(rows)[i] < Ranks(rows)[j] <=> rows[i].score > rows[j].score
             /\ Ranks(rows)[i] = Ranks(rows)[j] <=> rows[i].score = rows[j].score
  <2>1. rows[i].score = rows[j].score => Ranks(rows)[i] = Ranks(rows)[j]
    BY <1>1
  <2>2. rows[i].score > rows[j].score => Ranks(rows)[i] < Ranks(rows)[j]
    BY <1>2
  <2>3. rows[j].score > rows[i].score => Ranks(rows)[j] < Ranks(rows)[i]
    BY <1>2
  <2>4. /\ Ranks(rows)[i] \in Nat /\ Ranks(rows)[j] \in Nat
        /\ rows[i].score \in Nat /\ rows[j].score \in Nat
    BY <1>1
  <2> QED BY <2>1, <2>2, <2>3, <2>4
<1> QED BY <1>1, <1>3

\* A row that shares its score with any other shares it with a neighbour.
LEMMA TiedWithNeighbour ==
    ASSUME NEW n \in Nat, NEW rows, IsTable(rows, n), NEW i \in 1..n
    PROVE  Tied(rows, i) <=> \E j \in DOMAIN rows \ {i} : rows[j].score = rows[i].score
<1>1. DOMAIN rows = 1..n /\ \A k \in 1..n : rows[k].score \in Nat
  BY DEF IsTable
<1>2. Tied(rows, i) <=> \E j \in {i - 1, i + 1} \cap 1..n : rows[j].score = rows[i].score
  <2>1. \A j \in 1..n : Ranks(rows)[j] = Ranks(rows)[i] <=> rows[j].score = rows[i].score
    BY RanksFollowScores
  <2> QED BY <1>1, <2>1 DEF Tied
<1>3. ASSUME NEW j \in 1..n, j # i, rows[j].score = rows[i].score
      PROVE  \E k \in {i - 1, i + 1} \cap 1..n : rows[k].score = rows[i].score
  <2>1. CASE j < i
    <3>1. i - 1 \in 1..n /\ i - 1 < i /\ (j < i - 1 \/ j = i - 1)
      BY <2>1
    <3>2. rows[j].score >= rows[i - 1].score
      BY <1>1, <3>1 DEF IsTable
    <3>3. rows[i - 1].score >= rows[i].score
      BY <3>1 DEF IsTable
    <3>4. rows[i - 1].score = rows[i].score
      BY <1>1, <1>3, <3>1, <3>2, <3>3
    <3> QED BY <3>1, <3>4
  <2>2. CASE i < j
    <3>1. i + 1 \in 1..n /\ i < i + 1 /\ (i + 1 < j \/ j = i + 1)
      BY <2>2
    <3>2. rows[i + 1].score >= rows[j].score
      BY <1>1, <3>1 DEF IsTable
    <3>3. rows[i].score >= rows[i + 1].score
      BY <3>1 DEF IsTable
    <3>4. rows[i + 1].score = rows[i].score
      BY <1>1, <1>3, <3>1, <3>2, <3>3
    <3> QED BY <3>1, <3>4
  <2> QED BY <1>3, <2>1, <2>2
<1>4. ASSUME NEW k \in {i - 1, i + 1} \cap 1..n
      PROVE  k # i
  OBVIOUS
<1> QED BY <1>1, <1>2, <1>3, <1>4

\* Views are of that type, and so is each of them a week before.
LEMMA ViewTypes ==
    /\ \A view \in Views : view \in AView
    /\ \A view \in AView : view.week # 1 => [view EXCEPT !.week = @ - 1] \in AView
<1>1. Views \subseteq AView
  BY RankingConstants DEF AView
<1>2. NumWeeks \in Nat
  BY RankingConstants
<1> QED BY <1>1, <1>2 DEF AView, Weeks

\* In every table the ranks are competition ranks on the scores shown, and who is marked
\* tied shares them.
THEOREM RanksAlwaysCompetition == RiskSpec => []RanksAreCompetition
<1>1. RiskTypeOK => RanksAreCompetition
  <2> SUFFICES ASSUME RiskTypeOK, NEW view \in Views, NEW i \in DOMAIN Sorted(snapshot, view)
               PROVE  LET rows == Sorted(snapshot, view) IN
                      /\ Ranks(rows)[i] =
                           1 + Cardinality({j \in DOMAIN rows : rows[j].score > rows[i].score})
                      /\ Tied(rows, i) <=>
                           \E j \in DOMAIN rows \ {i} : rows[j].score = rows[i].score
    BY DEF RanksAreCompetition, Tables, Table
  <2> DEFINE rows == Sorted(snapshot, view)
             n == Cardinality(Rows(snapshot, view))
  <2>1. n \in Nat /\ IsTable(rows, n)
    BY SortedIsTable, ViewTypes DEF RiskTypeOK, TypeOK
  <2> HIDE DEF n
  <2>2. i \in 1..n
    BY <2>1 DEF IsTable
  <2> HIDE DEF rows
  <2>3. Ranks(rows)[i] = 1 + Cardinality(Better(rows, rows[i].score))
    BY <2>1, <2>2, RanksAreCompetitionRanks DEF CompetitionRank
  <2>4. Tied(rows, i) <=> \E j \in DOMAIN rows \ {i} : rows[j].score = rows[i].score
    BY <2>1, <2>2, TiedWithNeighbour
  <2> QED BY <2>3, <2>4 DEF Better, rows
<1> QED BY <1>1, RiskTypeCorrect, PTL

----------------------------------------------------------------------------
(* Gaps *)

\* RankWith is a competition rank among the other rows.
LEMMA RankWithRank ==
    ASSUME NEW n \in Nat, NEW rows, IsTable(rows, n), NEW i \in 1..n, NEW k \in 1..n,
           NEW score \in Int,
           \A j \in 1..n : (j # i /\ rows[j].score > score) <=> rows[j].score > rows[k].score
    PROVE  RankWith(rows, i, score) = Ranks(rows)[k]
<1>1. DOMAIN rows = 1..n
  BY DEF IsTable
<1>2. {j \in DOMAIN rows \ {i} : rows[j].score > score} = Better(rows, rows[k].score)
  BY <1>1 DEF Better
<1>3. RankWith(rows, i, score) = 1 + Cardinality(Better(rows, rows[k].score))
  BY <1>2 DEF RankWith
<1>4. Ranks(rows)[k] = 1 + Cardinality(Better(rows, rows[k].score))
  BY RanksAreCompetitionRanks DEF CompetitionRank
<1> QED BY <1>3, <1>4

\* The rows with a better rank.
BetterRanked(rows, i) == {j \in DOMAIN rows : Ranks(rows)[j] < Ranks(rows)[i]}

\* The rows with a worse one.
WorseRanked(rows, i) == {j \in DOMAIN rows : Ranks(rows)[j] > Ranks(rows)[i]}

\* The nearest of the rows with a better rank.
LEMMA NearestBetter ==
    ASSUME NEW n \in Nat, NEW rows, IsTable(rows, n), NEW i \in 1..n
    PROVE  /\ BetterRanked(rows, i) = Better(rows, rows[i].score)
           /\ {j \in DOMAIN rows : j < i /\ Ranks(rows)[j] < Ranks(rows)[i]} = BetterRanked(rows, i)
           /\ BetterRanked(rows, i) # {} =>
                 /\ Max(BetterRanked(rows, i)) \in BetterRanked(rows, i)
                 /\ \A j \in BetterRanked(rows, i) : j <= Max(BetterRanked(rows, i))
<1>1. DOMAIN rows = 1..n
  BY DEF IsTable
<1>2. BetterRanked(rows, i) = Better(rows, rows[i].score)
  BY <1>1, RanksFollowScores DEF BetterRanked, Better
<1>3. \A j \in BetterRanked(rows, i) : j \in 1..n /\ j < i
  BY <1>2, BetterRows
<1>4. {j \in DOMAIN rows : j < i /\ Ranks(rows)[j] < Ranks(rows)[i]} = BetterRanked(rows, i)
  BY <1>3 DEF BetterRanked
<1>5. BetterRanked(rows, i) \in SUBSET (0..n)
  BY <1>3
<1> QED BY <1>2, <1>4, <1>5, GreatestOf

\* The gap to the next rank is the way to the nearest row with a better rank.
LEMMA GapToNextLeads ==
    ASSUME NEW n \in Nat, NEW rows, IsTable(rows, n), NEW i \in 1..n
    PROVE  /\ BetterRanked(rows, i) = {} => GapToNext(rows, i) = 0
           /\ BetterRanked(rows, i) # {} =>
                 LET b == Max(BetterRanked(rows, i)) IN
                 /\ b \in BetterRanked(rows, i)
                 /\ b \in 1..n
                 /\ GapToNext(rows, i) = rows[b].score - rows[i].score
                 /\ GapToNext(rows, i) > 0
                 /\ RankWith(rows, i, rows[i].score + GapToNext(rows, i)) = Ranks(rows)[b]
                 /\ RankWith(rows, i, rows[i].score + GapToNext(rows, i) - 1) = Ranks(rows)[i]
<1> DEFINE B == BetterRanked(rows, i)
           b == Max(B)
           gap == GapToNext(rows, i)
<1>1. gap = IF B = {} THEN 0 ELSE ScoreGap(rows[b], rows[i])
  BY NearestBetter DEF GapToNext
<1> SUFFICES ASSUME B # {}
             PROVE  /\ b \in B /\ b \in 1..n
                    /\ gap = rows[b].score - rows[i].score
                    /\ gap > 0
                    /\ RankWith(rows, i, rows[i].score + gap) = Ranks(rows)[b]
                    /\ RankWith(rows, i, rows[i].score + gap - 1) = Ranks(rows)[i]
  BY <1>1
<1>2. b \in B /\ \A j \in B : j <= b
  BY NearestBetter
<1>3. \A j \in 1..n : rows[j].score \in Nat
  BY DEF IsTable
<1>4. \A j \in 1..n : j \in B <=> rows[j].score > rows[i].score
  BY NearestBetter, BetterRows
<1>5. b \in 1..n
  BY <1>2 DEF IsTable, BetterRanked
<1> HIDE DEF B, b
<1>6. rows[b].score > rows[i].score /\ rows[b].score \in Nat /\ rows[i].score \in Nat
  BY <1>2, <1>3, <1>4, <1>5
<1>7. gap = rows[b].score - rows[i].score
  BY <1>1, <1>6 DEF ScoreGap, Larger
<1> HIDE DEF gap
<1>8. RankWith(rows, i, rows[i].score + gap) = Ranks(rows)[b]
  <2>1. rows[i].score + gap = rows[b].score
    BY <1>6, <1>7
  <2>2. \A j \in 1..n : (j # i /\ rows[j].score > rows[b].score) <=> rows[j].score > rows[b].score
    BY <1>3, <1>6
  <2> QED BY <1>5, <1>6, <2>1, <2>2, RankWithRank
<1>9. RankWith(rows, i, rows[i].score + gap - 1) = Ranks(rows)[i]
  <2>1. PICK score \in Int : score = rows[b].score - 1 /\ rows[i].score + gap - 1 = score
    BY <1>6, <1>7
  <2>2. ASSUME NEW j \in 1..n
        PROVE  (j # i /\ rows[j].score > score) <=> rows[j].score > rows[i].score
    <3>1. rows[j].score \in Nat
      BY <1>3
    <3>2. rows[j].score > rows[i].score => rows[j].score >= rows[b].score
      <4> SUFFICES ASSUME rows[j].score > rows[i].score PROVE rows[j].score >= rows[b].score
        OBVIOUS
      <4>1. j <= b
        BY <1>2, <1>4
      <4>2. j < b \/ j = b
        BY <1>5, <4>1
      <4> QED BY <1>5, <1>6, <4>2 DEF IsTable
    <3> QED BY <1>6, <2>1, <3>1, <3>2
  <2>3. RankWith(rows, i, score) = Ranks(rows)[i]
    BY <2>2, RankWithRank
  <2> QED BY <2>1, <2>3
<1>10. gap > 0
  BY <1>6, <1>7
<1> QED BY <1>2, <1>5, <1>7, <1>8, <1>9, <1>10

\* The gap to the rank below is the gap that the first row below it has to the next rank.
LEMMA GapToBelowLeads ==
    ASSUME NEW n \in Nat, NEW rows, IsTable(rows, n), NEW i \in 1..n
    PROVE  /\ WorseRanked(rows, i) = {} => GapToBelow(rows, i) = 0
           /\ WorseRanked(rows, i) # {} =>
                 \E j \in WorseRanked(rows, i) : GapToBelow(rows, i) = GapToNext(rows, j)
<1> DEFINE W == WorseRanked(rows, i)
           m == Min(W)
<1>1. DOMAIN rows = 1..n /\ \A j \in 1..n : rows[j].score \in Nat
  BY DEF IsTable
<1>2. \A j \in 1..n : j \in W <=> rows[i].score > rows[j].score
  BY <1>1, RanksFollowScores DEF WorseRanked
<1>3. \A j \in W : j \in 1..n /\ j > i
  <2> SUFFICES ASSUME NEW j \in W, ~(j > i) PROVE FALSE
    BY <1>1 DEF WorseRanked
  <2>1. j \in 1..n /\ rows[i].score > rows[j].score
    BY <1>1, <1>2 DEF WorseRanked
  <2>2. j < i \/ j = i
    BY <2>1
  <2>3. rows[j].score >= rows[i].score
    BY <1>1, <2>1, <2>2 DEF IsTable
  <2> QED BY <1>1, <2>1, <2>3
<1>4. {j \in DOMAIN rows : j > i /\ Ranks(rows)[j] > Ranks(rows)[i]} = W
  BY <1>3 DEF WorseRanked
<1>5. GapToBelow(rows, i) = IF W = {} THEN 0 ELSE ScoreGap(rows[i], rows[m])
  BY <1>4 DEF GapToBelow
<1> SUFFICES ASSUME W # {}
             PROVE  m \in W /\ GapToBelow(rows, i) = GapToNext(rows, m)
  BY <1>5
<1>6. m \in W /\ \A j \in W : m <= j
  <2>1. W \in SUBSET Nat
    BY <1>3
  <2> HIDE DEF W
  <2> QED BY <2>1, LeastOf
<1>7. m \in 1..n /\ m > i /\ rows[i].score > rows[m].score
  BY <1>2, <1>3, <1>6
<1> HIDE DEF W, m
<1> DEFINE a == m - 1
<1>8. a \in 1..n /\ a < m /\ (i < a \/ i = a) /\ a \notin W
  <2>1. a \in 1..n /\ a < m /\ (i < a \/ i = a) /\ ~(m <= a)
    BY <1>7
  <2> QED BY <1>6, <2>1
<1>9. rows[a].score = rows[i].score
  <2>1. rows[i].score >= rows[a].score
    BY <1>1, <1>8 DEF IsTable
  <2>2. ~(rows[i].score > rows[a].score)
    BY <1>2, <1>8
  <2> HIDE DEF a
  <2> QED BY <1>1, <1>8, <2>1, <2>2
<1>10. BetterRanked(rows, m) # {} /\ rows[Max(BetterRanked(rows, m))].score = rows[i].score
  <2> DEFINE B == BetterRanked(rows, m)
             b == Max(B)
  <2>1. \A j \in B : j \in 1..n /\ j < m
    BY <1>7, NearestBetter, BetterRows
  <2>2. a \in B
    <3>1. rows[a].score > rows[m].score
      BY <1>7, <1>9
    <3> QED BY <1>7, <1>8, <3>1, NearestBetter, BetterRows
  <2>3. b \in B /\ \A j \in B : j <= b
    BY <1>7, <2>2, NearestBetter
  <2>4. b = a
    <3> HIDE DEF B, b
    <3>1. a <= b /\ b < m /\ b \in Int /\ m \in Int
      BY <1>7, <2>1, <2>2, <2>3
    <3> QED BY <3>1
  <2> QED BY <1>9, <2>2, <2>4
<1>11. GapToNext(rows, m) = rows[i].score - rows[m].score
  BY <1>7, <1>10, GapToNextLeads
<1>12. ScoreGap(rows[i], rows[m]) = rows[i].score - rows[m].score
  BY <1>1, <1>7 DEF ScoreGap, Larger
<1> QED BY <1>5, <1>6, <1>11, <1>12

\* Each student has one place.
LEMMA PlaceOfRow ==
    ASSUME NEW n \in Nat, NEW rows, IsTable(rows, n), NEW i \in 1..n
    PROVE  Place(rows, rows[i].student) = i
BY DEF Place, IsTable

\* A breakdown names the student at the nearest better rank, and nobody else.
LEMMA ExplanationLeads ==
    ASSUME NEW n \in Nat, NEW rows, IsTable(rows, n), NEW i \in 1..n
    PROVE  LET ex == Explanation(rows, rows[i].student) IN
             /\ ex.above = 0 <=> BetterRanked(rows, i) = {}
             /\ ex.above # 0 =>
                  RankWith(rows, i, rows[i].score + ex.gapToNext) = RankOf(rows, ex.above)
<1> DEFINE B == BetterRanked(rows, i)
           b == Max(B)
           ex == Explanation(rows, rows[i].student)
<1>1. Place(rows, rows[i].student) = i
  BY PlaceOfRow
<1>2. {j \in DOMAIN rows : j < i /\ Ranks(rows)[j] < Ranks(rows)[i]} = B
  BY NearestBetter
<1>3. /\ ex.above = IF B = {} THEN 0 ELSE rows[b].student
      /\ ex.gapToNext = GapToNext(rows, i)
  BY <1>1, <1>2 DEF Explanation
<1> SUFFICES /\ ex.above = 0 <=> B = {}
             /\ ex.above # 0 => RankWith(rows, i, rows[i].score + ex.gapToNext) = RankOf(rows, ex.above)
  OBVIOUS
<1> HIDE DEF ex
<1>4. CASE B = {}
  BY <1>3, <1>4
<1>5. CASE B # {}
  <2>1. b \in 1..n /\ RankWith(rows, i, rows[i].score + GapToNext(rows, i)) = Ranks(rows)[b]
    BY <1>5, GapToNextLeads
  <2>2. rows[b].student \in Students
    BY <2>1 DEF IsTable
  <2>3. rows[b].student # 0
    BY <2>2 DEF Students
  <2>4. Place(rows, rows[b].student) = b
    BY <2>1, PlaceOfRow
  <2> QED BY <1>3, <1>5, <2>1, <2>3, <2>4 DEF RankOf
<1> QED BY <1>4, <1>5

\* In every table the gaps lead to the next ranks, and the student named as the one above
\* is one of those a gap leads to.
THEOREM GapsAlwaysReach == RiskSpec => []GapReachesTheNextRank
<1>1. RiskTypeOK => GapReachesTheNextRank
  <2> SUFFICES ASSUME RiskTypeOK, NEW view \in Views, NEW i \in DOMAIN Sorted(snapshot, view)
               PROVE  LET rows == Sorted(snapshot, view)
                          gap == GapToNext(rows, i)
                      IN  /\ IF BetterRanked(rows, i) = {} THEN gap = 0
                             ELSE /\ gap > 0
                                  /\ \E j \in BetterRanked(rows, i) :
                                        RankWith(rows, i, rows[i].score + gap) = Ranks(rows)[j]
                                  /\ RankWith(rows, i, rows[i].score + gap - 1) = Ranks(rows)[i]
                          /\ IF WorseRanked(rows, i) = {} THEN GapToBelow(rows, i) = 0
                             ELSE \E j \in WorseRanked(rows, i) : GapToBelow(rows, i) = GapToNext(rows, j)
                          /\ LET ex == Explanation(rows, rows[i].student) IN
                             /\ ex.above = 0 <=> BetterRanked(rows, i) = {}
                             /\ ex.above # 0 =>
                                  RankWith(rows, i, rows[i].score + ex.gapToNext) = RankOf(rows, ex.above)
    BY DEF GapReachesTheNextRank, Tables, Table, BetterRanked, WorseRanked
  <2> DEFINE rows == Sorted(snapshot, view)
             n == Cardinality(Rows(snapshot, view))
  <2>1. n \in Nat /\ IsTable(rows, n)
    BY SortedIsTable, ViewTypes DEF RiskTypeOK, TypeOK
  <2> HIDE DEF n
  <2>2. i \in 1..n
    BY <2>1 DEF IsTable
  <2> HIDE DEF rows
  <2> QED BY <2>1, <2>2, ExplanationLeads, GapToNextLeads, GapToBelowLeads DEF rows
<1> QED BY <1>1, RiskTypeCorrect, PTL

----------------------------------------------------------------------------
(* Movement *)

\* The students of a table with a better rank than s.
StudentsAhead(rows, s) == {u \in Listed(rows) : RankOf(rows, u) < RankOf(rows, s)}

\* Everybody listed has a place, and its rank is theirs.
LEMMA ListedPlace ==
    ASSUME NEW n \in Nat, NEW rows, IsTable(rows, n), NEW s \in Listed(rows)
    PROVE  /\ Place(rows, s) \in 1..n
           /\ rows[Place(rows, s)].student = s
           /\ RankOf(rows, s) = Ranks(rows)[Place(rows, s)]
           /\ RankOf(rows, s) \in Nat
<1>1. PICK i \in 1..n : rows[i].student = s
  BY DEF Listed, IsTable
<1>2. Place(rows, s) = i
  BY <1>1, PlaceOfRow
<1> QED BY <1>1, <1>2, RanksFollowScores DEF RankOf

\* A rank is one more than the number of those ahead.
LEMMA RankCountsAhead ==
    ASSUME NEW n \in Nat, NEW rows, IsTable(rows, n), NEW s \in Listed(rows)
    PROVE  /\ IsFiniteSet(StudentsAhead(rows, s))
           /\ Cardinality(StudentsAhead(rows, s)) \in Nat
           /\ RankOf(rows, s) = 1 + Cardinality(StudentsAhead(rows, s))
<1> DEFINE i == Place(rows, s)
           B == Better(rows, rows[i].score)
           A == StudentsAhead(rows, s)
           name == [j \in B |-> rows[j].student]
<1>1. i \in 1..n /\ RankOf(rows, s) = Ranks(rows)[i]
  BY ListedPlace
<1>2. DOMAIN rows = 1..n /\ \A j, k \in 1..n : rows[j].student = rows[k].student => j = k
  BY DEF IsTable
<1>3. IsFiniteSet(B) /\ Cardinality(B) \in Nat /\ Ranks(rows)[i] = 1 + Cardinality(B)
  BY <1>1, BetterRows, RanksAreCompetitionRanks DEF CompetitionRank
<1>4. \A j \in 1..n : j \in B <=> Ranks(rows)[j] < Ranks(rows)[i]
  BY <1>1, BetterRows, RanksFollowScores
<1>5. B \subseteq 1..n
  BY <1>2 DEF Better
<1> HIDE DEF B, i
<1>6. ASSUME NEW j \in B
      PROVE  name[j] \in A
  <2>1. j \in 1..n /\ rows[j].student \in Listed(rows)
    BY <1>2, <1>5 DEF Listed
  <2>2. RankOf(rows, rows[j].student) = Ranks(rows)[j]
    BY <2>1, PlaceOfRow DEF RankOf
  <2> QED BY <1>1, <1>4, <2>1, <2>2 DEF StudentsAhead
<1>7. ASSUME NEW u \in A
      PROVE  \E j \in B : name[j] = u
  <2>1. u \in Listed(rows) /\ RankOf(rows, u) < RankOf(rows, s)
    BY DEF StudentsAhead
  <2>2. Place(rows, u) \in 1..n /\ rows[Place(rows, u)].student = u
        /\ RankOf(rows, u) = Ranks(rows)[Place(rows, u)]
    BY <2>1, ListedPlace
  <2>3. Place(rows, u) \in B
    BY <1>1, <1>4, <2>1, <2>2
  <2> QED BY <2>2, <2>3
<1>8. name \in Bijection(B, A)
  <2>1. name \in [B -> A]
    BY <1>6
  <2>2. \A j, k \in B : name[j] = name[k] => j = k
    BY <1>2, <1>5
  <2>3. DOMAIN name = B
    OBVIOUS
  <2> HIDE DEF name, A
  <2> QED BY <1>7, <2>1, <2>2, <2>3 DEF Bijection, Injection, Surjection, IsInjective
<1>9. IsFiniteSet(A) /\ Cardinality(A) = Cardinality(B)
  <2>1. ExistsBijection(B, A)
    BY <1>8 DEF ExistsBijection
  <2> QED BY <1>3, <2>1, FS_Bijection
<1> QED BY <1>1, <1>3, <1>9

\* Of two tables, whoever has a better rank in the second has left somebody behind who
\* was ahead in the first.
LEMMA SomebodyIsPassed ==
    ASSUME NEW n \in Nat, NEW rows, IsTable(rows, n), NEW m \in Nat, NEW before, IsTable(before, m),
           NEW s \in Listed(rows) \cap Listed(before), RankOf(rows, s) < RankOf(before, s)
    PROVE  \E u \in Listed(before) :
              /\ RankOf(before, u) < RankOf(before, s)
              /\ u \in Listed(rows) => RankOf(rows, u) >= RankOf(rows, s)
<1> SUFFICES ASSUME \A u \in Listed(before) :
                       RankOf(before, u) < RankOf(before, s) =>
                          u \in Listed(rows) /\ ~(RankOf(rows, u) >= RankOf(rows, s))
             PROVE  FALSE
  OBVIOUS
<1>1. \A u \in Listed(rows) : RankOf(rows, u) \in Nat
  BY ListedPlace
<1>2. StudentsAhead(before, s) \in SUBSET StudentsAhead(rows, s)
  BY <1>1 DEF StudentsAhead
<1>3. /\ IsFiniteSet(StudentsAhead(rows, s))
      /\ Cardinality(StudentsAhead(rows, s)) \in Nat
      /\ Cardinality(StudentsAhead(before, s)) \in Nat
      /\ RankOf(rows, s) = 1 + Cardinality(StudentsAhead(rows, s))
      /\ RankOf(before, s) = 1 + Cardinality(StudentsAhead(before, s))
  BY RankCountsAhead
<1>4. Cardinality(StudentsAhead(before, s)) <= Cardinality(StudentsAhead(rows, s))
  BY <1>2, <1>3, FS_Subset
<1> QED BY <1>3, <1>4

\* The table of the week before is a table, or empty in week 1.
LEMMA BeforeIsTable ==
    ASSUME NEW snap \in Snapshot, NEW view \in AView
    PROVE  \E m \in Nat : IsTable(Before(snap, view), m)
<1>1. CASE view.week = 1
  <2>1. IsTable(<<>>, 0)
    BY DEF IsTable
  <2> QED BY <1>1, <2>1 DEF Before
<1>2. CASE view.week # 1
  <2>1. [view EXCEPT !.week = @ - 1] \in AView
    BY <1>2, ViewTypes
  <2> QED BY <1>2, <2>1, SortedIsTable DEF Before
<1> QED BY <1>1, <1>2

\* In every table whoever climbs has passed a student who was ahead the week before.
THEOREM ClimbersAlwaysPass == RiskSpec => []ClimbersPassSomebody
<1>1. RiskTypeOK => ClimbersPassSomebody
  <2> SUFFICES ASSUME RiskTypeOK, NEW view \in Views,
                      NEW s \in DOMAIN RankDelta(Table(snapshot, view)),
                      RankDelta(Table(snapshot, view))[s] > 0
               PROVE  \E u \in Listed(Before(snapshot, view)) :
                         /\ RankOf(Before(snapshot, view), u) < RankOf(Before(snapshot, view), s)
                         /\ u \in Listed(Sorted(snapshot, view)) =>
                              RankOf(Sorted(snapshot, view), u) >= RankOf(Sorted(snapshot, view), s)
    BY DEF ClimbersPassSomebody, Tables, Table
  <2> DEFINE rows == Sorted(snapshot, view)
             before == Before(snapshot, view)
  <2>1. s \in Listed(rows) \cap Listed(before) /\ RankOf(before, s) - RankOf(rows, s) > 0
    BY DEF RankDelta, Table
  <2>2. snapshot \in Snapshot /\ view \in AView
    BY ViewTypes DEF RiskTypeOK, TypeOK
  <2>3. PICK n \in Nat : IsTable(rows, n)
    BY <2>2, SortedIsTable
  <2>4. PICK m \in Nat : IsTable(before, m)
    BY <2>2, BeforeIsTable
  <2> HIDE DEF rows, before
  <2>5. RankOf(rows, s) \in Nat /\ RankOf(before, s) \in Nat
    BY <2>1, <2>3, <2>4, ListedPlace
  <2>6. RankOf(rows, s) < RankOf(before, s)
    BY <2>1, <2>5
  <2> QED BY <2>1, <2>3, <2>4, <2>6, SomebodyIsPassed DEF rows, before
<1> QED BY <1>1, RiskTypeCorrect, PTL

----------------------------------------------------------------------------
(* Runs *)

\* Whatever is at least every element of a set it is in is its Max.
LEMMA GreatestIs ==
    ASSUME NEW S \in SUBSET Int, NEW m \in S, \A k \in S : k <= m
    PROVE  Max(S) = m
<1>1. \A k \in S : m >= k
  OBVIOUS
<1>2. Max(S) \in S /\ \A k \in S : Max(S) >= k
  BY <1>1 DEF Max
<1>3. Max(S) >= m /\ Max(S) <= m /\ Max(S) \in Int /\ m \in Int
  BY <1>2
<1> QED BY <1>3

\* Two sets of numbers in which neither has an element above all of the other's have one Max.
LEMMA SameGreatest ==
    ASSUME NEW n \in Nat, NEW S \in SUBSET (0..n), NEW T \in SUBSET (0..n), S # {},
           \A k \in S : \E j \in T : k <= j,
           \A j \in T : \E k \in S : j <= k
    PROVE  Max(S) = Max(T)
<1>1. Max(S) \in S /\ \A k \in S : k <= Max(S)
  BY GreatestOf
<1>2. T # {}
  BY <1>1
<1>3. Max(T) \in T /\ \A j \in T : j <= Max(T)
  BY <1>2, GreatestOf
<1>4. PICK j \in T : Max(S) <= j
  BY <1>1
<1>5. PICK k \in S : Max(T) <= k
  BY <1>3
<1>6. Max(S) <= j /\ j <= Max(T) /\ Max(T) <= k /\ k <= Max(S)
  BY <1>1, <1>3, <1>4, <1>5
<1>7. S \subseteq Int /\ T \subseteq Int
  OBVIOUS
<1>8. Max(S) \in Int /\ Max(T) \in Int /\ j \in Int /\ k \in Int
  BY <1>1, <1>3, <1>7
<1> QED BY <1>6, <1>8

\* How many members of F there are in a row from i down, not further than first.
StreakLengths(F, first, i) == {n \in 0..(i - first + 1) : (i - n + 1)..i \subseteq F}

\* The most of them.
Streak(F, first, i) == Max(StreakLengths(F, first, i))

\* There is such a number.
LEMMA StreakIsGreatest ==
    ASSUME NEW F, NEW first \in Int, NEW i \in Int, i >= first - 1
    PROVE  /\ Streak(F, first, i) \in StreakLengths(F, first, i)
           /\ \A n \in StreakLengths(F, first, i) : n <= Streak(F, first, i)
<1>1. i - first + 1 \in Nat
  OBVIOUS
<1>2. 0 \in StreakLengths(F, first, i)
  <2>1. (i - 0 + 1)..i = {}
    OBVIOUS
  <2> QED BY <1>1, <2>1 DEF StreakLengths
<1>3. StreakLengths(F, first, i) \in SUBSET (0..(i - first + 1))
  BY DEF StreakLengths
<1> QED BY <1>1, <1>2, <1>3, GreatestOf DEF Streak

\* A streak ends where F does, and otherwise goes on from the one before it.
LEMMA StreakRule ==
    ASSUME NEW F, NEW first \in Int, NEW i \in Int, i >= first
    PROVE  Streak(F, first, i) =
             IF i \in F THEN 1 + (IF i > first THEN Streak(F, first, i - 1) ELSE 0) ELSE 0
<1> DEFINE here == StreakLengths(F, first, i)
           m == Streak(F, first, i)
<1>1. /\ m \in here /\ \A n \in here : n <= m
      /\ \A n : n \in here <=> n \in 0..(i - first + 1) /\ (i - n + 1)..i \subseteq F
  BY StreakIsGreatest DEF StreakLengths
<1> HIDE DEF here, m
<1>2. CASE i \notin F
  <2>1. ASSUME m # 0
        PROVE  FALSE
    <3>1. m \in Nat /\ i \in (i - m + 1)..i
      BY <1>1, <2>1
    <3> QED BY <1>1, <1>2, <3>1
  <2> QED BY <1>2, <2>1 DEF m
<1>3. CASE i \in F /\ i = first
  <2>1. 1 \in here
    <3>1. (i - 1 + 1)..i = {i}
      OBVIOUS
    <3> QED BY <1>1, <1>3, <3>1
  <2>2. m \in 0..1 /\ 1 <= m
    BY <1>1, <1>3, <2>1
  <2> QED BY <1>3, <2>2 DEF m
<1>4. CASE i \in F /\ i > first
  <2> DEFINE k == Streak(F, first, i - 1)
             there == StreakLengths(F, first, i - 1)
  <2>1. i - 1 \in Int /\ i - 1 >= first - 1
    BY <1>4
  <2>2. /\ k \in there /\ \A n \in there : n <= k
        /\ \A n : n \in there <=> n \in 0..(i - 1 - first + 1) /\ (i - 1 - n + 1)..(i - 1) \subseteq F
    BY <2>1, StreakIsGreatest DEF StreakLengths
  <2> HIDE DEF k, there
  <2>3. k \in Nat /\ m \in Nat
    BY <1>1, <2>2
  <2>4. k + 1 \in here
    <3>1. k + 1 \in 0..(i - first + 1)
      BY <2>2, <2>3
    <3>2. (i - 1 - k + 1)..(i - 1) \subseteq F
      BY <2>2
    <3>3. ASSUME NEW j \in (i - (k + 1) + 1)..i
          PROVE  j \in F
      <4>1. j = i \/ j \in (i - 1 - k + 1)..(i - 1)
        BY <2>3
      <4> QED BY <1>4, <3>2, <4>1
    <3> QED BY <1>1, <3>1, <3>3
  <2>5. k + 1 <= m
    BY <1>1, <2>4
  <2>6. m - 1 \in there
    <3>1. m - 1 \in 0..(i - 1 - first + 1)
      BY <1>1, <1>4, <2>3, <2>5
    <3>2. (i - m + 1)..i \subseteq F
      BY <1>1
    <3>3. ASSUME NEW j \in (i - 1 - (m - 1) + 1)..(i - 1)
          PROVE  j \in F
      <4>1. j \in (i - m + 1)..i
        BY <2>3
      <4> QED BY <3>2, <4>1
    <3> QED BY <2>2, <3>1, <3>3
  <2>7. m - 1 <= k
    BY <2>2, <2>6
  <2>8. m = 1 + k
    BY <2>3, <2>5, <2>7
  <2> QED BY <1>4, <2>8 DEF m, k
<1> QED BY <1>2, <1>3, <1>4

\* The recursion by which the runs of the code are written.
IsRun(F, first, last, run) ==
    run = [i \in first..last |-> IF i \in F THEN 1 + (IF i > first THEN run[i - 1] ELSE 0) ELSE 0]

\* What it computes at i is the streak at i.
LEMMA RunIsStreak ==
    ASSUME NEW F, NEW first \in Nat, NEW last \in Int
    PROVE  \A i \in first..last :
              (CHOOSE run : IsRun(F, first, last, run))[i] = Streak(F, first, i)
<1> DEFINE streaks == [i \in first..last |-> Streak(F, first, i)]
           chosen == CHOOSE run : IsRun(F, first, last, run)
<1>1. ASSUME NEW i \in first..last
      PROVE  streaks[i] = IF i \in F THEN 1 + (IF i > first THEN streaks[i - 1] ELSE 0) ELSE 0
  <2>1. i > first => i - 1 \in first..last
    OBVIOUS
  <2>2. Streak(F, first, i) =
          IF i \in F THEN 1 + (IF i > first THEN Streak(F, first, i - 1) ELSE 0) ELSE 0
    BY StreakRule
  <2> QED BY <2>1, <2>2
<1>2. IsRun(F, first, last, streaks)
  BY <1>1 DEF IsRun
<1> HIDE DEF streaks
<1>3. IsRun(F, first, last, chosen)
  BY <1>2
<1> HIDE DEF chosen
<1>4. \A i \in first..last :
         chosen[i] = IF i \in F THEN 1 + (IF i > first THEN chosen[i - 1] ELSE 0) ELSE 0
  BY <1>3 DEF IsRun
<1> DEFINE bad == {i \in first..last : chosen[i] # streaks[i]}
<1>5. bad = {}
  <2> SUFFICES ASSUME bad # {} PROVE FALSE
    OBVIOUS
  <2>1. bad \in SUBSET Nat
    OBVIOUS
  <2>2. PICK i \in bad : \A k \in bad : i <= k
    <3> HIDE DEF bad
    <3> QED BY <2>1, LeastOf
  <2>3. i > first => chosen[i - 1] = streaks[i - 1]
    <3> SUFFICES ASSUME i > first PROVE chosen[i - 1] = streaks[i - 1]
      OBVIOUS
    <3>1. i - 1 \in first..last /\ ~(i <= i - 1)
      OBVIOUS
    <3> QED BY <2>2, <3>1
  <2>4. i \in first..last
    OBVIOUS
  <2>5. chosen[i] = streaks[i]
    BY <1>1, <1>4, <2>3, <2>4
  <2> QED BY <2>5
<1> QED BY <1>5 DEF streaks, chosen

\* The fall of the scores at the end.
LEMMA DeclineIsLongest ==
    ASSUME NEW n \in Nat, NEW scores, scores \in Seq(Int), Len(scores) = n
    PROVE  DeclineRun(scores) =
             Max({m \in 0 .. Larger(0, n - 1) : \A i \in n - m + 1 .. n : scores[i] < scores[i - 1]})
<1> DEFINE F == {i \in 2..n : scores[i] < scores[i - 1]}
           lengths == {m \in 0 .. Larger(0, n - 1) : \A i \in n - m + 1 .. n : scores[i] < scores[i - 1]}
           down == CHOOSE run : run = [i \in DOMAIN scores |->
                                         IF i > 1 /\ scores[i] < scores[i - 1] THEN 1 + run[i - 1] ELSE 0]
<1>1. DeclineRun(scores) = IF scores = <<>> THEN 0 ELSE down[n]
  BY DEF DeclineRun
<1>2. DOMAIN scores = 1..n
  OBVIOUS
<1>3. CASE n = 0
  <2>1. scores = <<>>
    BY <1>3
  <2>2. lengths = {0}
    BY <1>3 DEF Larger
  <2>3. Max({0}) = 0
    <3>1. {0} \in SUBSET Int /\ 0 \in {0} /\ \A k \in {0} : k <= 0
      OBVIOUS
    <3> QED BY <3>1, GreatestIs
  <2> QED BY <1>1, <2>1, <2>2, <2>3
<1>4. CASE n # 0
  <2>1. ASSUME NEW run
        PROVE  run = [i \in DOMAIN scores |->
                        IF i > 1 /\ scores[i] < scores[i - 1] THEN 1 + run[i - 1] ELSE 0]
               <=> IsRun(F, 1, n, run)
    <3>1. \A i \in 1..n : (IF i > 1 /\ scores[i] < scores[i - 1] THEN 1 + run[i - 1] ELSE 0)
                        = (IF i \in F THEN 1 + (IF i > 1 THEN run[i - 1] ELSE 0) ELSE 0)
      <4>1. \A i \in 1..n : i \in F <=> i > 1 /\ scores[i] < scores[i - 1]
        OBVIOUS
      <4> HIDE DEF F
      <4> QED BY <4>1
    <3> QED BY <1>2, <3>1 DEF IsRun
  <2>2. down = CHOOSE run : IsRun(F, 1, n, run)
    BY <2>1, Zenon
  <2>3. down[n] = Streak(F, 1, n)
    <3> HIDE DEF F, down
    <3>1. n \in 1..n
      BY <1>4
    <3>2. \A i \in 1..n : (CHOOSE run : IsRun(F, 1, n, run))[i] = Streak(F, 1, i)
      <4>1. 1 \in Nat /\ n \in Int
        OBVIOUS
      <4> QED BY <4>1, RunIsStreak, Zenon
    <3> QED BY <2>2, <3>1, <3>2
  <2>4. StreakLengths(F, 1, n) = lengths
    <3>1. Larger(0, n - 1) = n - 1
      BY <1>4 DEF Larger
    <3>2. ASSUME NEW m \in StreakLengths(F, 1, n)
          PROVE  m \in lengths
      <4>1. m \in 0..n /\ (n - m + 1)..n \subseteq F
        BY DEF StreakLengths
      <4>2. m # n
        <5>1. m = n => 1 \in (n - m + 1)..n
          BY <1>4
        <5> QED BY <4>1, <5>1
      <4> QED BY <1>4, <3>1, <4>1, <4>2
    <3>3. ASSUME NEW m \in lengths
          PROVE  m \in StreakLengths(F, 1, n)
      <4>1. m \in 0..(n - 1)
        BY <3>1
      <4>2. \A i \in (n - m + 1)..n : i \in 2..n /\ scores[i] < scores[i - 1]
        BY <4>1
      <4> QED BY <4>1, <4>2 DEF StreakLengths
    <3> QED BY <3>2, <3>3
  <2>5. scores # <<>>
    BY <1>4
  <2> QED BY <1>1, <2>3, <2>4, <2>5 DEF Streak
<1> QED BY <1>3, <1>4

----------------------------------------------------------------------------
(* What is measured of a student *)

\* The weeks with a score among a student's weeks up to v.
ScoredUpTo(snap, s, v) == {w \in WeeksUpTo(s, v) : HasScore(snap, s, w)}

\* A student's weeks up to v are finitely many weeks of the term.
LEMMA OwnWeeks ==
    ASSUME NEW s \in Students, NEW v \in Weeks
    PROVE  /\ Joined[s] \in Weeks /\ Joined[s] \in Nat /\ v \in Nat
           /\ WeeksUpTo(s, v) \in SUBSET Weeks
           /\ \A S \in SUBSET WeeksUpTo(s, v) :
                 IsFiniteSet(S) /\ S \in SUBSET Int /\ Cardinality(S) \in Nat
<1>1. Joined[s] \in Weeks /\ NumWeeks \in Nat
  BY RankingConstants, RiskConstants
<1>2. WeeksUpTo(s, v) \in SUBSET Weeks /\ Joined[s] \in Nat /\ v \in Nat
  BY <1>1 DEF WeeksUpTo, Weeks
<1>3. IsFiniteSet(Weeks) /\ Weeks \in SUBSET Int
  BY <1>1, FS_Interval DEF Weeks
<1>4. ASSUME NEW S \in SUBSET WeeksUpTo(s, v)
      PROVE  IsFiniteSet(S) /\ S \in SUBSET Int /\ Cardinality(S) \in Nat
  <2>1. S \in SUBSET Weeks
    BY <1>2
  <2>2. IsFiniteSet(S)
    BY <1>3, <2>1, FS_Subset
  <2> QED BY <1>3, <2>1, <2>2, FS_CardinalityType
<1> QED BY <1>1, <1>2, <1>4

\* A student's scores: in each place that of one of the weeks that have one.
LEMMA ScoresType ==
    ASSUME NEW snap \in Snapshot, NEW s \in Students, NEW v \in Weeks
    PROVE  /\ ScoresUpTo(snap, s, v) \in Seq(Nat)
           /\ Len(ScoresUpTo(snap, s, v)) = Cardinality(ScoredUpTo(snap, s, v))
<1> DEFINE S == ScoredUpTo(snap, s, v)
           n == Cardinality(S)
           week == Arranged(S, Earlier(S))
<1>1. S \in SUBSET WeeksUpTo(s, v) /\ \A w \in S : HasScore(snap, s, w)
  BY DEF ScoredUpTo
<1>2. IsFiniteSet(S) /\ S \in SUBSET Int /\ S \in SUBSET Weeks /\ n \in Nat
  BY <1>1, OwnWeeks
<1>3. \A i \in 1..n : week[i] \in S
  <2>1. IsTotalOrder(S, Earlier(S))
    BY <1>2, EarlierIsTotal
  <2> QED BY <1>2, <2>1, ArrangedInOrder
<1>4. ScoresUpTo(snap, s, v) = [i \in 1..n |-> Raw(snap, FullView, s, week[i])]
  <2>1. ScoresUpTo(snap, s, v) = [i \in 1..n |-> Raw(snap, FullView, s, InOrder(S, <)[i])]
    BY DEF ScoresUpTo, ScoredUpTo
  <2>2. InOrder(S, <) = week
    BY WeeksInOrder
  <2> HIDE DEF S, week, n
  <2> QED BY <2>1, <2>2
<1>5. ASSUME NEW w \in S
      PROVE  Raw(snap, FullView, s, w) \in Nat
  <2>1. Present(snap, FullView, s, w) # {} /\ w \in Weeks
    BY <1>1, <1>2 DEF HasScore
  <2>2. FullView.criteria \subseteq Criteria
    BY DEF FullView
  <2> QED BY <2>1, <2>2, RawType
<1> HIDE DEF S, n, week
<1> QED BY <1>2, <1>3, <1>4, <1>5 DEF S, n

\* Weeks without entries.
Empty(snap, s, v) == {w \in WeeksUpTo(s, v) : ~HasEntries(snap, s, w)}

\* The longest gap is the longest of the streaks of weeks without entries.
LEMMA MissingRunIsStreak ==
    ASSUME NEW snap, NEW s \in Students, NEW v \in Weeks
    PROVE  MissingRun(snap, s, v) =
             Max({0} \cup {Streak(Empty(snap, s, v), Joined[s], w) : w \in WeeksUpTo(s, v)})
<1> DEFINE F == Empty(snap, s, v)
           gap == CHOOSE run : run = [w \in WeeksUpTo(s, v) |->
                                        IF HasEntries(snap, s, w) THEN 0
                                        ELSE 1 + (IF w > Joined[s] THEN run[w - 1] ELSE 0)]
<1>1. MissingRun(snap, s, v) = Max({0} \cup {gap[w] : w \in WeeksUpTo(s, v)})
  BY DEF MissingRun
<1>2. WeeksUpTo(s, v) = Joined[s]..v /\ Joined[s] \in Nat /\ v \in Int
  BY OwnWeeks DEF WeeksUpTo
<1>3. \A w \in Joined[s]..v : w \in F <=> ~HasEntries(snap, s, w)
  BY <1>2 DEF Empty
<1> HIDE DEF F
<1>4. ASSUME NEW run
      PROVE  run = [w \in WeeksUpTo(s, v) |->
                      IF HasEntries(snap, s, w) THEN 0
                      ELSE 1 + (IF w > Joined[s] THEN run[w - 1] ELSE 0)]
             <=> IsRun(F, Joined[s], v, run)
  BY <1>2, <1>3 DEF IsRun
<1>5. gap = CHOOSE run : IsRun(F, Joined[s], v, run)
  BY <1>4, Zenon
<1>6. \A w \in Joined[s]..v : (CHOOSE run : IsRun(F, Joined[s], v, run))[w] = Streak(F, Joined[s], w)
  BY <1>2, RunIsStreak, Zenon
<1> HIDE DEF gap
<1>7. \A w \in WeeksUpTo(s, v) : gap[w] = Streak(F, Joined[s], w)
  BY <1>2, <1>5, <1>6
<1>8. {gap[w] : w \in WeeksUpTo(s, v)} = {Streak(F, Joined[s], w) : w \in WeeksUpTo(s, v)}
  BY <1>7
<1> QED BY <1>1, <1>8 DEF F

\* It is the length of the longest interval of such weeks.
LEMMA MissingIsLongest ==
    ASSUME NEW snap, NEW s \in Students, NEW v \in Weeks, v >= Joined[s]
    PROVE  /\ MissingRun(snap, s, v) \in Nat
           /\ MissingRun(snap, s, v) =
                Max({Cardinality(ab[1]..ab[2]) : ab \in
                       {ab \in (Joined[s]..v) \X (0..v) :
                           \A w \in ab[1]..ab[2] : ~HasEntries(snap, s, w)}})
<1> DEFINE J == Joined[s]
           F == Empty(snap, s, v)
           gaps == {ab \in (J..v) \X (0..v) : \A w \in ab[1]..ab[2] : ~HasEntries(snap, s, w)}
           S == {0} \cup {Streak(F, J, w) : w \in WeeksUpTo(s, v)}
           T == {Cardinality(ab[1]..ab[2]) : ab \in gaps}
<1>1. J \in Nat /\ J >= 1 /\ v \in Nat /\ WeeksUpTo(s, v) = J..v
  BY OwnWeeks DEF WeeksUpTo, Weeks
<1>2. MissingRun(snap, s, v) = Max(S)
  BY MissingRunIsStreak
<1>3. \A w \in J..v : w \in F <=> ~HasEntries(snap, s, w)
  BY <1>1 DEF Empty
<1>4. ASSUME NEW a \in Int, NEW b \in Int
      PROVE  Cardinality(a..b) = IF a > b THEN 0 ELSE b - a + 1
  BY FS_Interval
<1>5. ASSUME NEW w \in J..v
      PROVE  /\ Streak(F, J, w) \in 0..(w - J + 1)
             /\ (w - Streak(F, J, w) + 1)..w \subseteq F
             /\ \A n \in 0..(w - J + 1) : (w - n + 1)..w \subseteq F => n <= Streak(F, J, w)
  <2>1. w \in Int /\ w >= J - 1 /\ J \in Int
    BY <1>1
  <2> HIDE DEF F, J
  <2> QED BY <2>1, StreakIsGreatest DEF StreakLengths
<1> HIDE DEF F, J
<1>9. J <= v
  BY DEF J
<1>6. S \in SUBSET (0..v) /\ S # {}
  <2>1. \A w \in J..v : Streak(F, J, w) \in 0..v
    BY <1>1, <1>5
  <2> QED BY <1>1, <2>1
<1>7. T \in SUBSET (0..v)
  <2>1. ASSUME NEW ab \in gaps
        PROVE  Cardinality(ab[1]..ab[2]) \in 0..v
    <3>1. PICK a \in J..v, b \in 0..v : a = ab[1] /\ b = ab[2]
      OBVIOUS
    <3>2. a \in Int /\ b \in Int /\ a >= 1 /\ b <= v
      BY <1>1
    <3>3. Cardinality(a..b) = IF a > b THEN 0 ELSE b - a + 1
      BY <1>4, <3>2
    <3>4. Cardinality(a..b) \in 0..v
      BY <1>1, <3>2, <3>3
    <3> QED BY <3>1, <3>4
  <2> HIDE DEF gaps
  <2> QED BY <2>1
<1>8. ASSUME NEW w \in J..v
      PROVE  \E j \in T : Streak(F, J, w) <= j
  <2> DEFINE m == Streak(F, J, w)
  <2>1. m \in 0..(w - J + 1) /\ (w - m + 1)..w \subseteq F
    BY <1>5
  <2> HIDE DEF m
  <2>2. CASE m = 0
    <3> DEFINE ab == <<v, 0>>
    <3>1. v..0 = {}
      BY <1>1, <1>9
    <3>2. ab \in gaps
      BY <1>1, <1>9, <3>1
    <3>3. Cardinality(ab[1]..ab[2]) = 0
      BY <1>1, <1>4, <1>9
    <3>4. 0 \in T
      <4> HIDE DEF gaps, ab
      <4> QED BY <3>2, <3>3
    <3> HIDE DEF T
    <3> QED BY <2>2, <3>4 DEF m
  <2>3. CASE m # 0
    <3> DEFINE ab == <<w - m + 1, w>>
    <3>1. w - m + 1 \in J..v /\ w \in 0..v /\ (w - m + 1)..w \subseteq J..v
      BY <1>1, <2>1, <2>3
    <3>2. \A u \in (w - m + 1)..w : ~HasEntries(snap, s, u)
      BY <1>3, <2>1, <3>1
    <3>3. ab \in gaps
      BY <3>1, <3>2
    <3>4. Cardinality(ab[1]..ab[2]) = m
      BY <1>1, <1>4, <2>1, <2>3
    <3>5. m \in T
      <4> HIDE DEF gaps, ab
      <4> QED BY <3>3, <3>4
    <3> HIDE DEF T
    <3> QED BY <1>1, <2>1, <3>5 DEF m
  <2> QED BY <2>2, <2>3
<1>10. \A k \in S : \E j \in T : k <= j
  <2>1. \E j \in T : Streak(F, J, v) <= j
    BY <1>1, <1>8, <1>9
  <2>2. T \in SUBSET Nat
    BY <1>7
  <2>3. \E j \in T : 0 <= j
    <3> HIDE DEF T
    <3> QED BY <2>1, <2>2
  <2>4. \A k \in S : k = 0 \/ \E w \in J..v : k = Streak(F, J, w)
    BY <1>1
  <2> HIDE DEF S, T
  <2> QED BY <1>8, <2>3, <2>4
<1>11. \A j \in T : \E k \in S : j <= k
  <2> SUFFICES ASSUME NEW ab \in gaps
               PROVE  \E k \in S : Cardinality(ab[1]..ab[2]) <= k
    OBVIOUS
  <2>1. /\ ab[1] \in J..v /\ ab[2] \in 0..v
        /\ \A w \in ab[1]..ab[2] : ~HasEntries(snap, s, w)
    OBVIOUS
  <2>2. PICK a \in J..v, b \in 0..v : a = ab[1] /\ b = ab[2]
    BY <2>1
  <2>3. CASE a > b
    <3>1. Cardinality(a..b) = 0
      BY <1>1, <1>4, <2>3
    <3>2. 0 \in S
      OBVIOUS
    <3> HIDE DEF S
    <3> QED BY <2>2, <3>1, <3>2
  <2>4. CASE a <= b
    <3>1. Cardinality(a..b) = b - a + 1
      BY <1>1, <1>4, <2>4
    <3>2. b \in J..v /\ b - a + 1 \in 0..(b - J + 1) /\ (b - (b - a + 1) + 1)..b \subseteq F
      <4>1. b \in J..v /\ b - a + 1 \in 0..(b - J + 1) /\ b - (b - a + 1) + 1 = a
        BY <1>1, <2>4
      <4>2. \A w \in a..b : w \in J..v /\ ~HasEntries(snap, s, w)
        BY <1>1, <2>1, <2>2
      <4> QED BY <1>3, <4>1, <4>2
    <3>3. b - a + 1 <= Streak(F, J, b)
      BY <1>5, <3>2
    <3>4. Streak(F, J, b) \in S
      BY <1>1, <3>2
    <3> HIDE DEF S
    <3> QED BY <2>2, <3>1, <3>3, <3>4
  <2> QED BY <1>1, <2>3, <2>4
<1>12. Max(S) = Max(T)
  <2> HIDE DEF S, T
  <2> QED BY <1>1, <1>6, <1>7, <1>10, <1>11, SameGreatest
<1>13. Max(S) \in Nat
  <2>1. Max(S) \in S
    <3> HIDE DEF S
    <3> QED BY <1>1, <1>6, GreatestOf
  <2>2. 0..v \subseteq Nat
    BY <1>1
  <2> HIDE DEF S
  <2> QED BY <1>6, <2>1, <2>2
<1> QED BY <1>2, <1>12, <1>13 DEF J

\* The runs of the summaries are the longest there are, in every class and every week.
THEOREM RunsAlwaysLongest == RiskSpec => []RunsAreTheLongest
<1>1. RiskTypeOK => RunsAreTheLongest
  <2> SUFFICES ASSUME RiskTypeOK, NEW s \in Students, NEW v \in Joined[s]..NumWeeks
               PROVE  /\ LET scores == ScoresUpTo(snapshot, s, v)
                             falls(n) == \A i \in Len(scores) - n + 1 .. Len(scores) : scores[i] < scores[i - 1]
                         IN  DeclineRun(scores) = Max({n \in 0 .. Larger(0, Len(scores) - 1) : falls(n)})
                      /\ MissingRun(snapshot, s, v) =
                           Max({Cardinality(ab[1]..ab[2]) : ab \in
                                  {ab \in (Joined[s]..v) \X (0..v) :
                                      \A w \in ab[1]..ab[2] : ~HasEntries(snapshot, s, w)}})
    BY DEF RunsAreTheLongest
  <2>1. v \in Weeks /\ v >= Joined[s]
    BY RankingConstants, RiskConstants DEF Weeks
  <2>2. ScoresUpTo(snapshot, s, v) \in Seq(Nat)
    BY <2>1, ScoresType DEF RiskTypeOK, TypeOK
  <2> DEFINE scores == ScoresUpTo(snapshot, s, v)
             n == Len(scores)
  <2>3. scores \in Seq(Int) /\ n \in Nat
    <3> HIDE DEF scores
    <3> QED BY <2>2 DEF scores
  <2> HIDE DEF scores
  <2>4. DeclineRun(scores) =
          Max({m \in 0 .. Larger(0, n - 1) : \A i \in n - m + 1 .. n : scores[i] < scores[i - 1]})
    BY <2>3, DeclineIsLongest
  <2>5. MissingRun(snapshot, s, v) =
           Max({Cardinality(ab[1]..ab[2]) : ab \in
                  {ab \in (Joined[s]..v) \X (0..v) :
                      \A w \in ab[1]..ab[2] : ~HasEntries(snapshot, s, w)}})
    BY <2>1, MissingIsLongest
  <2> QED BY <2>4, <2>5 DEF scores
<1> QED BY <1>1, RiskTypeCorrect, PTL

\* A run of falls is a natural number.
LEMMA DeclineRunType ==
    ASSUME NEW scores \in Seq(Int)
    PROVE  DeclineRun(scores) \in Nat
<1> DEFINE n == Len(scores)
           last == Larger(0, n - 1)
           S == {m \in 0 .. last : \A i \in n - m + 1 .. n : scores[i] < scores[i - 1]}
<1>1. n \in Nat
  OBVIOUS
<1>2. DeclineRun(scores) = Max(S)
  BY <1>1, DeclineIsLongest
<1>3. last \in Nat
  BY <1>1 DEF Larger
<1>4. S \in SUBSET (0..last) /\ 0 \in S
  BY <1>1, <1>3
<1>5. Max(S) \in S
  <2> HIDE DEF S, last, n
  <2> QED BY <1>3, <1>4, GreatestOf
<1>6. 0..last \subseteq Nat
  BY <1>3
<1> HIDE DEF S, last, n
<1> QED BY <1>2, <1>4, <1>5, <1>6

\* The points of a student's weeks up to v that a criterion's share is taken of.
Marked(snap, s, v, c) == {w \in WeeksUpTo(s, v) : snap.marks[s][w][c] # NoMark}

\* What was earned in them.
Earned(snap, s, v, c) ==
    SumOn([w \in Marked(snap, s, v, c) |-> snap.marks[s][w][c].earned], Marked(snap, s, v, c))

\* What could have been.
Possible(snap, s, v, c) ==
    SumOn([w \in Marked(snap, s, v, c) |-> snap.marks[s][w][c].possible], Marked(snap, s, v, c))

\* ShareBelow compares them.
LEMMA ShareParts ==
    ASSUME NEW snap \in Snapshot, NEW s \in Students, NEW v \in Weeks, NEW c \in Criteria, NEW percent
    PROVE  /\ ShareBelow(snap, s, v, c, percent)
                <=> 100 * Earned(snap, s, v, c) < percent * Possible(snap, s, v, c)
           /\ Earned(snap, s, v, c) \in Nat /\ Possible(snap, s, v, c) \in Nat
<1> DEFINE marked == Marked(snap, s, v, c)
           earned == [w \in marked |-> snap.marks[s][w][c].earned]
           possible == [w \in marked |-> snap.marks[s][w][c].possible]
<1>1. ShareBelow(snap, s, v, c, percent) <=> 100 * SumFunction(earned) < percent * SumFunction(possible)
  BY DEF ShareBelow, Marked
<1>2. marked \in SUBSET WeeksUpTo(s, v) /\ \A w \in marked : snap.marks[s][w][c] # NoMark
  BY DEF Marked
<1>3. IsFiniteSet(marked) /\ marked \in SUBSET Weeks
  <2> HIDE DEF marked
  <2> QED BY <1>2, OwnWeeks
<1>4. DOMAIN earned = marked /\ DOMAIN possible = marked
  OBVIOUS
<1>5. \A w \in marked : earned[w] \in Nat /\ possible[w] \in Nat
  BY <1>2, <1>3, CellType
<1>6. SumFunction(earned) = SumOn(earned, marked) /\ SumFunction(possible) = SumOn(possible, marked)
  BY <1>4, SumFunctionIsSumOn, Zenon
<1> HIDE DEF marked, earned, possible
<1>7. SumOn(earned, marked) \in Nat /\ SumOn(possible, marked) \in Nat
  <2>1. \A w \in marked : /\ earned[w] \in Int /\ earned[w] >= 0
                          /\ possible[w] \in Int /\ possible[w] >= 0
    BY <1>5
  <2> QED BY <1>3, <2>1, SumType
<1> QED BY <1>1, <1>6, <1>7 DEF Earned, Possible, earned, possible, marked

\* A sum of scores is a natural number.
LEMMA TotalType ==
    ASSUME NEW scores \in Seq(Nat)
    PROVE  SumFunction(scores) \in Nat
<1>1. SumFunction(scores) = SumOn(scores, DOMAIN scores)
  BY SumFunctionIsSumOn
<1>2. DOMAIN scores = 1..Len(scores) /\ Len(scores) \in Nat
  OBVIOUS
<1>3. IsFiniteSet(DOMAIN scores)
  BY <1>2, FS_Interval
<1>4. \A i \in DOMAIN scores : scores[i] \in Int /\ scores[i] >= 0
  BY <1>2
<1> QED BY <1>1, <1>3, <1>4, SumType

\* The thresholds' part of AsStrict.
AsStrictThresholds(t, than) ==
    /\ t.declineWeeks <= than.declineWeeks
    /\ t.missedAssignments <= than.missedAssignments
    /\ \A c \in RatedCriteria : t.share[c] >= than.share[c]
    /\ t.projectedGrade >= than.projectedGrade
    /\ t.commitmentHours <= than.commitmentHours
    /\ t.missingWeeks <= than.missingWeeks

\* Under thresholds that are as strict, all that fired fires.
LEMMA StricterFires ==
    ASSUME NEW snap \in Snapshot, NEW t \in Thresholds, NEW than \in Thresholds,
           AsStrictThresholds(t, than), NEW s \in Students, NEW v \in Weeks, v >= Joined[s]
    PROVE  Firing(snap, than, s, v) \subseteq Firing(snap, t, s, v)
<1> DEFINE scores == ScoresUpTo(snap, s, v)
<1>1. /\ t.declineWeeks \in Nat /\ t.missedAssignments \in Nat /\ t.share \in [RatedCriteria -> Nat]
      /\ t.projectedGrade \in Nat /\ t.commitmentHours \in Nat /\ t.missingWeeks \in Nat
      /\ than.declineWeeks \in Nat /\ than.missedAssignments \in Nat
      /\ than.share \in [RatedCriteria -> Nat]
      /\ than.projectedGrade \in Nat /\ than.commitmentHours \in Nat /\ than.missingWeeks \in Nat
  BY DEF Thresholds
<1>2. scores \in Seq(Nat)
  BY ScoresType
<1>3. DeclineRun(scores) \in Nat
  <2> HIDE DEF scores
  <2>1. scores \in Seq(Int)
    BY <1>2
  <2> QED BY <2>1, DeclineRunType
<1>4. Missed(snap, s, v) \in Nat
  <2> DEFINE S == {w \in WeeksUpTo(s, v) :
                      /\ snap.marks[s][w][Homework] # NoMark
                      /\ snap.marks[s][w][Homework].possible > 0
                      /\ snap.marks[s][w][Homework].earned = 0}
  <2>1. Missed(snap, s, v) = Cardinality(S)
    BY DEF Missed
  <2>2. S \in SUBSET WeeksUpTo(s, v)
    OBVIOUS
  <2> HIDE DEF S
  <2> QED BY <2>1, <2>2, OwnWeeks
<1>5. MissingRun(snap, s, v) \in Nat
  BY MissingIsLongest
<1>6. snap.hours[s][v] \in Nat
  <2>1. snap.hours[s][v] \in HoursValues
    BY DEF Snapshot
  <2> QED BY <2>1, RankingConstants
<1>7. ASSUME NEW c \in RatedCriteria, ShareBelow(snap, s, v, c, than.share[c])
      PROVE  ShareBelow(snap, s, v, c, t.share[c])
  <2>1. c \in Criteria /\ t.share[c] \in Nat /\ than.share[c] \in Nat /\ than.share[c] <= t.share[c]
    BY <1>1, RiskConstants DEF AsStrictThresholds
  <2> DEFINE e == Earned(snap, s, v, c)
             p == Possible(snap, s, v, c)
  <2>2. /\ e \in Nat /\ p \in Nat
        /\ ShareBelow(snap, s, v, c, than.share[c]) <=> 100 * e < than.share[c] * p
        /\ ShareBelow(snap, s, v, c, t.share[c]) <=> 100 * e < t.share[c] * p
    BY <2>1, ShareParts
  <2> HIDE DEF e, p
  <2>3. /\ than.share[c] * p <= t.share[c] * p
        /\ than.share[c] * p \in Nat /\ t.share[c] * p \in Nat
    BY <2>1, <2>2, LargerProduct
  <2>4. 100 * e < than.share[c] * p
    BY <1>7, <2>2
  <2> QED BY <2>2, <2>3, <2>4
<1>8. ProjectedBelow(scores, than.projectedGrade) => ProjectedBelow(scores, t.projectedGrade)
  <2>1. SumFunction(scores) \in Nat
    BY <1>2, TotalType
  <2>2. Len(scores) \in Nat /\ Unit \in Nat
    BY <1>2, RankingConstants
  <2> DEFINE total == SumFunction(scores)
             n == Len(scores)
             a == than.projectedGrade
             b == t.projectedGrade
  <2>3. /\ ProjectedBelow(scores, a) <=> total < a * Unit * n
        /\ ProjectedBelow(scores, b) <=> total < b * Unit * n
    BY DEF ProjectedBelow
  <2>4. a \in Nat /\ b \in Nat /\ a <= b /\ total \in Nat /\ n \in Nat
    BY <1>1, <2>1, <2>2 DEF AsStrictThresholds
  <2> HIDE DEF total, n, a, b
  <2>5. a * Unit <= b * Unit /\ a * Unit \in Nat /\ b * Unit \in Nat
    BY <2>2, <2>4, LargerProduct
  <2>6. a * Unit * n <= b * Unit * n /\ a * Unit * n \in Nat /\ b * Unit * n \in Nat
    BY <2>4, <2>5, LargerProduct
  <2>7. total < a * Unit * n => total < b * Unit * n
    <3> DEFINE x == a * Unit * n
               y == b * Unit * n
    <3>1. x \in Nat /\ y \in Nat /\ x <= y
      BY <2>6
    <3> HIDE DEF x, y
    <3>2. total < x => total < y
      BY <2>4, <3>1
    <3> QED BY <3>2 DEF x, y
  <2> QED BY <2>3, <2>7 DEF a, b
<1> HIDE DEF scores
<1>9. ASSUME NEW m \in Nat
      PROVE  /\ m >= than.declineWeeks => m >= t.declineWeeks
             /\ m >= than.missedAssignments => m >= t.missedAssignments
             /\ m >= than.commitmentHours => m >= t.commitmentHours
             /\ m >= than.missingWeeks => m >= t.missingWeeks
  BY <1>1 DEF AsStrictThresholds
<1>10. /\ DeclineRun(scores) >= than.declineWeeks => DeclineRun(scores) >= t.declineWeeks
       /\ Missed(snap, s, v) >= than.missedAssignments => Missed(snap, s, v) >= t.missedAssignments
       /\ snap.hours[s][v] >= than.commitmentHours => snap.hours[s][v] >= t.commitmentHours
       /\ MissingRun(snap, s, v) >= than.missingWeeks => MissingRun(snap, s, v) >= t.missingWeeks
  BY <1>3, <1>4, <1>5, <1>6, <1>9
<1> QED BY <1>7, <1>8, <1>10, Zenon DEF Firing, scores

\* So do all that were on, if none is switched off.
LEMMA StricterSignals ==
    ASSUME NEW snap \in Snapshot, NEW rs \in RiskSettings, NEW than \in RiskSettings,
           AsStrict(rs, than), NEW s \in Students, NEW v \in Weeks, v >= Joined[s]
    PROVE  SignalsOn(snap, than, s, v) \subseteq SignalsOn(snap, rs, s, v)
<1>1. rs.thresholds \in Thresholds /\ than.thresholds \in Thresholds
  BY DEF RiskSettings
<1>2. AsStrictThresholds(rs.thresholds, than.thresholds)
  BY DEF AsStrict, AsStrictThresholds
<1>3. Firing(snap, than.thresholds, s, v) \subseteq Firing(snap, rs.thresholds, s, v)
  BY <1>1, <1>2, StricterFires
<1>4. \A signal \in Signals : than.active[signal] => rs.active[signal]
  BY DEF AsStrict
<1>5. \A signal \in Firing(snap, than.thresholds, s, v) : signal \in Signals
  BY Zenon DEF Firing
<1> QED BY <1>3, <1>4, <1>5, Zenon DEF SignalsOn

\* Stricter thresholds never clear a signal, and laxer ones never raise one.
THEOREM StricterAlways == RiskSpec => StricterNeverClears
<1>1. ASSUME RiskTypeOK, RiskTypeOK', [RiskNext]_riskVars
      PROVE  \A s \in Students : \A v \in Joined[s] .. NumWeeks :
                LET old == SignalsOn(snapshot, risk, s, v)
                    new == SignalsOn(snapshot', risk', s, v)
                IN  snapshot' = snapshot =>
                      /\ AsStrict(risk', risk) => old \subseteq new
                      /\ AsStrict(risk, risk') => new \subseteq old
  <2> SUFFICES ASSUME NEW s \in Students, NEW v \in Joined[s] .. NumWeeks, snapshot' = snapshot
               PROVE  /\ AsStrict(risk', risk) =>
                            SignalsOn(snapshot, risk, s, v) \subseteq SignalsOn(snapshot, risk', s, v)
                      /\ AsStrict(risk, risk') =>
                            SignalsOn(snapshot, risk', s, v) \subseteq SignalsOn(snapshot, risk, s, v)
    OBVIOUS
  <2>1. v \in Weeks /\ v >= Joined[s]
    BY RankingConstants, RiskConstants DEF Weeks
  <2>2. snapshot \in Snapshot /\ risk \in RiskSettings /\ risk' \in RiskSettings
    BY <1>1 DEF RiskTypeOK, TypeOK
  <2> QED BY <2>1, <2>2, StricterSignals
<1> QED BY <1>1, RiskTypeCorrect, PTL DEF RiskSpec, StricterNeverClears
----------------------------------------------------------------------------
(* The digest *)

\* The students a digest lists with one of some states.
ListedAs(snap, rs, v, states) ==
    {row.student : row \in {r \in Digest(snap, rs, v) : r.status \in states}}

\* They are those whose state of the week is one of these.
LEMMA ListedByStatus ==
    ASSUME NEW snap, NEW rs, NEW v, NEW states, "quiet" \notin states
    PROVE  ListedAs(snap, rs, v, states) =
             {s \in Students : Status(Prior(snap, rs, v)[s], EvaluateClass(snap, rs, v)[s]) \in states}
<1> DEFINE status(s) == Status(Prior(snap, rs, v)[s], EvaluateClass(snap, rs, v)[s])
           level(s) == LevelFor(EvaluateClass(snap, rs, v)[s])
<1>1. Digest(snap, rs, v) =
        {[student |-> s, level |-> level(s), status |-> status(s)] :
            s \in {u \in Students : status(u) # "quiet"}}
  BY DEF Digest
<1> HIDE DEF status, level
<1>2. \A r \in Digest(snap, rs, v) : r.status = status(r.student) /\ r.student \in Students
  BY <1>1
<1>3. \A s \in Students : status(s) \in states =>
         \E r \in Digest(snap, rs, v) : r.student = s /\ r.status = status(s)
  <2> SUFFICES ASSUME NEW s \in Students, status(s) \in states
               PROVE  \E r \in Digest(snap, rs, v) : r.student = s /\ r.status = status(s)
    OBVIOUS
  <2> DEFINE row == [student |-> s, level |-> level(s), status |-> status(s)]
  <2>1. row \in Digest(snap, rs, v)
    BY <1>1
  <2>2. row.student = s /\ row.status = status(s)
    OBVIOUS
  <2> QED BY <2>1, <2>2
<1>4. ListedAs(snap, rs, v, states) = {s \in Students : status(s) \in states}
  BY <1>2, <1>3 DEF ListedAs
<1> QED BY <1>4 DEF status

\* A state says which of the two weeks the student was flagged in.
LEMMA StatusTells ==
    ASSUME NEW was, NEW is
    PROVE  /\ Status(was, is) \in {"still", "cleared"} <=> was # {}
           /\ Status(was, is) \in {"new", "still"} <=> is # {}
BY DEF Status

\* Whoever a week's digest lists as flagged is in the next one as still flagged or
\* cleared, and nobody else is.
THEOREM DigestsAlwaysChain == RiskSpec => []DigestsFormAChain
<1>1. DigestsFormAChain
  <2> SUFFICES ASSUME NEW v \in Weeks
               PROVE  ListedAs(snapshot, risk, v, {"still", "cleared"}) =
                        IF v = 1 THEN {} ELSE ListedAs(snapshot, risk, v - 1, {"new", "still"})
    BY DEF DigestsFormAChain, ListedAs
  <2>1. ListedAs(snapshot, risk, v, {"still", "cleared"}) =
          {s \in Students : Prior(snapshot, risk, v)[s] # {}}
    <3>1. "quiet" \notin {"still", "cleared"}
      OBVIOUS
    <3> QED BY <3>1, ListedByStatus, StatusTells
  <2>2. ListedAs(snapshot, risk, v - 1, {"new", "still"}) =
          {s \in Students : EvaluateClass(snapshot, risk, v - 1)[s] # {}}
    <3>1. "quiet" \notin {"new", "still"}
      OBVIOUS
    <3> QED BY <3>1, ListedByStatus, StatusTells
  <2>3. v = 1 => \A s \in Students : Prior(snapshot, risk, v)[s] = {}
    BY DEF Prior
  <2>4. v # 1 => Prior(snapshot, risk, v) = EvaluateClass(snapshot, risk, v - 1)
    BY RankingConstants DEF Prior, Weeks
  <2> QED BY <2>1, <2>2, <2>3, <2>4
<1> QED BY <1>1, PTL

----------------------------------------------------------------------------
(* Weeks that have passed *)

\* Two snapshots of a class that differ only in weeks after v.
SameUpTo(v, old, new) ==
    /\ new.settings = old.settings
    /\ \A s \in Students, w \in 1..v : /\ new.marks[s][w] = old.marks[s][w]
                                       /\ new.hours[s][w] = old.hours[s][w]

\* A week's score is of that week's marks and the settings.
LEMMA SameScore ==
    ASSUME NEW old, NEW new, NEW view, NEW s, NEW w,
           new.settings = old.settings, new.marks[s][w] = old.marks[s][w]
    PROVE  /\ Present(new, view, s, w) = Present(old, view, s, w)
           /\ Raw(new, view, s, w) = Raw(old, view, s, w)
<1> DEFINE present == Present(old, view, s, w)
           points(snap) == [c \in present |-> Normalised(snap.marks[s][w][c]) * snap.settings.weights[c]]
           weights(snap) == [c \in present |-> snap.settings.weights[c]]
<1>1. Present(new, view, s, w) = present
  BY DEF Present
<1>2. /\ Raw(old, view, s, w) = SumFunction(points(old)) \div SumFunction(weights(old))
      /\ Raw(new, view, s, w) = SumFunction(points(new)) \div SumFunction(weights(new))
  <2> HIDE DEF present
  <2> QED BY <1>1 DEF Raw, present
<1>3. points(new) = points(old) /\ weights(new) = weights(old)
  <2> HIDE DEF present
  <2> QED OBVIOUS
<1> HIDE DEF points, weights
<1> QED BY <1>1, <1>2, <1>3

\* What fires in week v is of the weeks up to v.
LEMMA SameFiring ==
    ASSUME NEW v \in Weeks, NEW old, NEW new, SameUpTo(v, old, new),
           NEW t, NEW s \in Students
    PROVE  Firing(new, t, s, v) = Firing(old, t, s, v)
<1>1. /\ WeeksUpTo(s, v) \in SUBSET (1..v) /\ v \in 1..v
      /\ WeeksUpTo(s, v) \in SUBSET WeeksUpTo(s, v)
  BY OwnWeeks, RankingConstants, RiskConstants DEF WeeksUpTo, Weeks
<1>2. /\ new.settings = old.settings
      /\ new.hours[s][v] = old.hours[s][v]
      /\ \A w \in WeeksUpTo(s, v) : new.marks[s][w] = old.marks[s][w]
  BY <1>1 DEF SameUpTo
<1>3. \A w \in WeeksUpTo(s, v) : HasEntries(new, s, w) <=> HasEntries(old, s, w)
  BY <1>2 DEF HasEntries
<1>4. \A w \in WeeksUpTo(s, v) : /\ HasScore(new, s, w) <=> HasScore(old, s, w)
                                 /\ Raw(new, FullView, s, w) = Raw(old, FullView, s, w)
  BY <1>2, SameScore DEF HasScore
<1>5. ScoresUpTo(new, s, v) = ScoresUpTo(old, s, v)
  <2> DEFINE S == ScoredUpTo(old, s, v)
             n == Cardinality(S)
             week == InOrder(S, <)
  <2>1. ScoredUpTo(new, s, v) = S
    BY <1>4 DEF ScoredUpTo
  <2>2. S \in SUBSET WeeksUpTo(s, v)
    BY DEF ScoredUpTo
  <2>3. \A i \in 1..n : week[i] \in S
    <3>1. IsFiniteSet(S) /\ IsTotalOrder(S, Earlier(S))
      BY <2>2, OwnWeeks, EarlierIsTotal
    <3>2. \A i \in 1..Cardinality(S) : Arranged(S, Earlier(S))[i] \in S
      BY <3>1, ArrangedInOrder
    <3>3. week = Arranged(S, Earlier(S))
      BY WeeksInOrder
    <3> HIDE DEF S, week
    <3> QED BY <3>2, <3>3
  <2>4. /\ ScoresUpTo(old, s, v) = [i \in 1..n |-> Raw(old, FullView, s, week[i])]
        /\ ScoresUpTo(new, s, v) =
             [i \in 1..Cardinality(ScoredUpTo(new, s, v)) |->
                Raw(new, FullView, s, InOrder(ScoredUpTo(new, s, v), <)[i])]
    BY DEF ScoresUpTo, ScoredUpTo
  <2> HIDE DEF S
  <2>5. ScoresUpTo(new, s, v) = [i \in 1..n |-> Raw(new, FullView, s, week[i])]
    BY <2>1, <2>4
  <2> HIDE DEF week, n
  <2>6. \A i \in 1..n : Raw(new, FullView, s, week[i]) = Raw(old, FullView, s, week[i])
    BY <1>4, <2>2, <2>3
  <2> QED BY <2>4, <2>5, <2>6
<1>6. Missed(new, s, v) = Missed(old, s, v)
  BY <1>2 DEF Missed
<1>7. \A c \in RatedCriteria :
         ShareBelow(new, s, v, c, t.share[c]) <=> ShareBelow(old, s, v, c, t.share[c])
  <2> SUFFICES ASSUME NEW c \in RatedCriteria
               PROVE  ShareBelow(new, s, v, c, t.share[c]) <=> ShareBelow(old, s, v, c, t.share[c])
    OBVIOUS
  <2> DEFINE marked == Marked(old, s, v, c)
             earned(snap) == [w \in marked |-> snap.marks[s][w][c].earned]
             possible(snap) == [w \in marked |-> snap.marks[s][w][c].possible]
  <2>1. Marked(new, s, v, c) = marked
    BY <1>2 DEF Marked
  <2>2. /\ ShareBelow(old, s, v, c, t.share[c])
             <=> 100 * SumFunction(earned(old)) < t.share[c] * SumFunction(possible(old))
        /\ ShareBelow(new, s, v, c, t.share[c])
             <=> 100 * SumFunction([w \in Marked(new, s, v, c) |-> new.marks[s][w][c].earned])
                   < t.share[c] * SumFunction([w \in Marked(new, s, v, c) |-> new.marks[s][w][c].possible])
    BY Zenon DEF ShareBelow, Marked
  <2>3. \A w \in marked : new.marks[s][w] = old.marks[s][w]
    BY <1>2 DEF Marked
  <2> HIDE DEF marked
  <2>4. earned(new) = earned(old) /\ possible(new) = possible(old)
    BY <2>3
  <2>5. /\ [w \in Marked(new, s, v, c) |-> new.marks[s][w][c].earned] = earned(new)
        /\ [w \in Marked(new, s, v, c) |-> new.marks[s][w][c].possible] = possible(new)
    BY <2>1
  <2> HIDE DEF earned, possible
  <2> QED BY <2>2, <2>4, <2>5
<1>8. MissingRun(new, s, v) = MissingRun(old, s, v)
  <2> DEFINE longest(F) == Max({0} \cup {Streak(F, Joined[s], w) : w \in WeeksUpTo(s, v)})
  <2>1. Empty(new, s, v) = Empty(old, s, v)
    BY <1>3 DEF Empty
  <2>2. \A snap : MissingRun(snap, s, v) = longest(Empty(snap, s, v))
    BY MissingRunIsStreak
  <2> HIDE DEF longest
  <2> QED BY <2>1, <2>2
<1> QED BY <1>2, <1>5, <1>6, <1>7, <1>8, Zenon DEF Firing

\* The digest of a week depends on no week after it.
LEMMA SameDigest ==
    ASSUME NEW v \in Weeks, NEW old, NEW new, SameUpTo(v, old, new), NEW rs
    PROVE  Digest(new, rs, v) = Digest(old, rs, v)
<1>1. ASSUME NEW u \in Weeks, u <= v
      PROVE  EvaluateClass(new, rs, u) = EvaluateClass(old, rs, u)
  <2>1. SameUpTo(u, old, new)
    <3>1. 1..u \subseteq 1..v
      BY <1>1, RankingConstants DEF Weeks
    <3> QED BY <3>1 DEF SameUpTo
  <2>2. \A s \in Students : Firing(new, rs.thresholds, s, u) = Firing(old, rs.thresholds, s, u)
    BY <2>1, SameFiring
  <2>3. \A s \in Students : SignalsOn(new, rs, s, u) = SignalsOn(old, rs, s, u)
    BY <2>2 DEF SignalsOn
  <2> QED BY <2>3 DEF EvaluateClass
<1>2. EvaluateClass(new, rs, v) = EvaluateClass(old, rs, v)
  BY <1>1, RankingConstants DEF Weeks
<1>3. Prior(new, rs, v) = Prior(old, rs, v)
  <2>1. CASE v > 1
    <3>1. v - 1 \in Weeks /\ v - 1 <= v
      BY <2>1, RankingConstants DEF Weeks
    <3> QED BY <1>1, <2>1, <3>1 DEF Prior
  <2>2. CASE ~(v > 1)
    BY <2>2 DEF Prior
  <2> QED BY <2>1, <2>2
<1> DEFINE listing(now, before) ==
             {[student |-> s, level |-> LevelFor(now[s]), status |-> Status(before[s], now[s])] :
                s \in {u \in Students : Status(before[u], now[u]) # "quiet"}}
<1>4. \A snap : Digest(snap, rs, v) = listing(EvaluateClass(snap, rs, v), Prior(snap, rs, v))
  BY Zenon DEF Digest
<1> HIDE DEF listing
<1> QED BY <1>2, <1>3, <1>4

\* Levels and digests are of the data as it stood: a mark or hours of a later week
\* leave them alone.
THEOREM LaterWeeksAlways == RiskSpec => LaterWeeksLeaveLevelsAlone
<1>1. ASSUME RiskTypeOK, [RiskNext]_riskVars
      PROVE  \A s \in Students, w \in Weeks :
                (\/ snapshot'.marks[s][w] # snapshot.marks[s][w]
                 \/ snapshot'.hours[s][w] # snapshot.hours[s][w])
                => \A v \in 1 .. w - 1 : Digest(snapshot', risk', v) = Digest(snapshot, risk, v)
  <2> SUFFICES ASSUME NEW s \in Students, NEW w \in Weeks,
                      \/ snapshot'.marks[s][w] # snapshot.marks[s][w]
                      \/ snapshot'.hours[s][w] # snapshot.hours[s][w],
                      NEW v \in 1 .. w - 1
               PROVE  Digest(snapshot', risk', v) = Digest(snapshot, risk, v)
    OBVIOUS
  <2>1. /\ snapshot.marks \in [Students -> [Weeks -> [Criteria -> Cells]]]
        /\ snapshot.hours \in [Students -> [Weeks -> HoursValues]]
        /\ snapshot = [marks |-> snapshot.marks, hours |-> snapshot.hours, settings |-> snapshot.settings]
    BY <1>1 DEF RiskTypeOK, TypeOK, Snapshot
  <2>2. v \in Weeks /\ 1..v \subseteq Weeks /\ w \notin 1..v
    BY RankingConstants DEF Weeks
  <2> DEFINE OnlyWeek == /\ risk' = risk /\ snapshot'.settings = snapshot.settings
                         /\ \A u \in Students, x \in Weeks \ {w} :
                               /\ snapshot'.marks[u][x] = snapshot.marks[u][x]
                               /\ snapshot'.hours[u][x] = snapshot.hours[u][x]
  <2>3. ASSUME NEW s0 \in Students, NEW w0 \in Weeks, NEW c \in Criteria, NEW cell \in Cells,
               EnterMark(s0, w0, c, cell), risk' = risk
        PROVE  OnlyWeek
    <3>1. /\ snapshot'.marks = [snapshot.marks EXCEPT ![s0][w0][c] = cell]
          /\ snapshot'.hours = snapshot.hours /\ snapshot'.settings = snapshot.settings
      BY <2>1, <2>3 DEF EnterMark
    <3>2. \A u \in Students, x \in Weeks : x # w0 => snapshot'.marks[u][x] = snapshot.marks[u][x]
      BY <2>1, <3>1
    <3>3. w = w0
      BY <3>1, <3>2
    <3> QED BY <2>3, <3>1, <3>2, <3>3
  <2>4. ASSUME NEW s0 \in Students, NEW w0 \in Weeks, NEW h \in HoursValues,
               ChangeHours(s0, w0, h), risk' = risk
        PROVE  OnlyWeek
    <3>1. /\ snapshot'.hours = [snapshot.hours EXCEPT ![s0][w0] = h]
          /\ snapshot'.marks = snapshot.marks /\ snapshot'.settings = snapshot.settings
      BY <2>1, <2>4 DEF ChangeHours
    <3>2. \A u \in Students, x \in Weeks : x # w0 => snapshot'.hours[u][x] = snapshot.hours[u][x]
      BY <2>1, <3>1
    <3>3. w = w0
      BY <3>1, <3>2
    <3> QED BY <2>4, <3>1, <3>2, <3>3
  <2>5. ASSUME NEW patch \in Patches, SaveSettings(patch)
        PROVE  FALSE
    BY <2>1, <2>5 DEF SaveSettings
  <2>6. ASSUME NEW patch \in RiskPatches, SaveRiskSettings(patch)
        PROVE  FALSE
    BY <2>6 DEF SaveRiskSettings
  <2>7. ASSUME UNCHANGED riskVars
        PROVE  FALSE
    BY <2>7 DEF riskVars
  <2>8. OnlyWeek
    BY <1>1, <2>3, <2>4, <2>5, <2>6, <2>7 DEF RiskNext
  <2>9. SameUpTo(v, snapshot, snapshot')
    BY <2>2, <2>8 DEF SameUpTo
  <2>10. Digest(snapshot', risk, v) = Digest(snapshot, risk, v)
    BY <2>2, <2>9, SameDigest
  <2> QED BY <2>8, <2>10
<1> QED BY <1>1, RiskTypeCorrect, PTL DEF RiskSpec, LaterWeeksLeaveLevelsAlone

----------------------------------------------------------------------------
(* A mark where there was none *)

\* A mean to which a value is added moves towards the value and not past it, rounded
\* down as it is.
LEMMA MeanMovesTowards ==
    ASSUME NEW P \in Nat, NEW W \in Nat, W > 0, NEW norm \in Nat, NEW weight \in Nat, weight > 0
    PROVE  LET old == P \div W
               new == (P + norm * weight) \div (W + weight)
           IN  Lesser(old, norm) <= new /\ new <= Larger(old, norm)
<1> DEFINE old == P \div W
           Q == P + norm * weight
           V == W + weight
           new == Q \div V
           low == Lesser(old, norm)
           high == Larger(old, norm)
<1>1. old \in Nat /\ W * old <= P /\ P < W * (old + 1)
  BY Quotient
<1>2. norm * weight \in Nat
  BY Product
<1>3. Q \in Nat /\ V \in Nat /\ V > 0 /\ Q = P + norm * weight /\ V = W + weight
  BY <1>2
<1>4. new \in Nat /\ V * new <= Q /\ Q < V * (new + 1)
  BY <1>3, Quotient
<1>5. /\ low \in Nat /\ low <= old /\ low <= norm
      /\ high \in Nat /\ old <= high /\ norm <= high
  BY <1>1 DEF Lesser, Larger
<1> HIDE DEF old, Q, V, new, low, high
<1>6. low <= new
  <2> SUFFICES ASSUME new + 1 <= low PROVE FALSE
    BY <1>4, <1>5
  <2>1. /\ (new + 1) * W <= low * W /\ low * W <= old * W
        /\ (new + 1) * W \in Nat /\ low * W \in Nat /\ old * W \in Nat
    BY <1>1, <1>4, <1>5, LargerProduct
  <2>2. /\ (new + 1) * weight <= low * weight /\ low * weight <= norm * weight
        /\ (new + 1) * weight \in Nat /\ low * weight \in Nat
    BY <1>4, <1>5, LargerProduct
  <2>3. V * (new + 1) = (new + 1) * W + (new + 1) * weight
    BY <1>3, <1>4
  <2>4. old * W = W * old
    BY <1>1
  <2> QED BY <1>1, <1>2, <1>3, <1>4, <2>1, <2>2, <2>3, <2>4
<1>7. new <= high
  <2> SUFFICES ASSUME high + 1 <= new PROVE FALSE
    BY <1>4, <1>5
  <2>1. /\ (old + 1) * W <= (high + 1) * W /\ (high + 1) * W <= new * W
        /\ (old + 1) * W \in Nat /\ (high + 1) * W \in Nat /\ new * W \in Nat
    BY <1>1, <1>4, <1>5, LargerProduct
  <2>2. /\ norm * weight <= high * weight /\ high * weight <= new * weight
        /\ high * weight \in Nat /\ new * weight \in Nat
    BY <1>4, <1>5, LargerProduct
  <2>3. V * new = new * W + new * weight
    BY <1>3, <1>4
  <2>4. (old + 1) * W = W * (old + 1)
    BY <1>1
  <2> QED BY <1>1, <1>2, <1>3, <1>4, <2>1, <2>2, <2>3, <2>4
<1> QED BY <1>6, <1>7 DEF old, Q, V, new, low, high

\* A mark of a student's week where there was none.
FirstMark(old, new, s, w, c, cell) ==
    /\ new.settings = old.settings
    /\ old.marks[s][w][c] = NoMark /\ new.marks[s][w][c] = cell
    /\ cell \in Marks /\ cell.possible > 0 /\ old.settings.weights[c] > 0
    /\ \A d \in Criteria : d # c => new.marks[s][w][d] = old.marks[s][w][d]

\* Its criterion joins those that the week's score is the mean of.
Joins(old, new, view, s, w, c, cell) ==
    /\ Points(new, view, s, w) =
          Points(old, view, s, w) + Normalised(cell) * old.settings.weights[c]
    /\ Weight(new, view, s, w) = Weight(old, view, s, w) + old.settings.weights[c]

\* That is all it changes.
LEMMA FirstMarkAdds ==
    ASSUME NEW old \in Snapshot, NEW new \in Snapshot, NEW view, view.criteria \subseteq Criteria,
           NEW s \in Students, NEW w \in Weeks, NEW c \in view.criteria, NEW cell,
           FirstMark(old, new, s, w, c, cell)
    PROVE  Joins(old, new, view, s, w, c, cell)
<1> DEFINE P == Present(old, view, s, w)
           Q == Present(new, view, s, w)
           points(snap) == [d \in Present(snap, view, s, w) |->
                              Normalised(snap.marks[s][w][d]) * snap.settings.weights[d]]
           weights(snap) == [d \in Present(snap, view, s, w) |-> snap.settings.weights[d]]
<1>1. /\ Points(old, view, s, w) = SumOn(points(old), P)
      /\ Points(new, view, s, w) = SumOn(points(new), Q)
      /\ Weight(old, view, s, w) = SumOn(weights(old), P)
      /\ Weight(new, view, s, w) = SumOn(weights(new), Q)
  BY Zenon DEF Points, Weight
<1>2. IsFiniteSet(P) /\ IsFiniteSet(Q) /\ P \subseteq Criteria /\ Q \subseteq Criteria
  BY RawParts
<1>3. cell # NoMark
  BY RankingConstants DEF FirstMark
<1>4. c \in Q /\ c \notin P
  BY <1>3 DEF Present, FirstMark
<1>5. Q \ {c} = P
  <2>1. \A d \in view.criteria : d # c => (d \in Q <=> d \in P)
    BY DEF Present, FirstMark
  <2>2. Q \subseteq view.criteria /\ P \subseteq view.criteria
    BY DEF Present
  <2> HIDE DEF P, Q
  <2> QED BY <1>4, <2>1, <2>2
<1>6. ASSUME NEW d \in Q
      PROVE  /\ weights(new)[d] \in Nat /\ points(new)[d] \in Nat
             /\ weights(new)[d] = new.settings.weights[d]
             /\ points(new)[d] = Normalised(new.marks[s][w][d]) * new.settings.weights[d]
  <2>1. d \in Criteria
    BY <1>2
  <2>2. new.settings.weights[d] \in Nat
    BY <2>1, CellType
  <2>3. Normalised(new.marks[s][w][d]) \in Nat
    BY <2>1, CellType, NormalisedType
  <2>4. Normalised(new.marks[s][w][d]) * new.settings.weights[d] \in Nat
    BY <2>2, <2>3, Product
  <2> QED BY <2>2, <2>4
<1>7. ASSUME NEW d \in P
      PROVE  weights(old)[d] = weights(new)[d] /\ points(old)[d] = points(new)[d]
  <2>1. d \in Criteria /\ d # c /\ d \in Q
    BY <1>2, <1>4, <1>5
  <2>2. new.marks[s][w][d] = old.marks[s][w][d] /\ new.settings.weights[d] = old.settings.weights[d]
    BY <2>1 DEF FirstMark
  <2> QED BY <2>1, <2>2
<1>8. /\ points(new)[c] = Normalised(cell) * old.settings.weights[c]
      /\ weights(new)[c] = old.settings.weights[c]
  BY <1>4, <1>6 DEF FirstMark
<1> HIDE DEF P, Q, points, weights
<1>9. /\ SumOn(points(new), Q) = points(new)[c] + SumOn(points(new), P)
      /\ SumOn(weights(new), Q) = weights(new)[c] + SumOn(weights(new), P)
  <2>1. \A d \in Q : points(new)[d] \in Int /\ weights(new)[d] \in Int
    BY <1>6
  <2> QED BY <1>2, <1>4, <1>5, <2>1, SumTake
<1>10. /\ SumOn(points(new), P) = SumOn(points(old), P)
       /\ SumOn(weights(new), P) = SumOn(weights(old), P)
  <2>1. \A d \in P : /\ points(new)[d] \in Int /\ points(old)[d] = points(new)[d]
                     /\ weights(new)[d] \in Int /\ weights(old)[d] = weights(new)[d]
    BY <1>5, <1>6, <1>7
  <2> QED BY <1>2, <2>1, SumSame
<1>11. /\ SumOn(points(old), P) \in Nat /\ SumOn(weights(old), P) \in Nat
       /\ points(new)[c] \in Nat /\ weights(new)[c] \in Nat
  <2>1. Points(old, view, s, w) \in Nat /\ Weight(old, view, s, w) \in Nat
    BY RawParts
  <2> QED BY <1>1, <1>4, <1>6, <2>1
<1> QED BY <1>1, <1>8, <1>9, <1>10, <1>11 DEF Joins

\* A first mark moves the week's score towards itself and not past it.
THEOREM MissingNeverZero == RiskSpec => MissingIsNotZero
<1>1. ASSUME RiskTypeOK, RiskTypeOK'
      PROVE  \A view \in Views, s \in Students, w \in Weeks, c \in Criteria, cell \in Marks :
                (/\ EnterMark(s, w, c, cell)
                 /\ cell.possible > 0
                 /\ snapshot.marks[s][w][c] = NoMark
                 /\ c \in view.criteria /\ snapshot.settings.weights[c] > 0
                 /\ Present(snapshot, view, s, w) \ {c} # {})
                => LET old == Raw(snapshot, view, s, w)
                       new == Raw(snapshot', view, s, w)
                       norm == Normalised(cell)
                   IN  Lesser(old, norm) <= new /\ new <= Larger(old, norm)
  <2> SUFFICES ASSUME NEW view \in Views, NEW s \in Students, NEW w \in Weeks,
                      NEW c \in Criteria, NEW cell \in Marks,
                      EnterMark(s, w, c, cell), cell.possible > 0,
                      snapshot.marks[s][w][c] = NoMark,
                      c \in view.criteria, snapshot.settings.weights[c] > 0,
                      Present(snapshot, view, s, w) \ {c} # {}
               PROVE  LET old == Raw(snapshot, view, s, w)
                          new == Raw(snapshot', view, s, w)
                          norm == Normalised(cell)
                      IN  Lesser(old, norm) <= new /\ new <= Larger(old, norm)
    OBVIOUS
  <2>1. /\ snapshot.marks \in [Students -> [Weeks -> [Criteria -> Cells]]]
        /\ snapshot = [marks |-> snapshot.marks, hours |-> snapshot.hours, settings |-> snapshot.settings]
        /\ snapshot \in Snapshot /\ snapshot' \in Snapshot
    BY <1>1 DEF RiskTypeOK, TypeOK, Snapshot
  <2>2. /\ snapshot'.marks = [snapshot.marks EXCEPT ![s][w][c] = cell]
        /\ snapshot'.settings = snapshot.settings
    BY <2>1 DEF EnterMark
  <2>3. FirstMark(snapshot, snapshot', s, w, c, cell)
    <3>1. snapshot'.marks[s][w][c] = cell
      BY <2>1, <2>2
    <3>2. \A d \in Criteria : d # c => snapshot'.marks[s][w][d] = snapshot.marks[s][w][d]
      BY <2>1, <2>2
    <3> QED BY <2>2, <3>1, <3>2 DEF FirstMark
  <2>4. view.criteria \subseteq Criteria
    BY RankingConstants
  <2> DEFINE P == Points(snapshot, view, s, w)
             W == Weight(snapshot, view, s, w)
             norm == Normalised(cell)
             weight == snapshot.settings.weights[c]
  <2>5. /\ P \in Nat /\ W \in Nat /\ W > 0 /\ Raw(snapshot, view, s, w) = P \div W
    BY <2>1, <2>4, RawParts
  <2>6. /\ norm \in Nat /\ weight \in Nat /\ weight > 0
    BY <2>1, CellType, NormalisedType DEF Cells
  <2>7. Raw(snapshot', view, s, w) = Points(snapshot', view, s, w) \div Weight(snapshot', view, s, w)
    BY <2>1, <2>4, RawParts
  <2>8. Points(snapshot', view, s, w) = P + norm * weight /\ Weight(snapshot', view, s, w) = W + weight
    <3> HIDE DEF P, W, norm, weight
    <3>1. Joins(snapshot, snapshot', view, s, w, c, cell)
      BY <2>1, <2>3, <2>4, FirstMarkAdds
    <3> QED BY <3>1 DEF Joins, P, W, norm, weight
  <2> HIDE DEF P, W, norm, weight
  <2>9. P \in Nat /\ W \in Nat /\ W > 0 /\ norm \in Nat /\ weight \in Nat /\ weight > 0
    BY <2>5, <2>6
  <2>10. /\ Lesser(P \div W, norm) <= (P + norm * weight) \div (W + weight)
         /\ (P + norm * weight) \div (W + weight) <= Larger(P \div W, norm)
    BY <2>9, MeanMovesTowards
  <2> QED BY <2>5, <2>7, <2>8, <2>10 DEF norm
<1> QED BY <1>1, RiskTypeCorrect, PTL DEF RiskSpec, MissingIsNotZero, riskVars, vars

----------------------------------------------------------------------------
(* A better mark *)

\* A mark of a student's week has become better, for the same points possible.
BetterMark(old, new, s, w, c) ==
    /\ new.settings = old.settings
    /\ new.hours[s][w] = old.hours[s][w]
    /\ \A u \in Weeks : u # w => new.marks[s][u] = old.marks[s][u]
    /\ \A d \in Criteria : d # c => new.marks[s][w][d] = old.marks[s][w][d]
    /\ NoMark \notin {old.marks[s][w][c], new.marks[s][w][c]}
    /\ old.marks[s][w][c].possible = new.marks[s][w][c].possible
    /\ old.marks[s][w][c].earned < new.marks[s][w][c].earned

\* It leaves what is there as it was, and the week's score is no less.
LEMMA BetterScore ==
    ASSUME NEW old \in Snapshot, NEW new \in Snapshot,
           NEW s \in Students, NEW w \in Weeks, NEW c \in Criteria, BetterMark(old, new, s, w, c)
    PROVE  /\ \A u \in Weeks, d \in Criteria :
                 /\ new.marks[s][u][d] = NoMark <=> old.marks[s][u][d] = NoMark
                 /\ old.marks[s][u][d] # NoMark =>
                       /\ new.marks[s][u][d].possible = old.marks[s][u][d].possible
                       /\ old.marks[s][u][d].earned <= new.marks[s][u][d].earned
           /\ \A u \in Weeks : HasEntries(new, s, u) <=> HasEntries(old, s, u)
           /\ \A u \in Weeks : HasScore(new, s, u) <=> HasScore(old, s, u)
           /\ \A u \in Weeks : u # w => Raw(new, FullView, s, u) = Raw(old, FullView, s, u)
           /\ HasScore(old, s, w) => Raw(old, FullView, s, w) <= Raw(new, FullView, s, w)
<1>1. \A u \in Weeks, d \in Criteria :
         /\ new.marks[s][u][d] = NoMark <=> old.marks[s][u][d] = NoMark
         /\ old.marks[s][u][d] # NoMark =>
               /\ new.marks[s][u][d].possible = old.marks[s][u][d].possible
               /\ old.marks[s][u][d].earned <= new.marks[s][u][d].earned
  <2> SUFFICES ASSUME NEW u \in Weeks, NEW d \in Criteria
               PROVE  /\ new.marks[s][u][d] = NoMark <=> old.marks[s][u][d] = NoMark
                      /\ old.marks[s][u][d] # NoMark =>
                            /\ new.marks[s][u][d].possible = old.marks[s][u][d].possible
                            /\ old.marks[s][u][d].earned <= new.marks[s][u][d].earned
    OBVIOUS
  <2>1. old.marks[s][u][d] # NoMark => old.marks[s][u][d].earned \in Nat
    BY CellType
  <2>2. new.marks[s][u][d] # NoMark => new.marks[s][u][d].earned \in Nat
    BY CellType
  <2>3. CASE u = w /\ d = c
    BY <2>1, <2>2, <2>3 DEF BetterMark
  <2>4. CASE ~(u = w /\ d = c)
    <3>1. new.marks[s][u][d] = old.marks[s][u][d]
      BY <2>4 DEF BetterMark
    <3> QED BY <2>1, <3>1
  <2> QED BY <2>3, <2>4
<1>2. new.settings = old.settings
  BY DEF BetterMark
<1>3. \A u \in Weeks : HasEntries(new, s, u) <=> HasEntries(old, s, u)
  BY <1>1 DEF HasEntries
<1>4. \A u \in Weeks : Present(new, FullView, s, u) = Present(old, FullView, s, u)
  BY <1>1, <1>2 DEF Present, FullView
<1>5. \A u \in Weeks : HasScore(new, s, u) <=> HasScore(old, s, u)
  BY <1>4 DEF HasScore
<1>6. \A u \in Weeks : u # w => Raw(new, FullView, s, u) = Raw(old, FullView, s, u)
  BY <1>2, SameScore DEF BetterMark
<1>7. ASSUME HasScore(old, s, w)
      PROVE  Raw(old, FullView, s, w) <= Raw(new, FullView, s, w)
  <2> DEFINE P == Present(old, FullView, s, w)
             points(snap) == [d \in Present(snap, FullView, s, w) |->
                                Normalised(snap.marks[s][w][d]) * snap.settings.weights[d]]
             weights(snap) == [d \in Present(snap, FullView, s, w) |-> snap.settings.weights[d]]
  <2>1. Present(new, FullView, s, w) = P /\ P # {} /\ FullView.criteria \subseteq Criteria
    BY <1>4, <1>7 DEF HasScore, FullView
  <2>2. /\ P \in SUBSET Criteria /\ IsFiniteSet(P)
        /\ Raw(old, FullView, s, w) = SumOn(points(old), P) \div SumOn(weights(old), P)
        /\ Raw(new, FullView, s, w) = SumOn(points(new), P) \div SumOn(weights(new), P)
        /\ SumOn(points(old), P) \in Nat /\ SumOn(points(new), P) \in Nat
        /\ SumOn(weights(old), P) \in Nat /\ SumOn(weights(old), P) > 0
    <3>1. /\ P \subseteq Criteria /\ IsFiniteSet(P)
          /\ Raw(old, FullView, s, w) = Points(old, FullView, s, w) \div Weight(old, FullView, s, w)
          /\ Points(old, FullView, s, w) \in Nat /\ Weight(old, FullView, s, w) \in Nat
          /\ Weight(old, FullView, s, w) > 0
      BY <2>1, RawParts
    <3>2. /\ Raw(new, FullView, s, w) = Points(new, FullView, s, w) \div Weight(new, FullView, s, w)
          /\ Points(new, FullView, s, w) \in Nat
      BY <2>1, RawParts
    <3>3. /\ Points(old, FullView, s, w) = SumOn(points(old), P)
          /\ Weight(old, FullView, s, w) = SumOn(weights(old), P)
      BY Zenon DEF Points, Weight
    <3>4. /\ Points(new, FullView, s, w) = SumOn(points(new), Present(new, FullView, s, w))
          /\ Weight(new, FullView, s, w) = SumOn(weights(new), Present(new, FullView, s, w))
      BY Zenon DEF Points, Weight
    <3> HIDE DEF P, points, weights
    <3> QED BY <2>1, <3>1, <3>2, <3>3, <3>4
  <2>3. weights(new) = weights(old)
    BY <1>2, <2>1
  <2>4. ASSUME NEW d \in P
        PROVE  /\ points(old)[d] \in Int /\ points(new)[d] \in Int
               /\ points(old)[d] <= points(new)[d]
    <3> DEFINE m == old.marks[s][w][d]
               k == new.marks[s][w][d]
               x == old.settings.weights[d]
    <3>1. points(old)[d] = Normalised(m) * x /\ points(new)[d] = Normalised(k) * x
      BY <1>2, <2>1
    <3>2. d \in Criteria /\ m # NoMark /\ k # NoMark /\ m.possible > 0
      BY <1>1, <2>2 DEF Present
    <3>3. /\ m.possible \in Nat /\ m.earned \in Nat /\ k.earned \in Nat
          /\ k.possible = m.possible /\ m.earned <= k.earned /\ x \in Nat
      BY <1>1, <3>2, CellType
    <3> HIDE DEF m, k, x
    <3>4. TopScore \in Nat
      BY RankingConstants DEF TopScore
    <3>5. /\ TopScore * m.earned \in Nat /\ TopScore * k.earned \in Nat
          /\ TopScore * m.earned <= TopScore * k.earned
      <4>1. /\ m.earned * TopScore <= k.earned * TopScore
            /\ m.earned * TopScore \in Nat /\ k.earned * TopScore \in Nat
        BY <3>3, <3>4, LargerProduct
      <4>2. m.earned * TopScore = TopScore * m.earned /\ k.earned * TopScore = TopScore * k.earned
        BY <3>3, <3>4
      <4> QED BY <4>1, <4>2
    <3>6. /\ Normalised(m) = (TopScore * m.earned) \div m.possible
          /\ Normalised(k) = (TopScore * k.earned) \div m.possible
      BY <3>2, <3>3 DEF Normalised
    <3>7. Normalised(m) <= Normalised(k) /\ Normalised(m) \in Nat /\ Normalised(k) \in Nat
      BY <3>2, <3>3, <3>5, <3>6, Quotient, LargerQuotient
    <3>8. Normalised(m) * x <= Normalised(k) * x /\ Normalised(m) * x \in Nat /\ Normalised(k) * x \in Nat
      BY <3>3, <3>7, LargerProduct
    <3> HIDE DEF points, P
    <3> QED BY <3>1, <3>8
  <2> HIDE DEF P, points, weights
  <2>5. SumOn(points(old), P) <= SumOn(points(new), P)
    BY <2>2, <2>4, SumMonotone
  <2> QED BY <2>2, <2>3, <2>5, LargerQuotient
<1> QED BY <1>1, <1>3, <1>5, <1>6, <1>7

\* A run of falls at the end is no longer when only the last score is higher.
LEMMA HigherLastEndsFalls ==
    ASSUME NEW n \in Nat, NEW old \in Seq(Nat), NEW new \in Seq(Nat), Len(old) = n, Len(new) = n,
           \A i \in 1..n : old[i] <= new[i] /\ (i < n => new[i] = old[i])
    PROVE  DeclineRun(new) <= DeclineRun(old)
<1> DEFINE last == Larger(0, n - 1)
           A == {m \in 0 .. last : \A i \in n - m + 1 .. n : old[i] < old[i - 1]}
           B == {m \in 0 .. last : \A i \in n - m + 1 .. n : new[i] < new[i - 1]}
<1>1. old \in Seq(Int) /\ new \in Seq(Int)
  OBVIOUS
<1>2. DeclineRun(old) = Max(A) /\ DeclineRun(new) = Max(B)
  <2>1. DeclineRun(old) = Max(A)
    BY <1>1, DeclineIsLongest
  <2>2. DeclineRun(new) = Max(B)
    BY <1>1, DeclineIsLongest
  <2> QED BY <2>1, <2>2
<1>3. last \in Nat /\ last <= n /\ (n > 0 => last = n - 1)
  BY DEF Larger
<1>4. A \in SUBSET (0..last) /\ B \in SUBSET (0..last) /\ 0 \in B
  BY <1>3
<1>5. B \subseteq A
  <2> SUFFICES ASSUME NEW m \in B, NEW i \in n - m + 1 .. n
               PROVE  old[i] < old[i - 1]
    OBVIOUS
  <2>1. m \in 0..last /\ new[i] < new[i - 1]
    OBVIOUS
  <2>2. i \in 1..n /\ i - 1 \in 1..n /\ i - 1 < n
    BY <1>3, <2>1
  <2>3. old[i] \in Nat /\ new[i] \in Nat /\ old[i - 1] \in Nat /\ old[i] <= new[i] /\ new[i - 1] = old[i - 1]
    BY <2>2
  <2> QED BY <2>1, <2>3
<1> HIDE DEF last, A, B
<1>6. Max(A) \in A /\ (\A k \in A : k <= Max(A)) /\ Max(B) \in B
  BY <1>3, <1>4, <1>5, GreatestOf
<1> QED BY <1>2, <1>5, <1>6

\* Nothing fires for a better mark that did not before.
LEMMA BetterFires ==
    ASSUME NEW old \in Snapshot, NEW new \in Snapshot, NEW t \in Thresholds,
           NEW s \in Students, NEW w \in Weeks, w >= Joined[s], NEW c \in Criteria,
           BetterMark(old, new, s, w, c)
    PROVE  Firing(new, t, s, w) \subseteq Firing(old, t, s, w)
<1> DEFINE was == ScoresUpTo(old, s, w)
           is == ScoresUpTo(new, s, w)
<1>1. /\ t.declineWeeks \in Nat /\ t.missedAssignments \in Nat /\ t.share \in [RatedCriteria -> Nat]
      /\ t.projectedGrade \in Nat /\ t.commitmentHours \in Nat /\ t.missingWeeks \in Nat
  BY DEF Thresholds
<1>2. /\ WeeksUpTo(s, w) \in SUBSET Weeks
      /\ \A S \in SUBSET WeeksUpTo(s, w) :
            IsFiniteSet(S) /\ S \in SUBSET Int /\ Cardinality(S) \in Nat
  BY OwnWeeks
<1>3. \A u \in Weeks, d \in Criteria :
         /\ new.marks[s][u][d] = NoMark <=> old.marks[s][u][d] = NoMark
         /\ old.marks[s][u][d] # NoMark =>
               /\ new.marks[s][u][d].possible = old.marks[s][u][d].possible
               /\ old.marks[s][u][d].earned <= new.marks[s][u][d].earned
  BY BetterScore
<1>4. /\ was \in Seq(Nat) /\ is \in Seq(Nat) /\ Len(is) = Len(was)
      /\ \A i \in 1..Len(was) : was[i] <= is[i] /\ (i < Len(was) => is[i] = was[i])
  <2> DEFINE S == ScoredUpTo(old, s, w)
             n == Cardinality(S)
             week == Arranged(S, Earlier(S))
  <2>1. ScoredUpTo(new, s, w) = S
    <3>1. \A u \in Weeks : HasScore(new, s, u) <=> HasScore(old, s, u)
      BY BetterScore
    <3> QED BY <1>2, <3>1 DEF ScoredUpTo
  <2>2. S \in SUBSET WeeksUpTo(s, w) /\ \A u \in S : HasScore(old, s, u)
    BY DEF ScoredUpTo
  <2>3. /\ n \in Nat
        /\ \A i \in 1..n : week[i] \in S
        /\ \A i, j \in 1..n : i < j => week[i] < week[j]
    <3>1. IsFiniteSet(S) /\ IsTotalOrder(S, Earlier(S))
      BY <1>2, <2>2, EarlierIsTotal
    <3>2. /\ Cardinality(S) \in Nat
          /\ \A i \in 1..Cardinality(S) : Arranged(S, Earlier(S))[i] \in S
          /\ \A i, j \in 1..Cardinality(S) :
                <<Arranged(S, Earlier(S))[i], Arranged(S, Earlier(S))[j]>> \in Earlier(S) <=> i < j
      BY <3>1, ArrangedInOrder
    <3>3. \A x, y : <<x, y>> \in Earlier(S) => x < y
      BY DEF Earlier
    <3> QED BY <3>2, <3>3
  <2>4. /\ was = [i \in 1..n |-> Raw(old, FullView, s, week[i])]
        /\ is = [i \in 1..n |-> Raw(new, FullView, s, week[i])]
    <3>1. InOrder(S, <) = week
      BY WeeksInOrder
    <3>2. /\ was = [i \in 1..n |-> Raw(old, FullView, s, InOrder(S, <)[i])]
          /\ is = [i \in 1..Cardinality(ScoredUpTo(new, s, w)) |->
                     Raw(new, FullView, s, InOrder(ScoredUpTo(new, s, w), <)[i])]
      BY DEF ScoresUpTo, ScoredUpTo
    <3> HIDE DEF S, week, was, is
    <3> QED BY <2>1, <3>1, <3>2
  <2>5. was \in Seq(Nat) /\ is \in Seq(Nat) /\ Len(was) = n /\ Len(is) = n
    BY <2>1, ScoresType
  <2>6. ASSUME NEW i \in 1..n
        PROVE  was[i] <= is[i] /\ (i < n => is[i] = was[i])
    <3>1. week[i] \in S /\ week[i] \in Weeks /\ week[i] \in WeeksUpTo(s, w) /\ HasScore(old, s, week[i])
      BY <1>2, <2>2, <2>3
    <3>2. was[i] = Raw(old, FullView, s, week[i]) /\ is[i] = Raw(new, FullView, s, week[i])
      BY <2>4
    <3>3. i < n => week[i] # w
      <4> SUFFICES ASSUME i < n PROVE week[i] # w
        OBVIOUS
      <4> HIDE DEF S, week, n
      <4>1. n \in 1..n /\ week[i] < week[n] /\ week[n] \in WeeksUpTo(s, w)
        BY <2>2, <2>3
      <4>2. week[n] <= w /\ week[n] \in Int /\ week[i] \in Int
        BY <1>2, <3>1, <4>1, OwnWeeks DEF WeeksUpTo
      <4>3. w \in Int
        BY OwnWeeks
      <4> QED BY <4>1, <4>2, <4>3
    <3> HIDE DEF S, week, n, was, is
    <3>4. week[i] # w => is[i] = was[i]
      BY <3>1, <3>2, BetterScore
    <3>5. week[i] = w => was[i] <= is[i]
      BY <3>1, <3>2, BetterScore
    <3>6. was[i] \in Nat /\ is[i] \in Nat
      BY <2>5
    <3> QED BY <3>3, <3>4, <3>5, <3>6
  <2> HIDE DEF S, week, n, was, is
  <2> QED BY <2>5, <2>6
<1>5. DeclineRun(is) >= t.declineWeeks => DeclineRun(was) >= t.declineWeeks
  <2> HIDE DEF was, is
  <2>1. DeclineRun(is) <= DeclineRun(was)
    <3>1. Len(was) \in Nat
      BY <1>4
    <3> QED BY <1>4, <3>1, HigherLastEndsFalls
  <2>2. DeclineRun(is) \in Nat /\ DeclineRun(was) \in Nat
    <3>1. was \in Seq(Int) /\ is \in Seq(Int)
      BY <1>4
    <3> QED BY <3>1, DeclineRunType
  <2> QED BY <1>1, <2>1, <2>2
<1>6. Missed(new, s, w) >= t.missedAssignments => Missed(old, s, w) >= t.missedAssignments
  <2> DEFINE None(snap) == {u \in WeeksUpTo(s, w) :
                              /\ snap.marks[s][u][Homework] # NoMark
                              /\ snap.marks[s][u][Homework].possible > 0
                              /\ snap.marks[s][u][Homework].earned = 0}
  <2>1. Missed(old, s, w) = Cardinality(None(old)) /\ Missed(new, s, w) = Cardinality(None(new))
    BY DEF Missed
  <2>2. None(new) \in SUBSET None(old)
    <3> SUFFICES ASSUME NEW u \in None(new) PROVE u \in None(old)
      OBVIOUS
    <3>1. /\ u \in Weeks /\ Homework \in Criteria
          /\ new.marks[s][u][Homework] # NoMark
          /\ new.marks[s][u][Homework].possible > 0
          /\ new.marks[s][u][Homework].earned = 0
      BY <1>2, RiskConstants
    <3>2. old.marks[s][u][Homework] # NoMark
      BY <1>3, <3>1
    <3>3. old.marks[s][u][Homework].earned \in Nat
      BY <3>1, <3>2, CellType
    <3>4. /\ new.marks[s][u][Homework].possible = old.marks[s][u][Homework].possible
          /\ old.marks[s][u][Homework].earned <= new.marks[s][u][Homework].earned
      BY <1>3, <3>1, <3>2
    <3> QED BY <3>1, <3>2, <3>3, <3>4
  <2>3. None(old) \in SUBSET WeeksUpTo(s, w) /\ None(new) \in SUBSET WeeksUpTo(s, w)
    OBVIOUS
  <2> HIDE DEF None
  <2>4. /\ IsFiniteSet(None(old)) /\ Cardinality(None(old)) \in Nat /\ Cardinality(None(new)) \in Nat
        /\ Cardinality(None(new)) <= Cardinality(None(old))
    BY <1>2, <2>2, <2>3, FS_Subset
  <2> QED BY <1>1, <2>1, <2>4
<1>7. ASSUME NEW d \in RatedCriteria, ShareBelow(new, s, w, d, t.share[d])
      PROVE  ShareBelow(old, s, w, d, t.share[d])
  <2>1. d \in Criteria
    BY RiskConstants
  <2>2. Marked(new, s, w, d) = Marked(old, s, w, d)
    BY <1>2, <1>3, <2>1 DEF Marked
  <2> DEFINE marked == Marked(old, s, w, d)
             earned(snap) == [u \in Marked(snap, s, w, d) |-> snap.marks[s][u][d].earned]
             possible(snap) == [u \in Marked(snap, s, w, d) |-> snap.marks[s][u][d].possible]
  <2>3. marked \in SUBSET WeeksUpTo(s, w) /\ \A u \in marked : old.marks[s][u][d] # NoMark
    BY DEF Marked
  <2>4. IsFiniteSet(marked) /\ marked \in SUBSET Weeks
    <3> HIDE DEF marked
    <3> QED BY <1>2, <2>3
  <2>5. \A u \in marked : /\ earned(old)[u] = old.marks[s][u][d].earned
                          /\ earned(new)[u] = new.marks[s][u][d].earned
    BY <2>2
  <2>6. possible(new) = possible(old)
    <3>1. \A u \in marked : new.marks[s][u][d].possible = old.marks[s][u][d].possible
      BY <1>3, <2>1, <2>3, <2>4
    <3> QED BY <2>2, <3>1
  <2>7. \A u \in marked : /\ earned(old)[u] \in Int /\ earned(new)[u] \in Int
                          /\ earned(old)[u] <= earned(new)[u]
    <3> SUFFICES ASSUME NEW u \in marked
                 PROVE  /\ earned(old)[u] \in Int /\ earned(new)[u] \in Int
                        /\ earned(old)[u] <= earned(new)[u]
      OBVIOUS
    <3>1. u \in Weeks /\ old.marks[s][u][d] # NoMark
      BY <2>3, <2>4
    <3>2. new.marks[s][u][d] # NoMark /\ old.marks[s][u][d].earned <= new.marks[s][u][d].earned
      BY <1>3, <2>1, <3>1
    <3>3. old.marks[s][u][d].earned \in Nat /\ new.marks[s][u][d].earned \in Nat
      BY <2>1, <3>1, <3>2, CellType
    <3> HIDE DEF earned, marked
    <3> QED BY <2>5, <3>2, <3>3
  <2>8. /\ Earned(old, s, w, d) = SumOn(earned(old), marked)
        /\ Earned(new, s, w, d) = SumOn(earned(new), Marked(new, s, w, d))
        /\ Possible(old, s, w, d) = SumOn(possible(old), marked)
        /\ Possible(new, s, w, d) = SumOn(possible(new), Marked(new, s, w, d))
    BY Zenon DEF Earned, Possible
  <2> HIDE DEF marked, earned, possible
  <2>9. SumOn(earned(old), marked) <= SumOn(earned(new), marked)
    BY <2>4, <2>7, SumMonotone
  <2>10. Earned(old, s, w, d) <= Earned(new, s, w, d) /\ Possible(new, s, w, d) = Possible(old, s, w, d)
    BY <2>2, <2>6, <2>8, <2>9 DEF marked
  <2>11. /\ ShareBelow(old, s, w, d, t.share[d])
               <=> 100 * Earned(old, s, w, d) < t.share[d] * Possible(old, s, w, d)
         /\ Earned(old, s, w, d) \in Nat /\ Possible(old, s, w, d) \in Nat
    BY <2>1, ShareParts
  <2>12. /\ ShareBelow(new, s, w, d, t.share[d])
               <=> 100 * Earned(new, s, w, d) < t.share[d] * Possible(new, s, w, d)
         /\ Earned(new, s, w, d) \in Nat
    BY <2>1, ShareParts
  <2>13. PICK x \in Nat : x = t.share[d] * Possible(old, s, w, d)
    BY <1>1, <2>11, Product
  <2>14. 100 * Earned(new, s, w, d) < x
    BY <1>7, <2>10, <2>12, <2>13
  <2>15. 100 * Earned(old, s, w, d) < x
    BY <2>10, <2>11, <2>12, <2>13, <2>14
  <2> QED BY <2>11, <2>13, <2>15
<1>8. ProjectedBelow(is, t.projectedGrade) => ProjectedBelow(was, t.projectedGrade)
  <2> HIDE DEF was, is
  <2>1. DOMAIN was = 1..Len(was) /\ DOMAIN is = 1..Len(was) /\ Len(was) \in Nat
    BY <1>4
  <2>2. SumFunction(was) = SumOn(was, 1..Len(was)) /\ SumFunction(is) = SumOn(is, 1..Len(was))
    BY <2>1, SumFunctionIsSumOn
  <2>3. IsFiniteSet(1..Len(was))
    BY <2>1, FS_Interval
  <2>4. \A i \in 1..Len(was) : was[i] \in Int /\ is[i] \in Int /\ was[i] <= is[i]
    BY <1>4
  <2>5. SumOn(was, 1..Len(was)) <= SumOn(is, 1..Len(was))
    BY <2>3, <2>4, SumMonotone
  <2>6. SumFunction(was) \in Nat /\ SumFunction(is) \in Nat
    BY <1>4, TotalType
  <2>7. PICK x \in Nat : x = t.projectedGrade * Unit * Len(was)
    BY <1>1, <2>1, Product, RankingConstants
  <2>8. /\ ProjectedBelow(is, t.projectedGrade) <=> SumFunction(is) < x
        /\ ProjectedBelow(was, t.projectedGrade) <=> SumFunction(was) < x
    BY <1>4, <2>7 DEF ProjectedBelow
  <2> QED BY <2>2, <2>5, <2>6, <2>7, <2>8
<1>9. new.hours[s][w] = old.hours[s][w]
  BY DEF BetterMark
<1>10. MissingRun(new, s, w) = MissingRun(old, s, w)
  <2> DEFINE longest(F) == Max({0} \cup {Streak(F, Joined[s], u) : u \in WeeksUpTo(s, w)})
  <2>1. \A u \in Weeks : HasEntries(new, s, u) <=> HasEntries(old, s, u)
    BY BetterScore
  <2>2. Empty(new, s, w) = Empty(old, s, w)
    BY <1>2, <2>1 DEF Empty
  <2>3. \A snap : MissingRun(snap, s, w) = longest(Empty(snap, s, w))
    BY MissingRunIsStreak
  <2> HIDE DEF longest
  <2> QED BY <2>2, <2>3
<1> QED BY <1>5, <1>6, <1>7, <1>8, <1>9, <1>10, Zenon DEF Firing, was, is

\* Fewer signals are no higher level.
LEMMA FewerSignals ==
    ASSUME NEW on \in SUBSET Signals, NEW less \in SUBSET on
    PROVE  LevelFor(less) <= LevelFor(on)
<1>1. IsFiniteSet(Signals)
  <2>1. \A S, x : IsFiniteSet(S) => IsFiniteSet(S \cup {x})
    BY FS_AddElement
  <2>2. IsFiniteSet({"downward_trend"})
    BY FS_Singleton
  <2>3. IsFiniteSet({"downward_trend"} \cup {"missed_engagement"})
    BY <2>1, <2>2
  <2>4. IsFiniteSet(({"downward_trend"} \cup {"missed_engagement"}) \cup {"low_projected_grade"})
    BY <2>1, <2>3
  <2>5. IsFiniteSet((({"downward_trend"} \cup {"missed_engagement"}) \cup {"low_projected_grade"})
                    \cup {"heavy_commitments"})
    BY <2>1, <2>4
  <2>6. IsFiniteSet(((({"downward_trend"} \cup {"missed_engagement"}) \cup {"low_projected_grade"})
                     \cup {"heavy_commitments"}) \cup {"missing_data"})
    BY <2>1, <2>5
  <2>7. Signals = ((({"downward_trend"} \cup {"missed_engagement"}) \cup {"low_projected_grade"})
                   \cup {"heavy_commitments"}) \cup {"missing_data"}
    BY DEF Signals
  <2> QED BY <2>6, <2>7
<1>2. IsFiniteSet(on) /\ IsFiniteSet(less) /\ Cardinality(less) <= Cardinality(on)
  BY <1>1, FS_Subset
<1>3. Cardinality(on) \in Nat /\ Cardinality(less) \in Nat
  BY <1>2, FS_CardinalityType
<1> QED BY <1>2, <1>3 DEF LevelFor, Lesser

\* A better mark in the week evaluated never raises the student's level.
THEOREM BetterMarkNeverRaises == RiskSpec => BetterMarkNeverFlags
<1>1. ASSUME RiskTypeOK, RiskTypeOK', [RiskNext]_riskVars
      PROVE  \A s \in Students, w \in Weeks, c \in Criteria :
                LET old == snapshot.marks[s][w][c]
                    new == snapshot'.marks[s][w][c]
                IN  (old # new /\ NoMark \notin {old, new}
                     /\ old.possible = new.possible /\ old.earned < new.earned
                     /\ w >= Joined[s])
                    => Level(snapshot', risk', s, w) <= Level(snapshot, risk, s, w)
  <2> SUFFICES ASSUME NEW s \in Students, NEW w \in Weeks, NEW c \in Criteria,
                      snapshot.marks[s][w][c] # snapshot'.marks[s][w][c],
                      NoMark \notin {snapshot.marks[s][w][c], snapshot'.marks[s][w][c]},
                      snapshot.marks[s][w][c].possible = snapshot'.marks[s][w][c].possible,
                      snapshot.marks[s][w][c].earned < snapshot'.marks[s][w][c].earned,
                      w >= Joined[s]
               PROVE  Level(snapshot', risk', s, w) <= Level(snapshot, risk, s, w)
    OBVIOUS
  <2>1. /\ snapshot.marks \in [Students -> [Weeks -> [Criteria -> Cells]]]
        /\ snapshot = [marks |-> snapshot.marks, hours |-> snapshot.hours, settings |-> snapshot.settings]
        /\ snapshot \in Snapshot /\ snapshot' \in Snapshot /\ risk \in RiskSettings
    BY <1>1 DEF RiskTypeOK, TypeOK, Snapshot
  <2>2. ASSUME NEW s0 \in Students, NEW w0 \in Weeks, NEW c0 \in Criteria, NEW cell \in Cells,
               EnterMark(s0, w0, c0, cell), risk' = risk
        PROVE  risk' = risk /\ BetterMark(snapshot, snapshot', s, w, c)
    <3>1. /\ snapshot'.marks = [snapshot.marks EXCEPT ![s0][w0][c0] = cell]
          /\ snapshot'.hours = snapshot.hours /\ snapshot'.settings = snapshot.settings
      BY <2>1, <2>2 DEF EnterMark
    <3>2. \A u \in Weeks, d \in Criteria :
             ~(s = s0 /\ u = w0 /\ d = c0) => snapshot'.marks[s][u][d] = snapshot.marks[s][u][d]
      BY <2>1, <3>1
    <3>3. s = s0 /\ w = w0 /\ c = c0
      BY <3>2
    <3>4. \A u \in Weeks : u # w0 => snapshot'.marks[s0][u] = snapshot.marks[s0][u]
      BY <2>1, <3>1
    <3> QED BY <2>2, <3>1, <3>2, <3>3, <3>4 DEF BetterMark
  <2>3. ASSUME NEW s0 \in Students, NEW w0 \in Weeks, NEW h \in HoursValues, ChangeHours(s0, w0, h)
        PROVE  FALSE
    BY <2>1, <2>3 DEF ChangeHours
  <2>4. ASSUME NEW patch \in Patches, SaveSettings(patch)
        PROVE  FALSE
    BY <2>1, <2>4 DEF SaveSettings
  <2>5. ASSUME NEW patch \in RiskPatches, SaveRiskSettings(patch)
        PROVE  FALSE
    BY <2>5 DEF SaveRiskSettings
  <2>6. ASSUME UNCHANGED riskVars
        PROVE  FALSE
    BY <2>6 DEF riskVars
  <2>7. risk' = risk /\ BetterMark(snapshot, snapshot', s, w, c)
    BY <1>1, <2>2, <2>3, <2>4, <2>5, <2>6 DEF RiskNext
  <2>8. risk.thresholds \in Thresholds
    BY <2>1 DEF RiskSettings
  <2>9. Firing(snapshot', risk.thresholds, s, w) \subseteq Firing(snapshot, risk.thresholds, s, w)
    BY <2>1, <2>7, <2>8, BetterFires
  <2>10. SignalsOn(snapshot', risk, s, w) \in SUBSET SignalsOn(snapshot, risk, s, w)
    BY <2>9 DEF SignalsOn
  <2>11. SignalsOn(snapshot, risk, s, w) \in SUBSET Signals
    BY Zenon DEF SignalsOn, Firing
  <2>12. LevelFor(SignalsOn(snapshot', risk, s, w)) <= LevelFor(SignalsOn(snapshot, risk, s, w))
    BY <2>10, <2>11, FewerSignals
  <2> QED BY <2>7, <2>12 DEF Level
<1> QED BY <1>1, RiskTypeCorrect, PTL DEF RiskSpec, BetterMarkNeverFlags

----------------------------------------------------------------------------
(* More hours *)

\* Student s has more hours in week w, and nothing else has changed.
MoreHours(old, new, s, w) ==
    /\ new.settings = old.settings /\ new.marks = old.marks
    /\ \A u \in Students, x \in Weeks : <<u, x>> # <<s, w>> => new.hours[u][x] = old.hours[u][x]
    /\ old.hours[s][w] < new.hours[s][w]

\* Rows show what marks there are: which weeks count does not depend on hours.
LEMMA SameScoredWeeks ==
    ASSUME NEW old, NEW new, new.settings = old.settings, new.marks = old.marks, NEW view, NEW u
    PROVE  /\ ScoredWeeks(new, view, u) = ScoredWeeks(old, view, u)
           /\ \A x : /\ Present(new, view, u, x) = Present(old, view, u, x)
                     /\ Raw(new, view, u, x) = Raw(old, view, u, x)
<1>1. \A x : /\ Present(new, view, u, x) = Present(old, view, u, x)
             /\ Raw(new, view, u, x) = Raw(old, view, u, x)
  BY SameScore
<1> QED BY <1>1 DEF ScoredWeeks

\* More hours are no smaller factor, up to the cap, and no lower score, up to the top.
LEMMA AdjustedGrows ==
    ASSUME NEW old \in Snapshot, NEW new \in Snapshot, new.settings = old.settings, new.marks = old.marks,
           NEW view, view.criteria \subseteq Criteria, NEW u \in Students, NEW x \in Weeks,
           Present(old, view, u, x) # {}, old.hours[u][x] <= new.hours[u][x]
    PROVE  Adjusted(old, view, u, x) <= Adjusted(new, view, u, x)
<1> DEFINE r == Raw(old, view, u, x)
           f == Factor(old, u, x)
           g == Factor(new, u, x)
<1>1. r \in Nat /\ Raw(new, view, u, x) = r
  BY RawType, SameScoredWeeks
<1>2. f \in Nat /\ g \in Nat
  BY FactorType
<1>3. f <= g
  <2> DEFINE rate == old.settings.rate
             cap == old.settings.cap
             h == old.hours[u][x]
             k == new.hours[u][x]
  <2>1. rate \in Nat /\ cap \in Nat
    BY DEF Snapshot, Settings
  <2>2. h \in Nat /\ k \in Nat /\ h <= k
    <3>1. old.hours[u][x] \in HoursValues /\ new.hours[u][x] \in HoursValues
      BY DEF Snapshot
    <3> QED BY <3>1, RankingConstants
  <2>3. f = Lesser(100 + rate * h, cap) /\ g = Lesser(100 + rate * k, cap)
    BY DEF Factor
  <2> HIDE DEF rate, cap, h, k, f, g
  <2>4. h * rate <= k * rate /\ h * rate \in Nat /\ k * rate \in Nat
    BY <2>1, <2>2, LargerProduct
  <2>5. h * rate = rate * h /\ k * rate = rate * k
    BY <2>1, <2>2
  <2> QED BY <2>1, <2>3, <2>4, <2>5 DEF Lesser
<1> HIDE DEF r, f, g
<1>4. r * f \in Nat /\ r * g \in Nat /\ r * f <= r * g
  <2>1. f * r <= g * r /\ f * r \in Nat /\ g * r \in Nat
    BY <1>1, <1>2, <1>3, LargerProduct
  <2>2. f * r = r * f /\ g * r = r * g
    BY <1>1, <1>2
  <2> QED BY <2>1, <2>2
<1>5. PICK a \in Nat, b \in Nat : a = (r * f) \div 100 /\ b = (r * g) \div 100 /\ a <= b
  BY <1>4, Quotient, LargerQuotient
<1>6. TopScore \in Nat
  BY RankingConstants DEF TopScore
<1>7. Adjusted(old, view, u, x) = Lesser(TopScore, a) /\ Adjusted(new, view, u, x) = Lesser(TopScore, b)
  BY <1>1, <1>5 DEF Adjusted, r, f, g
<1> QED BY <1>5, <1>6, <1>7 DEF Lesser

\* The adjusted scores a row is the mean of.
AdjustedWeeks(snap, view, u) ==
    [x \in ScoredWeeks(snap, view, u) |-> Adjusted(snap, view, u, x)]

\* A row's keys but the first do not depend on hours, and the first is its score.
LEMMA RowOfHours ==
    ASSUME NEW old \in Snapshot, NEW new \in Snapshot, new.settings = old.settings, new.marks = old.marks,
           NEW view \in AView, NEW u \in Students, ScoredWeeks(old, view, u) # {}
    PROVE  /\ Row(old, view, u).score = MeanOf(old, view, u, AdjustedWeeks(old, view, u))
           /\ Row(new, view, u).score = MeanOf(old, view, u, AdjustedWeeks(new, view, u))
           /\ \A i \in 2..(Len(old.settings.tieBreakers) + 2) :
                 Row(new, view, u).key[i] = Row(old, view, u).key[i]
           /\ AdjustedWeeks(new, view, u) = AdjustedWeeks(old, view, u) =>
                 Row(new, view, u) = Row(old, view, u)
<1> DEFINE weeks == ScoredWeeks(old, view, u)
           n == Cardinality(weeks)
           raw == [x \in weeks |-> Raw(old, view, u, x)]
           last == old.marks[u][Max(weeks)]
           norm(c) == IF c \in view.criteria /\ last[c] # NoMark /\ last[c].possible > 0
                      THEN Normalised(last[c]) ELSE -1
           tie == old.settings.tieBreakers
           broken == [i \in DOMAIN tie |-> norm(tie[i])]
           meanRaw == Round1(SumFunction(raw), n)
           row(mean) == [student |-> u, score |-> mean, key |-> <<mean, meanRaw>> \o broken]
           shown(snap) == Round1(SumFunction(AdjustedWeeks(snap, view, u)), n)
<1>1. ScoredWeeks(new, view, u) = weeks /\ \A x \in weeks : Raw(new, view, u, x) = Raw(old, view, u, x)
  BY SameScoredWeeks
<1>2. Row(old, view, u) = row(shown(old))
  BY DEF Row, AdjustedWeeks
<1>3. Row(new, view, u) = row(shown(new))
  <2>1. [x \in weeks |-> Raw(new, view, u, x)] = raw
    BY <1>1
  <2> HIDE DEF weeks, raw
  <2> QED BY <1>1, <2>1 DEF Row, AdjustedWeeks
<1>4. /\ shown(old) = MeanOf(old, view, u, AdjustedWeeks(old, view, u))
      /\ shown(new) = MeanOf(old, view, u, AdjustedWeeks(new, view, u))
  <2>1. /\ DOMAIN AdjustedWeeks(old, view, u) = weeks
        /\ DOMAIN AdjustedWeeks(new, view, u) = weeks
    BY <1>1 DEF AdjustedWeeks
  <2>2. /\ SumFunction(AdjustedWeeks(old, view, u)) = SumOn(AdjustedWeeks(old, view, u), weeks)
        /\ SumFunction(AdjustedWeeks(new, view, u)) = SumOn(AdjustedWeeks(new, view, u), weeks)
    BY <2>1, SumFunctionIsSumOn
  <2> HIDE DEF weeks
  <2> QED BY <2>2 DEF MeanOf, weeks
<1>5. \A mean, other : \A i \in 2..(Len(tie) + 2) : row(mean).key[i] = row(other).key[i]
  <2> SUFFICES ASSUME NEW mean, NEW other, NEW i \in 2..(Len(tie) + 2)
               PROVE  (<<mean, meanRaw>> \o broken)[i] = (<<other, meanRaw>> \o broken)[i]
    OBVIOUS
  <2>1. tie \in Seq(Criteria)
    BY DEF Snapshot, Settings
  <2> HIDE DEF meanRaw, norm
  <2>2. broken \in Seq({norm(c) : c \in Criteria}) /\ Len(broken) = Len(tie) /\ Len(tie) \in Nat
    BY <2>1
  <2> HIDE DEF broken, tie
  <2> QED BY <2>2
<1> HIDE DEF weeks, n, raw, last, norm, tie, broken, meanRaw, shown
<1>6. row(shown(old)).score = shown(old) /\ row(shown(new)).score = shown(new)
  OBVIOUS
<1>7. AdjustedWeeks(new, view, u) = AdjustedWeeks(old, view, u) => shown(new) = shown(old)
  BY DEF shown
<1> HIDE DEF row
<1> QED BY <1>2, <1>3, <1>4, <1>5, <1>6, <1>7 DEF tie

\* What more hours do to the row of the student who has them.
LEMMA RowGrows ==
    ASSUME NEW old \in Snapshot, NEW new \in Snapshot, NEW s \in Students, NEW w \in Weeks,
           MoreHours(old, new, s, w), NEW view \in AView, ScoredWeeks(old, view, s) # {}
    PROVE  Row(old, view, s).score <= Row(new, view, s).score
<1> DEFINE weeks == ScoredWeeks(old, view, s)
           n == Cardinality(weeks)
           was == AdjustedWeeks(old, view, s)
           is == AdjustedWeeks(new, view, s)
<1>1. /\ new.settings = old.settings /\ new.marks = old.marks /\ view.criteria \subseteq Criteria
      /\ ScoredWeeks(new, view, s) = weeks
  BY SameScoredWeeks DEF MoreHours, AView
<1>2. /\ IsFiniteSet(weeks) /\ weeks \subseteq Weeks
      /\ \A x \in weeks : Present(old, view, s, x) # {} /\ Present(new, view, s, x) # {}
  <2>1. \A x : Present(new, view, s, x) = Present(old, view, s, x)
    BY <1>1, SameScoredWeeks
  <2> QED BY <2>1, WeeksOfView
<1>3. ASSUME NEW x \in weeks
      PROVE  was[x] \in Nat /\ is[x] \in Nat /\ was[x] <= is[x]
  <2>1. was[x] = Adjusted(old, view, s, x) /\ is[x] = Adjusted(new, view, s, x)
    BY <1>1 DEF AdjustedWeeks
  <2>2. x \in Weeks /\ Present(old, view, s, x) # {} /\ Present(new, view, s, x) # {}
    BY <1>2
  <2>3. Adjusted(old, view, s, x) \in Nat /\ Adjusted(new, view, s, x) \in Nat
    BY <1>1, <2>2, AdjustedType
  <2>4. old.hours[s][x] <= new.hours[s][x]
    <3>1. old.hours[s][x] \in Nat /\ new.hours[s][x] \in Nat
      <4>1. old.hours[s][x] \in HoursValues /\ new.hours[s][x] \in HoursValues
        BY <2>2 DEF Snapshot
      <4> QED BY <4>1, RankingConstants
    <3>2. x # w => new.hours[s][x] = old.hours[s][x]
      BY <2>2 DEF MoreHours
    <3>3. x = w => old.hours[s][x] < new.hours[s][x]
      BY DEF MoreHours
    <3> QED BY <3>1, <3>2, <3>3
  <2>5. Adjusted(old, view, s, x) <= Adjusted(new, view, s, x)
    BY <1>1, <2>2, <2>4, AdjustedGrows
  <2> QED BY <2>1, <2>3, <2>5
<1>4. /\ Row(old, view, s).score = Round1(SumOn(was, weeks), n)
      /\ Row(new, view, s).score = Round1(SumOn(is, weeks), n)
  BY <1>1, RowOfHours DEF MeanOf
<1> HIDE DEF weeks, was, is
<1>5. PICK a \in Nat, b \in Nat : a = SumOn(was, weeks) /\ b = SumOn(is, weeks) /\ a <= b
  <2>1. SumOn(was, weeks) <= SumOn(is, weeks)
    BY <1>2, <1>3, SumMonotone
  <2>2. SumOn(was, weeks) \in Nat /\ SumOn(is, weeks) \in Nat
    BY <1>2, <1>3, SumType
  <2> QED BY <2>1, <2>2
<1>6. n \in Nat /\ n > 0
  BY <1>2, FS_CardinalityType, FS_EmptySet DEF weeks
<1> HIDE DEF n
<1>7. Unit * n \in Nat /\ 2 * Unit * n \in Nat /\ 2 * Unit * n > 0
  <2>1. Unit * n \in Nat /\ Unit * n > 0
    BY <1>6, Product, RankingConstants
  <2>2. 2 * Unit * n = 2 * (Unit * n)
    BY <1>6, RankingConstants
  <2> QED BY <2>1, <2>2
<1>8. Round1(a, n) <= Round1(b, n)
  <2> DEFINE d == 2 * Unit * n
             p == 20 * a + Unit * n
             q == 20 * b + Unit * n
  <2>1. p \in Nat /\ q \in Nat /\ p <= q /\ d \in Nat /\ d > 0
    BY <1>5, <1>7
  <2>2. Round1(a, n) = p \div d /\ Round1(b, n) = q \div d
    BY DEF Round1
  <2> HIDE DEF d, p, q
  <2> QED BY <2>1, <2>2, LargerQuotient
<1> QED BY <1>4, <1>5, <1>8

\* Weeks that are not shown, and other students.
LEMMA RowStays ==
    ASSUME NEW old \in Snapshot, NEW new \in Snapshot, NEW s \in Students, NEW w \in Weeks,
           MoreHours(old, new, s, w), NEW view \in AView,
           NEW u \in Students, ScoredWeeks(old, view, u) # {},
           u # s \/ w \notin ScoredWeeks(old, view, u)
    PROVE  Row(new, view, u) = Row(old, view, u)
<1>1. /\ new.settings = old.settings /\ new.marks = old.marks
      /\ ScoredWeeks(new, view, u) = ScoredWeeks(old, view, u)
      /\ ScoredWeeks(old, view, u) \subseteq Weeks
      /\ \A x : Raw(new, view, u, x) = Raw(old, view, u, x)
  BY SameScoredWeeks, WeeksOfView DEF MoreHours
<1>2. ASSUME NEW x \in ScoredWeeks(old, view, u)
      PROVE  Adjusted(new, view, u, x) = Adjusted(old, view, u, x)
  <2>1. new.hours[u][x] = old.hours[u][x]
    BY <1>1 DEF MoreHours
  <2>2. Factor(new, u, x) = Factor(old, u, x)
    BY <1>1, <2>1 DEF Factor
  <2> QED BY <1>1, <2>2 DEF Adjusted
<1>3. AdjustedWeeks(new, view, u) = AdjustedWeeks(old, view, u)
  BY <1>1, <1>2 DEF AdjustedWeeks
<1> QED BY <1>1, <1>3, RowOfHours

\* What a view's table shows of each student: everybody with a score is listed, at the
\* place that the rows above leave, and ranked after those with a higher score.
LEMMA TableShows ==
    ASSUME NEW snap \in Snapshot, NEW view \in AView
    PROVE  /\ Listed(Sorted(snap, view)) = {u \in Students : ScoredWeeks(snap, view, u) # {}}
           /\ \A u \in Listed(Sorted(snap, view)) :
                 /\ ScoreOf(Sorted(snap, view), u) = Row(snap, view, u).score
                 /\ Place(Sorted(snap, view), u) =
                       Cardinality(Ahead(Rows(snap, view), AboveIn(Rows(snap, view)), Row(snap, view, u))) + 1
                 /\ StudentsAhead(Sorted(snap, view), u) =
                       {v \in Listed(Sorted(snap, view)) : Row(snap, view, v).score > Row(snap, view, u).score}
                 /\ RankOf(Sorted(snap, view), u) = 1 + Cardinality(StudentsAhead(Sorted(snap, view), u))
                 /\ IsFiniteSet(StudentsAhead(Sorted(snap, view), u))
                 /\ Cardinality(StudentsAhead(Sorted(snap, view), u)) \in Nat
<1> DEFINE S == Rows(snap, view)
           rows == Sorted(snap, view)
           n == Cardinality(S)
           R == AboveIn(S)
           U == {u \in Students : ScoredWeeks(snap, view, u) # {}}
<1>1. n \in Nat /\ IsTable(rows, n)
  BY SortedIsTable
<1>2. /\ IsFiniteSet(S) /\ IsTotalOrder(S, R) /\ rows = Arranged(S, R)
      /\ \A r \in S : r \in ARow(snap) /\ r.student \in U /\ r = Row(snap, view, r.student)
  <2>1. rows = Arranged(S, R)
    BY RowsInOrder DEF Sorted
  <2>2. \A r \in S : r.student \in Students
    BY RowsOfView DEF ARow
  <2> QED BY <2>1, <2>2, RowsOfView, AboveIsTotal
<1>3. \A u \in U : Row(snap, view, u) \in S /\ Row(snap, view, u).student = u
  BY RowType DEF Rows
<1> HIDE DEF S, R, U
<1>4. /\ DOMAIN rows = 1..n
      /\ \A i \in 1..n : rows[i] \in S
      /\ \A r \in S : /\ Cardinality(Ahead(S, R, r)) + 1 \in 1..n
                      /\ rows[Cardinality(Ahead(S, R, r)) + 1] = r
  <2>1. /\ DOMAIN Arranged(S, R) = 1..Cardinality(S)
        /\ \A i \in 1..Cardinality(S) : Arranged(S, R)[i] \in S
        /\ \A x \in S : /\ Cardinality(Ahead(S, R, x)) + 1 \in 1..Cardinality(S)
                        /\ Arranged(S, R)[Cardinality(Ahead(S, R, x)) + 1] = x
    BY <1>2, ArrangedInOrder
  <2> QED BY <1>2, <2>1
<1> HIDE DEF rows, n
<1>5. Listed(rows) = U
  <2>1. \A i \in 1..n : rows[i].student \in U
    BY <1>2, <1>4
  <2>2. \A u \in U : \E i \in 1..n : rows[i].student = u
    BY <1>3, <1>4
  <2> QED BY <1>4, <2>1, <2>2 DEF Listed
<1>6. ASSUME NEW u \in U
      PROVE  /\ Place(rows, u) = Cardinality(Ahead(S, R, Row(snap, view, u))) + 1
             /\ Place(rows, u) \in 1..n
             /\ rows[Place(rows, u)] = Row(snap, view, u)
             /\ ScoreOf(rows, u) = Row(snap, view, u).score
  <2>1. PICK i \in 1..n : i = Cardinality(Ahead(S, R, Row(snap, view, u))) + 1
    BY <1>3, <1>4
  <2>2. rows[i] = Row(snap, view, u) /\ rows[i].student = u
    BY <1>3, <1>4, <2>1
  <2>3. Place(rows, u) = i
    BY <1>1, <2>2, PlaceOfRow
  <2> QED BY <2>1, <2>2, <2>3 DEF ScoreOf
<1>7. ASSUME NEW u \in U
      PROVE  /\ StudentsAhead(rows, u) = {v \in U : Row(snap, view, v).score > Row(snap, view, u).score}
             /\ RankOf(rows, u) = 1 + Cardinality(StudentsAhead(rows, u))
             /\ IsFiniteSet(StudentsAhead(rows, u))
             /\ Cardinality(StudentsAhead(rows, u)) \in Nat
  <2>1. \A v \in U : RankOf(rows, v) < RankOf(rows, u) <=>
                       Row(snap, view, v).score > Row(snap, view, u).score
    <3> SUFFICES ASSUME NEW v \in U
                 PROVE  RankOf(rows, v) < RankOf(rows, u) <=>
                          Row(snap, view, v).score > Row(snap, view, u).score
      OBVIOUS
    <3>1. PICK i \in 1..n : i = Place(rows, u) /\ rows[i] = Row(snap, view, u)
      BY <1>6
    <3>2. PICK j \in 1..n : j = Place(rows, v) /\ rows[j] = Row(snap, view, v)
      BY <1>6
    <3>3. Ranks(rows)[j] < Ranks(rows)[i] <=> rows[j].score > rows[i].score
      BY <1>1, RanksFollowScores
    <3> QED BY <3>1, <3>2, <3>3 DEF RankOf
  <2>2. StudentsAhead(rows, u) = {v \in U : Row(snap, view, v).score > Row(snap, view, u).score}
    BY <1>5, <2>1 DEF StudentsAhead
  <2>3. u \in Listed(rows)
    BY <1>5
  <2> QED BY <1>1, <2>2, <2>3, RankCountsAhead
<1> QED BY <1>5, <1>6, <1>7 DEF rows, S, R, U

\* Nobody gets above s for the hours of s.
LEMMA AboveAfterMoreHours ==
    ASSUME NEW old \in Snapshot, NEW new \in Snapshot, NEW s \in Students, NEW w \in Weeks,
           MoreHours(old, new, s, w), NEW view \in AView, ScoredWeeks(old, view, s) # {},
           NEW r, r.key \in [1..(Len(old.settings.tieBreakers) + 2) -> Int],
           Above(r, Row(new, view, s))
    PROVE  Above(r, Row(old, view, s))
<1> DEFINE K == Len(old.settings.tieBreakers) + 2
           was == Row(old, view, s)
           is == Row(new, view, s)
<1>1. new.settings = old.settings /\ new.marks = old.marks /\ ScoredWeeks(new, view, s) # {}
  BY SameScoredWeeks DEF MoreHours
<1>2. /\ was.key \in [1..K -> Int] /\ was.key[1] = was.score /\ was.student = s /\ was.score \in Nat
      /\ is.key \in [1..K -> Int] /\ is.key[1] = is.score /\ is.student = s /\ is.score \in Nat
  BY <1>1, RowType DEF ARow
<1>3. \A i \in 2..K : is.key[i] = was.key[i]
  BY <1>1, RowOfHours
<1>4. was.key[1] <= is.key[1]
  BY <1>2, RowGrows
<1>5. K \in Nat /\ K >= 2
  <2>1. old.settings.tieBreakers \in Seq(Criteria)
    BY DEF Snapshot, Settings
  <2> QED BY <2>1
<1>6. r.key \in [1..K -> Int]
  OBVIOUS
<1> HIDE DEF K, was, is
<1>7. Beats(K, r, is)
  BY <1>2, <1>5, <1>6, AboveBeats DEF is
<1>8. Beats(K, r, was)
  <2>1. ASSUME NEW d \in 1..K, r.key[d] > is.key[d], \A e \in 1..K : e < d => r.key[e] = is.key[e]
        PROVE  Beats(K, r, was)
    <3>1. /\ r.key[d] \in Int /\ is.key[d] \in Int /\ was.key[d] \in Int
          /\ r.key[1] \in Int /\ is.key[1] \in Int /\ was.key[1] \in Int
      BY <1>2, <1>5, <1>6
    <3>2. CASE is.key[1] = was.key[1]
      <4>1. \A e \in 1..K : is.key[e] = was.key[e]
        BY <1>3, <1>5, <3>2
      <4> QED BY <2>1, <4>1 DEF Beats
    <3>3. CASE is.key[1] # was.key[1]
      <4>1. r.key[1] >= is.key[1]
        <5>1. d = 1 \/ 1 < d
          BY <1>5
        <5>2. 1 < d => r.key[1] = is.key[1]
          BY <1>5, <2>1
        <5> QED BY <2>1, <3>1, <5>1, <5>2
      <4>2. r.key[1] > was.key[1] /\ 1 \in 1..K
        BY <1>4, <1>5, <3>1, <3>3, <4>1
      <4>3. \A e \in 1..K : e < 1 => r.key[e] = was.key[e]
        BY <1>5
      <4> QED BY <4>2, <4>3 DEF Beats
    <3> QED BY <3>2, <3>3
  <2>2. ASSUME \A e \in 1..K : r.key[e] = is.key[e], r.student < is.student
        PROVE  Beats(K, r, was)
    <3>1. r.key[1] = is.key[1] /\ r.key[1] \in Int /\ was.key[1] \in Int /\ 1 \in 1..K
      BY <1>2, <1>5, <1>6, <2>2
    <3>2. CASE is.key[1] = was.key[1]
      <4>1. \A e \in 1..K : r.key[e] = was.key[e]
        BY <1>3, <1>5, <2>2, <3>2
      <4> QED BY <1>2, <2>2, <4>1 DEF Beats
    <3>3. CASE is.key[1] # was.key[1]
      <4>1. r.key[1] > was.key[1]
        BY <1>4, <3>1, <3>3
      <4>2. \A e \in 1..K : e < 1 => r.key[e] = was.key[e]
        BY <1>5
      <4> QED BY <3>1, <4>1, <4>2 DEF Beats
    <3> QED BY <3>2, <3>3
  <2> QED BY <1>7, <2>1, <2>2 DEF Beats
<1> QED BY <1>2, <1>5, <1>6, <1>8, AboveBeats DEF was

\* More hours only help, in every view.
LEMMA MoreHoursOnlyHelp ==
    ASSUME NEW old \in Snapshot, NEW new \in Snapshot, NEW s \in Students, NEW w \in Weeks,
           MoreHours(old, new, s, w), NEW view \in AView
    PROVE  OnlyHelps(s, w, view, Sorted(old, view), Sorted(new, view))
<1> DEFINE U == {u \in Students : ScoredWeeks(old, view, u) # {}}
           was == Sorted(old, view)
           is == Sorted(new, view)
           before(u) == Row(old, view, u)
           after(u) == Row(new, view, u)
<1>1. /\ new.settings = old.settings /\ new.marks = old.marks
      /\ \A u : ScoredWeeks(new, view, u) = ScoredWeeks(old, view, u)
  BY SameScoredWeeks DEF MoreHours
<1>2. Listed(was) = U /\ Listed(is) = U
  BY <1>1, TableShows
<1>3. \A u \in U : u # s \/ w \notin ScoredWeeks(old, view, u) => after(u) = before(u)
  BY RowStays
<1>4. /\ Rows(old, view) = {before(u) : u \in U}
      /\ Rows(new, view) = {after(u) : u \in U}
  BY <1>1 DEF Rows
<1>5. \A u \in U : /\ before(u).score \in Nat /\ after(u).score \in Nat
                   /\ before(u).key \in [1..(Len(old.settings.tieBreakers) + 2) -> Int]
  BY <1>1, RowType DEF ARow
<1>6. s \in U => before(s).score <= after(s).score
  BY RowGrows
<1>7. \A u \in U :
         /\ ScoreOf(was, u) = before(u).score /\ ScoreOf(is, u) = after(u).score
         /\ Place(was, u) = Cardinality(Ahead(Rows(old, view), AboveIn(Rows(old, view)), before(u))) + 1
         /\ Place(is, u) = Cardinality(Ahead(Rows(new, view), AboveIn(Rows(new, view)), after(u))) + 1
         /\ StudentsAhead(was, u) = {v \in U : before(v).score > before(u).score}
         /\ StudentsAhead(is, u) = {v \in U : after(v).score > after(u).score}
         /\ RankOf(was, u) = 1 + Cardinality(StudentsAhead(was, u))
         /\ RankOf(is, u) = 1 + Cardinality(StudentsAhead(is, u))
         /\ IsFiniteSet(StudentsAhead(was, u)) /\ Cardinality(StudentsAhead(was, u)) \in Nat
         /\ IsFiniteSet(StudentsAhead(is, u)) /\ Cardinality(StudentsAhead(is, u)) \in Nat
  <2>1. \A u \in U : u \in Listed(was) /\ u \in Listed(is)
    BY <1>2
  <2> QED BY <1>2, <2>1, TableShows
<1>8. s \in U => Place(is, s) <= Place(was, s)
  <2> SUFFICES ASSUME s \in U PROVE Place(is, s) <= Place(was, s)
    OBVIOUS
  <2> DEFINE A == Ahead(Rows(old, view), AboveIn(Rows(old, view)), before(s))
             B == Ahead(Rows(new, view), AboveIn(Rows(new, view)), after(s))
  <2>1. B \in SUBSET A
    <3> SUFFICES ASSUME NEW r \in B PROVE r \in A
      OBVIOUS
    <3>1. r \in Rows(new, view) /\ Above(r, after(s)) /\ <<r, after(s)>> \in AboveIn(Rows(new, view))
      BY DEF Ahead, AboveIn
    <3>2. PICK v \in U : r = after(v)
      BY <1>4, <3>1
    <3>3. v # s
      <4>1. IsTotalOrder(Rows(new, view), AboveIn(Rows(new, view)))
        BY AboveIsTotal
      <4>2. r # after(s)
        <5> HIDE DEF after
        <5> QED BY <3>1, <4>1 DEF IsTotalOrder
      <4> QED BY <3>2, <4>2
    <3>4. r = before(v) /\ r \in Rows(old, view)
      BY <1>3, <1>4, <3>2, <3>3
    <3>5. r.key \in [1..(Len(old.settings.tieBreakers) + 2) -> Int]
      BY <1>5, <3>4
    <3>6. Above(r, before(s))
      BY <3>1, <3>5, AboveAfterMoreHours
    <3>7. before(s) \in Rows(old, view)
      BY <1>4
    <3> HIDE DEF before
    <3> QED BY <3>4, <3>6, <3>7 DEF Ahead, AboveIn
  <2>2. IsFiniteSet(A)
    <3>1. A \in SUBSET Rows(old, view)
      BY DEF Ahead
    <3> QED BY <3>1, RowsOfView, FS_Subset
  <2>3. Place(was, s) = Cardinality(A) + 1 /\ Place(is, s) = Cardinality(B) + 1
    BY <1>7
  <2> HIDE DEF A, B, was, is
  <2>4. Cardinality(B) <= Cardinality(A) /\ Cardinality(A) \in Nat /\ Cardinality(B) \in Nat
    BY <2>1, <2>2, FS_Subset, FS_CardinalityType
  <2> QED BY <2>3, <2>4
<1> HIDE DEF was, is, before, after
<1>9. s \in U => RankOf(is, s) <= RankOf(was, s)
  <2> SUFFICES ASSUME s \in U PROVE RankOf(is, s) <= RankOf(was, s)
    OBVIOUS
  <2>1. \A v \in U : after(v).score > after(s).score => before(v).score > before(s).score
    <3> SUFFICES ASSUME NEW v \in U, after(v).score > after(s).score
                 PROVE  before(v).score > before(s).score
      OBVIOUS
    <3>1. v # s
      BY <1>5
    <3> QED BY <1>3, <1>5, <1>6, <3>1
  <2>2. StudentsAhead(is, s) \in SUBSET StudentsAhead(was, s)
    BY <1>7, <2>1
  <2>3. Cardinality(StudentsAhead(is, s)) <= Cardinality(StudentsAhead(was, s))
    BY <1>7, <2>2, FS_Subset
  <2> QED BY <1>7, <2>3
<1>10. ASSUME NEW u \in U, u # s
       PROVE  ScoreOf(is, u) = ScoreOf(was, u) /\ RankOf(is, u) >= RankOf(was, u)
  <2>1. after(u) = before(u)
    BY <1>3, <1>10
  <2>2. \A v \in U : before(v).score > before(u).score => after(v).score > after(u).score
    <3> SUFFICES ASSUME NEW v \in U, before(v).score > before(u).score
                 PROVE  after(v).score > before(u).score
      BY <2>1
    <3>1. before(v).score <= after(v).score
      BY <1>3, <1>5, <1>6
    <3> QED BY <1>5, <3>1
  <2>3. StudentsAhead(was, u) \in SUBSET StudentsAhead(is, u)
    BY <1>7, <2>2
  <2>4. Cardinality(StudentsAhead(was, u)) <= Cardinality(StudentsAhead(is, u))
    BY <1>7, <2>3, FS_Subset
  <2> QED BY <1>7, <2>1, <2>4
<1>11. w \notin Window(view.week, view.mode) => is = was
  <2> SUFFICES ASSUME w \notin Window(view.week, view.mode) PROVE is = was
    OBVIOUS
  <2>1. \A u \in U : w \notin ScoredWeeks(old, view, u)
    BY DEF ScoredWeeks
  <2>2. \A u \in U : after(u) = before(u)
    BY <1>3, <2>1
  <2>3. Rows(new, view) = Rows(old, view)
    BY <1>4, <2>2
  <2> QED BY <2>3 DEF Sorted, was, is
<1>12. OnlyHelps(s, w, view, was, is)
  <2> HIDE DEF U
  <2> QED BY <1>2, <1>8, <1>9, <1>10, <1>11 DEF OnlyHelps
<1> QED BY <1>12 DEF was, is

\* More hours in a week never cost a student a place in any view, nor anybody else a
\* point, and move nothing in views that do not show that week.
THEOREM MoreHoursAlwaysHelp == RiskSpec => MoreHoursNeverHurt
<1>1. ASSUME RiskTypeOK, RiskTypeOK', [RiskNext]_riskVars
      PROVE  \A s \in Students, w \in Weeks :
                snapshot'.hours[s][w] > snapshot.hours[s][w] =>
                   \A old \in Tables(snapshot), new \in Tables(snapshot') :
                      old.view = new.view => OnlyHelps(s, w, old.view, old.rows, new.rows)
  <2> SUFFICES ASSUME NEW s \in Students, NEW w \in Weeks,
                      snapshot'.hours[s][w] > snapshot.hours[s][w],
                      NEW old \in Tables(snapshot), NEW new \in Tables(snapshot'), old.view = new.view
               PROVE  OnlyHelps(s, w, old.view, old.rows, new.rows)
    OBVIOUS
  <2>1. /\ snapshot \in Snapshot /\ snapshot' \in Snapshot
        /\ snapshot.hours \in [Students -> [Weeks -> HoursValues]]
        /\ snapshot = [marks |-> snapshot.marks, hours |-> snapshot.hours, settings |-> snapshot.settings]
    BY <1>1 DEF RiskTypeOK, TypeOK, Snapshot
  <2>2. snapshot.hours[s][w] \in Nat /\ snapshot'.hours[s][w] \in Nat
    <3>1. snapshot.hours[s][w] \in HoursValues /\ snapshot'.hours[s][w] \in HoursValues
      BY <2>1 DEF Snapshot
    <3> QED BY <3>1, RankingConstants
  <2>3. ASSUME NEW s0 \in Students, NEW w0 \in Weeks, NEW h \in HoursValues, ChangeHours(s0, w0, h)
        PROVE  MoreHours(snapshot, snapshot', s, w)
    <3>1. /\ snapshot'.hours = [snapshot.hours EXCEPT ![s0][w0] = h]
          /\ snapshot'.marks = snapshot.marks /\ snapshot'.settings = snapshot.settings
      BY <2>1, <2>3 DEF ChangeHours
    <3>2. \A u \in Students, x \in Weeks :
             ~(u = s0 /\ x = w0) => snapshot'.hours[u][x] = snapshot.hours[u][x]
      BY <2>1, <3>1
    <3>3. s = s0 /\ w = w0
      BY <2>2, <3>2
    <3> QED BY <2>2, <3>1, <3>2, <3>3 DEF MoreHours
  <2>4. ASSUME snapshot'.hours = snapshot.hours
        PROVE  FALSE
    BY <2>2, <2>4
  <2>5. ASSUME NEW s0 \in Students, NEW w0 \in Weeks, NEW c0 \in Criteria, NEW cell \in Cells,
               EnterMark(s0, w0, c0, cell)
        PROVE  FALSE
    BY <2>1, <2>4, <2>5 DEF EnterMark
  <2>6. ASSUME NEW patch \in Patches, SaveSettings(patch)
        PROVE  FALSE
    BY <2>1, <2>4, <2>6 DEF SaveSettings
  <2>7. ASSUME NEW patch \in RiskPatches, SaveRiskSettings(patch)
        PROVE  FALSE
    BY <2>4, <2>7 DEF SaveRiskSettings
  <2>8. ASSUME UNCHANGED riskVars
        PROVE  FALSE
    BY <2>4, <2>8 DEF riskVars
  <2>9. MoreHours(snapshot, snapshot', s, w)
    BY <1>1, <2>3, <2>5, <2>6, <2>7, <2>8 DEF RiskNext
  <2>10. PICK view \in Views : old = Table(snapshot, view)
    BY DEF Tables
  <2>11. PICK other \in Views : new = Table(snapshot', other)
    BY DEF Tables
  <2>12. other = view /\ old.view = view /\ old.rows = Sorted(snapshot, view)
         /\ new.rows = Sorted(snapshot', view)
    BY <2>10, <2>11 DEF Table
  <2>13. view \in AView
    BY ViewTypes
  <2>14. OnlyHelps(s, w, view, Sorted(snapshot, view), Sorted(snapshot', view))
    BY <2>1, <2>9, <2>13, MoreHoursOnlyHelp
  <2> QED BY <2>12, <2>14
<1> QED BY <1>1, RiskTypeCorrect, PTL DEF RiskSpec, MoreHoursNeverHurt, riskVars, vars

=============================================================================
