------------------------------ MODULE SumProofs ------------------------------
(***************************************************************************)
(* What a sum over a finite set (SumFunctionOnSet of the community module  *)
(* Functions) is.  The fold takes the elements in an order nobody knows;   *)
(* here it is shown to be well defined, and not to depend on that order.   *)
(* The inductions go over the subsets of a finite set: of those for which  *)
(* a claim is false there would be a smallest one.                         *)
(***************************************************************************)
EXTENDS Integers, FiniteSets, Functions, FiniteSetTheorems, WellFoundedInduction, TLAPS

\* Of some subsets of a finite set one has no other of them below it.
LEMMA SmallestSubset ==
    ASSUME NEW S, IsFiniteSet(S), NEW B \in SUBSET (SUBSET S), B # {}
    PROVE  \E T \in B : \A U \in SUBSET T : U # T => U \notin B
<1>1. B \subseteq FiniteSubsetsOf(S)
    BY FS_FiniteSubsetsOfFinite
<1>2. PICK T \in B : \A U \in B : ~(<<U, T>> \in StrictSubsetOrdering(S))
    BY <1>1, FS_StrictSubsetOrderingWellFounded, WFMin
<1>3. ASSUME NEW U \in SUBSET T, U # T, U \in B
      PROVE  FALSE
    <2>1. <<U, T>> \in (SUBSET S) \X (SUBSET S) /\ <<U, T>>[1] \subseteq <<U, T>>[2] /\ <<U, T>>[1] # <<U, T>>[2]
        BY <1>3
    <2>2. <<U, T>> \in StrictSubsetOrdering(S)
        BY <2>1 DEF StrictSubsetOrdering
    <2> QED
        BY <1>2, <1>3, <2>2
<1> QED
    BY <1>3

-----------------------------------------------------------------------------
(* The recursion of the fold *)

\* The element of s the fold takes first, and the others.
Pick(s) == CHOOSE x \in s : TRUE
Rest(s) == s \ {Pick(s)}

\* g is the recursive function of the fold.
Folds(g, f, S) == g = [s \in SUBSET S |-> IF s = {} THEN 0 ELSE f[Pick(s)] + g[Rest(s)]]

LEMMA PickRest ==
    ASSUME NEW s, s # {}
    PROVE  Pick(s) \in s /\ Rest(s) \subseteq s /\ Rest(s) # s
    BY DEF Pick, Rest

LEMMA SumIsFold ==
    ASSUME NEW f, NEW S
    PROVE  SumFunctionOnSet(f, S) = (CHOOSE g : Folds(g, f, S))[S]
    BY Zenon DEF SumFunctionOnSet, FoldFunctionOnSet, MapThenFoldSet, Folds, Pick, Rest

LEMMA FoldIsUnique ==
    ASSUME NEW S, IsFiniteSet(S), NEW f, NEW g, NEW h, Folds(g, f, S), Folds(h, f, S)
    PROVE  g = h
<1>1. PICK B : B = {s \in SUBSET S : g[s] # h[s]}
    OBVIOUS
<1>2. ASSUME NEW s \in SUBSET S
      PROVE  /\ g[s] = IF s = {} THEN 0 ELSE f[Pick(s)] + g[Rest(s)]
             /\ h[s] = IF s = {} THEN 0 ELSE f[Pick(s)] + h[Rest(s)]
    BY DEF Folds
<1>3. ASSUME B # {} PROVE FALSE
    <2>1. PICK s \in B : \A u \in SUBSET s : u # s => u \notin B
        BY <1>1, <1>3, SmallestSubset
    <2>2. s # {} /\ s \in SUBSET S
        BY <1>1, <1>2, <2>1
    <2>3. Rest(s) \in SUBSET S /\ Rest(s) \notin B
        BY <2>1, <2>2, PickRest
    <2> QED
        BY <1>1, <1>2, <2>1, <2>2, <2>3
<1>4. g = [s \in SUBSET S |-> g[s]] /\ h = [s \in SUBSET S |-> h[s]]
    BY DEF Folds
<1> QED
    BY <1>1, <1>3, <1>4

\* The sum is that of the rest and the element taken first.
Unfolds(f, S) ==
    SumFunctionOnSet(f, S) = IF S = {} THEN 0 ELSE f[Pick(S)] + SumFunctionOnSet(f, Rest(S))

LEMMA UnfoldsStep ==
    ASSUME NEW T, IsFiniteSet(T), NEW f, \A U \in SUBSET T : U # T => Unfolds(f, U)
    PROVE  Unfolds(f, T)
<1>1. PICK g : g = [s \in SUBSET T |-> IF s = {} THEN 0 ELSE f[Pick(s)] + SumFunctionOnSet(f, Rest(s))]
    OBVIOUS
<1>2. ASSUME NEW s \in SUBSET T, s # T
      PROVE  g[s] = SumFunctionOnSet(f, s)
    BY <1>1, <1>2 DEF Unfolds
<1>3. ASSUME NEW s \in SUBSET T, s # {}
      PROVE  g[Rest(s)] = SumFunctionOnSet(f, Rest(s))
    <2>1. Rest(s) \in SUBSET T /\ Rest(s) # T
        BY <1>3, PickRest
    <2> QED
        BY <2>1, <1>2
<1>4. Folds(g, f, T)
    BY <1>1, <1>3 DEF Folds
<1>5. PICK h : h = CHOOSE k : Folds(k, f, T)
    OBVIOUS
<1>6. Folds(h, f, T)
    BY <1>4, <1>5, Zenon
<1>7. h = g
    BY <1>4, <1>6, FoldIsUnique
<1>8. SumFunctionOnSet(f, T) = g[T]
    BY <1>5, <1>7, SumIsFold
<1> QED
    BY <1>1, <1>8 DEF Unfolds

LEMMA SumUnfolds ==
    ASSUME NEW S, IsFiniteSet(S), NEW f
    PROVE  Unfolds(f, S)
<1>1. PICK B : B = {s \in SUBSET S : ~Unfolds(f, s)}
    OBVIOUS
<1>2. ASSUME B # {} PROVE FALSE
    <2>0. B \in SUBSET (SUBSET S)
        BY <1>1
    <2>1. PICK T \in B : \A U \in SUBSET T : U # T => U \notin B
        BY <2>0, <1>2, SmallestSubset
    <2>2. T \in SUBSET S /\ ~Unfolds(f, T) /\ \A U \in SUBSET T : U # T => Unfolds(f, U)
        BY <1>1, <2>1
    <2>3. IsFiniteSet(T)
        BY <2>2, FS_Subset
    <2> QED
        BY <2>2, <2>3, UnfoldsStep
<1> QED
    BY <1>1, <1>2

-----------------------------------------------------------------------------
(* Sums *)

LEMMA SumEmpty == ASSUME NEW f PROVE SumFunctionOnSet(f, {}) = 0
    BY FS_EmptySet, SumUnfolds DEF Unfolds

LEMMA SumNat ==
    ASSUME NEW S, IsFiniteSet(S), NEW f, \A x \in S : f[x] \in Nat
    PROVE  SumFunctionOnSet(f, S) \in Nat
<1>1. PICK B : B = {s \in SUBSET S : SumFunctionOnSet(f, s) \notin Nat}
    OBVIOUS
<1>2. ASSUME B # {} PROVE FALSE
    <2>0. B \in SUBSET (SUBSET S)
        BY <1>1
    <2>1. PICK T \in B : \A U \in SUBSET T : U # T => U \notin B
        BY <2>0, <1>2, SmallestSubset
    <2>2. T \in SUBSET S /\ T # {} /\ SumFunctionOnSet(f, T) \notin Nat
        <3>1. T \in SUBSET S /\ SumFunctionOnSet(f, T) \notin Nat
            BY <1>1, Zenon
        <3> QED
            BY <3>1, SumEmpty
    <2>3. SumFunctionOnSet(f, T) = f[Pick(T)] + SumFunctionOnSet(f, Rest(T))
        BY <2>2, FS_Subset, SumUnfolds DEF Unfolds
    <2>4. f[Pick(T)] \in Nat /\ SumFunctionOnSet(f, Rest(T)) \in Nat
        BY <1>1, <2>1, <2>2, PickRest
    <2> QED
        BY <2>2, <2>3, <2>4
<1> QED
    BY <1>1, <1>2

\* Any element may be taken first.
LEMMA SumRemove ==
    ASSUME NEW S, IsFiniteSet(S), NEW f, \A x \in S : f[x] \in Nat, NEW e \in S
    PROVE  SumFunctionOnSet(f, S) = f[e] + SumFunctionOnSet(f, S \ {e})
<1>1. PICK B : B = {s \in SUBSET S : \E x \in s :
                        SumFunctionOnSet(f, s) # f[x] + SumFunctionOnSet(f, s \ {x})}
    OBVIOUS
<1>2. ASSUME B # {} PROVE FALSE
    <2>0. B \in SUBSET (SUBSET S)
        BY <1>1
    <2>1. PICK T \in B : \A U \in SUBSET T : U # T => U \notin B
        BY <2>0, <1>2, SmallestSubset
    <2>2. PICK x \in T : SumFunctionOnSet(f, T) # f[x] + SumFunctionOnSet(f, T \ {x})
        BY <1>1, <2>1
    <2>3. T \in SUBSET S
        BY <1>1, <2>1
    <2>4. PICK y \in T : y = Pick(T) /\ Rest(T) = T \ {y}
        BY <2>2, PickRest DEF Rest
    <2>5. SumFunctionOnSet(f, T) = f[y] + SumFunctionOnSet(f, T \ {y})
        BY <2>2, <2>3, <2>4, FS_Subset, SumUnfolds DEF Unfolds
    <2>6. x # y
        BY <2>2, <2>5
    <2>7. T \ {x} \notin B /\ T \ {y} \notin B /\ T \ {x} \in SUBSET S /\ T \ {y} \in SUBSET S
        BY <2>1, <2>2, <2>3
    <2>8. SumFunctionOnSet(f, T \ {y}) = f[x] + SumFunctionOnSet(f, (T \ {y}) \ {x})
        BY <1>1, <2>2, <2>6, <2>7
    <2>9. SumFunctionOnSet(f, T \ {x}) = f[y] + SumFunctionOnSet(f, (T \ {x}) \ {y})
        BY <1>1, <2>4, <2>6, <2>7
    <2>10. (T \ {x}) \ {y} = (T \ {y}) \ {x}
        OBVIOUS
    <2>11. SumFunctionOnSet(f, (T \ {x}) \ {y}) \in Nat /\ f[x] \in Nat /\ f[y] \in Nat
        <3>1. IsFiniteSet((T \ {x}) \ {y})
            BY <2>3, FS_Subset
        <3>2. \A z \in (T \ {x}) \ {y} : f[z] \in Nat
            BY <2>3
        <3> QED
            BY <2>3, <3>1, <3>2, SumNat
    <2>12. PICK k \in Nat, m \in Nat, n \in Nat :
                k = f[x] /\ m = f[y] /\ n = SumFunctionOnSet(f, (T \ {x}) \ {y})
        BY <2>11, Zenon
    <2>13. SumFunctionOnSet(f, T) = m + (k + n) /\ SumFunctionOnSet(f, T \ {x}) = m + n
        BY <2>5, <2>8, <2>9, <2>10, <2>12, Zenon
    <2>14. m + (k + n) = k + (m + n)
        OBVIOUS
    <2> QED
        BY <2>2, <2>12, <2>13, <2>14, Zenon
<1> QED
    BY <1>1, <1>2

\* Only the values at the elements count.
LEMMA SumSame ==
    ASSUME NEW S, IsFiniteSet(S), NEW f, NEW g, \A x \in S : f[x] = g[x]
    PROVE  SumFunctionOnSet(f, S) = SumFunctionOnSet(g, S)
<1>1. PICK B : B = {s \in SUBSET S : SumFunctionOnSet(f, s) # SumFunctionOnSet(g, s)}
    OBVIOUS
<1>2. ASSUME B # {} PROVE FALSE
    <2>0. B \in SUBSET (SUBSET S)
        BY <1>1
    <2>1. PICK T \in B : \A U \in SUBSET T : U # T => U \notin B
        BY <2>0, <1>2, SmallestSubset
    <2>2. T \in SUBSET S /\ T # {} /\ SumFunctionOnSet(f, T) # SumFunctionOnSet(g, T)
        BY <1>1, <2>1, SumEmpty
    <2>3. /\ SumFunctionOnSet(f, T) = f[Pick(T)] + SumFunctionOnSet(f, Rest(T))
          /\ SumFunctionOnSet(g, T) = g[Pick(T)] + SumFunctionOnSet(g, Rest(T))
        BY <2>2, FS_Subset, SumUnfolds DEF Unfolds
    <2>4. f[Pick(T)] = g[Pick(T)] /\ SumFunctionOnSet(f, Rest(T)) = SumFunctionOnSet(g, Rest(T))
        BY <1>1, <2>1, <2>2, PickRest
    <2> QED
        BY <2>2, <2>3, <2>4, Zenon
<1> QED
    BY <1>1, <1>2

\* Values that are no greater have no greater sum.
LEMMA SumAtMost ==
    ASSUME NEW S, IsFiniteSet(S), NEW f, NEW g,
           \A x \in S : f[x] \in Nat /\ g[x] \in Nat /\ f[x] <= g[x]
    PROVE  SumFunctionOnSet(f, S) <= SumFunctionOnSet(g, S)
<1>1. PICK B : B = {s \in SUBSET S : ~(SumFunctionOnSet(f, s) <= SumFunctionOnSet(g, s))}
    OBVIOUS
<1>2. ASSUME B # {} PROVE FALSE
    <2>0. B \in SUBSET (SUBSET S)
        BY <1>1
    <2>1. PICK T \in B : \A U \in SUBSET T : U # T => U \notin B
        BY <2>0, <1>2, SmallestSubset
    <2>2. T \in SUBSET S /\ ~(SumFunctionOnSet(f, T) <= SumFunctionOnSet(g, T))
        BY <1>1, <2>1, Zenon
    <2>3. T # {}
        BY <2>2, SumEmpty
    <2>4. PICK R : R = Rest(T) /\ R \in SUBSET T /\ R # T
        BY <2>3, PickRest
    <2>5. R \in SUBSET S /\ R \notin B
        BY <2>1, <2>2, <2>4
    <2>6. SumFunctionOnSet(f, R) <= SumFunctionOnSet(g, R)
        BY <1>1, <2>5, Zenon
    <2>7. PICK e \in T : e = Pick(T)
        BY <2>3, PickRest
    <2>8. /\ SumFunctionOnSet(f, T) = f[e] + SumFunctionOnSet(f, R)
          /\ SumFunctionOnSet(g, T) = g[e] + SumFunctionOnSet(g, R)
        BY <2>2, <2>3, <2>4, <2>7, FS_Subset, SumUnfolds DEF Unfolds
    <2>9. IsFiniteSet(R) /\ (\A x \in R : f[x] \in Nat) /\ (\A x \in R : g[x] \in Nat)
        BY <2>5, FS_Subset
    <2>10. PICK k \in Nat, l \in Nat : k = f[e] /\ l = g[e] /\ k <= l
        BY <2>2, <2>7
    <2>11. PICK m \in Nat, n \in Nat : m = SumFunctionOnSet(f, R) /\ n = SumFunctionOnSet(g, R)
        BY <2>9, SumNat
    <2>12. m <= n /\ ~(k + m <= l + n)
        BY <2>2, <2>6, <2>8, <2>10, <2>11, Zenon
    <2> QED
        BY <2>10, <2>12
<1>3. S \notin B
    BY <1>2
<1> QED
    BY <1>1, <1>3

\* More elements have no smaller sum.
LEMMA SumSubset ==
    ASSUME NEW S, IsFiniteSet(S), NEW f, \A x \in S : f[x] \in Nat, NEW R \in SUBSET S
    PROVE  SumFunctionOnSet(f, R) <= SumFunctionOnSet(f, S)
<1>1. PICK B : B = {s \in SUBSET S : \E r \in SUBSET s :
                        ~(SumFunctionOnSet(f, r) <= SumFunctionOnSet(f, s))}
    OBVIOUS
<1>2. ASSUME NEW s \in SUBSET S
      PROVE  IsFiniteSet(s) /\ (\A x \in s : f[x] \in Nat) /\ SumFunctionOnSet(f, s) \in Nat
    <2>1. IsFiniteSet(s) /\ (\A x \in s : f[x] \in Nat)
        BY FS_Subset
    <2> QED
        BY <2>1, SumNat
<1>3. ASSUME B # {} PROVE FALSE
    <2>0. B \in SUBSET (SUBSET S)
        BY <1>1
    <2>1. PICK T \in B : \A U \in SUBSET T : U # T => U \notin B
        BY <2>0, <1>3, SmallestSubset
    <2>2. PICK r \in SUBSET T : ~(SumFunctionOnSet(f, r) <= SumFunctionOnSet(f, T))
        BY <1>1, Zenon
    <2>3. T \in SUBSET S /\ r \in SUBSET S
        BY <2>0
    <2>4. r # T
        BY <2>2, <2>3, <1>2
    <2>5. PICK e \in T : e \notin r
        BY <2>4
    <2>6. T \ {e} \in SUBSET S /\ T \ {e} \notin B /\ r \in SUBSET (T \ {e})
        BY <2>1, <2>3, <2>5
    <2>7. SumFunctionOnSet(f, r) <= SumFunctionOnSet(f, T \ {e})
        BY <1>1, <2>6
    <2>8. SumFunctionOnSet(f, T) = f[e] + SumFunctionOnSet(f, T \ {e})
        BY <1>2, <2>3, SumRemove
    <2>9. f[e] \in Nat /\ SumFunctionOnSet(f, T \ {e}) \in Nat /\ SumFunctionOnSet(f, r) \in Nat
        BY <1>2, <2>3, <2>6
    <2>10. PICK k \in Nat, m \in Nat, n \in Nat :
                k = f[e] /\ m = SumFunctionOnSet(f, T \ {e}) /\ n = SumFunctionOnSet(f, r)
        BY <2>9, Zenon
    <2>11. n <= m /\ ~(n <= k + m)
        BY <2>2, <2>7, <2>8, <2>10, Zenon
    <2> QED
        BY <2>11
<1>4. S \notin B
    BY <1>3
<1> QED
    BY <1>1, <1>4
=============================================================================
