--------------------------- MODULE SequenceLemmas ---------------------------
(***************************************************************************)
(* Facts about sequences that several proofs rest on: where they are cut   *)
(* (Cuts), and what a fold computes along them.  Both are by induction on  *)
(* a length.  Its principle is stated here about sets of numbers: what is  *)
(* to be shown of n is a set of which every n has to be an element.        *)
(***************************************************************************)
EXTENDS Cuts, SequencesExt, FiniteSetTheorems, SequenceTheorems, WellFoundedInduction, TLAPS

LEMMA SetInduction ==
    ASSUME NEW T, 0 \in T, \A n \in Nat : n \in T => n + 1 \in T
    PROVE  Nat \subseteq T
<1> SUFFICES ASSUME Nat \ T # {} PROVE FALSE
  OBVIOUS
<1> DEFINE less == {ss \in Nat \X Nat : ss[1] < ss[2]}
           rest == Nat \ T
<1>1. IsWellFoundedOn(less, Nat)
  BY NatLessThanWellFounded DEF OpToRel
<1>2. PICK m \in rest : \A k \in rest : <<k, m>> \notin less
  <2>1. rest \subseteq Nat /\ rest # {}
    OBVIOUS
  <2> HIDE DEF less, rest
  <2>2. QED
    BY <1>1, <2>1, WFMin
<1>3. m # 0 /\ m \in Nat /\ m \notin T
  OBVIOUS
<1>4. m - 1 \in Nat /\ m - 1 < m /\ m = (m - 1) + 1
  BY <1>3
<1>5. m - 1 \in T
  BY <1>2, <1>4
<1>6. QED
  BY <1>3, <1>4, <1>5

\* A set of numbers up to n has a last one.
LEMMA LastOfFinite ==
    ASSUME NEW n \in Nat, NEW some \in SUBSET (1 .. n), some # {}
    PROVE  \E i \in some : \A j \in some : j <= i
<1> DEFINE T == {k \in Nat : \A S \in SUBSET (1 .. k) :
                     S # {} => \E i \in S : \A j \in S : j <= i}
<1>1. 0 \in T
  <2>1. 1 .. 0 = {}
    OBVIOUS
  <2>2. QED
    BY <2>1
<1>2. ASSUME NEW k \in Nat, k \in T PROVE k + 1 \in T
  <2> SUFFICES ASSUME NEW S \in SUBSET (1 .. k + 1), S # {}
               PROVE  \E i \in S : \A j \in S : j <= i
    OBVIOUS
  <2>1. CASE k + 1 \in S
    BY <2>1
  <2>2. CASE k + 1 \notin S
    <3>1. S \in SUBSET (1 .. k)
      BY <2>2
    <3>2. QED
      BY <1>2, <3>1
  <2>3. QED
    BY <2>1, <2>2
<1>3. Nat \subseteq T
  <2> HIDE DEF T
  <2>1. QED
    BY <1>1, <1>2, SetInduction
<1>4. QED
  BY <1>3

-----------------------------------------------------------------------------
(***************************************************************************)
(* The positions of a set in their order.                                  *)
(***************************************************************************)

UpTo(cuts, i) == Cardinality({j \in cuts : j <= i})

\* Counting goes up by one at each cut.
LEMMA UpToSteps ==
    ASSUME NEW n \in Nat, NEW cuts \in SUBSET (1 .. n)
    PROVE  /\ IsFiniteSet(cuts) /\ Cardinality(cuts) \in Nat
           /\ UpTo(cuts, 0) = 0 /\ UpTo(cuts, n) = Cardinality(cuts)
           /\ \A i \in Nat : UpTo(cuts, i) \in Nat
           /\ \A i \in Nat : UpTo(cuts, i + 1) =
                  IF i + 1 \in cuts THEN UpTo(cuts, i) + 1 ELSE UpTo(cuts, i)
<1> \A j \in cuts : j \in Nat /\ 1 <= j /\ j <= n
  OBVIOUS
<1>1. IsFiniteSet(cuts)
  <2>1. IsFiniteSet(1 .. n)
    BY FS_Interval
  <2>2. QED
    BY <2>1, FS_Subset
<1>2. \A i : IsFiniteSet({j \in cuts : j <= i})
  BY <1>1, FS_Subset
<1>3. Cardinality(cuts) \in Nat /\ \A i \in Nat : UpTo(cuts, i) \in Nat
  BY <1>1, <1>2, FS_CardinalityType DEF UpTo
<1>4. UpTo(cuts, 0) = 0
  <2>1. \A j \in cuts : ~(j <= 0)
    OBVIOUS
  <2>2. QED
    <3>1. {j \in cuts : j <= 0} = {}
      BY <2>1
    <3>2. QED
      BY <3>1, FS_EmptySet DEF UpTo
<1>5. UpTo(cuts, n) = Cardinality(cuts)
  <2>1. {j \in cuts : j <= n} = cuts
    OBVIOUS
  <2>2. QED
    BY <2>1 DEF UpTo
<1>6. ASSUME NEW i \in Nat
      PROVE  UpTo(cuts, i + 1) = IF i + 1 \in cuts THEN UpTo(cuts, i) + 1 ELSE UpTo(cuts, i)
  <2> DEFINE before == {j \in cuts : j <= i}
             now == {j \in cuts : j <= i + 1}
  <2>0. /\ \A j \in cuts : j <= i + 1 <=> j <= i \/ j = i + 1
        /\ ~(i + 1 <= i)
    OBVIOUS
  <2>1. CASE i + 1 \in cuts
    <3>1. now = before \cup {i + 1} /\ i + 1 \notin before
      BY <2>0, <2>1
    <3>2. IsFiniteSet(before)
      BY <1>2
    <3>3. Cardinality(before \cup {i + 1}) = Cardinality(before) + 1
      <4> HIDE DEF before
      <4>1. QED
        BY <3>1, <3>2, FS_AddElement
    <3>4. QED
      BY <2>1, <3>1, <3>3 DEF UpTo
  <2>2. CASE i + 1 \notin cuts
    <3>1. now = before
      BY <2>0, <2>2
    <3>2. QED
      BY <2>2, <3>1 DEF UpTo
  <2>3. QED
    BY <2>1, <2>2
<1>7. QED
  BY <1>1, <1>3, <1>4, <1>5, <1>6

LEMMA UpToGrows ==
    ASSUME NEW n \in Nat, NEW cuts \in SUBSET (1 .. n), NEW i \in Nat, NEW j \in Nat, i <= j
    PROVE  /\ UpTo(cuts, i) <= UpTo(cuts, j)
           /\ i < j /\ j \in cuts => UpTo(cuts, i) < UpTo(cuts, j)
<1> DEFINE T == {k \in Nat : /\ UpTo(cuts, i) <= UpTo(cuts, i + k)
                             /\ k > 0 /\ i + k \in cuts => UpTo(cuts, i) < UpTo(cuts, i + k)}
<1>1. 0 \in T
  <2>1. i + 0 = i /\ UpTo(cuts, i) \in Nat
    BY UpToSteps
  <2>2. QED
    BY <2>1
<1>2. ASSUME NEW k \in Nat, k \in T PROVE k + 1 \in T
  <2>1. i + k \in Nat /\ i + (k + 1) = (i + k) + 1
    OBVIOUS
  <2>2. UpTo(cuts, i) \in Nat /\ UpTo(cuts, i + k) \in Nat
    BY <2>1, UpToSteps
  <2>3. UpTo(cuts, (i + k) + 1) = IF (i + k) + 1 \in cuts THEN UpTo(cuts, i + k) + 1 ELSE UpTo(cuts, i + k)
    BY <2>1, UpToSteps
  <2>4. QED
    BY <1>2, <2>1, <2>2, <2>3
<1>3. Nat \subseteq T
  <2> HIDE DEF T
  <2>1. QED
    BY <1>1, <1>2, SetInduction
<1>4. j - i \in Nat /\ i + (j - i) = j
  OBVIOUS
<1>5. QED
  BY <1>3, <1>4

\* Every number of cuts is reached at a cut, or before the first.
LEMMA NthExists ==
    ASSUME NEW n \in Nat, NEW cuts \in SUBSET (1 .. n), NEW k \in 0 .. Cardinality(cuts)
    PROVE  \E e \in cuts \cup {0} : UpTo(cuts, e) = k
<1> DEFINE T == {i \in Nat : \A m \in 0 .. UpTo(cuts, i) : \E e \in cuts \cup {0} : UpTo(cuts, e) = m}
<1>1. 0 \in T
  BY UpToSteps
<1>2. ASSUME NEW i \in Nat, i \in T PROVE i + 1 \in T
  <2>1. UpTo(cuts, i) \in Nat
    BY UpToSteps
  <2>2. CASE i + 1 \in cuts
    <3>1. UpTo(cuts, i + 1) = UpTo(cuts, i) + 1
      BY <2>2, UpToSteps
    <3>2. QED
      BY <1>2, <2>1, <2>2, <3>1
  <2>3. CASE i + 1 \notin cuts
    <3>1. UpTo(cuts, i + 1) = UpTo(cuts, i)
      BY <2>3, UpToSteps
    <3>2. QED
      BY <1>2, <3>1
  <2>4. QED
    BY <2>2, <2>3
<1>3. Nat \subseteq T
  <2> HIDE DEF T
  <2>1. QED
    BY <1>1, <1>2, SetInduction
<1>4. UpTo(cuts, n) = Cardinality(cuts)
  BY UpToSteps
<1>5. QED
  BY <1>3, <1>4

\* Nth enumerates the cuts from the first to the last, and leaves none out.
LEMMA NthProperties ==
    ASSUME NEW n \in Nat, NEW cuts \in SUBSET (1 .. n)
    PROVE  /\ Cardinality(cuts) \in Nat
           /\ Nth(cuts, 0) = 0
           /\ \A k \in 1 .. Cardinality(cuts) :
                  /\ Nth(cuts, k) \in cuts
                  /\ Nth(cuts, k - 1) \in 0 .. Nth(cuts, k) - 1
                  /\ \A j \in cuts : ~(Nth(cuts, k - 1) < j /\ j < Nth(cuts, k))
           /\ Nth(cuts, Cardinality(cuts)) \in 0 .. n
           /\ \A j \in cuts : j <= Nth(cuts, Cardinality(cuts))
<1> DEFINE m == Cardinality(cuts)
<1>1. m \in Nat
  BY UpToSteps
<1>2. ASSUME NEW k \in 0 .. m
      PROVE  Nth(cuts, k) \in cuts \cup {0} /\ UpTo(cuts, Nth(cuts, k)) = k
  <2>1. \E e \in cuts \cup {0} : UpTo(cuts, e) = k
    BY NthExists
  <2>2. QED
    BY <2>1 DEF Nth, UpTo
<1>3. \A e \in cuts \cup {0} : e \in 0 .. n /\ e \in Nat
  OBVIOUS
<1>4. ASSUME NEW e \in cuts PROVE UpTo(cuts, e) # 0
  <2>1. e \in Nat /\ 0 <= e /\ 0 < e
    OBVIOUS
  <2>2. UpTo(cuts, 0) < UpTo(cuts, e)
    BY <2>1, UpToGrows
  <2>3. QED
    BY <2>2, UpToSteps
<1>5. Nth(cuts, 0) = 0
  <2>1. 0 \in 0 .. m
    BY <1>1
  <2>2. QED
    BY <1>2, <1>4, <2>1
<1> HIDE DEF m
<1>6. ASSUME NEW k \in 1 .. m
      PROVE  /\ Nth(cuts, k) \in cuts
             /\ Nth(cuts, k - 1) \in 0 .. Nth(cuts, k) - 1
             /\ \A j \in cuts : ~(Nth(cuts, k - 1) < j /\ j < Nth(cuts, k))
  <2> DEFINE a == Nth(cuts, k - 1)
             b == Nth(cuts, k)
  <2>1. k - 1 \in 0 .. m /\ k \in 0 .. m
    BY <1>1
  <2>2. a \in cuts \cup {0} /\ UpTo(cuts, a) = k - 1
    BY <1>2, <2>1
  <2>3. b \in cuts \cup {0} /\ UpTo(cuts, b) = k
    BY <1>2, <2>1
  <2> HIDE DEF a, b
  <2>4. a \in 0 .. n /\ b \in 0 .. n
    BY <1>3, <2>2, <2>3
  <2>5. b \in cuts
    BY <1>1, <2>3, UpToSteps
  <2>6. a < b
    <3>1. b <= a => UpTo(cuts, b) <= UpTo(cuts, a)
      BY <2>4, UpToGrows
    <3>2. QED
      BY <1>1, <2>2, <2>3, <2>4, <3>1
  <2>7. ASSUME NEW j \in cuts, a < j, j < b PROVE FALSE
    <3>1. a \in Nat /\ j \in Nat /\ b \in Nat /\ a <= j /\ j <= b
      BY <1>3, <2>4, <2>7
    <3>2. UpTo(cuts, a) < UpTo(cuts, j) /\ UpTo(cuts, j) < UpTo(cuts, b)
      BY <2>5, <2>7, <3>1, UpToGrows
    <3>3. UpTo(cuts, j) \in Nat
      BY <3>1, UpToSteps
    <3>4. QED
      BY <1>1, <2>2, <2>3, <3>2, <3>3
  <2>8. QED
    BY <2>4, <2>5, <2>6, <2>7 DEF a, b
<1>7. Nth(cuts, m) \in 0 .. n /\ \A j \in cuts : j <= Nth(cuts, m)
  <2>1. Nth(cuts, m) \in cuts \cup {0} /\ UpTo(cuts, Nth(cuts, m)) = m
    BY <1>1, <1>2 DEF m
  <2>2. Nth(cuts, m) \in 0 .. n
    BY <1>3, <2>1
  <2>3. ASSUME NEW j \in cuts, Nth(cuts, m) < j PROVE FALSE
    <3>1. Nth(cuts, m) \in Nat /\ j \in Nat /\ Nth(cuts, m) <= j /\ j <= n
      BY <1>3, <2>2, <2>3
    <3>2. UpTo(cuts, Nth(cuts, m)) < UpTo(cuts, j) /\ UpTo(cuts, j) <= UpTo(cuts, n)
      BY <2>3, <3>1, UpToGrows
    <3>3. UpTo(cuts, n) = m /\ UpTo(cuts, j) \in Nat
      BY <3>1, UpToSteps DEF m
    <3>4. QED
      BY <1>1, <2>1, <3>2, <3>3
  <2>4. QED
    BY <2>2, <2>3
<1>8. QED
  BY <1>1, <1>5, <1>6, <1>7 DEF m

-----------------------------------------------------------------------------
(***************************************************************************)
(* Folds.  FoldLeft computes, for every set of positions, the fold over    *)
(* these positions: a recursive function, which has first to be shown to   *)
(* exist.  What matters of it are its values for 1 .. 0, 1 .. 1, ...       *)
(***************************************************************************)

LEMMA MaxIsLast ==
    ASSUME NEW n \in Nat, NEW d \in SUBSET (1 .. n), d # {}
    PROVE  /\ Max(d) \in d
           /\ \A j \in d : j <= Max(d)
<1>1. \E i \in d : \A j \in d : j <= i
  BY LastOfFinite
<1>2. PICK i \in d : \A j \in d : j <= i
  BY <1>1
<1>3. \A j \in d : i >= j
  BY <1>2
<1>4. QED
  BY <1>3 DEF Max

LEMMA MaxOfPrefix ==
    ASSUME NEW k \in Nat
    PROVE  /\ 1 .. k + 1 # {} /\ Max(1 .. k + 1) = k + 1
           /\ (1 .. k + 1) \ {k + 1} = 1 .. k
           /\ 1 .. 0 = {}
<1>1. k + 1 \in 1 .. k + 1
  OBVIOUS
<1> DEFINE d == 1 .. k + 1
<1>2. Max(d) \in d /\ k + 1 <= Max(d)
  <2>1. k + 1 \in Nat /\ d \in SUBSET (1 .. k + 1) /\ d # {} /\ k + 1 \in d
    BY <1>1
  <2> HIDE DEF d
  <2>2. QED
    BY <2>1, MaxIsLast
<1>3. Max(d) = k + 1
  BY <1>2
<1>4. 1 .. 0 = {} /\ (1 .. k + 1) \ {k + 1} = 1 .. k
  OBVIOUS
<1>5. QED
  BY <1>1, <1>3, <1>4

\* The folds of F over all sets of positions up to n.
FoldsAll(fold, n, V, base, F) ==
    /\ fold \in [SUBSET (1 .. n) -> V]
    /\ \A d \in SUBSET (1 .. n) :
           fold[d] = IF d = {} THEN base ELSE F[<<fold[d \ {Max(d)}], Max(d)>>]

LEMMA FoldExists ==
    ASSUME NEW n \in Nat, NEW V, NEW base \in V, NEW F \in [V \X (1 .. n) -> V]
    PROVE  \E fold : FoldsAll(fold, n, V, base, F)
<1> DEFINE Folds(fold, k) == FoldsAll(fold, k, V, base, F)
           T == {k \in Nat : k <= n => \E fold : Folds(fold, k)}
<1>1. 0 \in T
  <2>1. 1 .. 0 = {}
    OBVIOUS
  <2>2. Folds([d \in {{}} |-> base], 0)
    BY <2>1 DEF FoldsAll
  <2>3. QED
    BY <2>2
<1>2. ASSUME NEW k \in Nat, k \in T PROVE k + 1 \in T
  <2> SUFFICES ASSUME k + 1 <= n PROVE \E fold : Folds(fold, k + 1)
    <3> HIDE DEF Folds
    <3>1. QED
      OBVIOUS
  <2>1. PICK fold : Folds(fold, k)
    <3> HIDE DEF Folds
    <3>1. QED
      BY <1>2
  <2> USE DEF FoldsAll
  <2> DEFINE more == [d \in SUBSET (1 .. k + 1) |->
                        IF k + 1 \in d THEN F[<<fold[d \ {k + 1}], k + 1>>] ELSE fold[d]]
  <2>2. \A d \in SUBSET (1 .. k + 1) :
            /\ k + 1 \notin d => d \in SUBSET (1 .. k)
            /\ d \ {k + 1} \in SUBSET (1 .. k) /\ d \ {k + 1} \in SUBSET (1 .. k + 1)
    OBVIOUS
  <2>3. k + 1 \in 1 .. n
    OBVIOUS
  <2>4. more \in [SUBSET (1 .. k + 1) -> V]
    <3>1. ASSUME NEW d \in SUBSET (1 .. k + 1) PROVE more[d] \in V
      <4>1. CASE k + 1 \in d
        <5>1. fold[d \ {k + 1}] \in V
          BY <2>1, <2>2
        <5>2. QED
          BY <2>3, <4>1, <5>1
      <4>2. CASE k + 1 \notin d
        BY <2>1, <2>2, <4>2
      <4>3. QED
        BY <4>1, <4>2
    <3>2. QED
      BY <3>1
  <2>5. ASSUME NEW d \in SUBSET (1 .. k + 1)
        PROVE  more[d] = IF d = {} THEN base ELSE F[<<more[d \ {Max(d)}], Max(d)>>]
    <3>1. CASE k + 1 \in d
      <4>1. Max(d) = k + 1
        <5>1. k + 1 \in Nat /\ d # {}
          BY <3>1
        <5>2. Max(d) \in d /\ k + 1 <= Max(d)
          BY <3>1, <5>1, MaxIsLast
        <5>3. Max(d) \in 1 .. k + 1
          BY <5>2
        <5>4. QED
          BY <5>2, <5>3
      <4>2. more[d \ {k + 1}] = fold[d \ {k + 1}]
        BY <2>2
      <4>3. QED
        BY <3>1, <4>1, <4>2
    <3>2. CASE k + 1 \notin d
      <4>1. d \in SUBSET (1 .. k)
        BY <2>2, <3>2
      <4>2. more[d] = fold[d]
        BY <3>2
      <4>3. d \ {Max(d)} \in SUBSET (1 .. k + 1) /\ k + 1 \notin d \ {Max(d)}
        BY <3>2
      <4>4. more[d \ {Max(d)}] = fold[d \ {Max(d)}]
        BY <4>3
      <4>5. QED
        BY <2>1, <4>1, <4>2, <4>4
    <3>3. QED
      BY <3>1, <3>2
  <2>6. QED
    BY <2>4, <2>5
<1>3. Nat \subseteq T
  <2> HIDE DEF T
  <2>1. QED
    BY <1>1, <1>2, SetInduction
<1>4. PICK fold : Folds(fold, n)
  <2> HIDE DEF Folds
  <2>1. QED
    BY <1>3
<1>5. QED
  BY <1>4

\* The fold of F over the first k positions, for each k.
ByPrefix(fold, n, V, base, F) ==
    /\ fold[1 .. 0] = base
    /\ \A k \in 0 .. n : fold[1 .. k] \in V
    /\ \A k \in 0 .. n - 1 : fold[1 .. k + 1] = F[<<fold[1 .. k], k + 1>>]

\* A fold goes through the prefixes one by one, ...
LEMMA PrefixFolds ==
    ASSUME NEW n \in Nat, NEW V, NEW base \in V, NEW F \in [V \X (1 .. n) -> V],
           NEW fold, FoldsAll(fold, n, V, base, F)
    PROVE  ByPrefix(fold, n, V, base, F)
<1>1. fold[1 .. 0] = base
  <2>1. 1 .. 0 = {} /\ 1 .. 0 \in SUBSET (1 .. n)
    OBVIOUS
  <2>2. QED
    BY <2>1 DEF FoldsAll
<1>2. \A k \in 0 .. n : fold[1 .. k] \in V
  <2>1. \A k \in 0 .. n : 1 .. k \in SUBSET (1 .. n)
    OBVIOUS
  <2>2. QED
    BY <2>1 DEF FoldsAll
<1>3. ASSUME NEW k \in 0 .. n - 1 PROVE fold[1 .. k + 1] = F[<<fold[1 .. k], k + 1>>]
  <2> DEFINE d == 1 .. k + 1
  <2>1. d \in SUBSET (1 .. n) /\ k \in Nat
    OBVIOUS
  <2>2. d # {} /\ Max(d) = k + 1 /\ d \ {k + 1} = 1 .. k
    BY <2>1, MaxOfPrefix
  <2> HIDE DEF d
  <2>3. fold[d] = F[<<fold[1 .. k], k + 1>>]
    BY <2>1, <2>2 DEF FoldsAll
  <2>4. QED
    BY <2>3 DEF d
<1>4. QED
  BY <1>1, <1>2, <1>3 DEF ByPrefix

\* ... and depends on nothing behind them.
SameSteps(F, G, k, V) == \A v \in V, i \in 1 .. k : F[<<v, i>>] = G[<<v, i>>]
SameUpTo(f, g, k) == f[1 .. k] = g[1 .. k]

LEMMA PrefixFoldsAgree ==
    ASSUME NEW n \in Nat, NEW m \in Nat, NEW V, NEW base \in V,
           NEW F \in [V \X (1 .. n) -> V], NEW G \in [V \X (1 .. m) -> V],
           NEW f, FoldsAll(f, n, V, base, F), NEW g, FoldsAll(g, m, V, base, G),
           NEW k \in Nat, k <= n, k <= m,
           SameSteps(F, G, k, V)
    PROVE  SameUpTo(f, g, k)
<1> DEFINE T == {j \in Nat : j <= k => f[1 .. j] = g[1 .. j]}
<1>0. ByPrefix(f, n, V, base, F) /\ ByPrefix(g, m, V, base, G)
  <2>1. ByPrefix(f, n, V, base, F)
    BY PrefixFolds
  <2>2. ByPrefix(g, m, V, base, G)
    BY PrefixFolds
  <2>3. QED
    BY <2>1, <2>2
<1>1. 0 \in T
  <2>1. f[1 .. 0] = base /\ g[1 .. 0] = base
    BY <1>0 DEF ByPrefix
  <2>2. QED
    BY <2>1
<1>2. ASSUME NEW j \in Nat, j \in T PROVE j + 1 \in T
  <2> SUFFICES ASSUME j + 1 <= k PROVE f[1 .. j + 1] = g[1 .. j + 1]
    OBVIOUS
  <2>1. j \in 0 .. n - 1 /\ j \in 0 .. m - 1 /\ j \in 0 .. n /\ j + 1 \in 1 .. k /\ j <= k
    OBVIOUS
  <2>2. f[1 .. j + 1] = F[<<f[1 .. j], j + 1>>] /\ f[1 .. j] \in V
    <3>1. /\ \A i \in 0 .. n : f[1 .. i] \in V
          /\ \A i \in 0 .. n - 1 : f[1 .. i + 1] = F[<<f[1 .. i], i + 1>>]
      BY <1>0 DEF ByPrefix
    <3>2. QED
      BY <2>1, <3>1
  <2>3. g[1 .. j + 1] = G[<<g[1 .. j], j + 1>>]
    <3>1. \A i \in 0 .. m - 1 : g[1 .. i + 1] = G[<<g[1 .. i], i + 1>>]
      BY <1>0 DEF ByPrefix
    <3>2. QED
      BY <2>1, <3>1
  <2>4. f[1 .. j] = g[1 .. j]
    BY <1>2, <2>1
  <2>5. QED
    BY <2>1, <2>2, <2>3, <2>4 DEF SameSteps
<1>3. Nat \subseteq T
  <2> HIDE DEF T
  <2>1. QED
    BY <1>1, <1>2, SetInduction
<1>4. k \in T
  BY <1>3
<1>5. QED
  BY <1>4 DEF SameUpTo

-----------------------------------------------------------------------------
(***************************************************************************)
(* The sum of a sequence of numbers.                                       *)
(***************************************************************************)

Total(s) == FoldLeft(+, 0, s)

\* What FoldLeft computes on the way to the sum of s.
Adds(fold, s) ==
    fold = [d \in SUBSET DOMAIN s |-> IF d = {} THEN 0 ELSE fold[d \ {Max(d)}] + s[Max(d)]]

\* It exists, and is the sum for each prefix.
LEMMA TotalDef ==
    ASSUME NEW s \in Seq(Nat)
    PROVE  \E fold : /\ Total(s) = fold[1 .. Len(s)]
                     /\ fold[1 .. 0] = 0
                     /\ \A k \in 0 .. Len(s) : fold[1 .. k] \in Nat
                     /\ \A k \in 0 .. Len(s) - 1 : fold[1 .. k + 1] = fold[1 .. k] + s[k + 1]
<1> DEFINE n == Len(s)
           F == [vp \in Nat \X (1 .. n) |-> vp[1] + s[vp[2]]]
<1>1. n \in Nat /\ DOMAIN s = 1 .. n /\ \A i \in 1 .. n : s[i] \in Nat
  BY LenProperties, ElementOfSeq
<1> HIDE DEF n
<1>2. PICK fold : FoldsAll(fold, n, Nat, 0, F)
  <2>1. F \in [Nat \X (1 .. n) -> Nat]
    BY <1>1
  <2> HIDE DEF F
  <2>2. QED
    BY <1>1, <2>1, FoldExists
<1>3. Adds(fold, s)
  <2>1. ASSUME NEW d \in SUBSET (1 .. n), d # {}
        PROVE  fold[d] = fold[d \ {Max(d)}] + s[Max(d)]
    <3>1. Max(d) \in 1 .. n /\ d \ {Max(d)} \in SUBSET (1 .. n)
      BY <1>1, <2>1, MaxIsLast
    <3>2. fold[d \ {Max(d)}] \in Nat
      BY <1>2, <3>1 DEF FoldsAll
    <3>3. QED
      BY <1>2, <2>1, <3>1, <3>2 DEF FoldsAll
  <2>2. \A d \in SUBSET (1 .. n) : fold[d] = IF d = {} THEN 0 ELSE fold[d \ {Max(d)}] + s[Max(d)]
    BY <1>2, <2>1 DEF FoldsAll
  <2>3. fold = [d \in SUBSET (1 .. n) |-> IF d = {} THEN 0 ELSE fold[d \ {Max(d)}] + s[Max(d)]]
    BY <1>2, <2>2 DEF FoldsAll
  <2>4. QED
    BY <1>1, <2>3 DEF Adds
<1> DEFINE it == CHOOSE f : Adds(f, s)
<1>4. Adds(it, s)
  BY <1>3
<1>5. Total(s) = it[DOMAIN s]
  BY DEF Total, FoldLeft, MapThenFoldSet, Adds
<1> HIDE DEF it
<1>6. \A d \in SUBSET (1 .. n) : it[d] = IF d = {} THEN 0 ELSE it[d \ {Max(d)}] + s[Max(d)]
  BY <1>1, <1>4 DEF Adds
<1>7. it[1 .. 0] = 0
  BY <1>1, <1>6, MaxOfPrefix
<1>8. ASSUME NEW k \in 0 .. n - 1 PROVE it[1 .. k + 1] = it[1 .. k] + s[k + 1]
  <2> DEFINE d == 1 .. k + 1
  <2>1. d \in SUBSET (1 .. n) /\ k \in Nat
    BY <1>1
  <2>2. d # {} /\ Max(d) = k + 1 /\ d \ {k + 1} = 1 .. k
    BY <2>1, MaxOfPrefix
  <2> HIDE DEF d
  <2>3. it[d] = it[1 .. k] + s[k + 1]
    BY <1>6, <2>1, <2>2
  <2>4. QED
    BY <2>3 DEF d
<1>9. \A k \in 0 .. n : it[1 .. k] \in Nat
  <2> DEFINE T == {k \in Nat : k <= n => it[1 .. k] \in Nat}
  <2>1. 0 \in T
    BY <1>7
  <2>2. ASSUME NEW k \in Nat, k \in T PROVE k + 1 \in T
    <3>1. CASE k + 1 <= n
      <4>1. k \in 0 .. n - 1 /\ k + 1 \in 1 .. n
        BY <1>1, <3>1
      <4>2. it[1 .. k] \in Nat /\ s[k + 1] \in Nat
        BY <1>1, <2>2, <4>1
      <4>3. QED
        BY <1>8, <4>1, <4>2
    <3>2. QED
      BY <1>1, <3>1
  <2>3. Nat \subseteq T
    <3> HIDE DEF T
    <3>1. QED
      BY <2>1, <2>2, SetInduction
  <2>4. QED
    BY <1>1, <2>3
<1>10. QED
  BY <1>1, <1>5, <1>7, <1>8, <1>9 DEF n

LEMMA TotalType ==
    ASSUME NEW s \in Seq(Nat)
    PROVE  Total(s) \in Nat
<1>1. PICK fold : /\ Total(s) = fold[1 .. Len(s)]
                  /\ \A k \in 0 .. Len(s) : fold[1 .. k] \in Nat
  BY TotalDef
<1>2. Len(s) \in 0 .. Len(s)
  BY LenProperties
<1>3. QED
  BY <1>1, <1>2

LEMMA TotalOfEmpty == Total(<<>>) = 0
<1>1. <<>> \in Seq(Nat) /\ Len(<<>>) = 0
  OBVIOUS
<1> DEFINE s == <<>>
<1>2. s \in Seq(Nat) /\ Len(s) = 0
  BY <1>1
<1> HIDE DEF s
<1>3. PICK fold : Total(s) = fold[1 .. Len(s)] /\ fold[1 .. 0] = 0
  BY <1>2, TotalDef
<1>4. Total(s) = 0
  BY <1>2, <1>3
<1>5. QED
  BY <1>4 DEF s

\* Sequences that agree have the same sums, as far as they agree.
LEMMA TotalOfAppend ==
    ASSUME NEW s \in Seq(Nat), NEW x \in Nat
    PROVE  Total(Append(s, x)) = Total(s) + x
<1> DEFINE n == Len(s)
           t == Append(s, x)
<1>1. /\ n \in Nat /\ t \in Seq(Nat) /\ Len(t) = n + 1
      /\ \A i \in 1 .. n : t[i] = s[i]
      /\ t[n + 1] = x
  BY AppendProperties, LenProperties
<1>2. PICK fold : /\ Total(s) = fold[1 .. n] /\ fold[1 .. 0] = 0
                  /\ \A k \in 0 .. n - 1 : fold[1 .. k + 1] = fold[1 .. k] + s[k + 1]
  BY TotalDef
<1> HIDE DEF n, t
<1>3. PICK more : /\ Total(t) = more[1 .. Len(t)] /\ more[1 .. 0] = 0
                  /\ \A k \in 0 .. Len(t) - 1 : more[1 .. k + 1] = more[1 .. k] + t[k + 1]
  BY <1>1, TotalDef
<1> DEFINE T == {k \in Nat : k <= n => more[1 .. k] = fold[1 .. k]}
<1>4. 0 \in T
  BY <1>2, <1>3
<1>5. ASSUME NEW k \in Nat, k \in T PROVE k + 1 \in T
  <2>1. CASE k + 1 <= n
    <3>1. k \in 0 .. n - 1 /\ k \in 0 .. Len(t) - 1 /\ k + 1 \in 1 .. n /\ k <= n
      BY <1>1, <2>1
    <3>2. more[1 .. k + 1] = more[1 .. k] + t[k + 1]
      BY <1>3, <3>1
    <3>3. fold[1 .. k + 1] = fold[1 .. k] + s[k + 1]
      BY <1>2, <3>1
    <3>4. QED
      BY <1>1, <1>5, <3>1, <3>2, <3>3
  <2>2. QED
    BY <1>1, <2>1
<1>6. Nat \subseteq T
  <2> HIDE DEF T
  <2>1. QED
    BY <1>4, <1>5, SetInduction
<1>7. more[1 .. n] = fold[1 .. n]
  BY <1>1, <1>6
<1>8. more[1 .. n + 1] = more[1 .. n] + t[n + 1]
  <2>1. n \in 0 .. Len(t) - 1
    BY <1>1
  <2>2. QED
    BY <1>3, <2>1
<1>9. QED
  BY <1>1, <1>2, <1>3, <1>7, <1>8 DEF t

LEMMA TotalOfTail ==
    ASSUME NEW s \in Seq(Nat), s # <<>>
    PROVE  Total(s) = Head(s) + Total(Tail(s))
<1> DEFINE n == Len(Tail(s))
           t == Tail(s)
<1>1. /\ n \in Nat /\ t \in Seq(Nat) /\ Len(t) = n /\ Len(s) = n + 1
      /\ \A i \in 1 .. n : t[i] = s[i + 1]
      /\ s[1] = Head(s) /\ s[1] \in Nat
  <2>1. t \in Seq(Nat) /\ Len(t) = Len(s) - 1 /\ \A i \in 1 .. Len(t) : t[i] = s[i + 1]
    BY HeadTailProperties
  <2>2. Len(s) \in Nat /\ Len(s) # 0
    BY EmptySeq, LenProperties
  <2>3. 1 \in 1 .. Len(s)
    BY <2>2
  <2>4. QED
    BY <2>1, <2>2, <2>3, ElementOfSeq
<1>2. PICK fold : /\ Total(s) = fold[1 .. Len(s)] /\ fold[1 .. 0] = 0
                  /\ \A k \in 0 .. Len(s) - 1 : fold[1 .. k + 1] = fold[1 .. k] + s[k + 1]
  BY TotalDef
<1> HIDE DEF n, t
<1>3. PICK less : /\ Total(t) = less[1 .. Len(t)] /\ less[1 .. 0] = 0
                  /\ \A k \in 0 .. Len(t) : less[1 .. k] \in Nat
                  /\ \A k \in 0 .. Len(t) - 1 : less[1 .. k + 1] = less[1 .. k] + t[k + 1]
  BY <1>1, TotalDef
<1> DEFINE T == {k \in Nat : k <= n => fold[1 .. k + 1] = s[1] + less[1 .. k]}
<1>4. 0 \in T
  <2>1. 0 \in 0 .. Len(s) - 1 /\ 0 + 1 = 1
    BY <1>1
  <2>2. fold[1 .. 0 + 1] = fold[1 .. 0] + s[0 + 1]
    BY <1>2, <2>1
  <2>3. fold[1 .. 0 + 1] = s[1] + less[1 .. 0]
    BY <1>1, <1>2, <1>3, <2>1, <2>2
  <2>4. QED
    BY <2>3
<1>5. ASSUME NEW k \in Nat, k \in T PROVE k + 1 \in T
  <2>1. CASE k + 1 <= n
    <3>1. k + 1 \in 0 .. Len(s) - 1 /\ k \in 0 .. Len(t) - 1 /\ k + 1 \in 1 .. n /\ k <= n
      BY <1>1, <2>1
    <3>2. less[1 .. k + 1] = less[1 .. k] + t[k + 1] /\ less[1 .. k] \in Nat
      BY <1>1, <1>3, <3>1
    <3>3. fold[1 .. (k + 1) + 1] = fold[1 .. k + 1] + s[(k + 1) + 1]
      BY <1>2, <3>1
    <3>4. t[k + 1] = s[(k + 1) + 1] /\ t[k + 1] \in Nat
      BY <1>1, <3>1, ElementOfSeq
    <3>5. fold[1 .. k + 1] = s[1] + less[1 .. k]
      BY <1>5, <3>1
    <3> DEFINE a == s[1]
               b == less[1 .. k]
               c == t[k + 1]
    <3>6. a \in Nat /\ b \in Nat /\ c \in Nat
      BY <1>1, <3>2, <3>4
    <3>7. fold[1 .. (k + 1) + 1] = (a + b) + c /\ less[1 .. k + 1] = b + c
      BY <3>2, <3>3, <3>4, <3>5
    <3> HIDE DEF a, b, c
    <3>8. fold[1 .. (k + 1) + 1] = a + less[1 .. k + 1]
      BY <3>6, <3>7
    <3>9. QED
      BY <3>8 DEF a
  <2>2. QED
    BY <1>1, <2>1
<1>6. Nat \subseteq T
  <2> HIDE DEF T
  <2>1. QED
    BY <1>4, <1>5, SetInduction
<1>7. fold[1 .. n + 1] = s[1] + less[1 .. n]
  BY <1>1, <1>6
<1>8. QED
  BY <1>1, <1>2, <1>3, <1>7 DEF t
=============================================================================
