------------------------- MODULE SubsequenceProofs -------------------------
(***************************************************************************)
(* A filtered sequence has the elements it should have, each as often as   *)
(* before and in the same order.                                           *)
(***************************************************************************)
EXTENDS Subsequence, SequencesExt, FiniteSetTheorems, SequenceTheorems, WellFoundedInduction, TLAPS

\* A non-empty set of numbers has its minimum.
LEMMA MinIsElement ==
    ASSUME NEW T \in SUBSET Nat, T # {}
    PROVE  Min(T) \in T /\ \A y \in T : Min(T) <= y
<1>1. PICK x \in T : \A y \in T : <<y, x>> \notin OpToRel(<, Nat)
  BY WFMin, NatLessThanWellFounded
<1>2. ASSUME NEW y \in T, y < x
      PROVE  FALSE
  <2>1. <<y, x>> \in Nat \X Nat /\ <<y, x>>[1] < <<y, x>>[2]
    BY <1>2
  <2>2. <<y, x>> \in OpToRel(<, Nat)
    BY <2>1 DEF OpToRel
  <2> QED BY <2>2, <1>1
<1>3. \A y \in T : x <= y
  BY <1>2
<1> QED BY <1>3 DEF Min

\* How many elements of I come before a number: never more than one more than before
\* the number below it.
LEMMA CountUpTo ==
    ASSUME NEW n \in Nat, NEW I \in SUBSET (1 .. n)
    PROVE  /\ IsFiniteSet(I) /\ Cardinality(I) \in Nat
           /\ \A T : IsFiniteSet(I \cap T) /\ Cardinality(I \cap T) \in Nat
                     /\ Cardinality(I \cap T) <= Cardinality(I)
           /\ \A T, U : I \cap T \subseteq I \cap U => Cardinality(I \cap T) <= Cardinality(I \cap U)
           /\ \A i \in I : \A T : i \notin T =>
                 Cardinality(I \cap (T \cup {i})) = Cardinality(I \cap T) + 1
<1>1. IsFiniteSet(I)
  <2>1. 1 \in Int /\ n \in Int
    OBVIOUS
  <2>2. IsFiniteSet(1 .. n)
    BY <2>1, FS_Interval
  <2> QED BY <2>2, FS_Subset
<1>2. \A T : IsFiniteSet(I \cap T)
  BY <1>1, FS_Subset
<1>3. Cardinality(I) \in Nat /\ \A T : Cardinality(I \cap T) \in Nat
  BY <1>1, <1>2, FS_CardinalityType
<1>4. \A T : Cardinality(I \cap T) <= Cardinality(I)
  BY <1>1, FS_Subset
<1>5. \A T, U : I \cap T \subseteq I \cap U => Cardinality(I \cap T) <= Cardinality(I \cap U)
  BY <1>2, FS_Subset
<1>6. ASSUME NEW i \in I, NEW T, i \notin T
      PROVE  Cardinality(I \cap (T \cup {i})) = Cardinality(I \cap T) + 1
  <2>1. I \cap (T \cup {i}) = (I \cap T) \cup {i}
    OBVIOUS
  <2> QED BY <1>2, <1>6, <2>1, FS_AddElement
<1> QED BY <1>1, <1>2, <1>3, <1>4, <1>5, <1>6

\* Nth is an element, and as many come up to it as its number says.
LEMMA NthIsThere ==
    ASSUME NEW n \in Nat, NEW I \in SUBSET (1 .. n), NEW k \in 1 .. Cardinality(I)
    PROVE  Nth(I, k) \in I /\ Cardinality(I \cap 1 .. Nth(I, k)) = k
<1> DEFINE T == {i \in 1 .. n : Cardinality(I \cap 1 .. i) >= k}
           m == Min(T)
<1>0. IsFiniteSet(I) /\ Cardinality(I) \in Nat
  BY CountUpTo
<1>1. k \in Nat /\ k >= 1 /\ k <= Cardinality(I)
  BY <1>0
<1>2. T # {}
  <2>1. n # 0
    <3>1. n = 0 => I = {}
      OBVIOUS
    <3>2. I # {}
      BY <1>0, <1>1, FS_EmptySet
    <3> QED BY <3>1, <3>2
  <2>2. n \in 1 .. n
    BY <2>1
  <2>3. I \cap 1 .. n = I
    OBVIOUS
  <2> QED BY <1>0, <1>1, <2>2, <2>3
<1>3. m \in T /\ \A y \in T : m <= y
  <2>1. T \in SUBSET Nat
    OBVIOUS
  <2> HIDE DEF T
  <2> QED BY <1>2, <2>1, MinIsElement
<1> HIDE DEF m
<1>4. m \in 1 .. n /\ Cardinality(I \cap 1 .. m) >= k /\ Cardinality(I \cap 1 .. m) \in Nat
  BY <1>3, CountUpTo
<1>5. ~(Cardinality(I \cap 1 .. m - 1) >= k) /\ Cardinality(I \cap 1 .. m - 1) \in Nat
  <2>1. Cardinality(I \cap 1 .. m - 1) \in Nat
    BY CountUpTo
  <2>2. CASE m = 1
    <3>1. I \cap 1 .. m - 1 = {}
      BY <2>2
    <3> QED BY <1>1, <2>1, <3>1, FS_EmptySet
  <2>3. CASE m # 1
    <3>1. m - 1 \in 1 .. n /\ ~(m <= m - 1)
      BY <1>4, <2>3
    <3>2. m - 1 \notin T
      BY <1>3, <3>1
    <3> QED BY <2>1, <3>1, <3>2
  <2> QED BY <2>2, <2>3
<1>6. 1 .. m = (1 .. m - 1) \cup {m} /\ m \notin 1 .. m - 1
  BY <1>4
<1>7. m \in I
  <2>1. m \notin I => I \cap 1 .. m = I \cap 1 .. m - 1
    BY <1>6
  <2> QED BY <1>4, <1>5, <2>1
<1>8. Cardinality(I \cap 1 .. m) = Cardinality(I \cap 1 .. m - 1) + 1
  <2>1. \A i \in I : \A U : i \notin U =>
            Cardinality(I \cap (U \cup {i})) = Cardinality(I \cap U) + 1
    BY CountUpTo
  <2> QED BY <1>6, <1>7, <2>1
<1>9. Cardinality(I \cap 1 .. m) = k
  BY <1>1, <1>4, <1>5, <1>8
<1> QED BY <1>7, <1>9 DEF Nth

\* The numbering is that of the order, and reaches every element.
LEMMA NthInOrder ==
    ASSUME NEW n \in Nat, NEW I \in SUBSET (1 .. n)
    PROVE  /\ \A k, l \in 1 .. Cardinality(I) : k < l => Nth(I, k) < Nth(I, l)
           /\ \A i \in I : \E k \in 1 .. Cardinality(I) : Nth(I, k) = i
<1>0. Cardinality(I) \in Nat /\ \A i \in I : i \in Nat /\ i >= 1
  <2>1. Cardinality(I) \in Nat
    BY CountUpTo
  <2> QED BY <2>1
<1>1. ASSUME NEW k \in 1 .. Cardinality(I), NEW l \in 1 .. Cardinality(I), k < l
      PROVE  Nth(I, k) < Nth(I, l)
  <2>1. /\ Nth(I, k) \in Nat /\ Cardinality(I \cap 1 .. Nth(I, k)) = k
        /\ Nth(I, l) \in Nat /\ Cardinality(I \cap 1 .. Nth(I, l)) = l
    BY <1>0, NthIsThere
  <2>2. ASSUME Nth(I, l) <= Nth(I, k) PROVE FALSE
    <3>1. I \cap 1 .. Nth(I, l) \subseteq I \cap 1 .. Nth(I, k)
      BY <2>1, <2>2
    <3>2. Cardinality(I \cap 1 .. Nth(I, l)) <= Cardinality(I \cap 1 .. Nth(I, k))
      BY <3>1, CountUpTo
    <3> QED BY <1>0, <1>1, <2>1, <3>2
  <2> QED BY <2>1, <2>2
<1>2. ASSUME NEW i \in I PROVE \E k \in 1 .. Cardinality(I) : Nth(I, k) = i
  <2> DEFINE k == Cardinality(I \cap 1 .. i)
             j == Nth(I, k)
  <2>1. k \in Nat /\ k <= Cardinality(I)
    BY CountUpTo
  <2>2. i \in Nat /\ i >= 1
    BY <1>0
  <2>3. k >= 1
    <3>1. 1 .. i = (1 .. i - 1) \cup {i} /\ i \notin 1 .. i - 1
      BY <2>2
    <3>2. \A T : i \notin T => Cardinality(I \cap (T \cup {i})) = Cardinality(I \cap T) + 1
      BY CountUpTo
    <3>3. k = Cardinality(I \cap 1 .. i - 1) + 1
      BY <3>1, <3>2
    <3>4. Cardinality(I \cap 1 .. i - 1) \in Nat
      BY CountUpTo
    <3> QED BY <3>3, <3>4
  <2>4. k \in 1 .. Cardinality(I)
    BY <1>0, <2>1, <2>3
  <2>5. j \in I /\ Cardinality(I \cap 1 .. j) = k
    BY <2>4, NthIsThere
  <2>6. j \in Nat /\ j >= 1
    BY <1>0, <2>5
  <2> HIDE DEF j
  <2>7. ASSUME NEW a \in I, NEW b \in I, a < b
        PROVE  Cardinality(I \cap 1 .. a) # Cardinality(I \cap 1 .. b)
    <3>0. a \in Nat /\ b \in Nat
      BY <1>0
    <3>1. b \notin 1 .. a /\ I \cap (1 .. a \cup {b}) \subseteq I \cap 1 .. b
      BY <1>0, <2>7, <3>0
    <3>2. /\ \A x \in I : \A T : x \notin T =>
                Cardinality(I \cap (T \cup {x})) = Cardinality(I \cap T) + 1
          /\ \A T, U : I \cap T \subseteq I \cap U => Cardinality(I \cap T) <= Cardinality(I \cap U)
      BY CountUpTo
    <3>3. /\ Cardinality(I \cap (1 .. a \cup {b})) = Cardinality(I \cap 1 .. a) + 1
          /\ Cardinality(I \cap (1 .. a \cup {b})) <= Cardinality(I \cap 1 .. b)
      BY <3>1, <3>2
    <3>4. Cardinality(I \cap 1 .. a) \in Nat /\ Cardinality(I \cap 1 .. b) \in Nat
      BY CountUpTo
    <3> QED BY <3>3, <3>4
  <2>8. ~(j < i) /\ ~(i < j)
    BY <2>5, <2>7
  <2>9. j = i
    BY <2>2, <2>6, <2>8
  <2> QED BY <2>4, <2>9 DEF j
<1> QED BY <1>1, <1>2

-----------------------------------------------------------------------------
\* What is left, element by element.
LEMMA PickedElements ==
    ASSUME NEW S, NEW s \in Seq(S), NEW I \in SUBSET DOMAIN s
    PROVE  /\ Picked(s, I) \in Seq(S)
           /\ Len(Picked(s, I)) = Cardinality(I) /\ Cardinality(I) \in Nat
           /\ DOMAIN Picked(s, I) = 1 .. Cardinality(I)
           /\ \A k \in DOMAIN Picked(s, I) : Nth(I, k) \in I /\ Picked(s, I)[k] = s[Nth(I, k)]
           /\ \A k, l \in DOMAIN Picked(s, I) : k < l => Nth(I, k) < Nth(I, l)
           /\ \A i \in I : \E k \in DOMAIN Picked(s, I) : Nth(I, k) = i
<1> DEFINE n == Len(s)
           m == Cardinality(I)
<1>1. n \in Nat /\ DOMAIN s = 1 .. n /\ I \in SUBSET (1 .. n)
  BY LenProperties
<1>2. m \in Nat
  BY <1>1, CountUpTo
<1>3. \A i \in I : s[i] \in S
  BY <1>1, ElementOfSeq
<1>4. \A k \in 1 .. m : Nth(I, k) \in I
  BY <1>1, NthIsThere
<1>5. \A k \in 1 .. m : s[Nth(I, k)] \in S
  BY <1>3, <1>4
<1>6. Picked(s, I) = [k \in 1 .. m |-> s[Nth(I, k)]]
  BY DEF Picked
<1>7. /\ \A k, l \in 1 .. m : k < l => Nth(I, k) < Nth(I, l)
      /\ \A i \in I : \E k \in 1 .. m : Nth(I, k) = i
  BY <1>1, NthInOrder
<1> HIDE DEF m, n
<1>8. [k \in 1 .. m |-> s[Nth(I, k)]] \in [1 .. m -> S]
  BY <1>5
<1>9. Picked(s, I) \in Seq(S) /\ DOMAIN Picked(s, I) = 1 .. m
  BY <1>2, <1>6, <1>8, SeqDef
<1>10. Len(Picked(s, I)) = m
  BY <1>2, <1>9, LenProperties
<1> QED BY <1>2, <1>4, <1>6, <1>7, <1>9, <1>10 DEF m

\* Its elements are those at the indices, and twice only what was there twice.
LEMMA PickedRange ==
    ASSUME NEW S, NEW s \in Seq(S), NEW I \in SUBSET DOMAIN s
    PROVE  /\ Range(Picked(s, I)) = {s[i] : i \in I}
           /\ IsInjective(s) => IsInjective(Picked(s, I))
<1> DEFINE p == Picked(s, I)
<1>1. /\ p \in Seq(S) /\ Cardinality(I) \in Nat /\ DOMAIN p = 1 .. Cardinality(I)
      /\ \A k \in DOMAIN p : Nth(I, k) \in I /\ p[k] = s[Nth(I, k)]
      /\ \A k, l \in DOMAIN p : k < l => Nth(I, k) < Nth(I, l)
      /\ \A i \in I : \E k \in DOMAIN p : Nth(I, k) = i
  BY PickedElements
<1> HIDE DEF p
<1>2. Range(p) = {s[i] : i \in I}
  BY <1>1 DEF Range
<1>3. ASSUME IsInjective(s), NEW k \in DOMAIN p, NEW l \in DOMAIN p, p[k] = p[l]
      PROVE  k = l
  <2>1. Nth(I, k) \in DOMAIN s /\ Nth(I, l) \in DOMAIN s /\ s[Nth(I, k)] = s[Nth(I, l)]
    BY <1>1, <1>3
  <2>2. Nth(I, k) = Nth(I, l)
    BY <1>3, <2>1 DEF IsInjective
  <2>3. Nth(I, k) \in Nat /\ k \in Nat /\ l \in Nat
    BY <1>1, <2>1, LenProperties
  <2>4. ~(k < l) /\ ~(l < k)
    BY <1>1, <2>2, <2>3
  <2> QED BY <2>3, <2>4
<1>4. IsInjective(s) => IsInjective(p)
  BY <1>3 DEF IsInjective
<1> QED BY <1>2, <1>4 DEF p

\* Where everything stays, nothing changes.
LEMMA PickedAll ==
    ASSUME NEW S, NEW s \in Seq(S) PROVE Picked(s, DOMAIN s) = s
<1> DEFINE n == Len(s)
<1>1. n \in Nat /\ DOMAIN s = 1 .. n
  BY LenProperties
<1>2. Cardinality(1 .. n) = n
  BY <1>1, FS_Interval, SMTT(30)
<1>3. ASSUME NEW k \in 1 .. n PROVE Nth(1 .. n, k) = k
  <2>1. Nth(1 .. n, k) \in 1 .. n /\ Cardinality(1 .. n \cap 1 .. Nth(1 .. n, k)) = k
    BY <1>1, <1>2, NthIsThere
  <2>2. \A i \in 1 .. n : 1 .. n \cap 1 .. i = 1 .. i
    BY <1>1
  <2>3. \A i \in 1 .. n : Cardinality(1 .. i) = i
    BY <1>1, FS_Interval
  <2> QED BY <2>1, <2>2, <2>3
<1>4. Picked(s, DOMAIN s) = [k \in 1 .. n |-> s[Nth(1 .. n, k)]]
  BY <1>1, <1>2 DEF Picked
<1>5. s = [k \in 1 .. n |-> s[k]]
  BY <1>1, SeqDef
<1> QED BY <1>3, <1>4, <1>5
=============================================================================
