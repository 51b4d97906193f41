----------------------------- MODULE NatLemmas ------------------------------
(***************************************************************************)
(* Induction over the naturals for sets of them.  The library states it    *)
(* for an arbitrary predicate, which the provers cannot instantiate; a set *)
(* they can.  With it the functions that the models define by recursion    *)
(* are shown to be what their definitions say.                             *)
(***************************************************************************)
EXTENDS Integers, SequencesExt, FiniteSetTheorems, WellFoundedInduction, TLAPS

\* The searches for the first free slot (driveArp, findOpenFragControl) end at
\* one: a set of naturals that is not empty has a least element.
LEMMA LeastNatural ==
  ASSUME NEW T \in SUBSET Nat, T # {}
  PROVE  \E m \in T : \A k \in T : m <= k
<1>1. IsWellFoundedOn(OpToRel(<, Nat), Nat)
  BY NatLessThanWellFounded, Zenon
<1>2. PICK m \in T : \A k \in T : <<k, m>> \notin OpToRel(<, Nat)
  BY <1>1, WFMin, Zenon
<1>3. \A k \in T : ~(k < m)
  BY <1>2 DEF OpToRel
<1> QED BY <1>3

\* Min, by which the models say which place a search ends at.
LEMMA MinLeast ==
  ASSUME NEW S \in SUBSET Nat, S # {}
  PROVE  Min(S) \in S /\ \A k \in S : Min(S) <= k
<1>1. \E m \in S : \A k \in S : m <= k
  BY LeastNatural
<1> QED BY <1>1 DEF Min

\* What a loop preserves turn by turn holds after any number of turns.
LEMMA SetInduction ==
  ASSUME NEW T \in SUBSET Nat, 0 \in T, \A n \in T : n + 1 \in T
  PROVE  T = Nat
<1>1. SUFFICES ASSUME Nat \ T # {} PROVE FALSE
  OBVIOUS
<1>2. PICK m \in Nat \ T : \A k \in Nat \ T : m <= k
  BY <1>1, LeastNatural
<1>3. m - 1 \in Nat /\ m - 1 \notin Nat \ T
  BY <1>2
<1> QED BY <1>2, <1>3

\* A table with fewer entries in use than it has places has a first free place.
LEMMA FirstFree ==
  ASSUME NEW n \in Nat, NEW used \in SUBSET (1..n), Cardinality(used) < n
  PROVE  \E i \in (1..n) \ used : \A j \in (1..n) \ used : i <= j
<1>1. Cardinality(1..n) = n /\ IsFiniteSet(1..n)
  BY FS_Interval
<1>2. used # 1..n
  BY <1>1
<1>3. (1..n) \ used # {}
  BY <1>2
<1>4. (1..n) \ used \in SUBSET Nat
  OBVIOUS
<1> QED BY <1>3, <1>4, LeastNatural

\* FlattenSeq puts one sequence after the other.
LEMMA Flattened ==
  ASSUME NEW ss, Len(ss) \in Nat \ {0}
  PROVE  \E flat :
            /\ flat = [i \in 1..Len(ss) |-> IF i = 1 THEN ss[i] ELSE flat[i - 1] \o ss[i]]
            /\ FlattenSeq(ss) = flat[Len(ss)]
<1> DEFINE Turns(g, k) == g = [i \in 1..k |-> IF i = 1 THEN ss[i] ELSE g[i - 1] \o ss[i]]
           T == {k \in Nat : \E g : Turns(g, k)}
<1>1. 0 \in T
  <2> DEFINE g == [i \in 1..0 |-> ss]
  <2>1. g = [i \in 1..0 |-> IF i = 1 THEN ss[i] ELSE g[i - 1] \o ss[i]]
    OBVIOUS
  <2> QED BY <2>1
<1>2. ASSUME NEW k \in T PROVE k + 1 \in T
  <2>1. PICK g : Turns(g, k)
    BY <1>2
  <2> DEFINE new == IF k = 0 THEN ss[1] ELSE g[k] \o ss[k + 1]
             h == [i \in 1..(k + 1) |-> IF i = k + 1 THEN new ELSE g[i]]
  <2>2. ASSUME NEW i \in 1..(k + 1)
        PROVE  h[i] = IF i = 1 THEN ss[i] ELSE h[i - 1] \o ss[i]
    <3>1. CASE i = k + 1
      <4>1. i # 1 => h[i - 1] = g[k]
        BY <3>1
      <4> QED BY <3>1, <4>1
    <3>2. CASE i # k + 1
      <4>1. i \in 1..k /\ h[i] = g[i]
        BY <3>2
      <4>2. i # 1 => h[i - 1] = g[i - 1]
        BY <4>1
      <4>3. g[i] = IF i = 1 THEN ss[i] ELSE g[i - 1] \o ss[i]
        BY <2>1, <4>1
      <4> QED BY <4>1, <4>2, <4>3
    <3> QED BY <3>1, <3>2
  <2>3. h = [i \in 1..(k + 1) |-> h[i]]
    OBVIOUS
  <2>4. Turns(h, k + 1)
    <3> HIDE DEF h
    <3> QED BY <2>2, <2>3
  <2>5. k + 1 \in Nat /\ \E f : Turns(f, k + 1)
    <3> HIDE DEF Turns
    <3> QED BY <1>2, <2>4
  <2> QED BY <2>5
<1>3. T = Nat
  <2> HIDE DEF T
  <2>1. T \in SUBSET Nat
    BY DEF T
  <2> QED BY <1>1, <1>2, <2>1, SetInduction
<1>4. \E g : Turns(g, Len(ss))
  BY <1>3
<1>5. Turns(CHOOSE g : Turns(g, Len(ss)), Len(ss))
  BY <1>4
<1> QED BY <1>5 DEF FlattenSeq

\* A set of the first numbers is an interval.
LEMMA FirstNumbers ==
  ASSUME NEW n \in Nat, NEW G \in SUBSET (1..n), \A i \in G : \A j \in 1..i : j \in G
  PROVE  Cardinality(G) \in 0..n /\ G = 1..Cardinality(G)
<1>1. ASSUME NEW k \in 0..n, G = 1..k PROVE Cardinality(G) = k
  <2>1. Cardinality(1..k) = IF 1 > k THEN 0 ELSE k - 1 + 1
    BY FS_Interval
  <2> QED BY <1>1, <2>1
<1>2. \E k \in 0..n : G = 1..k
  <2>1. CASE G = 1..n
    BY <2>1
  <2>2. CASE G # 1..n
    <3>1. (1..n) \ G # {} /\ (1..n) \ G \in SUBSET Nat
      <4>1. (1..n) \ G # {}
        BY <2>2, Zenon
      <4> QED BY <4>1
    <3>2. PICK m \in (1..n) \ G : \A j \in (1..n) \ G : m <= j
      BY <3>1, LeastNatural
    <3>3. \A i \in G : i < m
      BY <3>2
    <3>4. \A j \in 1..(m - 1) : j \in G
      BY <3>2
    <3>5. G \subseteq 1..(m - 1) /\ m - 1 \in 0..n
      BY <3>2, <3>3
    <3>6. G = 1..(m - 1)
      BY <3>4, <3>5, Zenon
    <3> QED BY <3>5, <3>6
  <2> QED BY <2>1, <2>2
<1> QED BY <1>1, <1>2
=============================================================================
