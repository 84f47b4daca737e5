-------------------------- MODULE SelectionProofs --------------------------
(***************************************************************************)
(* What selecting and sorting keep, for sequences of any length: the       *)
(* lemmas that the proofs about the chains of the brain and about the      *)
(* dashboard rest on.                                                      *)
(***************************************************************************)
EXTENDS Selections, FiniteSetTheorems, SequenceTheorems, TLAPS

LEMMA LeastElement ==
  ASSUME NEW T, T \subseteq Nat, T # {}
  PROVE  \E x \in T : \A y \in T : x <= y
<1>1. \E x \in T : \A y \in T : ~ (<<y, x>> \in OpToRel(<, Nat))
  BY NatLessThanWellFounded, WFMin
<1>2. PICK x \in T : \A y \in T : ~ (<<y, x>> \in OpToRel(<, Nat))
  BY <1>1
<1>3. \A y \in T : ~ (y < x)
  BY <1>2 DEF OpToRel
<1> QED BY <1>3

LEMMA PlacesAreFinite ==
  ASSUME NEW n \in Nat, NEW kept \in SUBSET (1..n)
  PROVE  IsFiniteSet(kept) /\ Cardinality(kept) \in Nat /\ Cardinality(kept) <= n
<1>1. IsFiniteSet(1..n) /\ Cardinality(1..n) = n
  BY FS_Interval
<1> QED BY <1>1, FS_Subset, FS_CardinalityType

(* The order of an arrangement: each place is up to itself, and of two     *)
(* places one comes with all that are up to it before the other.           *)
Ordering(K, upto) ==
  /\ upto \in [K -> SUBSET K]
  /\ \A i \in K : i \in upto[i]
  /\ \A i, l \in K :
       i = l \/ upto[i] \subseteq upto[l] \ {l} \/ upto[l] \subseteq upto[i] \ {i}

Before(K, upto, i, l) == upto[i] \subseteq upto[l] \ {l}

LEMMA RanksGrow ==
  ASSUME NEW K, IsFiniteSet(K), NEW upto, Ordering(K, upto),
         NEW i \in K, NEW l \in K, Before(K, upto, i, l)
  PROVE  Cardinality(upto[i]) < Cardinality(upto[l])
<1>1. upto[l] \in SUBSET K /\ upto[i] \in SUBSET upto[l]
  BY DEF Ordering, Before
<1>2. IsFiniteSet(upto[l])
  BY <1>1, FS_Subset
<1>3. /\ IsFiniteSet(upto[i]) /\ Cardinality(upto[i]) <= Cardinality(upto[l])
      /\ Cardinality(upto[l]) = Cardinality(upto[i]) => upto[l] = upto[i]
  BY <1>1, <1>2, FS_Subset
<1>4. Cardinality(upto[i]) \in Nat /\ Cardinality(upto[l]) \in Nat
  BY <1>2, <1>3, FS_CardinalityType
<1>5. l \in upto[l] /\ l \notin upto[i]
  BY DEF Ordering, Before
<1> QED BY <1>3, <1>4, <1>5

(* How many are up to a place is a number of its own for each.             *)
LEMMA RanksAreTaken ==
  ASSUME NEW K, IsFiniteSet(K), NEW upto, Ordering(K, upto)
  PROVE  [i \in K |-> Cardinality(upto[i])] \in Bijection(K, 1..Cardinality(K))
<1> DEFINE c == Cardinality(K)
           rank == [i \in K |-> Cardinality(upto[i])]
<1>1. c \in Nat
  BY FS_CardinalityType
<1>2. ASSUME NEW i \in K PROVE Cardinality(upto[i]) \in 1..c
  <2>1. upto[i] \in SUBSET K /\ i \in upto[i]
    BY DEF Ordering
  <2>2. IsFiniteSet(upto[i]) /\ Cardinality(upto[i]) <= c
    BY <2>1, FS_Subset
  <2>3. Cardinality(upto[i]) \in Nat /\ Cardinality(upto[i]) # 0
    BY <2>1, <2>2, FS_CardinalityType, FS_EmptySet
  <2> QED BY <1>1, <2>2, <2>3
<1>3. rank \in [K -> 1..c]
  BY <1>2
<1>4. ASSUME NEW i \in K, NEW l \in K, rank[i] = rank[l] PROVE i = l
  <2>1. i = l \/ Before(K, upto, i, l) \/ Before(K, upto, l, i)
    BY DEF Ordering, Before
  <2>2. Before(K, upto, i, l) => rank[i] < rank[l]
    BY RanksGrow
  <2>3. Before(K, upto, l, i) => rank[l] < rank[i]
    BY RanksGrow
  <2>4. rank[i] \in Nat /\ rank[l] \in Nat
    BY <1>1, <1>2
  <2> QED BY <1>4, <2>1, <2>2, <2>3, <2>4
<1>5. rank \in Injection(K, 1..c)
  BY <1>3, <1>4 DEF Injection, IsInjective
<1>6. IsFiniteSet(1..c) /\ Cardinality(1..c) = c
  BY <1>1, FS_Interval
<1>7. rank \in Surjection(K, 1..c)
  BY <1>5, <1>6, FS_Injection
<1> QED BY <1>5, <1>7 DEF Bijection

(* p tells for the places of an arrangement a of s where they were in s.   *)
Places(p, K, a, s) ==
  /\ p \in Bijection(1..Cardinality(K), K)
  /\ a = [k \in 1..Cardinality(K) |-> s[p[k]]]

LEMMA ArrangedPlaces ==
  ASSUME NEW K, IsFiniteSet(K), NEW upto, Ordering(K, upto), NEW s
  PROVE  \E p : /\ Places(p, K, Arranged(s, upto), s)
                /\ \A k \in 1..Cardinality(K) : Cardinality(upto[p[k]]) = k
<1> DEFINE c == Cardinality(K)
           rank == [i \in K |-> Cardinality(upto[i])]
           p == [k \in 1..c |-> CHOOSE i \in K : Cardinality(upto[i]) = k]
<1>1. rank \in Bijection(K, 1..c)
  BY RanksAreTaken
<1>2. DOMAIN upto = K
  BY DEF Ordering
<1>3. ASSUME NEW k \in 1..c PROVE p[k] \in K /\ rank[p[k]] = k
  <2>1. PICK i \in K : rank[i] = k
    BY <1>1 DEF Bijection, Surjection
  <2> QED BY <2>1
<1>4. ASSUME NEW i \in K PROVE rank[i] \in 1..c /\ p[rank[i]] = i
  <2>1. rank[i] \in 1..c
    BY <1>1 DEF Bijection, Injection
  <2>2. p[rank[i]] \in K /\ rank[p[rank[i]]] = rank[i]
    BY <1>3, <2>1
  <2> QED BY <1>1, <2>1, <2>2 DEF Bijection, Injection, IsInjective
<1>5. p \in [1..c -> K]
  BY <1>3
<1>6. Arranged(s, upto) = [k \in 1..c |-> s[p[k]]]
  BY <1>2 DEF Arranged
<1>7. \A k \in 1..c : Cardinality(upto[p[k]]) = k
  BY <1>3
<1>8. p \in Bijection(1..c, K)
  <2> HIDE DEF p, rank
  <2>1. p \in Injection(1..c, K)
    BY <1>3, <1>5 DEF Injection, IsInjective
  <2>2. p \in Surjection(1..c, K)
    BY <1>4, <1>5 DEF Surjection
  <2> QED BY <2>1, <2>2 DEF Bijection
<1> HIDE DEF p
<1> QED BY <1>6, <1>7, <1>8 DEF Places

LEMMA PlacesOrdering ==
  ASSUME NEW kept \in SUBSET Nat
  PROVE  Ordering(kept, [i \in kept |-> {j \in kept : j <= i}])
<1> DEFINE upto == [i \in kept |-> {j \in kept : j <= i}]
<1>1. upto \in [kept -> SUBSET kept] /\ \A i \in kept : i \in upto[i]
  OBVIOUS
<1>2. ASSUME NEW i \in kept, NEW l \in kept, i < l PROVE upto[i] \subseteq upto[l] \ {l}
  <2>1. ASSUME NEW j \in upto[i] PROVE j \in upto[l] \ {l}
    <3>1. j \in kept /\ j <= i /\ j \in Int /\ i \in Int /\ l \in Int
      OBVIOUS
    <3> QED BY <1>2, <3>1
  <2> QED BY <2>1
<1>3. \A i, l \in kept : i = l \/ i < l \/ l < i
  OBVIOUS
<1> HIDE DEF upto
<1>4. Ordering(kept, upto)
  BY <1>1, <1>2, <1>3 DEF Ordering
<1> QED BY <1>4 DEF upto

LEMMA PickedPlaces ==
  ASSUME NEW kept \in SUBSET Nat, IsFiniteSet(kept), NEW s
  PROVE  \E p : Places(p, kept, Picked(s, kept), s)
<1> DEFINE upto == [i \in kept |-> {j \in kept : j <= i}]
<1>1. Ordering(kept, upto)
  BY PlacesOrdering
<1>2. Picked(s, kept) = Arranged(s, upto)
  BY DEF Picked
<1> HIDE DEF upto
<1> QED BY <1>1, <1>2, ArrangedPlaces

(* What an arrangement of some of a sequence's elements is.                *)
LEMMA PlacesSelect ==
  ASSUME NEW S, NEW s \in Seq(S), NEW K \in SUBSET (DOMAIN s), NEW a, NEW p,
         Places(p, K, a, s)
  PROVE  /\ a \in Seq(S) /\ Len(a) = Cardinality(K) /\ Len(a) <= Len(s)
         /\ DOMAIN a = 1..Cardinality(K)
         /\ \A k \in DOMAIN a : p[k] \in K /\ a[k] = s[p[k]]
         /\ \A i \in K : \E k \in DOMAIN a : p[k] = i
<1>1. Len(s) \in Nat /\ K \in SUBSET (1..Len(s))
  OBVIOUS
<1>2. Cardinality(K) \in Nat /\ Cardinality(K) <= Len(s)
  BY <1>1, PlacesAreFinite
<1> DEFINE c == Cardinality(K)
<1>3. a = [k \in 1..c |-> s[p[k]]] /\ p \in [1..c -> K]
  BY DEF Places, Bijection, Injection
<1>4. \A i \in K : \E k \in 1..c : p[k] = i
  BY DEF Places, Bijection, Surjection
<1>5. c \in Nat
  BY <1>2
<1> HIDE DEF c
<1>6. \A k \in 1..c : p[k] \in K /\ a[k] = s[p[k]] /\ s[p[k]] \in S
  BY <1>1, <1>3
<1>7. a \in Seq(S) /\ Len(a) = c /\ DOMAIN a = 1..c
  BY <1>3, <1>5, <1>6
<1> QED BY <1>2, <1>4, <1>6, <1>7 DEF c

(* An arrangement has of any of the places as many as there were.          *)
Standing(p, a, G) == {k \in DOMAIN a : p[k] \in G}

LEMMA PlacesCount ==
  ASSUME NEW K, IsFiniteSet(K), NEW a, NEW p, NEW s, Places(p, K, a, s),
         NEW G \in SUBSET K
  PROVE  Cardinality(Standing(p, a, G)) = Cardinality(G)
<1> DEFINE c == Cardinality(K)
           H == {k \in 1..c : p[k] \in G}
           q == [k \in H |-> p[k]]
<1>1. DOMAIN a = 1..c
  BY DEF Places
<1>2. c \in Nat /\ H \in SUBSET (1..c)
  BY FS_CardinalityType
<1>3. IsFiniteSet(H)
  BY <1>2, PlacesAreFinite
<1>4. /\ p \in [1..c -> K]
      /\ \A k, l \in 1..c : p[k] = p[l] => k = l
      /\ \A i \in K : \E k \in 1..c : p[k] = i
  BY DEF Places, Bijection, Injection, Surjection, IsInjective
<1>5. q \in Bijection(H, G)
  <2>1. q \in [H -> G]
    OBVIOUS
  <2>2. \A k, l \in H : q[k] = q[l] => k = l
    BY <1>4
  <2>3. \A i \in G : \E k \in H : q[k] = i
    BY <1>4
  <2> HIDE DEF q, H
  <2> QED BY <2>1, <2>2, <2>3 DEF Bijection, Injection, Surjection, IsInjective
<1>6. Cardinality(G) = Cardinality(H)
  BY <1>3, <1>5, FS_Bijection DEF ExistsBijection
<1> QED BY <1>1, <1>6 DEF Standing
=============================================================================
