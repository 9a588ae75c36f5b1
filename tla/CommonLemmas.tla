---------------------------- MODULE CommonLemmas ----------------------------
(***************************************************************************)
(* Lemmas the proofs of several components need.                           *)
(***************************************************************************)
EXTENDS PartialFunctions, Naturals, WellFoundedInduction, TLAPS

(* A set of numbers that is not empty has a least one.                     *)
LEMMA LeastNatural ==
  ASSUME NEW S \in SUBSET Nat, S # {}
  PROVE  \E m \in S : \A n \in S : m <= n
<1>. DEFINE R == OpToRel(<, Nat)
<1>1. IsWellFoundedOn(R, Nat)
  BY NatLessThanWellFounded
<1>. HIDE DEF R
<1>2. PICK m \in S : \A n \in S : ~(<<n, m>> \in R)
  BY <1>1, WFMin
<1>3. ASSUME NEW n \in S
      PROVE  m <= n
  <2>1. ~(n < m)
    BY <1>2 DEF R, OpToRel
  <2>. QED
    BY <2>1
<1>. QED
  BY <1>3

(* A partial function is a function from a part of its keys.               *)
LEMMA PartialGet ==
  ASSUME NEW K, NEW V, NEW f \in Partial(K, V)
  PROVE  DOMAIN f \subseteq K /\ f = [x \in DOMAIN f |-> f[x]] /\ \A x \in DOMAIN f : f[x] \in V
<1>1. PICK D \in SUBSET K : f \in [D -> V]
  BY DEF Partial
<1>. QED
  BY <1>1

LEMMA PartialIntro ==
  ASSUME NEW K, NEW V, NEW D \in SUBSET K, NEW f \in [D -> V]
  PROVE  f \in Partial(K, V)
BY DEF Partial

LEMMA PartialPut ==
  ASSUME NEW K, NEW V, NEW f \in Partial(K, V), NEW k \in K, NEW v \in V
  PROVE  Put(f, k, v) \in Partial(K, V)
<1>1. DOMAIN f \subseteq K /\ \A x \in DOMAIN f : f[x] \in V
  BY PartialGet
<1>2. (DOMAIN f) \cup {k} \in SUBSET K
  BY <1>1
<1>3. Put(f, k, v) \in [(DOMAIN f) \cup {k} -> V]
  BY <1>1 DEF Put
<1>. QED
  BY <1>2, <1>3, PartialIntro

LEMMA PartialDrop ==
  ASSUME NEW K, NEW V, NEW f \in Partial(K, V), NEW k
  PROVE  Drop(f, k) \in Partial(K, V)
<1>1. DOMAIN f \subseteq K /\ \A x \in DOMAIN f : f[x] \in V
  BY PartialGet
<1>2. (DOMAIN f) \ {k} \in SUBSET K
  BY <1>1
<1>3. Drop(f, k) \in [(DOMAIN f) \ {k} -> V]
  BY <1>1 DEF Drop, Restrict
<1>. QED
  BY <1>2, <1>3, PartialIntro
=============================================================================
