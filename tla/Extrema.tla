------------------------------ MODULE Extrema ------------------------------
(***************************************************************************)
(* Least and greatest elements, for the CHOOSE expressions of the models.  *)
(***************************************************************************)
EXTENDS Integers, FiniteSets, FiniteSetTheorems, WellFoundedInduction, TLAPS

\* A set of natural numbers has a least element.
LEMMA LeastNatural ==
    ASSUME NEW T \in SUBSET Nat, T # {}
    PROVE  \E x \in T : \A y \in T : x <= y
<1>1. PICK x \in T : \A y \in T : <<y, x>> \notin OpToRel(<, Nat)
  BY NatLessThanWellFounded, WFMin
<1>2. ASSUME NEW y \in T
      PROVE  x <= y
  <2>1. <<y, x>> \notin {p \in Nat \X Nat : p[1] < p[2]}
    BY <1>1 DEF OpToRel
  <2>2. <<y, x>> \in Nat \X Nat
    OBVIOUS
  <2>3. ~(y < x)
    BY <2>1, <2>2
  <2> QED
    BY <2>3
<1> QED
  BY <1>2

\* A set of numbers up to n has a greatest element.
LEMMA GreatestNatural ==
    ASSUME NEW n \in Nat, NEW T \in SUBSET (0 .. n), T # {}
    PROVE  \E x \in T : \A y \in T : y <= x
<1> DEFINE D == {n - x : x \in T}
<1>1. D \in SUBSET Nat /\ D # {}
  <2>1. \A x \in T : n - x \in Nat
    OBVIOUS
  <2> QED
    BY <2>1
<1>2. PICK d \in D : \A e \in D : d <= e
  BY <1>1, LeastNatural
<1>3. PICK x \in T : d = n - x
  BY <1>2
<1>4. ASSUME NEW y \in T
      PROVE  y <= x
  <2>1. n - y \in D
    OBVIOUS
  <2> QED
    BY <1>2, <1>3, <2>1
<1> QED
  BY <1>4

\* A finite set that a relation orders, partially, has a minimal element.
LEMMA MinimalElement ==
    ASSUME NEW S, IsFiniteSet(S), S # {}, NEW R,
           \A x, y, z \in S : <<x, y>> \in R /\ <<y, z>> \in R => <<x, z>> \in R
    PROVE  \E x \in S : \A y \in S : <<y, x>> \in R => <<x, y>> \in R
<1> DEFINE Below(x) == {y \in S : <<y, x>> \in R /\ <<x, y>> \notin R}
           F == {Below(x) : x \in S}
<1>1. F \subseteq FiniteSubsetsOf(S) /\ F # {}
  <2>1. \A x \in S : Below(x) \in SUBSET S
    OBVIOUS
  <2>2. F \in SUBSET SUBSET S
    BY <2>1
  <2> HIDE DEF Below
  <2>3. F # {}
    OBVIOUS
  <2> QED
    BY <2>2, <2>3, FS_FiniteSubsetsOfFinite
<1>2. \E B \in F : \A C \in F : <<C, B>> \notin StrictSubsetOrdering(S)
  <2> HIDE DEF F
  <2> QED
    BY <1>1, FS_StrictSubsetOrderingWellFounded, WFMin
<1>3. PICK x \in S : \A C \in F : <<C, Below(x)>> \notin StrictSubsetOrdering(S)
  BY <1>2
<1>4. ASSUME NEW y \in S, <<y, x>> \in R, <<x, y>> \notin R
      PROVE  FALSE
  <2>1. Below(y) \subseteq Below(x)
    BY <1>4
  <2>2. y \in Below(x) /\ y \notin Below(y)
    BY <1>4
  <2>3. Below(y) \in F
    OBVIOUS
  <2> HIDE DEF F
  <2>4. <<Below(y), Below(x)>> \notin StrictSubsetOrdering(S)
    BY <1>3, <2>3
  <2>5. Below(y) \in SUBSET S /\ Below(x) \in SUBSET S
    OBVIOUS
  <2> HIDE DEF Below
  <2> QED
    BY <2>1, <2>2, <2>4, <2>5 DEF StrictSubsetOrdering
<1> QED
  BY <1>4
=============================================================================
