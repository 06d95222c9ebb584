----------------------------- MODULE LeastNumber -----------------------------
(***************************************************************************)
(* What induction is needed for, as facts that can be cited: a set of      *)
(* numbers that is not empty has a least element, and a finite one has an  *)
(* element at every place of its order.                                    *)
(***************************************************************************)
EXTENDS Naturals, FiniteSets, FiniteSetTheorems, WellFoundedInduction, TLAPS

(* Every nonempty set of numbers has a least element: the order of the     *)
(* natural numbers is well founded.                                        *)
LEMMA LeastExists ==
    ASSUME NEW S, S \subseteq Nat, S # {}
    PROVE  \E m \in S : \A y \in S : m <= y
<1> DEFINE R == OpToRel(<, Nat)
<1>1. IsWellFoundedOn(R, Nat)
  BY NatLessThanWellFounded
<1>2. \A x, y \in Nat : x < y => <<x, y>> \in R
  BY DEF OpToRel
<1> HIDE DEF R
<1>3. PICK m \in S : \A y \in S : ~(<<y, m>> \in R)
  BY <1>1, WFMin
<1>4. ASSUME NEW y \in S PROVE m <= y
  <2>1. m \in Nat /\ y \in Nat
    OBVIOUS
  <2>2. ~(y < m)
    BY <1>2, <1>3, <2>1
  <2> QED BY <2>1, <2>2
<1> QED BY <1>4

(* A finite set of numbers has an element with n others before it, for     *)
(* every n below its size: a least n without one would have a neighbour.   *)
LEMMA RankExists ==
    ASSUME NEW S, S \subseteq Nat, IsFiniteSet(S),
           NEW n \in Nat, n < Cardinality(S)
    PROVE  \E i \in S : Cardinality({j \in S : j < i}) = n
<1> DEFINE Below(i) == {j \in S : j < i}
           Bad == {k \in 0 .. n : ~\E i \in S : Cardinality(Below(i)) = k}
<1>1. Cardinality(S) \in Nat
  BY FS_CardinalityType
<1>2. SUFFICES ASSUME n \in Bad PROVE FALSE
  OBVIOUS
<1>3. Bad \subseteq Nat /\ Bad # {}
  BY <1>2
<1> HIDE DEF Bad
<1>4. PICK b \in Bad : \A k \in Bad : b <= k
  BY <1>3, LeastExists
<1>5. b \in 0 .. n /\ \A i \in S : Cardinality(Below(i)) # b
  BY DEF Bad
<1>6. \A j \in S : j \in Nat
  OBVIOUS
<1>7. CASE b = 0
  <2>1. S # {}
    BY FS_EmptySet
  <2>2. PICK m \in S : \A y \in S : m <= y
    BY <2>1, LeastExists
  <2>3. \A y \in S : ~(y < m)
    BY <1>6, <2>2
  <2>4. Below(m) = {}
    BY <2>3
  <2> QED BY <1>5, <1>7, <2>4, FS_EmptySet
<1>8. CASE b # 0
  <2>1. b - 1 \in 0 .. n /\ b - 1 < b /\ b \in Nat
    BY <1>5, <1>8
  <2>2. b - 1 \notin Bad
    BY <1>4, <2>1
  <2>3. PICK i \in S : Cardinality(Below(i)) = b - 1
    BY <2>1, <2>2 DEF Bad
  <2>4. ~(i < i)
    BY <1>6
  <2>5. IsFiniteSet(Below(i)) /\ i \notin Below(i)
    BY <2>4, FS_Subset
  <2>6. Cardinality(Below(i) \cup {i}) = b - 1 + 1
    BY <2>3, <2>5, FS_AddElement
  <2>7. Cardinality(Below(i) \cup {i}) = b
    BY <2>1, <2>6
  <2> DEFINE U == {j \in S : j > i}
  <2>8. CASE U = {}
    <3>1. ASSUME NEW j \in S PROVE j \in Below(i) \cup {i}
      <4>1. ~(j > i)
        BY <2>8
      <4>2. j < i \/ j = i
        BY <1>6, <4>1
      <4> QED BY <4>2
    <3>2. S = Below(i) \cup {i}
      BY <3>1
    <3> QED BY <1>1, <1>5, <2>7, <3>2
  <2>9. CASE U # {}
    <3>1. U \subseteq Nat
      BY <1>6
    <3>2. PICK m \in U : \A y \in U : m <= y
      BY <2>9, <3>1, LeastExists
    <3>3. m \in S /\ m > i
      OBVIOUS
    <3>4. ASSUME NEW j \in S PROVE j < m <=> j < i \/ j = i
      <4>1. j > i => m <= j
        BY <3>2
      <4> QED BY <1>6, <3>3, <4>1
    <3>5. Below(m) = Below(i) \cup {i}
      BY <3>4
    <3> QED BY <1>5, <2>7, <3>3, <3>5
  <2> QED BY <2>8, <2>9
<1> QED BY <1>7, <1>8
=============================================================================
