------------------------------- MODULE Induction -------------------------------
(* Induction over the natural numbers, stated for sets of numbers: what is *)
(* to be proved of every number is that the set of those it holds of is    *)
(* Nat.  Used where a definition is recursive.  And facts about division,  *)
(* for which the provers have no theory when the divisor is not a number.  *)
EXTENDS Integers, FiniteSetTheorems, TLAPS

Smaller == {p \in Nat \X Nat : p[1] < p[2]}

(* Every set of numbers has a least one.                                   *)
LEMMA LeastNumber ==
    ASSUME NEW T \in SUBSET Nat, T # {}
    PROVE  \E x \in T : \A y \in T : x <= y
<1>1. IsWellFoundedOn(Smaller, Nat)
  BY NatLessThanWellFounded DEF OpToRel, Smaller
<1>2. \A x, y \in Nat : x < y => <<x, y>> \in Smaller
  BY DEF Smaller
<1>3. PICK x \in T : \A y \in T : ~(<<y, x>> \in Smaller)
  BY <1>1, WFMin
<1>4. \A y \in T : x \in Nat /\ y \in Nat /\ ~(y < x)
  BY <1>2, <1>3
<1> QED BY <1>3, <1>4

(* A set of numbers that has 0 and the successor of each has them all.     *)
LEMMA NatInduct ==
    ASSUME NEW T \in SUBSET Nat, 0 \in T, \A n \in T : n + 1 \in T
    PROVE  T = Nat
<1> SUFFICES ASSUME Nat \ T # {} PROVE FALSE
  OBVIOUS
<1>1. PICK x \in Nat \ T : \A y \in Nat \ T : x <= y
  BY LeastNumber
<1>2. x # 0 /\ x - 1 \in Nat
  BY <1>1
<1>3. x - 1 \in T
  BY <1>1, <1>2
<1> QED BY <1>1, <1>2, <1>3

(* A finite set that is taken apart member by member, in any order.        *)
LEMMA SetInduct ==
    ASSUME NEW S, IsFiniteSet(S), NEW T, {} \in T,
           \A s \in SUBSET S : s # {} => \E x \in s : s \ {x} \in T => s \in T
    PROVE  S \in T
<1> DEFINE N == {n \in Nat : \A s \in SUBSET S : Cardinality(s) = n => s \in T}
<1>1. \A s \in SUBSET S : IsFiniteSet(s) /\ Cardinality(s) \in Nat
  BY FS_Subset, FS_CardinalityType
<1>2. 0 \in N
  BY <1>1, FS_EmptySet
<1>3. ASSUME NEW n \in N PROVE n + 1 \in N
  <2> SUFFICES ASSUME NEW s \in SUBSET S, Cardinality(s) = n + 1 PROVE s \in T
    OBVIOUS
  <2>1. s # {}
    <3>1. n \in Nat /\ n + 1 # 0
      OBVIOUS
    <3> QED BY <3>1, FS_EmptySet
  <2>2. PICK x \in s : s \ {x} \in T => s \in T
    BY <2>1
  <2>3. Cardinality(s \ {x}) = n
    <3>1. Cardinality(s \ {x}) = Cardinality(s) - 1
      BY <1>1, FS_RemoveElement
    <3> QED BY <3>1
  <2>4. s \ {x} \in SUBSET S
    OBVIOUS
  <2>5. s \ {x} \in T
    BY <2>3, <2>4
  <2> QED BY <2>2, <2>5
<1>4. N \in SUBSET Nat
  OBVIOUS
<1>5. N = Nat
  <2> HIDE DEF N
  <2> QED BY <1>2, <1>3, <1>4, NatInduct
<1> QED BY <1>1, <1>5

-----------------------------------------------------------------------------
(* Division, of which the powers of two make use.                          *)

(* Quotient and remainder are what they are taken for.                     *)
LEMMA Quotient ==
    ASSUME NEW s \in Nat \ {0}, NEW q \in Nat, NEW t \in Nat, t < s
    PROVE  (s * q + t) \div s = q /\ (s * q + t) % s = t
<1> DEFINE a == s * q + t
           m == a \div s
           u == a % s
<1>1. a \in Nat
  OBVIOUS
<1>2. m \in Nat /\ u \in Nat /\ u < s /\ a = s * m + u
  BY <1>1
<1>3. s * m + u = s * q + t
  BY <1>2
<1> HIDE DEF m, u, a
<1>4. m = q
  <2>1. CASE m < q
    <3>1. s * (m + 1) <= s * q
      BY <1>2, <2>1
    <3> QED BY <1>2, <1>3, <3>1
  <2>2. CASE q < m
    <3>1. s * (q + 1) <= s * m
      BY <1>2, <2>2
    <3> QED BY <1>2, <1>3, <3>1
  <2> QED BY <1>2, <2>1, <2>2
<1>5. u = t
  BY <1>2, <1>3, <1>4
<1> QED BY <1>4, <1>5 DEF m, u, a

(* Every number is a multiple and less than one more of it.                *)
LEMMA Parts ==
    ASSUME NEW s \in Nat \ {0}, NEW a \in Nat
    PROVE  /\ a \div s \in Nat /\ a % s \in Nat
           /\ a = s * (a \div s) + (a % s)
           /\ a % s < s
           /\ s * (a \div s) \in Nat /\ s * (a \div s) <= a /\ a < s * (a \div s) + s
<1>1. a \div s \in Nat /\ a % s \in Nat
  OBVIOUS
<1>3. a = s * (a \div s) + (a % s)
  OBVIOUS
<1>4. a % s < s
  OBVIOUS
<1>2. s * (a \div s) \in Nat
  BY <1>1
<1> QED BY <1>1, <1>2, <1>3, <1>4
=============================================================================
