----------------------------- MODULE Arithmetic -----------------------------
(***************************************************************************)
(* Facts about the arithmetic that the code does: remainders, by which     *)
(* places in a ring buffer are found (src/src/perf.c), and doublings, by   *)
(* which a string (src/src/util.c) and the backoff of the socket grow      *)
(* (src/src/storage_socket.c).                                             *)
(***************************************************************************)
EXTENDS Integers, FiniteSets, FiniteSetTheorems, WellFoundedInduction, TLAPS

-----------------------------------------------------------------------------
\* A set of numbers that is not empty has a least element.
LEMMA LeastElement ==
    ASSUME NEW S \in SUBSET Nat, S # {}
    PROVE  \E n \in S : \A m \in S : n <= m
<1>1. PICK n \in S : \A m \in S : <<m, n>> \notin OpToRel(<, Nat)
  BY NatLessThanWellFounded, WFMin
<1>2. \A m \in S : ~(m < n)
  BY <1>1 DEF OpToRel
<1> QED  BY <1>2

\* What holds of 0, and of a number's successor with the number, holds of all.
LEMMA SetInduction ==
    ASSUME NEW S \in SUBSET Nat, 0 \in S, \A n \in S : n + 1 \in S
    PROVE  S = Nat
<1> SUFFICES ASSUME S # Nat
             PROVE  FALSE
  OBVIOUS
<1>1. PICK n \in Nat \ S : \A m \in Nat \ S : n <= m
  BY LeastElement
<1>2. n # 0 /\ n - 1 \in Nat
  BY <1>1
<1>3. n - 1 \in S
  BY <1>1, <1>2
<1>4. (n - 1) + 1 \in S
  BY <1>3
<1> QED  BY <1>1, <1>4

\* A set of numbers that has an upper bound has a greatest element.
LEMMA GreatestElement ==
    ASSUME NEW n \in Nat, NEW S \in SUBSET (1 .. n), S # {}
    PROVE  \E m \in S : \A k \in S : m >= k
<1> DEFINE T == {n - k : k \in S}
<1>1. T \in SUBSET Nat /\ T # {}
  <2>1. \A k \in S : n - k \in Nat
    OBVIOUS
  <2> QED  BY <2>1
<1>2. PICK l \in T : \A k \in T : l <= k
  <2> HIDE DEF T
  <2> QED  BY <1>1, LeastElement
<1>3. PICK m \in S : l = n - m
  BY <1>2
<1>4. \A k \in S : n - m <= n - k
  BY <1>2, <1>3
<1> QED  BY <1>3, <1>4

-----------------------------------------------------------------------------
\* A power of two counts the subsets of a set: one more element doubles them.
LEMMA PowerOfTwo ==
    /\ 2 ^ 0 = 1
    /\ \A n \in Nat : 2 ^ n \in Nat /\ 2 ^ (n + 1) = 2 * 2 ^ n
<1>1. \A n \in Nat : IsFiniteSet(1 .. n) /\ Cardinality(1 .. n) = n
  BY FS_Interval
<1>2. \A n \in Nat : /\ IsFiniteSet(SUBSET (1 .. n)) /\ Cardinality(SUBSET (1 .. n)) = 2 ^ n
                     /\ 2 ^ n \in Nat
  BY <1>1, FS_SUBSET, FS_CardinalityType
<1>3. 2 ^ 0 = 1
  <2>1. SUBSET (1 .. 0) = {{}}
    OBVIOUS
  <2> QED  BY <1>2, <2>1, FS_Singleton
<1>4. ASSUME NEW n \in Nat
      PROVE  2 ^ (n + 1) = 2 * 2 ^ n
  <2> DEFINE Old == SUBSET (1 .. n)
             New == {A \union {n + 1} : A \in Old}
             add == [A \in Old |-> A \union {n + 1}]
  <2>1. SUBSET (1 .. n + 1) = Old \union New
    <3>1. 1 .. n + 1 = (1 .. n) \union {n + 1}
      OBVIOUS
    <3>2. ASSUME NEW A \in SUBSET (1 .. n + 1), A \notin Old
          PROVE  A \in New
      <4>1. A \ {n + 1} \in Old /\ A = (A \ {n + 1}) \union {n + 1}
        BY <3>1, <3>2
      <4> QED  BY <4>1
    <3>3. Old \subseteq SUBSET (1 .. n + 1) /\ New \subseteq SUBSET (1 .. n + 1)
      BY <3>1
    <3> QED  BY <3>2, <3>3
  <2>2. Old \intersect New = {}
    <3>1. n + 1 \notin 1 .. n
      OBVIOUS
    <3> QED  BY <3>1
  <2>3. ExistsBijection(Old, New)
    <3>1. \A A, B \in Old : add[A] = add[B] => A = B
      <4>1. n + 1 \notin 1 .. n
        OBVIOUS
      <4> QED  BY <4>1
    <3>2. add \in [Old -> New] /\ \A C \in New : \E A \in Old : add[A] = C
      OBVIOUS
    <3>3. add \in Bijection(Old, New)
      BY <3>1, <3>2 DEF Bijection, Injection, Surjection, IsInjective
    <3> QED  BY <3>3 DEF ExistsBijection
  <2>4. /\ IsFiniteSet(Old) /\ Cardinality(Old) = 2 ^ n
        /\ IsFiniteSet(New) /\ Cardinality(New) = 2 ^ n
    BY <1>2, <2>3, FS_Bijection
  <2>5. Cardinality(Old \union New) = 2 ^ n + 2 ^ n - Cardinality(Old \intersect New)
    BY <2>4, FS_Union
  <2>6. Cardinality(Old \intersect New) = 0
    BY <2>2, FS_EmptySet
  <2>7. n + 1 \in Nat
    OBVIOUS
  <2>8. Cardinality(SUBSET (1 .. n + 1)) = 2 ^ (n + 1) /\ 2 ^ n \in Nat
    BY <1>2, <2>7
  <2> HIDE DEF Old, New
  <2>9. 2 ^ (n + 1) = Cardinality(Old \union New)
    BY <2>1, <2>8
  <2> QED  BY <2>5, <2>6, <2>8, <2>9
<1> QED  BY <1>2, <1>3, <1>4

\* Doublings pass any number.
LEMMA PowerExceeds ==
    \A n \in Nat : n < 2 ^ n
<1> DEFINE S == {n \in Nat : n < 2 ^ n}
<1>1. 0 \in S
  BY PowerOfTwo
<1>2. \A n \in S : n + 1 \in S
  <2> SUFFICES ASSUME NEW n \in Nat, n < 2 ^ n
               PROVE  n + 1 < 2 ^ (n + 1)
    OBVIOUS
  <2>1. 2 ^ n \in Nat /\ 2 ^ (n + 1) = 2 * 2 ^ n
    BY PowerOfTwo
  <2> QED  BY <2>1
<1>3. S = Nat
  <2> HIDE DEF S
  <2>1. S \in SUBSET Nat
    BY DEF S
  <2> QED  BY <1>1, <1>2, <2>1, SetInduction
<1> QED  BY <1>3

-----------------------------------------------------------------------------
\* Dividing leaves a quotient and a remainder.
LEMMA Division ==
    ASSUME NEW n \in Nat, NEW d \in Nat \ {0}
    PROVE  n % d \in 0 .. d - 1 /\ \E q \in Nat : n = d * q + (n % d)
<1>1. n % d \in 0 .. d - 1
  BY Z3
<1>2. n \div d \in Nat /\ n = d * (n \div d) + (n % d)
  BY Z3
<1> QED  BY <1>1, <1>2

\* A number is divided in one way only.
LEMMA DivisionUnique ==
    ASSUME NEW n \in Int, NEW d \in Nat \ {0}, NEW q \in Int, NEW r \in 0 .. d - 1, n = d * q + r
    PROVE  n % d = r
  BY Z3
=============================================================================
