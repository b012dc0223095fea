------------------------------ MODULE DataLemmas ------------------------------
(***************************************************************************)
(* Facts about numbers and finite sets that the proofs about data rest on. *)
(* The induction theorems of the library take an operator as a parameter,  *)
(* which the provers cannot instantiate; here induction is a fact about    *)
(* sets of numbers, and a statement P is proved for every number by taking *)
(* {n \in Nat : P(n)}.                                                     *)
(***************************************************************************)
EXTENDS Integers, Sequences, FiniteSets, FiniteSetTheorems, WellFoundedInduction, TLAPS

\* Induction: a set that holds 0 and the successor of each number in it holds
\* every number.
LEMMA NatSets ==
  ASSUME NEW S, 0 \in S, \A n \in Nat : n \in S => n + 1 \in S
  PROVE  Nat \subseteq S
<1> DEFINE T == Nat \ S
<1> SUFFICES ASSUME T # {} PROVE FALSE OBVIOUS
<1>1. PICK x \in T : \A y \in T : ~(<<y, x>> \in OpToRel(<, Nat))
  <2>1. T \subseteq Nat OBVIOUS
  <2> HIDE DEF T
  <2> QED BY <2>1, WFMin, NatLessThanWellFounded
<1>2. x # 0 /\ x - 1 \in Nat OBVIOUS
<1>3. <<x - 1, x>> \in OpToRel(<, Nat) BY <1>2 DEF OpToRel
<1>4. x - 1 \in S BY <1>1, <1>2, <1>3
<1> QED BY <1>2, <1>4

\* A set of numbers that is not empty has a least one.
LEMMA LeastOf ==
  ASSUME NEW T \in SUBSET Nat, T # {}
  PROVE  \E x \in T : \A y \in T : x <= y
<1>1. PICK x \in T : \A y \in T : ~(<<y, x>> \in OpToRel(<, Nat))
  BY WFMin, NatLessThanWellFounded
<1>2. \A y \in T : y \in Nat /\ ~(y < x) BY <1>1 DEF OpToRel
<1> QED BY <1>2

\* Every finite set on which a number is defined has an element with the
\* greatest.
LEMMA GreatestAt ==
  ASSUME NEW S, IsFiniteSet(S), S # {}, NEW f \in [S -> Int]
  PROVE  \E x \in S : \A y \in S : f[y] <= f[x]
<1> DEFINE Has(T) == \E x \in T : \A y \in T : f[y] <= f[x]
           N == {n \in Nat : \A T \in SUBSET S : IsFiniteSet(T) /\ Cardinality(T) = n /\ T # {} => Has(T)}
<1>1. 0 \in N BY FS_EmptySet
<1>2. ASSUME NEW n \in Nat, n \in N PROVE n + 1 \in N
  <2>1. SUFFICES ASSUME NEW T \in SUBSET S, IsFiniteSet(T), Cardinality(T) = n + 1, T # {}
                 PROVE  Has(T)
    OBVIOUS
  <2>2. PICK z \in T : TRUE BY <2>1
  <2> DEFINE U == T \ {z}
  <2>3. IsFiniteSet(U) /\ Cardinality(U) = n
    <3>1. IsFiniteSet(U) /\ Cardinality(U) = IF z \in T THEN Cardinality(T) - 1 ELSE Cardinality(T)
      BY <2>1, FS_RemoveElement
    <3>2. Cardinality(U) = (n + 1) - 1 BY <3>1, <2>1
    <3> QED BY <3>1, <3>2
  <2>4. f[z] \in Int /\ \A y \in T : f[y] \in Int BY <2>2
  <2>5. CASE U = {}
    <3>1. T = {z} BY <2>2, <2>5
    <3> QED BY <3>1, <2>4
  <2>6. CASE U # {}
    <3>1. PICK x \in U : \A y \in U : f[y] <= f[x] BY <1>2, <2>3, <2>6
    <3>2. T = U \cup {z} /\ x \in T BY <2>2
    <3>3. CASE f[z] <= f[x] BY <3>1, <3>2, <3>3
    <3>4. CASE ~(f[z] <= f[x])
      <4>1. \A y \in T : f[y] <= f[z] BY <3>1, <3>2, <3>4, <2>4
      <4> QED BY <4>1, <2>2
    <3> QED BY <3>3, <3>4
  <2> QED BY <2>5, <2>6
<1>3. Nat \subseteq N
  <2> HIDE DEF N
  <2> QED BY <1>1, <1>2, NatSets
<1>4. Cardinality(S) \in N BY <1>3, FS_CardinalityType
<1> QED BY <1>4

\* The values of a function over a finite set are finitely many.
LEMMA ImageIsFinite ==
  ASSUME NEW S, IsFiniteSet(S), NEW f
  PROVE  IsFiniteSet({f[x] : x \in S})
<1> DEFINE g == [x \in S |-> f[x]]
           T == {f[x] : x \in S}
<1>1. g \in Surjection(S, T) BY DEF Surjection
<1> HIDE DEF g, T
<1>2. IsFiniteSet(T) BY <1>1, FS_Surjection
<1> QED BY <1>2 DEF T

\* A part of a finite set is counted by a natural number.
LEMMA CountIsNumber ==
  ASSUME NEW S, IsFiniteSet(S), NEW T \in SUBSET S
  PROVE  IsFiniteSet(T) /\ Cardinality(T) \in Nat
BY FS_Subset, FS_CardinalityType

\* What a sequence holds.
Elements(s) == {s[i] : i \in DOMAIN s}

\* A sequence over a set is one over every larger set.
LEMMA SequencesGrow ==
  ASSUME NEW A, NEW B, A \subseteq B, NEW s \in Seq(A)
  PROVE  s \in Seq(B)
OBVIOUS

\* A sequence of one.
LEMMA SingleHolds ==
  ASSUME NEW V, NEW v \in V
  PROVE  <<v>> \in Seq(V)
OBVIOUS

\* A sequence of two.
LEMMA PairHolds ==
  ASSUME NEW V, NEW v \in V, NEW w \in V
  PROVE  <<v, w>> \in Seq(V)
OBVIOUS

\* A sequence of five.
LEMMA FiveHold ==
  ASSUME NEW V, NEW a \in V, NEW b \in V, NEW c \in V, NEW d \in V, NEW e \in V
  PROVE  <<a, b, c, d, e>> \in Seq(V)
OBVIOUS

\* A concatenation holds what its two parts hold.
LEMMA ConcatenationHolds ==
  ASSUME NEW V, NEW s \in Seq(V), NEW t \in Seq(V)
  PROVE  s \o t \in Seq(V) /\ Elements(s \o t) = Elements(s) \cup Elements(t)
<1>1. s \o t \in Seq(V) /\ Len(s \o t) = Len(s) + Len(t) OBVIOUS
<1>2. \A i \in 1..Len(s) : (s \o t)[i] = s[i] OBVIOUS
<1>3. \A i \in 1..Len(t) : (s \o t)[Len(s) + i] = t[i] OBVIOUS
<1>4. \A i \in 1..Len(s \o t) : i \in 1..Len(s) \/ (\E j \in 1..Len(t) : i = Len(s) + j)
  <2>1. SUFFICES ASSUME NEW i \in 1..Len(s \o t), i \notin 1..Len(s)
                 PROVE  \E j \in 1..Len(t) : i = Len(s) + j
    OBVIOUS
  <2>2. i - Len(s) \in 1..Len(t) /\ i = Len(s) + (i - Len(s)) BY <1>1, <2>1
  <2> QED BY <2>2
<1>5. Elements(s \o t) \subseteq Elements(s) \cup Elements(t) BY <1>1, <1>2, <1>3, <1>4 DEF Elements
<1>6. Elements(s) \subseteq Elements(s \o t)
  <2>1. \A i \in 1..Len(s) : i \in 1..Len(s \o t) BY <1>1
  <2> QED BY <2>1, <1>1, <1>2 DEF Elements
<1>7. Elements(t) \subseteq Elements(s \o t)
  <2>1. \A i \in 1..Len(t) : Len(s) + i \in 1..Len(s \o t) BY <1>1
  <2>2. SUFFICES ASSUME NEW i \in DOMAIN t PROVE t[i] \in Elements(s \o t) BY DEF Elements
  <2>3. i \in 1..Len(t) /\ Len(s) + i \in DOMAIN (s \o t) BY <2>1, <1>1
  <2>4. (s \o t)[Len(s) + i] = t[i] BY <2>3, <1>3
  <2> QED BY <2>3, <2>4, Zenon DEF Elements
<1> QED BY <1>1, <1>5, <1>6, <1>7

=============================================================================
