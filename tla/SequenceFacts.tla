---------------------------- MODULE SequenceFacts ----------------------------
(***************************************************************************)
(* Facts about numbers, sets and sequences that the proofs about several   *)
(* components need.                                                        *)
(***************************************************************************)
EXTENDS Integers, FiniteSets, Sequences, SequencesExt, FiniteSetTheorems,
        SequenceTheorems, WellFoundedInduction, TLAPS

(* A set of numbers up to m has a greatest one.                            *)
LEMMA Greatest ==
  ASSUME NEW m \in Nat, NEW S, S \subseteq 1 .. m, S # {}
  PROVE  \E x \in S : \A y \in S : y <= x
<1> DEFINE Above(x) == x + 1 .. m
           T == {U \in SUBSET (1 .. m) : \E x \in S : U = Above(x)}
<1>1. IsFiniteSet(1 .. m) BY FS_Interval
<1>2. FiniteSubsetsOf(1 .. m) = SUBSET (1 .. m) BY <1>1, FS_FiniteSubsetsOfFinite
<1>3. \A x \in S : Above(x) \in T OBVIOUS
<1>4. T # {} /\ T \subseteq FiniteSubsetsOf(1 .. m) BY <1>2, <1>3
<1> HIDE DEF T
<1>5. PICK U \in T : \A V \in T : <<V, U>> \notin StrictSubsetOrdering(1 .. m)
  BY <1>4, FS_StrictSubsetOrderingWellFounded, WFMin
<1>6. PICK x \in S : U = Above(x) BY <1>5 DEF T
<1>7. ASSUME NEW y \in S PROVE y <= x
  <2>1. SUFFICES ASSUME x < y PROVE FALSE OBVIOUS
  <2>2. Above(y) \subseteq Above(x) /\ y \in Above(x) /\ y \notin Above(y) BY <2>1
  <2>3. <<Above(y), Above(x)>> \in StrictSubsetOrdering(1 .. m)
    BY <2>2 DEF StrictSubsetOrdering
  <2>. QED BY <1>3, <1>5, <1>6, <2>3
<1>. QED BY <1>7

(* A set of numbers from 1 to n has a least one.                           *)
LEMMA Least ==
  ASSUME NEW n \in Nat, NEW S, S \subseteq 1 .. n, S # {}
  PROVE  \E x \in S : \A y \in S : x <= y
<1> DEFINE T == {k \in 1 .. n : n + 1 - k \in S}
<1>1. T \subseteq 1 .. n OBVIOUS
<1>2. ASSUME NEW y \in S PROVE n + 1 - y \in T
  <2>1. y \in 1 .. n /\ n + 1 - (n + 1 - y) = y OBVIOUS
  <2>. QED BY <2>1
<1>3. T # {} BY <1>2
<1> HIDE DEF T
<1>4. PICK k \in T : \A j \in T : j <= k BY <1>1, <1>3, Greatest
<1>5. n + 1 - k \in S /\ k \in 1 .. n BY <1>4 DEF T
<1>6. ASSUME NEW y \in S PROVE n + 1 - k <= y
  <2>1. n + 1 - y <= k BY <1>2, <1>4
  <2>2. y \in 1 .. n OBVIOUS
  <2>. QED BY <1>5, <2>1, <2>2
<1>. QED BY <1>5, <1>6

(* Places that grow from one to the next and stay between 1 and n are the  *)
(* numbers from 1 to n.                                                    *)
LEMMA GrowingIsIdentity ==
  ASSUME NEW n \in Nat, NEW p \in [1 .. n -> 1 .. n],
         \A k, m \in 1 .. n : k < m => p[k] < p[m]
  PROVE  \A k \in 1 .. n : p[k] = k
<1>1. \A k \in 1 .. n : p[k] \in 1 .. n OBVIOUS
<1>2. \A k \in 1 .. n : p[k] >= k
  <2> DEFINE S == {k \in 1 .. n : p[k] < k}
  <2>1. SUFFICES ASSUME S # {} PROVE FALSE BY <1>1
  <2>2. S \subseteq 1 .. n OBVIOUS
  <2> HIDE DEF S
  <2>3. PICK x \in S : \A y \in S : x <= y BY <2>1, <2>2, Least
  <2>4. x \in 1 .. n /\ p[x] < x BY <2>3 DEF S
  <2>5. x - 1 \in 1 .. n /\ x - 1 \notin S BY <1>1, <2>3, <2>4
  <2>6. p[x - 1] >= x - 1 BY <1>1, <2>5 DEF S
  <2>7. p[x - 1] < p[x] BY <2>4, <2>5
  <2>. QED BY <1>1, <2>4, <2>5, <2>6, <2>7
<1>3. \A k \in 1 .. n : p[k] <= k
  <2> DEFINE S == {k \in 1 .. n : p[k] > k}
  <2>1. SUFFICES ASSUME S # {} PROVE FALSE BY <1>1
  <2>2. S \subseteq 1 .. n OBVIOUS
  <2> HIDE DEF S
  <2>3. PICK x \in S : \A y \in S : y <= x BY <2>1, <2>2, Greatest
  <2>4. x \in 1 .. n /\ p[x] > x BY <2>3 DEF S
  <2>5. x + 1 \in 1 .. n /\ x + 1 \notin S BY <1>1, <2>3, <2>4
  <2>6. p[x + 1] <= x + 1 BY <1>1, <2>5 DEF S
  <2>7. p[x] < p[x + 1] BY <2>4, <2>5
  <2>. QED BY <1>1, <2>4, <2>5, <2>6, <2>7
<1>. QED BY <1>1, <1>2, <1>3

(* The elements of a sequence are finitely many.                           *)
LEMMA ElementsAreFinite ==
  ASSUME NEW S, NEW s \in Seq(S)
  PROVE  IsFiniteSet(ToSet(s)) /\ ToSet(s) \subseteq S
<1>1. Len(s) \in Nat /\ DOMAIN s = 1 .. Len(s) OBVIOUS
<1>2. s \in Surjection(1 .. Len(s), ToSet(s)) BY <1>1 DEF Surjection, ToSet
<1>3. IsFiniteSet(1 .. Len(s)) BY <1>1, FS_Interval
<1>. QED BY <1>1, <1>2, <1>3, FS_Surjection DEF ToSet

(* A sequence begins a longer one.                                         *)
LEMMA ConcatIsPrefix ==
  ASSUME NEW S, NEW s \in Seq(S), NEW t \in Seq(S)
  PROVE  IsPrefix(s, s \o t) /\ IsPrefix(s, s)
<1>1. Len(s) \in Nat /\ Len(t) \in Nat /\ Len(s \o t) = Len(s) + Len(t)
  BY ConcatProperties
<1>2. SubSeq(s \o t, 1, Len(s)) = SubSeq(s, 1, Len(s))
  <2>1. CASE Len(s) = 0
    <3>1. SubSeq(s \o t, 1, 0) = <<>> /\ SubSeq(s, 1, 0) = <<>> BY SubSeqEmpty
    <3>. QED BY <2>1, <3>1
  <2>2. CASE Len(s) # 0
    <3>1. 1 \in 1 .. Len(s) /\ Len(s) \in 1 .. Len(s) BY <1>1, <2>2
    <3>. QED BY <3>1, SubSeqOfConcat1
  <2>. QED BY <2>1, <2>2
<1>. QED BY <1>1, <1>2 DEF IsPrefix

(* A sequence without repetitions has as many elements as it is long.      *)
LEMMA LengthIsCount ==
  ASSUME NEW S, NEW s \in Seq(S)
  PROVE  /\ IsFiniteSet(ToSet(s)) /\ Cardinality(ToSet(s)) \in Nat
         /\ Cardinality(ToSet(s)) <= Len(s)
         /\ IsInjective(s) => Cardinality(ToSet(s)) = Len(s)
<1>1. Len(s) \in Nat /\ DOMAIN s = 1 .. Len(s) OBVIOUS
<1>2. s \in Surjection(1 .. Len(s), ToSet(s)) BY <1>1 DEF Surjection, ToSet
<1>3. IsFiniteSet(1 .. Len(s)) /\ Cardinality(1 .. Len(s)) = Len(s)
  BY <1>1, FS_Interval
<1>4. IsInjective(s) => s \in Injection(1 .. Len(s), ToSet(s))
  BY <1>1, <1>2 DEF Injection, IsInjective, Surjection
<1>. QED BY <1>2, <1>3, <1>4, FS_Surjection, FS_CardinalityType

(* Sequences with nothing in common, put together.                         *)
LEMMA ConcatIsInjective ==
  ASSUME NEW S, NEW s \in Seq(S), NEW t \in Seq(S),
         IsInjective(s), IsInjective(t), ToSet(s) \cap ToSet(t) = {}
  PROVE  /\ s \o t \in Seq(S) /\ Len(s \o t) = Len(s) + Len(t)
         /\ IsInjective(s \o t)
         /\ ToSet(s \o t) = ToSet(s) \cup ToSet(t)
<1> DEFINE u == s \o t
<1>1. /\ u \in Seq(S) /\ Len(u) = Len(s) + Len(t)
      /\ \A i \in 1 .. Len(s) + Len(t) :
           u[i] = IF i <= Len(s) THEN s[i] ELSE t[i - Len(s)]
  BY ConcatProperties
<1>2. /\ Len(s) \in Nat /\ DOMAIN s = 1 .. Len(s)
      /\ Len(t) \in Nat /\ DOMAIN t = 1 .. Len(t)
  OBVIOUS
<1> HIDE DEF u
<1>3. DOMAIN u = 1 .. Len(s) + Len(t) BY <1>1
<1>4. \A i \in 1 .. Len(s) : i \in DOMAIN u /\ u[i] = s[i] /\ s[i] \in ToSet(s)
  BY <1>1, <1>2, <1>3 DEF ToSet
<1>5. \A i \in 1 .. Len(t) : /\ Len(s) + i \in DOMAIN u
                             /\ u[Len(s) + i] = t[i] /\ t[i] \in ToSet(t)
  BY <1>1, <1>2, <1>3 DEF ToSet
<1>6. \A i \in DOMAIN u : \/ i \in 1 .. Len(s)
                          \/ \E j \in 1 .. Len(t) : i = Len(s) + j
  <2>1. ASSUME NEW i \in DOMAIN u, i \notin 1 .. Len(s)
        PROVE  i - Len(s) \in 1 .. Len(t) /\ i = Len(s) + (i - Len(s))
    BY <1>2, <1>3, <2>1
  <2>. QED BY <2>1
<1>7. ASSUME NEW i \in DOMAIN u, NEW j \in DOMAIN u, u[i] = u[j]
      PROVE  i = j
  <2>1. CASE i \in 1 .. Len(s) /\ j \in 1 .. Len(s)
    BY <1>2, <1>4, <1>7, <2>1 DEF IsInjective
  <2>2. ASSUME i \in 1 .. Len(s), NEW k \in 1 .. Len(t), j = Len(s) + k PROVE FALSE
    BY <1>4, <1>5, <1>7, <2>2
  <2>3. ASSUME j \in 1 .. Len(s), NEW k \in 1 .. Len(t), i = Len(s) + k PROVE FALSE
    BY <1>4, <1>5, <1>7, <2>3
  <2>4. ASSUME NEW k \in 1 .. Len(t), i = Len(s) + k, NEW l \in 1 .. Len(t), j = Len(s) + l
        PROVE  i = j
    BY <1>2, <1>5, <1>7, <2>4 DEF IsInjective
  <2>. QED BY <1>6, <2>1, <2>2, <2>3, <2>4
<1>8. ToSet(u) = ToSet(s) \cup ToSet(t)
  <2>1. ASSUME NEW x \in ToSet(u) PROVE x \in ToSet(s) \cup ToSet(t)
    <3>1. PICK i \in DOMAIN u : x = u[i] BY DEF ToSet
    <3>2. CASE i \in 1 .. Len(s) BY <1>4, <3>1, <3>2
    <3>3. ASSUME NEW j \in 1 .. Len(t), i = Len(s) + j PROVE x \in ToSet(t)
      BY <1>5, <3>1, <3>3
    <3>. QED BY <1>6, <3>2, <3>3
  <2>2. \A x \in ToSet(s) \cup ToSet(t) : x \in ToSet(u)
    BY <1>2, <1>4, <1>5 DEF ToSet
  <2>. QED BY <2>1, <2>2
<1>9. IsInjective(u) BY <1>7 DEF IsInjective
<1>. QED BY <1>1, <1>8, <1>9 DEF u

(* Step by step, from the first number to the last.                        *)
LEMMA StepByStep ==
  ASSUME NEW n \in Nat, NEW S, 0 \in S, \A m \in 1 .. n : m - 1 \in S => m \in S
  PROVE  \A m \in 0 .. n : m \in S
<1> DEFINE Wrong == {k \in 1 .. n + 1 : k - 1 \notin S}
<1>1. Wrong = {}
  <2>1. SUFFICES ASSUME Wrong # {} PROVE FALSE OBVIOUS
  <2>2. Wrong \subseteq 1 .. n + 1 /\ n + 1 \in Nat OBVIOUS
  <2> HIDE DEF Wrong
  <2>3. PICK k \in Wrong : \A y \in Wrong : k <= y BY <2>1, <2>2, Least
  <2>4. k \in 1 .. n + 1 /\ k - 1 \notin S BY <2>3 DEF Wrong
  <2>5. k # 1 BY <2>4
  <2>6. k - 1 \in 1 .. n /\ k - 1 \in 1 .. n + 1 /\ ~(k <= k - 1) BY <2>4, <2>5
  <2>7. (k - 1) - 1 \in S BY <2>3, <2>6 DEF Wrong
  <2>. QED BY <2>4, <2>6, <2>7
<1>2. ASSUME NEW m \in 0 .. n PROVE m \in S
  <2>1. m + 1 \in 1 .. n + 1 /\ (m + 1) - 1 = m OBVIOUS
  <2>. QED BY <1>1, <2>1
<1>. QED BY <1>2

-----------------------------------------------------------------------------
(* Folds, by their prefixes *)

(* The greatest of a set of numbers.                                       *)
LEMMA MaxOf ==
  ASSUME NEW m \in Nat, NEW S, S \subseteq 1 .. m, S # {}
  PROVE  Max(S) \in S /\ \A y \in S : y <= Max(S)
<1>1. \E x \in S : \A y \in S : x >= y
  <2>1. PICK x \in S : \A y \in S : y <= x BY Greatest
  <2>2. \A y \in S : x >= y
    <3>1. SUFFICES ASSUME NEW y \in S PROVE x >= y OBVIOUS
    <3>2. x \in Nat /\ y \in Nat /\ y <= x BY <2>1
    <3>. QED BY <3>2
  <2>. QED BY <2>2
<1>2. Max(S) \in S /\ \A y \in S : Max(S) >= y BY <1>1 DEF Max
<1>. QED
  <2>1. SUFFICES ASSUME NEW y \in S PROVE y <= Max(S) BY <1>2
  <2>2. Max(S) \in 1 .. m /\ y \in 1 .. m BY <1>2
  <2>3. Max(S) >= y BY <1>2
  <2>. QED BY <2>2, <2>3

(* What a fold does at each of n places.                                   *)
StepsOf(n, X) == [(1 .. n) \X X -> X]

(* What a fold makes of each set of places.                                *)
IsFold(it, n, X, b, F) ==
  /\ it \in [SUBSET (1 .. n) -> X]
  /\ \A t \in SUBSET (1 .. n) :
       it[t] = IF t = {} THEN b ELSE F[<<Max(t), it[t \ {Max(t)}]>>]

(* A fold over a set of numbers takes the greatest last: there is such a   *)
(* function, however many there are.                                       *)
LEMMA FoldExists ==
  ASSUME NEW X, NEW n \in Nat, NEW b \in X, NEW F \in StepsOf(n, X)
  PROVE  \E it : IsFold(it, n, X, b, F)
<1> DEFINE Is(m, it) == \A t \in SUBSET (1 .. m) :
                          it[t] = IF t = {} THEN b ELSE F[<<Max(t), it[t \ {Max(t)}]>>]
           Folds(m) == \E it \in [SUBSET (1 .. m) -> X] : Is(m, it)
           Steps == {m \in 0 .. n : Folds(m)}
<1> USE DEF StepsOf
<1>1. Folds(0)
  <2>1. 1 .. 0 = {} OBVIOUS
  <2>2. [t \in SUBSET (1 .. 0) |-> b] \in [SUBSET (1 .. 0) -> X] OBVIOUS
  <2>3. Is(0, [t \in SUBSET (1 .. 0) |-> b]) BY <2>1
  <2>. QED BY <2>2, <2>3
<1>2. ASSUME NEW m \in 0 .. n - 1, Folds(m) PROVE Folds(m + 1)
  <2>1. PICK it \in [SUBSET (1 .. m) -> X] : Is(m, it) BY <1>2
  <2> DEFINE new == [t \in SUBSET (1 .. m + 1) |->
                       IF m + 1 \notin t THEN it[t] ELSE F[<<m + 1, it[t \ {m + 1}]>>]]
  <2>2. ASSUME NEW t \in SUBSET (1 .. m + 1)
        PROVE  /\ m + 1 \notin t => t \in SUBSET (1 .. m)
               /\ t \ {m + 1} \in SUBSET (1 .. m) /\ m + 1 \notin t \ {m + 1}
    OBVIOUS
  <2>3. new \in [SUBSET (1 .. m + 1) -> X]
    <3>1. SUFFICES ASSUME NEW t \in SUBSET (1 .. m + 1) PROVE new[t] \in X OBVIOUS
    <3>2. CASE m + 1 \notin t BY <2>2, <3>2
    <3>3. CASE m + 1 \in t
      <4>1. it[t \ {m + 1}] \in X BY <2>2
      <4>2. m + 1 \in 1 .. n OBVIOUS
      <4>. QED BY <3>3, <4>1, <4>2
    <3>. QED BY <3>2, <3>3
  <2>4. ASSUME NEW t \in SUBSET (1 .. m + 1)
        PROVE  new[t] = IF t = {} THEN b ELSE F[<<Max(t), new[t \ {Max(t)}]>>]
    <3>1. CASE m + 1 \notin t
      <4>1. t \in SUBSET (1 .. m) /\ new[t] = it[t] BY <2>2, <3>1
      <4>2. new[t \ {Max(t)}] = it[t \ {Max(t)}] BY <4>1, <3>1
      <4>. QED BY <2>1, <4>1, <4>2
    <3>2. CASE m + 1 \in t
      <4>1. Max(t) = m + 1
        <5>1. Max(t) \in t /\ \A y \in t : y <= Max(t)
          <6>1. m + 1 \in Nat /\ t \subseteq 1 .. m + 1 /\ t # {} BY <3>2
          <6>. QED BY <6>1, MaxOf
        <5>2. m + 1 <= Max(t) /\ Max(t) \in 1 .. m + 1 BY <3>2, <5>1
        <5>. QED BY <5>2
      <4>2. new[t \ {m + 1}] = it[t \ {m + 1}] BY <2>2
      <4>. QED BY <3>2, <4>1, <4>2
    <3>. QED BY <3>1, <3>2
  <2>. QED BY <2>3, <2>4
<1> HIDE DEF Folds
<1>3. 0 \in Steps /\ \A m \in 1 .. n : m - 1 \in Steps => m \in Steps
  <2>1. SUFFICES ASSUME NEW m \in 1 .. n, Folds(m - 1) PROVE Folds(m) BY <1>1
  <2>2. m - 1 \in 0 .. n - 1 /\ (m - 1) + 1 = m OBVIOUS
  <2>. QED BY <1>2, <2>1, <2>2
<1>4. Folds(n)
  <2> HIDE DEF Steps
  <2>1. n \in Steps BY <1>3, StepByStep
  <2>. QED BY <2>1 DEF Steps
<1>. QED BY <1>4 DEF Folds, IsFold

(* The first numbers, last of them first.                                  *)
LEMMA FirstNumbers ==
  ASSUME NEW m \in Nat \ {0}
  PROVE  1 .. m # {} /\ Max(1 .. m) = m /\ (1 .. m) \ {m} = 1 .. m - 1 /\ 1 .. m - 1 \subseteq 1 .. m
<1>1. m \in 1 .. m /\ (1 .. m) \ {m} = 1 .. m - 1 /\ 1 .. m - 1 \subseteq 1 .. m OBVIOUS
<1>2. Max(1 .. m) \in 1 .. m /\ \A y \in 1 .. m : y <= Max(1 .. m)
  <2>1. m \in Nat /\ 1 .. m \subseteq 1 .. m /\ 1 .. m # {} BY <1>1
  <2>. QED BY <2>1, MaxOf
<1>3. m <= Max(1 .. m) /\ Max(1 .. m) \in 1 .. m BY <1>1, <1>2
<1>. QED BY <1>1, <1>3
=============================================================================
