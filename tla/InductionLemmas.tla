--------------------------- MODULE InductionLemmas ---------------------------
(***************************************************************************)
(* Induction on the natural numbers, stated for a set instead of for a     *)
(* predicate, and what follows from it about functions defined by          *)
(* recursion on an initial segment 0..n. Last, a law of sequences.         *)
(***************************************************************************)
EXTENDS Integers, Sequences, FiniteSetTheorems, TLAPS

(* A nonempty set of numbers has a least member.                           *)
LEMMA NatLeast ==
    ASSUME NEW S \in SUBSET Nat, S # {}
    PROVE  \E x \in S : \A y \in S : x <= y
<1> DEFINE R == OpToRel(<, Nat)
<1>1. IsWellFoundedOn(R, Nat)
  BY NatLessThanWellFounded DEF R
<1>2. \A m, x \in Nat : m < x => <<m, x>> \in R
  BY DEF OpToRel
<1> HIDE DEF R
<1>3. PICK x \in S : \A y \in S : <<y, x>> \notin R
  BY <1>1, WFMin
<1>4. \A y \in S : y \in Nat /\ x \in Nat /\ ~(y < x)
  BY <1>2, <1>3
<1> QED
  BY <1>4

(* A set of numbers that holds 0 and every successor holds them all.       *)
LEMMA NatSetInduction ==
    ASSUME NEW S \in SUBSET Nat, 0 \in S, \A n \in S : n + 1 \in S
    PROVE  S = Nat
<1> DEFINE T == Nat \ S
<1> SUFFICES ASSUME T # {} PROVE FALSE
  OBVIOUS
<1>1. T \in SUBSET Nat
  OBVIOUS
<1>2. PICK x \in T : \A y \in T : x <= y
  <2> HIDE DEF T
  <2> QED
    BY <1>1, NatLeast
<1>3. x \in Nat /\ x # 0
  OBVIOUS
<1>4. x - 1 \in Nat /\ x - 1 < x
  BY <1>3
<1>5. x - 1 \in S
  BY <1>2, <1>3, <1>4
<1> QED
  BY <1>3, <1>4, <1>5

(* h is the function on 0..n with this first value and this step. *)
IsRecursive(h, n, S, base, step) ==
    /\ h \in [0..n -> S]
    /\ h[0] = base
    /\ \A i \in 1..n : h[i] = step[i][h[i - 1]]

(* A function can be defined on 0..n by its first value and a step.        *)
LEMMA PrimRec ==
    ASSUME NEW S, NEW n \in Nat, NEW base \in S, NEW step \in [Nat -> [S -> S]]
    PROVE  \E h : IsRecursive(h, n, S, base, step)
<1> DEFINE Defined(m) == \E h : IsRecursive(h, m, S, base, step)
           D == {m \in Nat : Defined(m)}
<1>1. Defined(0)
  <2>1. IsRecursive([i \in 0..0 |-> base], 0, S, base, step)
    BY DEF IsRecursive
  <2> QED
    BY <2>1
<1>2. ASSUME NEW m \in Nat, Defined(m) PROVE Defined(m + 1)
  <2>1. PICK h : IsRecursive(h, m, S, base, step)
    BY <1>2
  <2>2. /\ h \in [0..m -> S]
        /\ h[0] = base
        /\ \A i \in 1..m : h[i] = step[i][h[i - 1]]
    BY <2>1 DEF IsRecursive
  <2> DEFINE g == [i \in 0..(m + 1) |-> IF i <= m THEN h[i] ELSE step[m + 1][h[m]]]
  <2>3. g \in [0..(m + 1) -> S]
    BY <2>2
  <2>4. g[0] = base
    BY <2>2
  <2>5. ASSUME NEW i \in 1..(m + 1) PROVE g[i] = step[i][g[i - 1]]
    <3>1. CASE i <= m
      <4>1. g[i] = h[i] /\ g[i - 1] = h[i - 1] /\ i \in 1..m
        BY <3>1
      <4> QED
        BY <2>2, <4>1
    <3>2. CASE i = m + 1
      BY <3>2
    <3> QED
      BY <3>1, <3>2
  <2> HIDE DEF g
  <2>6. IsRecursive(g, m + 1, S, base, step)
    BY <2>3, <2>4, <2>5 DEF IsRecursive
  <2> QED
    BY <2>6
<1>3. D = Nat
  <2> HIDE DEF Defined
  <2>1. D \in SUBSET Nat /\ 0 \in D /\ \A m \in D : m + 1 \in D
    BY <1>1, <1>2
  <2> HIDE DEF D
  <2> QED
    BY <2>1, NatSetInduction
<1> QED
  BY <1>3

(* The library's fact about images takes an operator; a function will do.  *)
LEMMA FiniteImage ==
  ASSUME NEW S, IsFiniteSet(S), NEW f
  PROVE  IsFiniteSet({f[x] : x \in S})
<1> DEFINE g == [x \in S |-> f[x]]
           T == {f[x] : x \in S}
<1>1. g \in [S -> T] /\ \A t \in T : \E x \in S : g[x] = t
  OBVIOUS
<1> HIDE DEF g, T
<1>2. g \in Surjection(S, T)
  BY <1>1 DEF Surjection
<1>3. IsFiniteSet(T)
  BY <1>2, FS_Surjection
<1> QED BY <1>3 DEF T

(* Of n numbers there is a first greatest.                                 *)
LEMMA FirstGreatest ==
    ASSUME NEW n \in Nat, NEW v \in [1..n -> Int], n # 0
    PROVE  \E i \in 1..n : \A j \in 1..n : v[j] < v[i] \/ (v[j] = v[i] /\ i <= j)
<1> DEFINE Best(m) == \E i \in 1..m : \A j \in 1..m : v[j] < v[i] \/ (v[j] = v[i] /\ i <= j)
           D == {m \in Nat : m \in 1..n => Best(m)}
<1>1. ASSUME NEW m \in D PROVE m + 1 \in D
  <2> SUFFICES ASSUME m + 1 \in 1..n PROVE Best(m + 1)
    OBVIOUS
  <2>1. CASE m = 0
    <3>1. \A j \in 1..(m + 1) : j = 1 /\ 1 \in 1..(m + 1)
      BY <2>1
    <3> QED
      BY <3>1, <2>1
  <2>2. CASE m # 0
    <3>1. PICK i \in 1..m : \A j \in 1..m : v[j] < v[i] \/ (v[j] = v[i] /\ i <= j)
      BY <2>2
    <3>2. /\ \A j \in 1..(m + 1) : j \in 1..m \/ j = m + 1
          /\ \A j \in 1..(m + 1) : v[j] \in Int
          /\ m \in Nat
      OBVIOUS
    <3>3. CASE v[m + 1] > v[i]
      <4>1. \A j \in 1..(m + 1) : v[j] < v[m + 1] \/ (v[j] = v[m + 1] /\ m + 1 <= j)
        BY <3>1, <3>2, <3>3
      <4> QED
        BY <4>1
    <3>4. CASE ~(v[m + 1] > v[i])
      <4>1. \A j \in 1..(m + 1) : v[j] < v[i] \/ (v[j] = v[i] /\ i <= j)
        BY <3>1, <3>2, <3>4
      <4> QED
        BY <4>1
    <3> QED
      BY <3>3, <3>4
  <2> QED
    BY <2>1, <2>2
<1>2. D = Nat
  <2>1. D \in SUBSET Nat /\ 0 \in D
    OBVIOUS
  <2> HIDE DEF D
  <2> QED
    BY <1>1, <2>1, NatSetInduction
<1>3. n \in D
  BY <1>2
<1> QED
  BY <1>3

(* A finite nonempty set of numbers has a greatest member.                 *)
LEMMA FiniteGreatest ==
    ASSUME NEW S \in SUBSET Int, IsFiniteSet(S), S # {}
    PROVE  \E x \in S : \A y \in S : x >= y
<1> DEFINE n == Cardinality(S)
<1>1. n \in Nat /\ ExistsBijection(1..n, S)
  BY FS_CardinalityType
<1>2. n # 0
  BY FS_EmptySet
<1> HIDE DEF n
<1>3. PICK v : v \in Bijection(1..n, S)
  BY <1>1 DEF ExistsBijection
<1>4. v \in [1..n -> S] /\ \A y \in S : \E j \in 1..n : v[j] = y
  BY <1>3 DEF Bijection, Injection, Surjection
<1>5. v \in [1..n -> Int] /\ \A i \in 1..n : v[i] \in S /\ v[i] \in Int
  BY <1>4
<1>6. PICK i \in 1..n : \A j \in 1..n : v[j] < v[i] \/ (v[j] = v[i] /\ i <= j)
  BY <1>1, <1>2, <1>5, FirstGreatest
<1>7. \A y \in S : v[i] >= y
  <2> SUFFICES ASSUME NEW y \in S PROVE v[i] >= y
    OBVIOUS
  <2>1. PICK j \in 1..n : v[j] = y
    BY <1>4
  <2> QED
    BY <1>5, <1>6, <2>1
<1> QED
  BY <1>5, <1>7

(* Concatenation can be regrouped. The law has a name, which a proof cites *)
(* where its sequences are to stay as they are.                            *)
Regroups(b, a1, a2, a3) == b \o ((a1 \o a2) \o a3) = ((b \o a1) \o a2) \o a3
LEMMA Regrouped == \A T : \A b, a1, a2, a3 \in Seq(T) : Regroups(b, a1, a2, a3)
<1> SUFFICES ASSUME NEW T, NEW b \in Seq(T), NEW a1 \in Seq(T), NEW a2 \in Seq(T), NEW a3 \in Seq(T)
             PROVE  b \o ((a1 \o a2) \o a3) = ((b \o a1) \o a2) \o a3
  BY DEF Regroups
<1> QED OBVIOUS
=============================================================================
