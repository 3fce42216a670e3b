---------------------------- MODULE RecursionLemmas ----------------------------
(* Induction over sets of numbers, since the least of a set exists; and what a *)
(* function is that is defined by recursion up to a number.                    *)
EXTENDS Integers, FiniteSets, WellFoundedInduction, TLAPS

\* A set of numbers has a least one.
LEMMA Least ==
  ASSUME NEW S \in SUBSET Nat, S # {}
  PROVE  \E x \in S : \A y \in S : x <= y
<1>1. PICK x \in S : \A y \in S : ~(<<y, x>> \in OpToRel(<, Nat))
  BY NatLessThanWellFounded, WFMin
<1>2. \A y \in S : ~(y < x)
  BY <1>1 DEF OpToRel
<1>3. QED
  BY <1>2

\* What holds of the first and of the next holds of every one.
LEMMA NatInd ==
  ASSUME NEW S, 0 \in S, \A n \in Nat : n \in S => n + 1 \in S
  PROVE  \A n \in Nat : n \in S
<1> DEFINE T == Nat \ S
<1> SUFFICES ASSUME T # {} PROVE FALSE
  OBVIOUS
<1>1. PICK x \in T : \A y \in T : x <= y
  BY Least, T \subseteq Nat
<1>2. x \in Nat /\ x # 0
  OBVIOUS
<1>3. x - 1 \in Nat /\ x - 1 < x
  BY <1>2
<1>4. x - 1 \notin T
  BY <1>1, <1>2, <1>3
<1>5. QED
  BY <1>2, <1>3, <1>4

\* The same up to n.
LEMMA UpTo ==
  ASSUME NEW n \in Nat, NEW S, 0 \in S, \A k \in 0 .. n - 1 : k \in S => k + 1 \in S
  PROVE  \A k \in 0 .. n : k \in S
<1> DEFINE U == {k \in Nat : k <= n => k \in S}
<1>1. 0 \in U
  OBVIOUS
<1>2. \A k \in Nat : k \in U => k + 1 \in U
  OBVIOUS
<1>3. \A k \in Nat : k \in U
  <2> HIDE DEF U
  <2> QED BY <1>1, <1>2, NatInd
<1>4. QED
  BY <1>3

\* Values each made of the one before.
Iterated(f, a, n, G) == f[0] = a /\ \A i \in 1 .. n : f[i] = G[i][f[i - 1]]

\* They can be had to any length.
LEMMA Iterates ==
  ASSUME NEW T, NEW a \in T, NEW n \in Nat, NEW G \in [1 .. n -> [T -> T]]
  PROVE  \E f \in [0 .. n -> T] : Iterated(f, a, n, G)
<1> DEFINE Runs(f, k) == f[0] = a /\ \A i \in 1 .. k : f[i] = G[i][f[i - 1]]
           S == {k \in Nat : \E f \in [0 .. k -> T] : Runs(f, k)}
<1>1. 0 \in S
  <2>1. Runs([i \in 0 .. 0 |-> a], 0)
    OBVIOUS
  <2>2. QED
    BY <2>1
<1>2. ASSUME NEW k \in 0 .. n - 1, k \in S PROVE k + 1 \in S
  <2>1. PICK g \in [0 .. k -> T] : Runs(g, k)
    BY <1>2
  <2> DEFINE h == [i \in 0 .. k + 1 |-> IF i <= k THEN g[i] ELSE G[k + 1][g[k]]]
  <2>2. h \in [0 .. k + 1 -> T] /\ h[0] = a
    BY <2>1
  <2>3. ASSUME NEW i \in 1 .. k + 1 PROVE h[i] = G[i][h[i - 1]]
    <3>1. CASE i \in 1 .. k
      <4>1. i - 1 \in 0 .. k /\ i \in 0 .. k
        BY <3>1
      <4>2. QED
        BY <2>1, <3>1, <4>1
    <3>2. CASE i = k + 1
      <4>1. (k + 1) - 1 = k
        OBVIOUS
      <4>2. QED
        BY <3>2, <4>1
    <3>3. QED
      BY <3>1, <3>2
  <2>4. k + 1 \in Nat
    OBVIOUS
  <2> HIDE DEF h
  <2>5. QED
    BY <2>2, <2>3, <2>4
<1>3. \A k \in 0 .. n : k \in S
  <2> HIDE DEF S
  <2> QED BY <1>1, <1>2, UpTo
<1>4. QED
  BY <1>3 DEF Iterated

\* A recursive definition of that form.
Defines(h, a, n, G) == h = [i \in 0 .. n |-> IF i = 0 THEN a ELSE G[i][h[i - 1]]]

\* What it has chosen.
LEMMA Recursion ==
  ASSUME NEW T, NEW a \in T, NEW n \in Nat, NEW G \in [1 .. n -> [T -> T]], NEW f,
         f = CHOOSE h : Defines(h, a, n, G)
  PROVE  f \in [0 .. n -> T] /\ Iterated(f, a, n, G)
<1>1. PICK g \in [0 .. n -> T] : Iterated(g, a, n, G)
  BY Iterates
<1>2. Defines(g, a, n, G)
  <2>1. \A i \in 0 .. n : g[i] = IF i = 0 THEN a ELSE G[i][g[i - 1]]
    BY <1>1 DEF Iterated
  <2>2. QED
    BY <2>1 DEF Defines
<1>3. Defines(f, a, n, G)
  BY <1>2
<1>4. Iterated(f, a, n, G)
  <2>1. \A i \in 0 .. n : f[i] = IF i = 0 THEN a ELSE G[i][f[i - 1]]
    BY <1>3 DEF Defines
  <2>2. QED
    BY <2>1 DEF Iterated
<1>5. \A i \in 0 .. n : f[i] \in T
  <2> DEFINE S == {i \in Nat : f[i] \in T}
  <2>1. 0 \in S
    BY <1>4 DEF Iterated
  <2>2. ASSUME NEW k \in 0 .. n - 1, k \in S PROVE k + 1 \in S
    <3>1. k + 1 \in 1 .. n /\ (k + 1) - 1 = k /\ f[k] \in T
      BY <2>2
    <3>2. f[k + 1] = G[k + 1][f[k]] /\ G[k + 1] \in [T -> T]
      BY <1>4, <3>1 DEF Iterated
    <3>3. QED
      BY <3>1, <3>2
  <2>3. \A k \in 0 .. n : k \in S
    <3> HIDE DEF S
    <3> QED BY <2>1, <2>2, UpTo
  <2>4. QED
    BY <2>3
<1>6. f \in [0 .. n -> T]
  BY <1>3, <1>5 DEF Defines
<1>7. QED
  BY <1>4, <1>6
================================================================================
