-------------------------- MODULE InductionLemmas ---------------------------
(***************************************************************************)
(* Induction over the natural numbers, in a form without operator          *)
(* parameters: a property is given as the set of the numbers that have it. *)
(* The lemmas rest on the well-foundedness of < on the natural numbers.    *)
(***************************************************************************)
EXTENDS Integers, TLAPS, WellFoundedInduction

\* A non-empty set of natural numbers has a least element.
LEMMA Least ==
  ASSUME NEW T, T \subseteq Nat, T # {}
  PROVE  \E x \in T : \A y \in T : x <= y
<1> DEFINE R == {ss \in Nat \X Nat : ss[1] < ss[2]}
<1>1. IsWellFoundedOn(R, Nat)
  BY NatLessThanWellFounded DEF OpToRel
<1> HIDE DEF R
<1>2. PICK x \in T : \A y \in T : ~(<<y, x>> \in R)
  BY <1>1, WFMin
<1>3. \A y \in T : ~(y < x)
  BY <1>2 DEF R
<1> QED
  BY <1>3

\* A set that holds 0, and with every number its successor, holds them all.
LEMMA SetInd ==
  ASSUME NEW S, 0 \in S, \A n \in Nat : n \in S => n + 1 \in S
  PROVE  Nat \subseteq S
<1>1. SUFFICES ASSUME ~(Nat \subseteq S) PROVE FALSE
  OBVIOUS
<1> DEFINE T == Nat \ S
<1>2. PICK x \in T : \A y \in T : x <= y
  BY <1>1, Least
<1>3. x # 0 /\ x - 1 \in Nat
  BY <1>2
<1>4. x - 1 \in S
  BY <1>2, <1>3
<1> QED
  BY <1>2, <1>3, <1>4

\* A non-empty set of indices has a last element.
LEMMA Greatest ==
  ASSUME NEW N \in Nat, NEW T, T \subseteq 1..N, T # {}
  PROVE  \E x \in T : \A y \in T : y <= x
<1> DEFINE U == {N - y : y \in T}
<1>1. U \subseteq Nat
  OBVIOUS
<1>2. \A y \in T : N - y \in U
  OBVIOUS
<1> HIDE DEF U
<1>3. PICK u \in U : \A w \in U : u <= w
  BY <1>1, <1>2, Least
<1>4. PICK x \in T : u = N - x
  BY DEF U
<1>5. \A y \in T : N - x <= N - y
  BY <1>2, <1>3, <1>4
<1> QED  BY <1>5

\* The rules by which a value of V at i - 1 gives one at i, for every i in 1..K,
\* and the functions that follow rules F from value a.
Rules(K, V) == [1..K -> [V -> V]]

Iterates(g, K, V, a, F) ==
  /\ g \in [0..K -> V]
  /\ g[0] = a /\ \A i \in 1..K : g[i] = F[i][g[i - 1]]

\* A function on 0..K may be defined by its value at 0 and by steps from one
\* value to the next.
LEMMA Recursion ==
  ASSUME NEW K \in Nat, NEW V, NEW a \in V, NEW F \in Rules(K, V)
  PROVE  \E g : Iterates(g, K, V, a, F)
<1> DEFINE Has(n) == \E g \in [0..n -> V] : g[0] = a /\ \A i \in 1..n : g[i] = F[i][g[i - 1]]
           S == {n \in Nat : n <= K => Has(n)}
<1>1. 0 \in S
  <2>1. [i \in 0..0 |-> a] \in [0..0 -> V]
    OBVIOUS
  <2>2. Has(0)
    <3> WITNESS [i \in 0..0 |-> a] \in [0..0 -> V]
    <3> QED  OBVIOUS
  <2> QED  BY <2>2
<1>2. ASSUME NEW n \in Nat, n \in S PROVE n + 1 \in S
  <2> SUFFICES ASSUME n + 1 <= K PROVE Has(n + 1)
    OBVIOUS
  <2>1. PICK g \in [0..n -> V] : g[0] = a /\ \A i \in 1..n : g[i] = F[i][g[i - 1]]
    BY <1>2
  <2> DEFINE v == F[n + 1][g[n]]
             h == [i \in 0..(n + 1) |-> IF i = n + 1 THEN v ELSE g[i]]
  <2>2. v \in V
    <3>1. g[n] \in V /\ n + 1 \in 1..K
      OBVIOUS
    <3>2. F[n + 1] \in [V -> V]
      BY <3>1 DEF Rules
    <3> QED  BY <3>1, <3>2
  <2> HIDE DEF v
  <2>3. \A i \in 0..(n + 1) : i # n + 1 => i \in 0..n
    OBVIOUS
  <2>4. h \in [0..(n + 1) -> V]
    BY <2>2, <2>3
  <2>5. h[0] = a
    BY <2>1
  <2>6. ASSUME NEW i \in 1..(n + 1) PROVE h[i] = F[i][h[i - 1]]
    <3>1. i - 1 \in 0..n /\ i - 1 # n + 1
      OBVIOUS
    <3>2. h[i - 1] = g[i - 1]
      BY <3>1
    <3>3. CASE i = n + 1
      BY <3>2, <3>3 DEF v
    <3>4. CASE i # n + 1
      <4>1. i \in 1..n /\ h[i] = g[i]
        BY <3>4
      <4> QED  BY <2>1, <3>2, <4>1
    <3> QED  BY <3>3, <3>4
  <2> HIDE DEF h
  <2> WITNESS h \in [0..(n + 1) -> V]
  <2> QED  BY <2>5, <2>6
<1> HIDE DEF S
<1>3. Nat \subseteq S
  BY <1>1, <1>2, SetInd
<1>4. K \in S
  BY <1>3
<1> QED  BY <1>4 DEF S, Iterates
=============================================================================
