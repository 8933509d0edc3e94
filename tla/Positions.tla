------------------------------ MODULE Positions ------------------------------
(***************************************************************************)
(* What the proofs about passes over a list, and about the earliest of a   *)
(* set of times, need to know of the natural numbers: induction on the     *)
(* positions of a list, the function a pass defines, and the least element *)
(* of a set.                                                               *)
(***************************************************************************)
EXTENDS Naturals, TLAPS, WellFoundedInduction

Before == {p \in Nat \X Nat : p[1] < p[2]}

LEMMA BeforeWellFounded == IsWellFoundedOn(Before, Nat)
<1>1. OpToRel(<, Nat) = Before
  BY Zenon DEF OpToRel, Before
<1> QED
  BY Zenon, <1>1, NatLessThanWellFounded

(* A non-empty set of natural numbers has a least element.                 *)
LEMMA LeastExists ==
  ASSUME NEW S \in SUBSET Nat, S # {}
  PROVE  \E x \in S : \A y \in S : x <= y
<1> DEFINE R == Before
<1>1. \E x \in S : \A y \in S : ~(<<y, x>> \in R)
  <2>1. IsWellFoundedOn(R, Nat)
    BY BeforeWellFounded
  <2> HIDE DEF R
  <2> QED
    BY <2>1, WFMin
<1>2. PICK x \in S : \A y \in S : ~(<<y, x>> \in R)
  BY <1>1
<1>3. ASSUME NEW y \in S PROVE x <= y
  <2>1. <<y, x>> \in Nat \X Nat
    OBVIOUS
  <2>2. ~(y < x)
    BY <1>2, <2>1 DEF Before
  <2> QED
    BY <2>2
<1> QED
  BY <1>3

(* A set that holds 0, and with each number below n the next, holds 0..n.  *)
LEMMA PositionInduction ==
  ASSUME NEW n \in Nat, NEW S, 0 \in S, \A i \in 0..(n - 1) : i \in S => i + 1 \in S
  PROVE  0..n \subseteq S
<1> DEFINE T == {i \in 0..n : i \notin S}
<1> SUFFICES ASSUME T # {} PROVE FALSE
  OBVIOUS
<1>1. PICK x \in T : \A y \in T : x <= y
  <2>1. T \in SUBSET Nat
    OBVIOUS
  <2> QED
    BY <2>1, LeastExists
<1>2. x \in 1..n /\ x - 1 \in 0..(n - 1)
  OBVIOUS
<1>3. x - 1 \in T
  BY <1>2
<1> QED
  BY <1>1, <1>2, <1>3

(* A pass over n positions: it starts with z, and position i takes what    *)
(* the pass had before to what f[i] makes of it.                           *)
IsPassOf(g, n, z, f) ==
  \A i \in 0..n : g[i] = IF i = 0 THEN z ELSE f[i][g[i - 1]]

LEMMA PassOfExists ==
  ASSUME NEW S, NEW z \in S, NEW n \in Nat, NEW f \in [1..n -> [S -> S]]
  PROVE  \E g \in [0..n -> S] : IsPassOf(g, n, z, f)
<1> DEFINE P == {m \in 0..n : \E g \in [0..m -> S] : IsPassOf(g, m, z, f)}
<1>1. 0 \in P
  <2>1. IsPassOf([i \in 0..0 |-> z], 0, z, f)
    BY DEF IsPassOf
  <2> QED
    BY <2>1
<1>2. ASSUME NEW m \in 0..(n - 1), m \in P PROVE m + 1 \in P
  <2>1. PICK g \in [0..m -> S] : IsPassOf(g, m, z, f)
    BY <1>2
  <2> DEFINE h == [i \in 0..(m + 1) |-> IF i = m + 1 THEN f[m + 1][g[m]] ELSE g[i]]
  <2>2. f[m + 1] \in [S -> S] /\ g[m] \in S
    <3>1. m + 1 \in 1..n /\ m \in 0..m
      OBVIOUS
    <3> QED
      BY <3>1
  <2>3. h \in [0..(m + 1) -> S]
    BY <2>1, <2>2
  <2>4. ASSUME NEW i \in 0..(m + 1)
        PROVE  h[i] = IF i = 0 THEN z ELSE f[i][h[i - 1]]
    <3>1. CASE i = m + 1
      <4>1. h[i] = f[m + 1][g[m]] /\ h[i - 1] = g[m] /\ i # 0
        BY <3>1
      <4> QED
        BY <3>1, <4>1
    <3>2. CASE i \in 1..m
      <4>1. h[i] = g[i] /\ h[i - 1] = g[i - 1]
        BY <3>2
      <4>2. g[i] = f[i][g[i - 1]]
        BY <2>1, <3>2 DEF IsPassOf
      <4> QED
        BY <3>2, <4>1, <4>2
    <3>3. CASE i = 0
      BY <2>1, <3>3 DEF IsPassOf
    <3> QED
      BY <3>1, <3>2, <3>3
  <2>5. IsPassOf(h, m + 1, z, f)
    BY <2>4 DEF IsPassOf
  <2> QED
    BY <2>3, <2>5
<1> HIDE DEF P
<1>3. 0..n \subseteq P
  BY <1>1, <1>2, PositionInduction
<1>4. n \in P
  BY <1>3
<1> QED
  BY <1>4 DEF P

=============================================================================
