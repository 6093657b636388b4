----------------------------- MODULE Arithmetic -----------------------------
(***************************************************************************)
(* Lemmas about the natural numbers that the proofs share: induction       *)
(* stated of a set, the existence of a function defined by recursion, and  *)
(* division.                                                               *)
(***************************************************************************)
EXTENDS Integers, WellFoundedInduction, TLAPS

-----------------------------------------------------------------------------
(* Induction and recursion.                                                *)

LEMMA LessThan ==
  \E R : /\ IsWellFoundedOn(R, Nat)
         /\ \A m, n \in Nat : m < n => <<m, n>> \in R
<1>1. \A m, n \in Nat : m < n => <<m, n>> \in OpToRel(<, Nat)
  BY DEF OpToRel
<1>. QED
  BY <1>1, NatLessThanWellFounded, Zenon

LEMMA SetInduction ==
  ASSUME NEW S, 0 \in S, \A n \in Nat : n \in S => n + 1 \in S
  PROVE  Nat \subseteq S
<1>. SUFFICES ASSUME Nat \ S # {} PROVE FALSE
  OBVIOUS
<1>. DEFINE T == Nat \ S
<1>1. PICK R : IsWellFoundedOn(R, Nat) /\ \A m, n \in Nat : m < n => <<m, n>> \in R
  BY LessThan, Zenon
<1>2. IsWellFoundedOn(R, Nat) /\ T \subseteq Nat /\ T # {}
  BY <1>1, Zenon
<1>. HIDE DEF T
<1>3. \E m \in T : \A k \in T : ~ (<<k, m>> \in R)
  BY <1>2, WFMin, Zenon
<1>4. PICK m \in Nat \ S : \A k \in Nat \ S : <<k, m>> \notin R
  BY <1>3, Zenon DEF T
<1>5. m - 1 \in Nat /\ m - 1 < m /\ m = (m - 1) + 1
  BY <1>4
<1>6. <<m - 1, m>> \in R
  BY <1>1, <1>5
<1>7. m - 1 \in S
  BY <1>4, <1>5, <1>6
<1>. QED
  BY <1>5, <1>7

\* A recursion over 1..size has a solution.
LEMMA Solution ==
  ASSUME NEW size \in Nat, NEW step \in [(1..size) \X Nat -> Nat]
  PROVE  \E f \in [0..size -> Nat] :
           f[0] = 0 /\ \A n \in 1..size : f[n] = step[<<n, f[n - 1]>>]
<1>. DEFINE Solves(f, m) == /\ f \in [0..m -> Nat] /\ f[0] = 0
                            /\ \A n \in 1..m : f[n] = step[<<n, f[n - 1]>>]
            S == {m \in Nat : m <= size => \E f : Solves(f, m)}
<1>1. 0 \in S
  <2>1. Solves([n \in 0..0 |-> 0], 0)
    OBVIOUS
  <2>. QED
    BY <2>1
<1>2. \A m \in Nat : m \in S => m + 1 \in S
  <2>. SUFFICES ASSUME NEW m \in Nat, m + 1 <= size, \E f : Solves(f, m)
                PROVE  \E f : Solves(f, m + 1)
    <3>. HIDE DEF Solves
    <3>. QED
      OBVIOUS
  <2>. PICK f : Solves(f, m)
    OBVIOUS
  <2>. DEFINE g == [n \in 0..(m + 1) |-> IF n = m + 1 THEN step[<<m + 1, f[m]>>] ELSE f[n]]
  <2>1. f[m] \in Nat /\ m + 1 \in 1..size
    OBVIOUS
  <2>2. step[<<m + 1, f[m]>>] \in Nat
    BY <2>1
  <2>3. g \in [0..(m + 1) -> Nat] /\ g[0] = 0
    BY <2>2
  <2>4. ASSUME NEW n \in 1..(m + 1) PROVE g[n] = step[<<n, g[n - 1]>>]
    <3>1. n - 1 \in 0..(m + 1) /\ g[n - 1] = f[n - 1]
      OBVIOUS
    <3>2. CASE n = m + 1
      <4>1. g[n] = step[<<m + 1, f[m]>>] /\ n - 1 = m
        BY <3>2
      <4>. QED
        BY <3>1, <3>2, <4>1
    <3>3. CASE n # m + 1
      BY <3>1, <3>3
    <3>. QED
      BY <3>2, <3>3
  <2>. QED
    BY <2>3, <2>4
<1>. HIDE DEF S
<1>3. size \in S
  BY <1>1, <1>2, SetInduction
<1>. QED
  BY <1>3 DEF S

-----------------------------------------------------------------------------
(* Division.                                                               *)

LEMMA Division ==
  \A v, p \in Nat : p > 0 => /\ v \div p \in Nat /\ v % p \in Nat /\ v % p < p
                             /\ v = p * (v \div p) + (v % p)
  OBVIOUS

LEMMA Quotient ==
  ASSUME NEW v \in Nat, NEW p \in Nat, p > 0, NEW q \in Nat, NEW r \in Nat, r < p, v = p * q + r
  PROVE  v \div p = q
<1>. DEFINE a == v \div p
            b == v % p
<1>1. a \in Nat /\ b \in Nat /\ b < p /\ v = p * a + b
  BY Division
<1>. HIDE DEF a, b
<1>2. p * (a - q) < p /\ p * (q - a) < p
  BY <1>1
<1>3. a - q < 1 /\ q - a < 1
  BY <1>1, <1>2
<1>. QED
  BY <1>1, <1>3 DEF a

LEMMA DivStep ==
  ASSUME NEW v \in Nat, NEW p \in Nat, p > 0
  PROVE  (v \div p) \div 10 = v \div (10 * p)
<1>. DEFINE a == v \div p
            b == v % p
            c == a \div 10
            d == a % 10
<1>1. a \in Nat /\ b \in Nat /\ b < p /\ v = p * a + b
  BY Division
<1>. HIDE DEF a, b
<1>2. c \in Nat /\ d \in Nat /\ d < 10 /\ a = 10 * c + d
  BY <1>1
<1>. HIDE DEF c, d
<1>3. p * d \in Nat /\ p * d <= 9 * p
  BY <1>2
<1>4. v = (10 * p) * c + (p * d + b)
  BY <1>1, <1>2
<1>5. p * d + b \in Nat /\ p * d + b < 10 * p /\ 10 * p \in Nat /\ 10 * p > 0
  BY <1>1, <1>3
<1>6. v \div (10 * p) = c
  BY <1>2, <1>4, <1>5, Quotient, Zenon
<1>. QED
  BY <1>6 DEF a, c

LEMMA Remainder ==
  ASSUME NEW v \in Nat, NEW p \in Nat, p > 0, NEW q \in Nat, NEW r \in Nat, r < p, v = p * q + r
  PROVE  v % p = r
<1>1. v \div p = q
  BY Quotient, Zenon
<1>. QED
  BY <1>1, Division

\* What is lost at an overflow does not come back into the digits.
LEMMA ReducedBefore ==
  \A v, p, base, d \in Nat : p > 0 => ((v % p) * base + d) % p = (v * base + d) % p
<1>. SUFFICES ASSUME NEW v \in Nat, NEW p \in Nat, p > 0, NEW base \in Nat, NEW d \in Nat
              PROVE  ((v % p) * base + d) % p = (v * base + d) % p
  OBVIOUS
<1>. DEFINE q == v \div p
            b == v % p
            w == b * base + d
            s == w \div p
            t == w % p
<1>1. q \in Nat /\ b \in Nat /\ v = p * q + b
  BY Division
<1>. HIDE DEF q, b
<1>2. w \in Nat
  BY <1>1
<1>3. s \in Nat /\ t \in Nat /\ t < p /\ w = p * s + t
  BY <1>2, Division
<1>4. v * base + d = p * (q * base) + w
  BY <1>1
<1>. HIDE DEF w, s, t
<1>5. v * base + d = p * (q * base + s) + t
  BY <1>1, <1>2, <1>3, <1>4
<1>6. v * base + d \in Nat /\ q * base + s \in Nat
  BY <1>1, <1>3
<1>7. (v * base + d) % p = t
  BY <1>3, <1>5, <1>6, Remainder, Zenon
<1>. QED
  BY <1>7 DEF t, w, b
=============================================================================
