------------------------------ MODULE Induction ------------------------------
(* Induction over the natural numbers as a fact about sets, and by it that the   *)
(* functions the phase trees are described with are defined: those that go down  *)
(* a tree of numbered nodes and those that go up to its root.                    *)
EXTENDS Integers, WellFoundedInduction, TLAPS

(* Less-than is well-founded.                                                    *)
LEMMA LessThan ==
  \E R : IsWellFoundedOn(R, Nat) /\ \A x, y \in Nat : x < y => <<x, y>> \in R
<1> DEFINE R == OpToRel(<, Nat)
<1>1. IsWellFoundedOn(R, Nat)
  BY NatLessThanWellFounded
<1>2. \A x, y \in Nat : x < y => <<x, y>> \in R
  BY DEF OpToRel
<1>3. QED
  BY <1>1, <1>2

LEMMA LeastNat ==
  ASSUME NEW S, S \subseteq Nat, S # {}
  PROVE  \E m \in S : \A k \in S : m <= k
<1>1. PICK R : IsWellFoundedOn(R, Nat) /\ \A x, y \in Nat : x < y => <<x, y>> \in R
  BY LessThan
<1>2. IsWellFoundedOn(R, Nat)
  BY <1>1
<1>3. PICK m \in S : \A k \in S : ~ (<<k, m>> \in R)
  BY <1>2, WFMin
<1>4. ASSUME NEW k \in S PROVE m <= k
  <2>1. m \in Nat /\ k \in Nat /\ ~ (<<k, m>> \in R)
    BY <1>3
  <2>2. k < m => <<k, m>> \in R
    BY <1>1, <2>1
  <2>3. QED
    BY <2>1, <2>2
<1>5. QED
  BY <1>4

(* A set that has 0 and with each number the next one has them all.              *)
LEMMA NatSteps ==
  ASSUME NEW S, 0 \in S, \A k \in Nat : k \in S => k + 1 \in S
  PROVE  Nat \subseteq S
<1> SUFFICES ASSUME Nat \ S # {} PROVE FALSE
  OBVIOUS
<1>1. PICK m \in Nat \ S : \A k \in Nat \ S : m <= k
  <2> DEFINE B == Nat \ S
  <2>1. B \subseteq Nat /\ B # {}
    OBVIOUS
  <2> HIDE DEF B
  <2>2. \E m \in B : \A k \in B : m <= k
    BY <2>1, LeastNat
  <2>3. QED
    BY <2>2 DEF B
<1>2. m # 0 /\ m - 1 \in Nat
  BY <1>1
<1>3. m - 1 \in S
  BY <1>1, <1>2
<1>4. m - 1 + 1 \in S
  BY <1>2, <1>3
<1>5. QED
  BY <1>1, <1>4

-------------------------------------------------------------------------------
(* Functions over the nodes 1..L of a tree.                                      *)

(* The value of a node is its own set and those of the nodes below it ...        *)
FromBelow(f, L, own, below) == f = [n \in 1..L |-> own[n] \cup UNION {f[m] : m \in below[n]}]

(* ... or made from that of its parent.                                          *)
FromAbove(f, L, root, make, up) ==
  f = [n \in 1..L |-> IF n = 1 THEN root ELSE make[<<n, f[up[n]]>>]]

LEMMA DownTheTree ==
  ASSUME NEW L \in Nat, NEW below, NEW own,
         \A n \in 1..L : \A m \in below[n] : m \in 1..L /\ m > n
  PROVE  \E f : FromBelow(f, L, own, below)
<1> DEFINE Def(f, k) == f = [n \in (L - k + 1)..L |-> own[n] \cup UNION {f[m] : m \in below[n]}]
           S == {k \in Nat : k <= L => \E f : Def(f, k)}
<1>1. 0 \in S
  <2>1. Def([n \in (L + 1)..L |-> own[n]], 0)
    OBVIOUS
  <2>2. QED
    BY <2>1
<1>2. ASSUME NEW k \in Nat, k \in S PROVE k + 1 \in S
  <2>1. ASSUME k + 1 <= L PROVE \E f : Def(f, k + 1)
    <3>1. PICK f : Def(f, k)
      BY <1>2, <2>1
    <3> DEFINE r == L - k
               g == [n \in r..L |-> IF n = r THEN own[r] \cup UNION {f[m] : m \in below[r]} ELSE f[n]]
    <3>2. r \in 1..L /\ L - (k + 1) + 1 = r /\ L - k + 1 = r + 1
      BY <2>1
    <3>3. ASSUME NEW n \in r..L PROVE g[n] = own[n] \cup UNION {g[m] : m \in below[n]}
      <4>1. \A m \in below[n] : m \in (r + 1)..L
        BY <3>2
      <4>2. \A m \in below[n] : g[m] = f[m]
        BY <4>1, <3>2
      <4>3. UNION {g[m] : m \in below[n]} = UNION {f[m] : m \in below[n]}
        BY <4>2
      <4>4. CASE n = r
        BY <4>3, <4>4
      <4>5. CASE n # r
        <5>1. n \in (r + 1)..L
          BY <4>5, <3>2
        <5>2. f[n] = own[n] \cup UNION {f[m] : m \in below[n]}
          BY <3>1, <3>2, <5>1
        <5>3. QED
          BY <4>3, <4>5, <5>2
      <4>6. QED
        BY <4>4, <4>5
    <3>4. g = [n \in r..L |-> own[n] \cup UNION {g[m] : m \in below[n]}]
      BY <3>3
    <3>5. Def(g, k + 1)
      BY <3>2, <3>4
    <3>6. QED
      BY <3>5
  <2> HIDE DEF Def
  <2>2. QED
    BY <2>1
<1>3. L \in S
  <2> HIDE DEF S
  <2>1. QED
    BY <1>1, <1>2, NatSteps
<1>4. QED
  BY <1>3 DEF FromBelow

LEMMA UpTheTree ==
  ASSUME NEW L \in Nat, NEW up, \A n \in 2..L : up[n] \in 1..L /\ up[n] < n,
         NEW V, NEW root \in V, NEW make \in [(2..L) \X V -> V]
  PROVE  \E f \in [1..L -> V] : FromAbove(f, L, root, make, up)
<1> DEFINE Def(f, k) == /\ f \in [1..k -> V]
                        /\ f = [n \in 1..k |-> IF n = 1 THEN root ELSE make[<<n, f[up[n]]>>]]
           S == {k \in Nat : k <= L => \E f : Def(f, k)}
<1>1. 0 \in S
  <2>1. Def([n \in 1..0 |-> root], 0)
    OBVIOUS
  <2>2. QED
    BY <2>1
<1>2. ASSUME NEW k \in Nat, k \in S PROVE k + 1 \in S
  <2> SUFFICES ASSUME k + 1 <= L PROVE \E f : Def(f, k + 1)
    OBVIOUS
  <2>1. PICK f : Def(f, k)
    BY <1>2
  <2> DEFINE g == [n \in 1..(k + 1) |-> IF n = k + 1 THEN IF n = 1 THEN root ELSE make[<<n, f[up[n]]>>] ELSE f[n]]
  <2>2. ASSUME NEW n \in 1..(k + 1)
        PROVE  g[n] \in V /\ g[n] = IF n = 1 THEN root ELSE make[<<n, g[up[n]]>>]
    <3>1. CASE n = 1
      BY <2>1, <3>1
    <3>2. CASE n # 1
      <4>1. up[n] \in 1..k /\ n \in 2..L
        BY <3>2
      <4>2. g[up[n]] = f[up[n]] /\ f[up[n]] \in V
        <5>1. up[n] # k + 1 /\ up[n] \in 1..(k + 1)
          BY <4>1
        <5>2. QED
          BY <2>1, <4>1, <5>1
      <4>3. g[n] = make[<<n, f[up[n]]>>]
        BY <2>1, <3>2
      <4>4. QED
        BY <3>2, <4>1, <4>2, <4>3
    <3>3. QED
      BY <3>1, <3>2
  <2>3. Def(g, k + 1)
    BY <2>2
  <2>4. QED
    BY <2>3
<1>3. L \in S
  <2> HIDE DEF S
  <2>1. QED
    BY <1>1, <1>2, NatSteps
<1>4. QED
  BY <1>3 DEF FromAbove
===============================================================================
