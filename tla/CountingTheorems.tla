---------------------------- MODULE CountingTheorems ---------------------------
(***************************************************************************)
(* Counting: induction over the natural numbers, and definitions by        *)
(* recursion on those up to some number, as facts that can be cited.       *)
(***************************************************************************)
EXTENDS Integers, WellFoundedInduction, TLAPS

-----------------------------------------------------------------------------
(* Induction over sets of natural numbers. *)

\* A set of natural numbers that is not empty has a least member.
LEMMA LeastNatural ==
    ASSUME NEW T, T \subseteq Nat, T # {}
    PROVE  \E x \in T : \A y \in T : x <= y
<1> DEFINE R == {pair \in Nat \X Nat : pair[1] < pair[2]}
<1>1. IsWellFoundedOn(R, Nat)
  BY NatLessThanWellFounded DEF OpToRel
<1> HIDE DEF R
<1>2. PICK x \in T : \A y \in T : ~ (<<y, x>> \in R)
  BY <1>1, WFMin
<1>3. ASSUME NEW y \in T PROVE x <= y
  <2>1. x \in Nat /\ y \in Nat
    OBVIOUS
  <2>2. y < x => <<y, x>> \in R
    BY <2>1 DEF R
  <2> QED BY <1>2, <2>1, <2>2
<1> QED BY <1>3

\* A set with 0 and, up to n, the number after each of its members has all
\* numbers up to n.
LEMMA CountingUp ==
    ASSUME NEW n \in Nat, NEW S, 0 \in S, \A k \in 0..n : k \in S /\ k < n => k + 1 \in S
    PROVE  \A k \in 0..n : k \in S
<1> DEFINE T == (0..n) \ S
<1> SUFFICES ASSUME T # {} PROVE FALSE
  OBVIOUS
<1>1. PICK x \in T : \A y \in T : x <= y
  <2>1. T \subseteq Nat
    OBVIOUS
  <2> QED BY <2>1, LeastNatural
<1>2. x \in 0..n /\ x \notin S /\ x # 0
  OBVIOUS
<1>3. x - 1 \in 0..n /\ x - 1 < n /\ x - 1 + 1 = x
  BY <1>2
<1>4. x - 1 \notin T
  BY <1>1, <1>3
<1>5. x - 1 \in S
  BY <1>3, <1>4
<1> QED BY <1>2, <1>3, <1>5

\* A definition by recursion on the numbers up to n has a solution.  G gives
\* the value at k from k and the value before.
LEMMA Recursion ==
    ASSUME NEW n \in Nat, NEW c \in Nat, NEW G \in [Nat \X Nat -> Nat]
    PROVE  \E f \in [0..n -> Nat] : /\ f[0] = c
                                  /\ \A k \in 1..n : f[k] = G[<<k, f[k - 1]>>]
<1> DEFINE Solves(f, m) == /\ f \in [0..m -> Nat] /\ f[0] = c
                           /\ \A k \in 1..m : f[k] = G[<<k, f[k - 1]>>]
           S == {m \in 0..n : \E f : Solves(f, m)}
<1>1. 0 \in S
  <2> DEFINE f == [k \in 0..0 |-> c]
  <2>1. Solves(f, 0)
    OBVIOUS
  <2>2. 0 \in 0..n
    OBVIOUS
  <2> HIDE DEF f, Solves
  <2> QED BY <2>1, <2>2
<1>2. ASSUME NEW m \in 0..n, m \in S, m < n
      PROVE  m + 1 \in S
  <2>1. PICK f : Solves(f, m)
    BY <1>2
  <2> DEFINE g == [k \in 0..m + 1 |-> IF k = m + 1 THEN G[<<m + 1, f[m]>>] ELSE f[k]]
  <2>2. m + 1 \in 0..n /\ m \in 0..m /\ m + 1 \in Nat
    BY <1>2
  <2>3. g \in [0..m + 1 -> Nat] /\ g[0] = c
    BY <2>1, <2>2
  <2>4. ASSUME NEW k \in 1..m + 1 PROVE g[k] = G[<<k, g[k - 1]>>]
    <3>1. CASE k = m + 1
      <4>1. k - 1 = m /\ m \in 0..m + 1 /\ m # m + 1
        BY <2>2, <3>1
      <4>2. g[k] = G[<<k, f[m]>>] /\ g[m] = f[m]
        BY <2>2, <3>1, <4>1
      <4> QED BY <4>1, <4>2
    <3>2. CASE k \in 1..m
      <4>1. g[k] = f[k] /\ g[k - 1] = f[k - 1]
        BY <3>2
      <4> QED BY <2>1, <3>2, <4>1
    <3> QED BY <3>1, <3>2
  <2>5. Solves(g, m + 1)
    BY <2>3, <2>4
  <2> HIDE DEF g, Solves
  <2> QED BY <2>2, <2>5
<1> HIDE DEF S
<1>3. n \in S
  BY <1>1, <1>2, CountingUp
<1> QED BY <1>3 DEF S

=============================================================================
