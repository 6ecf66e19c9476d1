------------------------------- MODULE Loops --------------------------------
(***************************************************************************)
(* What a loop computes.  A recursive function stands for a loop of the    *)
(* code: its value at k is that of the variable after round k.  TLA+       *)
(* defines it as the function that satisfies its equation, if there is     *)
(* one; LoopExists is that there is one, when no round leaves a set.       *)
(***************************************************************************)
EXTENDS Naturals, WellFoundedInduction, TLAPS

\* A set that has zero, and the successor of what it has, has every number.
LEMMA SetInduction ==
    ASSUME NEW T, 0 \in T, \A n \in Nat : n \in T => n + 1 \in T
    PROVE  Nat \subseteq T
<1> DEFINE B == Nat \ T
           R == OpToRel(<, Nat)
<1> SUFFICES ASSUME B # {} PROVE FALSE
  OBVIOUS
<1>1. IsWellFoundedOn(R, Nat)
  BY NatLessThanWellFounded
<1>2. B \subseteq Nat
  OBVIOUS
<1> HIDE DEF R
<1>3. PICK x \in B : \A y \in B : ~ (<<y, x>> \in R)
  <2> HIDE DEF B
  <2> QED BY <1>1, <1>2, WFMin
<1>4. x \in Nat /\ x # 0 /\ x - 1 \in Nat
  OBVIOUS
<1>5. <<x - 1, x>> \in R
  BY <1>4 DEF R, OpToRel
<1>6. x - 1 \notin B
  BY <1>3, <1>5
<1>7. (x - 1) + 1 \in T
  BY <1>4, <1>6
<1> QED BY <1>3, <1>4, <1>7

\* A loop that begins with b and goes from x to F[<<k, x>>] in round k has a
\* sequence of values.
Loop(f, n, S, b, F) ==
    /\ f \in [0 .. n -> S] /\ f[0] = b
    /\ \A k \in 1 .. n : f[k] = F[<<k, f[k - 1]>>]

LEMMA LoopExists ==
    ASSUME NEW S, NEW b \in S, NEW N \in Nat, NEW F \in [(1 .. N) \X S -> S]
    PROVE  \E f : Loop(f, N, S, b, F)
<1> DEFINE T == {n \in Nat : n <= N => \E f : Loop(f, n, S, b, F)}
<1>1. 0 \in T
  <2>1. Loop([k \in 0 .. 0 |-> b], 0, S, b, F)
    BY DEF Loop
  <2>2. QED
    BY <2>1
<1>2. ASSUME NEW n \in Nat, n \in T PROVE n + 1 \in T
  <2>1. SUFFICES ASSUME n + 1 <= N PROVE \E f : Loop(f, n + 1, S, b, F)
    OBVIOUS
  <2>2. PICK f : Loop(f, n, S, b, F)
    BY <1>2, <2>1
  <2> DEFINE v == F[<<n + 1, f[n]>>]
             g == [k \in 0 .. n + 1 |-> IF k = n + 1 THEN v ELSE f[k]]
  <2>3. n + 1 \in 1 .. N /\ f[n] \in S /\ v \in S
    <3>1. n + 1 \in 1 .. N
      BY <2>1
    <3>2. f[n] \in S
      BY <2>2 DEF Loop
    <3>3. QED
      BY <3>1, <3>2
  <2>4. \A k \in 0 .. n : f[k] \in S
    BY <2>2 DEF Loop
  <2>5. g \in [0 .. n + 1 -> S] /\ g[0] = b
    BY <2>2, <2>3, <2>4 DEF Loop
  <2>6. ASSUME NEW k \in 1 .. n + 1 PROVE g[k] = F[<<k, g[k - 1]>>]
    <3>1. CASE k = n + 1
      BY <3>1
    <3>2. CASE k # n + 1
      <4>1. k \in 1 .. n /\ k - 1 \in 0 .. n + 1 /\ k - 1 # n + 1 /\ k \in 0 .. n + 1
        BY <3>2
      <4>2. QED
        BY <4>1, <2>2, <3>2 DEF Loop
    <3>3. QED
      BY <3>1, <3>2
  <2>7. Loop(g, n + 1, S, b, F)
    BY <2>5, <2>6 DEF Loop
  <2>8. QED
    BY <2>7
<1>3. N \in T
  <2> HIDE DEF T
  <2> QED
    BY <1>1, <1>2, SetInduction
<1>4. QED
  BY <1>3

=============================================================================
