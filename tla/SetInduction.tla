---------------------------- MODULE SetInduction ----------------------------
(***************************************************************************)
(* Induction over the naturals, stated with sets: the theorems of the      *)
(* library take a predicate as their parameter, which the provers cannot   *)
(* instantiate.                                                            *)
(***************************************************************************)
EXTENDS Integers, FiniteSetTheorems, TLAPS

(* Every set of naturals has a least element ... *)
LEMMA LeastElement ==
    ASSUME NEW T \in SUBSET Nat, T /= {}
    PROVE  \E m \in T : \A n \in T : m <= n
  <1> DEFINE R == OpToRel(<, Nat)
  <1>1. IsWellFoundedOn(R, Nat)
    BY NatLessThanWellFounded, Zenon
  <1>2. \A x, y \in Nat : x < y => <<x, y>> \in R
    BY DEF OpToRel
  <1> HIDE DEF R
  <1>3. PICK m \in T : \A n \in T : <<n, m>> \notin R
    BY <1>1, WFMin, Zenon
  <1>4. \A n \in T : ~(n < m)
    BY <1>2, <1>3, Zenon
  <1> QED BY <1>3, <1>4

(* ... so a set that 0 is in, and n whenever n - 1 is, holds all of 0 .. N. *)
LEMMA InductionUpTo ==
    ASSUME NEW N \in Nat, NEW S, 0 \in S,
           \A n \in 1 .. N : n - 1 \in S => n \in S
    PROVE  0 .. N \subseteq S
  <1> SUFFICES ASSUME (0 .. N) \ S /= {}
               PROVE  FALSE
    OBVIOUS
  <1>1. PICK m \in (0 .. N) \ S : \A n \in (0 .. N) \ S : m <= n
    <2>1. (0 .. N) \ S \in SUBSET Nat
      OBVIOUS
    <2> QED BY <2>1, LeastElement, Zenon
  <1> QED BY <1>1

\* f is the function on 0 .. N with the value base at 0 that step takes from each
\* value to the next.
Recursion(f, N, T, base, step) ==
    /\ f \in [0 .. N -> T]
    /\ f[0] = base /\ \A i \in 1 .. N : f[i] = step[i][f[i - 1]]

(* A function may be defined by recursion. *)
LEMMA RecursionUpTo ==
    ASSUME NEW N \in Nat, NEW T, NEW base \in T, NEW step \in [1 .. N -> [T -> T]]
    PROVE  \E f : Recursion(f, N, T, base, step)
  <1> DEFINE Follows(f, n) == f[0] = base /\ \A i \in 1 .. n : f[i] = step[i][f[i - 1]]
             S == {n \in 0 .. N : \E f \in [0 .. n -> T] : Follows(f, n)}
  <1>1. 0 \in S
    <2> DEFINE z == [i \in 0 .. 0 |-> base]
    <2>1. z \in [0 .. 0 -> T] /\ Follows(z, 0)
      OBVIOUS
    <2> HIDE DEF z, Follows
    <2>2. 0 \in 0 .. N /\ \E f \in [0 .. 0 -> T] : Follows(f, 0)
      BY <2>1
    <2> QED BY <2>2
  <1>2. ASSUME NEW n \in 1 .. N, n - 1 \in S
        PROVE  n \in S
    <2>1. PICK f \in [0 .. n - 1 -> T] : Follows(f, n - 1)
      BY <1>2
    <2> DEFINE g == [i \in 0 .. n |-> IF i = n THEN step[n][f[n - 1]] ELSE f[i]]
    <2>2. step[n][f[n - 1]] \in T
      <3>1. f[n - 1] \in T /\ step[n] \in [T -> T]
        OBVIOUS
      <3> QED BY <3>1
    <2>3. g \in [0 .. n -> T]
      BY <2>2
    <2>4. \A i \in 0 .. n : g[i] = IF i = n THEN step[n][f[n - 1]] ELSE f[i]
      OBVIOUS
    <2>5. Follows(g, n)
      <3> HIDE DEF g
      <3>1. g[0] = base
        BY <2>1, <2>4
      <3>2. \A i \in 1 .. n : g[i - 1] = f[i - 1]
        BY <2>4
      <3>3. g[n] = step[n][g[n - 1]]
        BY <2>4, <3>2
      <3>4. \A i \in 1 .. n - 1 : g[i] = step[i][g[i - 1]]
        BY <2>1, <2>4, <3>2
      <3> QED BY <3>1, <3>3, <3>4
    <2> HIDE DEF g, Follows
    <2> QED BY <2>3, <2>5
  <1>3. N \in S
    <2> HIDE DEF S
    <2>1. \A n \in 1 .. N : n - 1 \in S => n \in S
      BY <1>2
    <2>2. 0 .. N \subseteq S
      BY <1>1, <2>1, InductionUpTo, Zenon
    <2> QED BY <2>2
  <1> QED BY <1>3 DEF Recursion
=============================================================================
