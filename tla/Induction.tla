------------------------------- MODULE Induction -------------------------------
(***************************************************************************)
(* Induction and recursion over the naturals in the first-order form the   *)
(* proofs of the readers of text and of the queues need: the library's     *)
(* rules take a predicate or a body as an operator.                        *)
(***************************************************************************)
EXTENDS Naturals, WellFoundedInduction, TLAPS

(* A set that holds 0 and the successor of each of its members holds every *)
(* natural number.                                                         *)
LEMMA SetInduction ==
  ASSUME NEW T, T \subseteq Nat, 0 \in T, \A n \in T : n + 1 \in T
  PROVE  T = Nat
<1> DEFINE R == OpToRel(<, Nat)
           C == Nat \ T
<1>1. IsWellFoundedOn(R, Nat)
  BY NatLessThanWellFounded
<1>2. \A x, y \in Nat : y < x => <<y, x>> \in R
  BY Zenon DEF OpToRel
<1> HIDE DEF R
<1> SUFFICES ASSUME C # {} PROVE FALSE
  OBVIOUS
<1>3. C \subseteq Nat
  OBVIOUS
<1> HIDE DEF C
<1>4. PICK x \in C : \A y \in C : ~(<<y, x>> \in R)
  BY <1>1, <1>3, WFMin, Zenon
<1> USE DEF C
<1>5. x # 0 /\ x - 1 \in Nat /\ x - 1 < x
  BY <1>4
<1>6. x - 1 \in T
  BY <1>2, <1>4, <1>5
<1> QED BY <1>4, <1>5, <1>6

(* The same up to a bound.                                                 *)
LEMMA BoundedInduction ==
  ASSUME NEW N \in Nat, NEW T, 0 \in T, \A n \in 0 .. (N - 1) : n \in T => n + 1 \in T
  PROVE  \A n \in 0 .. N : n \in T
<1> DEFINE U == {n \in Nat : n <= N => n \in T}
<1>1. 0 \in U /\ U \subseteq Nat
  OBVIOUS
<1>2. ASSUME NEW n \in U PROVE n + 1 \in U
  OBVIOUS
<1>3. U = Nat
  <2> HIDE DEF U
  <2> QED BY <1>1, <1>2, SetInduction
<1> QED BY <1>3

(* A function of 0 .. N whose values follow from one another by a step     *)
Defines(f, S, N, base, Step) ==
  /\ f \in [0 .. N -> S]
  /\ f[0] = base
  /\ \A n \in 1 .. N : f[n] = Step[n][f[n - 1]]

(* There is one.                                                           *)
LEMMA Recursion ==
  ASSUME NEW S, NEW base \in S, NEW N \in Nat, NEW Step \in [1 .. N -> [S -> S]]
  PROVE  \E f : Defines(f, S, N, base, Step)
<1> DEFINE T == {m \in Nat : \E f : Defines(f, S, m, base, Step)}
<1> USE DEF Defines
<1>1. 0 \in T
  <2>1. Defines([n \in 0 .. 0 |-> base], S, 0, base, Step)
    OBVIOUS
  <2> QED BY <2>1
<1>2. ASSUME NEW m \in 0 .. (N - 1), m \in T
      PROVE  m + 1 \in T
  <2>1. PICK f : Defines(f, S, m, base, Step)
    BY <1>2
  <2> DEFINE g == [n \in 0 .. (m + 1) |-> IF n = m + 1 THEN Step[n][f[m]] ELSE f[n]]
  <2>2. m + 1 \in 1 .. N /\ m \in 0 .. m /\ f[m] \in S
    BY <2>1
  <2>3. Step[m + 1][f[m]] \in S
    BY <2>2
  <2>4. g \in [0 .. (m + 1) -> S]
    BY <2>1, <2>2, <2>3
  <2>5. g[0] = base
    BY <2>1, <2>2
  <2>6. ASSUME NEW n \in 1 .. (m + 1)
        PROVE  g[n] = Step[n][g[n - 1]]
    <3>1. CASE n = m + 1
      <4>1. n - 1 = m /\ g[m] = f[m]
        BY <2>2, <3>1
      <4> QED BY <3>1, <4>1
    <3>2. CASE n # m + 1
      <4>1. n \in 1 .. m /\ n - 1 \in 0 .. m
        BY <3>2
      <4>2. g[n] = f[n] /\ g[n - 1] = f[n - 1]
        BY <4>1
      <4> QED BY <2>1, <4>1, <4>2
    <3> QED BY <3>1, <3>2
  <2> HIDE DEF g
  <2>7. Defines(g, S, m + 1, base, Step)
    BY <2>4, <2>5, <2>6
  <2>8. m + 1 \in Nat
    BY <2>2
  <2> HIDE DEF Defines
  <2> QED BY <2>7, <2>8
<1>3. N \in T
  <2> HIDE DEF T
  <2>1. \A n \in 0 .. N : n \in T
    BY <1>1, <1>2, BoundedInduction
  <2> QED BY <2>1
<1> QED BY <1>3
=============================================================================
