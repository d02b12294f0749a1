------------------------------- MODULE Induction -------------------------------
(***************************************************************************)
(* Induction on natural numbers, and functions defined by recursion on     *)
(* them, in a form that the provers can use: about a set of numbers and a  *)
(* function, where the library's theorems have an operator for parameter.  *)
(* All rests on the order of the natural numbers being well founded.       *)
(***************************************************************************)
EXTENDS Integers, WellFoundedInduction, TLAPS

Smaller == {p \in Nat \X Nat : p[1] < p[2]}

LEMMA SmallerIsWellFounded == IsWellFoundedOn(Smaller, Nat)
  BY NatLessThanWellFounded DEF OpToRel, Smaller

(* A set of numbers that holds 0 and, with a number, the next one, holds   *)
(* them all.                                                               *)
LEMMA InductionOnNat ==
  ASSUME NEW S, 0 \in S, \A n \in Nat : n \in S => n + 1 \in S
  PROVE  \A n \in Nat : n \in S
<1> DEFINE T == Nat \ S
<1>1. SUFFICES ASSUME T # {} PROVE FALSE
  OBVIOUS
<1>2. \E x \in T : \A y \in T : ~(<<y, x>> \in Smaller)
  <2>1. T \subseteq Nat
    OBVIOUS
  <2> HIDE DEF T
  <2> QED
    BY <1>1, <2>1, SmallerIsWellFounded, WFMin
<1>3. PICK x \in T : \A y \in T : ~(<<y, x>> \in Smaller)
  BY <1>2
<1>4. x # 0 /\ x - 1 \in Nat
  OBVIOUS
<1>5. <<x - 1, x>> \in Smaller
  BY <1>4 DEF Smaller
<1>6. x - 1 \in S
  BY <1>3, <1>4, <1>5
<1>7. (x - 1) + 1 \in S
  BY <1>4, <1>6
<1> QED
  BY <1>7

(* The same for the numbers up to a limit.                                 *)
LEMMA InductionUpTo ==
  ASSUME NEW N \in Nat, NEW S, 0 \in S, \A n \in 0 .. N - 1 : n \in S => n + 1 \in S
  PROVE  \A n \in 0 .. N : n \in S
<1> DEFINE T == {n \in Nat : n <= N => n \in S}
<1>1. 0 \in T
  OBVIOUS
<1>2. \A n \in Nat : n \in T => n + 1 \in T
  OBVIOUS
<1>3. \A n \in Nat : n \in T
  <2> HIDE DEF T
  <2> QED
    BY <1>1, <1>2, InductionOnNat
<1> QED
  BY <1>3

(* A number is in the set when all smaller ones are.                       *)
LEMMA StrongInduction ==
  ASSUME NEW S, \A n \in Nat : (\A m \in 0 .. n - 1 : m \in S) => n \in S
  PROVE  \A n \in Nat : n \in S
<1> DEFINE T == {n \in Nat : \A m \in 0 .. n - 1 : m \in S}
<1>1. 0 \in T
  OBVIOUS
<1>2. \A n \in Nat : n \in T => n + 1 \in T
  <2> SUFFICES ASSUME NEW n \in Nat, n \in T, NEW m \in 0 .. n PROVE m \in S
    OBVIOUS
  <2>1. n \in S
    OBVIOUS
  <2>2. m \in 0 .. n - 1 \/ m = n
    OBVIOUS
  <2> QED
    BY <2>1, <2>2
<1>3. \A n \in Nat : n \in T
  <2> HIDE DEF T
  <2> QED
    BY <1>1, <1>2, InductionOnNat
<1> QED
  BY <1>3

-----------------------------------------------------------------------------

(* f takes the value c at 0, and F tells each value from the one before.   *)
Iterates(f, N, c, F) ==
  /\ f[0] = c
  /\ \A n \in 1 .. N : f[n] = F[<<n, f[n - 1]>>]

(* There is such a function.                                               *)
LEMMA IterationExists ==
  ASSUME NEW N \in Nat, NEW X, NEW c \in X, NEW F \in [(1 .. N) \X X -> X]
  PROVE  \E f \in [0 .. N -> X] : Iterates(f, N, c, F)
<1> DEFINE S == {m \in 0 .. N : \E f \in [0 .. m -> X] : Iterates(f, m, c, F)}
<1>1. 0 \in S
  <2>1. [k \in 0 .. 0 |-> c] \in [0 .. 0 -> X] /\ Iterates([k \in 0 .. 0 |-> c], 0, c, F)
    BY DEF Iterates
  <2> QED
    BY <2>1
<1>2. ASSUME NEW m \in 0 .. N - 1, m \in S
      PROVE  m + 1 \in S
  <2>1. PICK f \in [0 .. m -> X] : Iterates(f, m, c, F)
    BY <1>2
  <2> DEFINE g == [k \in 0 .. m + 1 |-> IF k = m + 1 THEN F[<<m + 1, f[m]>>] ELSE f[k]]
  <2>2. f[m] \in X /\ F[<<m + 1, f[m]>>] \in X
    <3>1. f[m] \in X /\ m + 1 \in 1 .. N
      OBVIOUS
    <3>2. <<m + 1, f[m]>> \in (1 .. N) \X X
      BY <3>1
    <3> QED
      BY <3>1, <3>2
  <2>3. g \in [0 .. m + 1 -> X]
    BY <2>2
  <2>4. g[0] = c
    BY <2>1 DEF Iterates
  <2>5. ASSUME NEW k \in 1 .. m + 1
        PROVE  g[k] = F[<<k, g[k - 1]>>]
    <3>1. CASE k = m + 1
      <4>1. k - 1 = m /\ k - 1 \in 0 .. m + 1 /\ k - 1 # m + 1
        BY <3>1
      <4>2. g[k - 1] = f[m] /\ g[k] = F[<<m + 1, f[m]>>]
        BY <3>1, <4>1
      <4> HIDE DEF g
      <4> QED
        BY <3>1, <4>2
    <3>2. CASE k # m + 1
      <4>1. k \in 1 .. m /\ k - 1 \in 0 .. m + 1 /\ k - 1 # m + 1 /\ k \in 0 .. m + 1
        BY <3>2
      <4>2. g[k] = f[k] /\ g[k - 1] = f[k - 1]
        BY <3>2, <4>1
      <4> QED
        BY <2>1, <4>1, <4>2 DEF Iterates
    <3> QED
      BY <3>1, <3>2
  <2>6. Iterates(g, m + 1, c, F)
    BY <2>4, <2>5 DEF Iterates
  <2>7. m + 1 \in 0 .. N
    OBVIOUS
  <2> QED
    BY <2>3, <2>6, <2>7
<1>3. \A m \in 0 .. N : m \in S
  <2> HIDE DEF S
  <2> QED
    BY <1>1, <1>2, InductionUpTo
<1> QED
  BY <1>3

(* What holds at 0 and is handed on to the next number holds of all.       *)
LEMMA IterationTyped ==
  ASSUME NEW N \in Nat, NEW X, NEW f, f[0] \in X,
         \A n \in 1 .. N : f[n - 1] \in X => f[n] \in X
  PROVE  \A n \in 0 .. N : f[n] \in X
<1> DEFINE S == {n \in 0 .. N : f[n] \in X}
<1>1. 0 \in S
  OBVIOUS
<1>2. ASSUME NEW n \in 0 .. N - 1, n \in S
      PROVE  n + 1 \in S
  <2>1. n + 1 \in 1 .. N /\ n + 1 \in 0 .. N /\ (n + 1) - 1 = n
    OBVIOUS
  <2> QED
    BY <1>2, <2>1
<1>3. \A n \in 0 .. N : n \in S
  <2> HIDE DEF S
  <2> QED
    BY <1>1, <1>2, InductionUpTo
<1> QED
  BY <1>3
=============================================================================
