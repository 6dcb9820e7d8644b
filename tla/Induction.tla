------------------------------ MODULE Induction ------------------------------
(***************************************************************************)
(* Induction over the natural numbers with a set in the place of the       *)
(* predicate: the induction theorems of the library take an operator as    *)
(* their parameter, which the provers cannot instantiate.  To prove P(n)   *)
(* for every n, apply them to {n \in Nat : P(n)}.                          *)
(***************************************************************************)
EXTENDS Integers, WellFoundedInduction, TLAPS

(***************************************************************************)
(* A set of natural numbers has a least element.                           *)
(***************************************************************************)
LEMMA LeastNumber ==
    ASSUME NEW T, T \subseteq Nat, T # {}
    PROVE  \E x \in T : \A y \in T : x <= y
<1> DEFINE R == OpToRel(<, Nat)
<1>1. IsWellFoundedOn(R, Nat)
  BY NatLessThanWellFounded, Zenon
<1>2. \A x, y \in Nat : x < y => <<x, y>> \in R
  BY DEF OpToRel
<1> HIDE DEF R
<1>3. PICK x \in T : \A y \in T : ~(<<y, x>> \in R)
  BY <1>1, WFMin
<1>4. ASSUME NEW y \in T PROVE x <= y
  <2>1. ~(<<y, x>> \in R) /\ x \in Nat /\ y \in Nat
    BY <1>3
  <2>2. ~(y < x)
    BY <1>2, <2>1
  <2> QED
    BY <2>1, <2>2
<1> QED
  BY <1>4

(***************************************************************************)
(* Induction from 0 up to a bound n.                                       *)
(***************************************************************************)
LEMMA UpTo ==
    ASSUME NEW n \in Nat, NEW P, 0 \in P,
           \A i \in 0 .. n - 1 : i \in P => i + 1 \in P
    PROVE  \A i \in 0 .. n : i \in P
<1> DEFINE T == {i \in 0 .. n : i \notin P}
<1> SUFFICES ASSUME T # {} PROVE FALSE
  OBVIOUS
<1>1. PICK x \in T : \A y \in T : x <= y
  <2>1. T \subseteq Nat
    OBVIOUS
  <2> HIDE DEF T
  <2> QED
    BY <2>1, LeastNumber
<1>2. x - 1 \in 0 .. n - 1 /\ x - 1 \notin T
  BY <1>1
<1>3. x - 1 \in P /\ (x - 1) + 1 = x
  BY <1>2
<1> QED
  BY <1>1, <1>2, <1>3

(***************************************************************************)
(* Induction from n down to 1.                                             *)
(***************************************************************************)
LEMMA DownFrom ==
    ASSUME NEW n \in Nat, NEW P,
           \A i \in 1 .. n : (\A j \in i + 1 .. n : j \in P) => i \in P
    PROVE  \A i \in 1 .. n : i \in P
<1> DEFINE T == {d \in 0 .. n - 1 : n - d \notin P}
<1>1. SUFFICES ASSUME NEW e \in 1 .. n, e \notin P PROVE FALSE
  OBVIOUS
<1>2. n - e \in T
  BY <1>1
<1>3. PICK d \in T : \A y \in T : d <= y
  <2>1. T \subseteq Nat
    OBVIOUS
  <2> HIDE DEF T
  <2> QED
    BY <1>2, <2>1, LeastNumber
<1>4. ASSUME NEW j \in (n - d) + 1 .. n PROVE j \in P
  <2>1. n - j \in 0 .. n - 1 /\ n - j < d /\ n - (n - j) = j
    BY <1>3
  <2>2. n - j \notin T
    BY <1>3, <2>1
  <2> QED
    BY <2>1, <2>2
<1>5. n - d \in 1 .. n
  BY <1>3
<1> QED
  BY <1>3, <1>4, <1>5

=============================================================================
