-------------------------- MODULE Recursion_proofs --------------------------
(***************************************************************************)
(* Induction for loops over data.  The induction theorems of the library   *)
(* take a predicate as an operator; here it is a set, and what a loop does *)
(* in one turn is a function, so that a proof can name them.               *)
(***************************************************************************)
EXTENDS Integers, WellFoundedInduction, TLAPS

(* A set of natural numbers that is not empty has a least element.         *)
LEMMA LeastNumber ==
  ASSUME NEW T, T \subseteq Nat, T # {}
  PROVE  \E x \in T : \A y \in T : x <= y
<1> DEFINE R == {ss \in Nat \X Nat : ss[1] < ss[2]}
<1>1. IsWellFoundedOn(R, Nat)
  BY NatLessThanWellFounded DEF OpToRel
<1>2. ASSUME NEW x \in Nat, NEW y \in Nat, y < x PROVE <<y, x>> \in R
  BY <1>2
<1> HIDE DEF R
<1>3. PICK x \in T : \A y \in T : ~(<<y, x>> \in R)
  BY <1>1, WFMin
<1>4. ASSUME NEW y \in T PROVE x <= y
  <2>1. x \in Nat /\ y \in Nat /\ ~(y < x)
    BY <1>2, <1>3
  <2> QED
    BY <2>1
<1> QED
  BY <1>4

(* What holds of 0, and of a number when it holds of the one before it,    *)
(* holds of all up to N.                                                   *)
LEMMA Counting ==
  ASSUME NEW N \in Nat, NEW T, 0 \in T,
         \A n \in 1 .. N : n - 1 \in T => n \in T
  PROVE  \A n \in 0 .. N : n \in T
<1> SUFFICES ASSUME NEW m \in 0 .. N, m \notin T PROVE FALSE
  OBVIOUS
<1> DEFINE U == {n \in 0 .. N : n \notin T}
<1>1. U \subseteq Nat /\ U # {}
  OBVIOUS
<1>2. PICK x \in U : \A y \in U : x <= y
  BY <1>1, LeastNumber
<1>3. x # 0 /\ x \in 1 .. N /\ x - 1 \in 0 .. N
  BY <1>2
<1>4. x - 1 \notin U
  BY <1>2, <1>3
<1> QED
  BY <1>2, <1>3, <1>4

(* A loop over 1 .. N that starts with the value init of S and whose n-th  *)
(* turn makes turn[n][x] of x; f is what it has after each turn.           *)
Turns(N, S, turn) == \A n \in 1 .. N : \A x \in S : turn[n][x] \in S
Run(N, S, init, turn, f) ==
  /\ f \in [0 .. N -> S]
  /\ f[0] = init
  /\ \A n \in 1 .. N : f[n] = turn[n][f[n - 1]]

(* There is such an f.                                                     *)
LEMMA RunExists ==
  ASSUME NEW N \in Nat, NEW S, NEW init \in S, NEW turn, Turns(N, S, turn)
  PROVE  \E f : Run(N, S, init, turn, f)
<1> DEFINE T == {m \in 0 .. N : \E f : Run(m, S, init, turn, f)}
<1>1. 0 \in T
  <2> DEFINE g == [n \in 0 .. 0 |-> init]
  <2>1. g \in [0 .. 0 -> S] /\ g[0] = init
    OBVIOUS
  <2>2. 1 .. 0 = {} /\ 0 \in 0 .. N
    OBVIOUS
  <2> HIDE DEF g
  <2>3. Run(0, S, init, turn, g)
    BY <2>1, <2>2 DEF Run
  <2> QED
    BY <2>2, <2>3
<1>2. ASSUME NEW m \in 1 .. N, m - 1 \in T PROVE m \in T
  <2>1. PICK f : Run(m - 1, S, init, turn, f)
    BY <1>2
  <2>2. /\ f \in [0 .. m - 1 -> S] /\ f[0] = init
        /\ \A n \in 1 .. m - 1 : f[n] = turn[n][f[n - 1]]
    BY <2>1 DEF Run
  <2> DEFINE g == [n \in 0 .. m |-> IF n = m THEN turn[m][f[m - 1]] ELSE f[n]]
  <2>3. f[m - 1] \in S /\ turn[m][f[m - 1]] \in S
    BY <2>2 DEF Turns
  <2>4. g \in [0 .. m -> S]
    BY <2>2, <2>3
  <2>5. g[0] = init
    BY <2>2
  <2>6. ASSUME NEW n \in 1 .. m PROVE g[n] = turn[n][g[n - 1]]
    BY <2>2
  <2> HIDE DEF g
  <2>7. Run(m, S, init, turn, g)
    BY <2>4, <2>5, <2>6 DEF Run
  <2> QED
    BY <2>7
<1> HIDE DEF T
<1>3. N \in T
  <2>1. \A n \in 0 .. N : n \in T
    BY <1>1, <1>2, Counting
  <2> QED
    BY <2>1
<1> QED
  BY <1>3 DEF T
=============================================================================
