---------------------------- MODULE NatRecursion ----------------------------
(***************************************************************************)
(* Induction over the natural numbers, and the existence of the functions  *)
(* that are defined by recursion on them.                                  *)
(*                                                                         *)
(* The induction theorems of the library take the property as an operator; *)
(* here it is a set, and the well-foundedness of < is used through WFMin.  *)
(* What is defined by f[n \in Nat] == Step(n, ... f[n - 1] ...) is an      *)
(* instance of this module, with its own First and Step.                   *)
(***************************************************************************)
EXTENDS Naturals, TLAPS, WellFoundedInduction

CONSTANTS First, Step(_, _)

f[n \in Nat] == Step(n, IF n = 0 THEN First ELSE f[n - 1])

-----------------------------------------------------------------------------
(* Induction *)

Below == {ss \in Nat \X Nat : ss[1] < ss[2]}

LEMMA BelowWellFounded == IsWellFoundedOn(Below, Nat)
BY NatLessThanWellFounded DEF OpToRel, Below

\* A set with 0, and with the successor of every number in it, has every number.
LEMMA SetInduction ==
    ASSUME NEW S, 0 \in S, \A n \in Nat : n \in S => n + 1 \in S
    PROVE  Nat \subseteq S
<1> DEFINE T == Nat \ S
<1>1. SUFFICES ASSUME T # {} PROVE FALSE OBVIOUS
<1>2. PICK x \in T : \A y \in T : <<y, x>> \notin Below
      BY <1>1, WFMin, BelowWellFounded, T \subseteq Nat
<1>3. x # 0 /\ x - 1 \in Nat /\ x - 1 < x OBVIOUS
<1>4. x - 1 \in T BY <1>3, (x - 1) + 1 = x
<1>5. <<x - 1, x>> \in Below BY <1>3 DEF Below
<1>6. QED BY <1>2, <1>4, <1>5

-----------------------------------------------------------------------------
(* Recursion *)

\* g is the function up to n.
Upto(g, n) == g = [m \in 0 .. n |-> Step(m, IF m = 0 THEN First ELSE g[m - 1])]

LEMMA Exist == \A n \in Nat : \E g : Upto(g, n)
<1> DEFINE S == {n \in Nat : \E g : Upto(g, n)}
<1>1. 0 \in S
  <2> DEFINE g == [m \in 0 .. 0 |-> Step(0, First)]
  <2>1. Upto(g, 0) BY DEF Upto
  <2>2. QED BY <2>1
<1>2. ASSUME NEW n \in Nat, n \in S PROVE n + 1 \in S
  <2>1. PICK g : Upto(g, n) BY <1>2
  <2> DEFINE h == [m \in 0 .. n + 1 |-> IF m = n + 1 THEN Step(m, g[n]) ELSE g[m]]
  <2>2. ASSUME NEW m \in 0 .. n + 1
        PROVE  h[m] = Step(m, IF m = 0 THEN First ELSE h[m - 1])
        BY <2>1 DEF Upto
  <2>3. Upto(h, n + 1) BY <2>2 DEF Upto
  <2>4. QED BY <2>3
<1>3. Nat \subseteq S
  <2> HIDE DEF S
  <2>1. QED BY <1>1, <1>2, SetInduction
<1>4. QED BY <1>3

LEMMA Unique ==
    ASSUME NEW g, NEW h, NEW a \in Nat, NEW b \in Nat, Upto(g, a), Upto(h, b), a <= b
    PROVE  \A n \in Nat : n <= a => g[n] = h[n]
<1> DEFINE S == {n \in Nat : n <= a => g[n] = h[n]}
<1>1. 0 \in S BY DEF Upto
<1>2. ASSUME NEW n \in Nat, n \in S PROVE n + 1 \in S
  <2>1. SUFFICES ASSUME n + 1 <= a PROVE g[n + 1] = h[n + 1] OBVIOUS
  <2>2. n + 1 \in 0 .. a /\ n + 1 \in 0 .. b /\ (n + 1) - 1 = n /\ n + 1 # 0 BY <2>1
  <2>3. g[n + 1] = Step(n + 1, g[n]) /\ h[n + 1] = Step(n + 1, h[n])
        BY <2>2 DEF Upto
  <2>4. g[n] = h[n] BY <1>2, <2>1
  <2>5. QED BY <2>3, <2>4
<1>3. Nat \subseteq S
  <2> HIDE DEF S
  <2>1. QED BY <1>1, <1>2, SetInduction
<1>4. QED BY <1>3

\* The definition has a solution: f is what its definition says.
LEMMA Recursion == f = [n \in Nat |-> Step(n, IF n = 0 THEN First ELSE f[n - 1])]
<1> DEFINE G(n) == CHOOSE g : Upto(g, n)
           F == [n \in Nat |-> G(n)[n]]
<1>1. \A n \in Nat : Upto(G(n), n) BY Exist
<1> HIDE DEF G
<1>2. ASSUME NEW n \in Nat PROVE F[n] = Step(n, IF n = 0 THEN First ELSE F[n - 1])
  <2>1. F[n] = G(n)[n] OBVIOUS
  <2>2. n \in 0 .. n OBVIOUS
  <2>3. G(n)[n] = Step(n, IF n = 0 THEN First ELSE G(n)[n - 1])
        BY <1>1, <2>2 DEF Upto
  <2>4. CASE n = 0 BY <2>1, <2>3, <2>4
  <2>5. CASE n # 0
    <3>1. n - 1 \in Nat /\ n - 1 <= n BY <2>5
    <3>2. F[n - 1] = G(n - 1)[n - 1] BY <3>1
    <3>3. G(n - 1)[n - 1] = G(n)[n - 1] BY <1>1, <3>1, Unique
    <3>4. QED BY <2>1, <2>3, <2>5, <3>2, <3>3
  <2>6. QED BY <2>4, <2>5
<1>3. F = [n \in Nat |-> Step(n, IF n = 0 THEN First ELSE F[n - 1])] BY <1>2
<1> HIDE DEF F
<1>4. QED BY <1>3 DEF f
=============================================================================
