-------------------------- MODULE ArithmeticLemmas --------------------------
(***************************************************************************)
(* Facts about natural numbers and division that the proofs of several     *)
(* components cite.                                                        *)
(***************************************************************************)
EXTENDS Integers, FiniteSetTheorems, WellFoundedInduction, TLAPS

(* Every non-empty set of naturals has a least element; the intervals that *)
(* end at its elements are finite sets, which inclusion orders well.  It   *)
(* stands for induction wherever a proof needs it.                         *)
LEMMA NaturalMinimum ==
  ASSUME NEW T \in SUBSET Nat, T # {}
  PROVE  \E x \in T : \A y \in T : x <= y
<1> DEFINE Below == {0..x : x \in T}
<1>1. Below \subseteq FiniteSubsetsOf(Nat) /\ Below # {}
  <2>1. ASSUME NEW x \in T PROVE 0..x \in FiniteSubsetsOf(Nat)
    <3>1. x \in Nat /\ 0..x \in SUBSET Nat
      OBVIOUS
    <3>2. IsFiniteSet(0..x)
      BY <3>1, FS_Interval
    <3> QED BY <3>1, <3>2 DEF FiniteSubsetsOf
  <2> QED BY <2>1
<1>2. PICK b \in Below : \A c \in Below : <<c, b>> \notin StrictSubsetOrdering(Nat)
  BY <1>1, FS_StrictSubsetOrderingWellFounded, WFMin
<1>3. PICK x \in T : b = 0..x
  OBVIOUS
<1>4. ASSUME NEW y \in T, y < x PROVE FALSE
  <2>1. <<0..y, 0..x>> \in StrictSubsetOrdering(Nat)
    BY <1>4, x \in 0..x, x \notin 0..y DEF StrictSubsetOrdering
  <2> QED BY <2>1, <1>2, <1>3
<1> QED BY <1>4

(* A non-empty set of naturals with an upper bound has a greatest element. *)
LEMMA NaturalMaximum ==
  ASSUME NEW n \in Nat, NEW T \in SUBSET (0..n), T # {}
  PROVE  \E x \in T : \A y \in T : x >= y
<1> DEFINE U == {n - x : x \in T}
<1>1. U \in SUBSET Nat
  <2> SUFFICES ASSUME NEW x \in T PROVE n - x \in Nat
    OBVIOUS
  <2>1. x \in 0..n
    OBVIOUS
  <2> QED BY <2>1
<1>2. PICK u \in U : \A v \in U : u <= v
  <2>1. U # {}
    OBVIOUS
  <2> QED BY <1>1, <2>1, NaturalMinimum
<1>3. PICK x \in T : u = n - x
  OBVIOUS
<1>4. ASSUME NEW y \in T PROVE x >= y
  <2>1. n - y \in U
    OBVIOUS
  <2> QED BY <2>1, <1>2, <1>3
<1> QED BY <1>4

(* Quotient and remainder of a natural number.                             *)
LEMMA DivMod ==
  ASSUME NEW a \in Nat, NEW b \in Nat \ {0}
  PROVE  /\ a \div b \in Nat
         /\ a % b \in 0..(b - 1)
         /\ a = (a \div b) * b + (a % b)
  BY SMTT(30)

(* Multiples of a number lie at least that number apart.                   *)
LEMMA MultiplesApart ==
  ASSUME NEW a \in Nat, NEW b \in Nat, NEW p \in Nat \ {0}
  PROVE  /\ a * p \in Nat
         /\ a = b \/ a * p + p <= b * p \/ b * p + p <= a * p
         /\ a = b \/ a = b + 1 \/ b = a + 1
              \/ a * p + p + p <= b * p \/ b * p + p + p <= a * p
         /\ (a + 1) * p = a * p + p
<1>1. \A n \in Nat : (n + 1) * p = n * p + p /\ (n + 2) * p = n * p + p + p
  BY SMTT(30)
<1>2. \A m, n \in Nat : m <= n => m * p <= n * p
  BY SMTT(30)
<1>3. a * p \in Nat /\ b * p \in Nat
  BY SMTT(30)
<1>4. a + 1 <= b => a * p + p <= b * p
  BY <1>1, <1>2
<1>5. b + 1 <= a => b * p + p <= a * p
  BY <1>1, <1>2
<1>6. a + 2 <= b => a * p + p + p <= b * p
  BY <1>1, <1>2
<1>7. b + 2 <= a => b * p + p + p <= a * p
  BY <1>1, <1>2
<1>8. a = b \/ a + 1 <= b \/ b + 1 <= a
  OBVIOUS
<1>9. a = b \/ a = b + 1 \/ b = a + 1 \/ a + 2 <= b \/ b + 2 <= a
  OBVIOUS
<1> QED BY <1>1, <1>3, <1>4, <1>5, <1>6, <1>7, <1>8, <1>9

(* The multiple of p below a number: it is the only one in its stretch, and *)
(* that of a greater number is the same or at least p greater.             *)
LEMMA MultipleBelow ==
  ASSUME NEW x \in Nat, NEW y \in Nat, NEW p \in Nat \ {0}
  PROVE  /\ (x \div p) * p \in Nat
         /\ (x \div p) * p <= x /\ x < (x \div p) * p + p
         /\ x <= y => \/ (x \div p) * p = (y \div p) * p
                      \/ (x \div p) * p + p <= (y \div p) * p
<1> DEFINE a == x \div p
           b == y \div p
<1>1. /\ a \in Nat /\ x % p \in 0..(p - 1) /\ x = a * p + (x % p)
      /\ b \in Nat /\ y % p \in 0..(p - 1) /\ y = b * p + (y % p)
  BY DivMod
<1> HIDE DEF a, b
<1>2. /\ a * p \in Nat /\ b * p \in Nat
      /\ a = b \/ a * p + p <= b * p \/ b * p + p <= a * p
  BY <1>1, MultiplesApart
<1>3. a * p \in Nat /\ a * p <= x /\ x < a * p + p /\ y < b * p + p /\ b * p <= y
  BY <1>1, <1>2
<1>4. x <= y => a * p = b * p \/ a * p + p <= b * p
  BY <1>2, <1>3
<1> QED BY <1>3, <1>4 DEF a, b

(* Quotient and remainder of an integer, and the remainder of a number     *)
(* that is given by a multiple and what it exceeds it by.                  *)
LEMMA IntDivMod ==
  ASSUME NEW a \in Int, NEW b \in Nat \ {0}
  PROVE  a \div b \in Int /\ a % b \in 0..(b - 1) /\ a = (a \div b) * b + (a % b)
  BY SMTT(30)

LEMMA RemainderOf ==
  ASSUME NEW q \in Int, NEW b \in Nat \ {0}, NEW r \in 0..(b - 1)
  PROVE  q * b \in Int /\ (q * b + r) % b = r /\ (q * b + r) \div b = q
  BY SMTT(30)

(* Products of integers.                                                   *)
LEMMA Products ==
  ASSUME NEW a \in Int, NEW b \in Int, NEW c \in Int
  PROVE  /\ a * b \in Int /\ a * b = b * a
         /\ (a + b) * c = a * c + b * c /\ (a - b) * c = a * c - b * c
         /\ a * (b * c) = (a * b) * c
  BY SMTT(30)
=============================================================================
