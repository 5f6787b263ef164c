---------------------------- MODULE NaturalFacts ----------------------------
(***************************************************************************)
(* Facts about natural numbers that the proofs share: multiples of a       *)
(* constant distance, at which index blocks, inode blocks and file blocks  *)
(* lie; least elements; and induction stated about sets, as the provers    *)
(* use it.                                                                 *)
(***************************************************************************)
EXTENDS Integers, WellFoundedInduction, TLAPS

\* Multiples of a that differ are at least a apart.
LEMMA MultiplesApart ==
    ASSUME NEW i \in Nat, NEW k \in Nat, NEW a \in Nat, i < k
    PROVE  /\ i * a \in Nat
           /\ k * a \in Nat
           /\ i * a + a <= k * a
<1>1. PICK d \in Nat : k = i + 1 + d
  <2>1. k - i - 1 \in Nat /\ k = i + 1 + (k - i - 1)
    OBVIOUS
  <2> QED
    BY <2>1
<1>2. k * a = i * a + a + d * a
  BY <1>1
<1>3. i * a \in Nat /\ k * a \in Nat /\ d * a \in Nat
  BY <1>1
<1> QED
  BY <1>2, <1>3

\* Quotient and remainder.
LEMMA DivMod ==
    ASSUME NEW n \in Nat, NEW a \in Nat \ {0}
    PROVE  /\ n \div a \in Nat
           /\ n % a \in 0..(a - 1)
           /\ (n \div a) * a \in Nat
           /\ n = (n \div a) * a + (n % a)
<1>1. n \div a \in Nat /\ n % a \in 0..(a - 1) /\ n = (n \div a) * a + (n % a)
  OBVIOUS
<1> QED
  BY <1>1

\* Quotient and remainder are unique.
LEMMA DivUnique ==
    ASSUME NEW a \in Nat \ {0}, NEW l \in Nat
    PROVE  /\ l * a \in Nat
           /\ (l * a) \div a = l
           /\ (l * a) % a = 0
           /\ \A o \in 0..(a - 1) : (l * a + o) \div a = l /\ (l * a + o) % a = o
<1>1. l * a \in Nat
  OBVIOUS
<1>2. ASSUME NEW o \in 0..(a - 1) PROVE (l * a + o) \div a = l /\ (l * a + o) % a = o
  <2> DEFINE p == l * a + o
             q == p \div a
  <2>1. p \in Nat
    BY <1>1
  <2>2. /\ q \in Nat
        /\ p % a \in 0..(a - 1)
        /\ q * a \in Nat
        /\ p = q * a + (p % a)
    BY <2>1, DivMod
  <2> HIDE DEF q
  <2>3. q = l
    <3>1. ASSUME q < l PROVE FALSE
      <4>1. q * a + a <= l * a
        BY <2>2, <3>1, MultiplesApart
      <4> QED
        BY <1>1, <2>2, <4>1
    <3>2. ASSUME l < q PROVE FALSE
      <4>1. l * a + a <= q * a
        BY <2>2, <3>2, MultiplesApart
      <4> QED
        BY <1>1, <2>2, <4>1
    <3> QED
      BY <2>2, <3>1, <3>2
  <2>4. p % a = o
    BY <1>1, <2>2, <2>3
  <2> QED
    BY <2>3, <2>4 DEF q
<1>3. 0 \in 0..(a - 1) /\ l * a + 0 = l * a
  BY <1>1
<1>4. (l * a) \div a = l /\ (l * a) % a = 0
  BY <1>2, <1>3
<1> QED
  BY <1>1, <1>2, <1>4

\* A number below k * a has a quotient below k.
LEMMA DivBound ==
    ASSUME NEW n \in Nat, NEW a \in Nat \ {0}, NEW k \in Nat, n < k * a
    PROVE  n \div a < k
<1>1. /\ n \div a \in Nat
      /\ (n \div a) * a \in Nat
      /\ (n \div a) * a <= n
  BY DivMod
<1>2. SUFFICES ASSUME k <= n \div a PROVE FALSE
  BY <1>1
<1>3. k * a <= (n \div a) * a
  <2>1. CASE k = n \div a
    BY <1>1, <2>1
  <2>2. CASE k < n \div a
    BY <1>1, <2>2, MultiplesApart
  <2> QED
    BY <1>1, <1>2, <2>1, <2>2
<1>4. k * a \in Nat
  OBVIOUS
<1> QED
  BY <1>1, <1>3, <1>4

-----------------------------------------------------------------------------
\* A set of natural numbers that is not empty has a least element.
LEMMA LeastElement ==
    ASSUME NEW T, T \subseteq Nat, T # {}
    PROVE  \E x \in T : \A y \in T : x <= y
<1> DEFINE R == {ss \in Nat \X Nat : ss[1] < ss[2]}
<1>1. IsWellFoundedOn(R, Nat)
  BY NatLessThanWellFounded DEF OpToRel
<1>2. \E x \in T : \A y \in T : ~ (<<y, x>> \in R)
  <2> HIDE DEF R
  <2> QED
    BY <1>1, WFMin
<1>3. PICK x \in T : \A y \in T : ~ (<<y, x>> \in R)
  BY <1>2
<1>4. ASSUME NEW y \in T PROVE x <= y
  <2>1. x \in Nat /\ y \in Nat
    OBVIOUS
  <2>2. ~ (<<y, x>> \in R)
    BY <1>3
  <2>3. ~ (y < x)
    BY <2>1, <2>2
  <2> QED
    BY <2>1, <2>3
<1> QED
  BY <1>3, <1>4

\* A set with 0 that has n + 1 whenever it has n contains every natural number.
LEMMA SetInduction ==
    ASSUME NEW S, 0 \in S, \A n \in Nat : n \in S => n + 1 \in S
    PROVE  Nat \subseteq S
<1> DEFINE T == Nat \ S
<1>1. ASSUME T # {} PROVE FALSE
  <2> HIDE DEF T
  <2>1. T \subseteq Nat
    BY DEF T
  <2>2. PICK x \in T : \A y \in T : x <= y
    BY <1>1, <2>1, LeastElement
  <2>3. x \in Nat /\ x \notin S
    BY <2>2 DEF T
  <2>4. x - 1 \in Nat
    BY <2>3
  <2>5. x - 1 \notin T
    BY <2>2, <2>3, <2>4
  <2>6. x - 1 \in S
    BY <2>4, <2>5 DEF T
  <2>7. (x - 1) + 1 = x
    BY <2>3
  <2> QED
    BY <2>3, <2>4, <2>6, <2>7
<1> QED
  BY <1>1
=============================================================================
