------------------------------ MODULE NumberFacts ------------------------------
(***************************************************************************)
(* Facts about quotients and remainders, and the least of a set of         *)
(* numbers.  The rings of the program rest on the first: both queues       *)
(* number their items on and on, and keep each in the slot that is its     *)
(* number modulo the size of an array; and so do the checkpoints of a lap, *)
(* which are intervals of its length.  The last stands in for induction.   *)
(***************************************************************************)
EXTENDS Integers, WellFoundedInduction, TLAPS

\* Division with remainder by a positive ring size.
LEMMA DivMod ==
  ASSUME NEW i \in Nat, NEW n \in Nat, n > 0
  PROVE  /\ i % n \in 0 .. n - 1
         /\ i \div n \in Nat
         /\ i = n * (i \div n) + (i % n)
OBVIOUS

\* The same, quotient and remainder named.
LEMMA QuotientRemainder ==
  ASSUME NEW i \in Nat, NEW n \in Nat, n > 0
  PROVE  \E a \in Nat, r \in 0 .. n - 1 : a = i \div n /\ r = i % n /\ i = n * a + r
BY DivMod

\* A positive multiple of n is at least n.
LEMMA MultipleBound ==
  ASSUME NEW n \in Nat, NEW d \in Int, d >= 1
  PROVE  n * d >= n
OBVIOUS

\* A remainder is the only one: two numbers less than n that differ by a
\* multiple of n are equal.
LEMMA RemainderUnique ==
  ASSUME NEW n \in Nat, NEW d \in Int, NEW r \in 0 .. n - 1, NEW q \in 0 .. n - 1,
         r - q = n * d
  PROVE  r = q
<1>1. CASE d >= 1
  BY <1>1, MultipleBound
<1>2. CASE d <= -1
  <2>1. PICK e \in Nat : e = -d /\ e >= 1
    BY <1>2
  <2>2. n * e = q - r
    BY <2>1, SMTT(20)
  <2> QED
    BY <2>1, <2>2, MultipleBound
<1>3. CASE d = 0
  BY <1>3
<1> QED
  BY <1>1, <1>2, <1>3

\* The form in which the next lemmas use it.
LEMMA ModUnique ==
  ASSUME NEW i \in Nat, NEW n \in Nat, n > 0, NEW b \in Int, NEW q \in 0 .. n - 1,
         i = n * b + q
  PROVE  i % n = q
<1>1. PICK a \in Nat, r \in 0 .. n - 1 : a = i \div n /\ r = i % n /\ i = n * a + r
  BY QuotientRemainder, Zenon
<1>2. PICK d \in Int : d = b - a
  OBVIOUS
<1>3. n * d = n * b - n * a
  <2>1. n * (b - a) = n * b - n * a
    BY <1>1, SMTT(20)
  <2> QED
    BY <1>2, <2>1
<1>4. PICK A \in Int, B \in Int, D \in Int : A = n * a /\ B = n * b /\ D = n * d
  BY <1>1
<1>5. r - q = D
  BY <1>1, <1>3, <1>4
<1> QED
  BY <1>1, <1>4, <1>5, RemainderUnique

\* So is the quotient.
LEMMA DivUnique ==
  ASSUME NEW i \in Nat, NEW n \in Nat, n > 0, NEW b \in Int, NEW q \in 0 .. n - 1,
         i = n * b + q
  PROVE  i \div n = b
<1>1. PICK a \in Nat, r \in 0 .. n - 1 : a = i \div n /\ r = i % n /\ i = n * a + r
  BY QuotientRemainder, Zenon
<1>2. r = q
  BY <1>1, ModUnique
<1>3. PICK A \in Int, B \in Int : A = n * a /\ B = n * b
  BY <1>1
<1>4. A = B
  BY <1>1, <1>2, <1>3
<1>5. PICK d \in Int : d = a - b
  BY <1>1
<1>6. n * d = 0
  <2>1. n * (a - b) = n * a - n * b
    BY <1>1, SMTT(20)
  <2> QED
    BY <1>3, <1>4, <1>5, <2>1
<1>7. CASE d >= 1
  BY <1>6, <1>7, MultipleBound
<1>8. CASE d <= -1
  <2>1. PICK e \in Nat : e = -d /\ e >= 1
    BY <1>8
  <2>2. n * e = 0
    BY <1>6, <2>1, SMTT(20)
  <2> QED
    BY <2>1, <2>2, MultipleBound
<1> QED
  BY <1>1, <1>5, <1>7, <1>8

\* One more is in the same interval of n or in the next.
LEMMA NextDiv ==
  ASSUME NEW i \in Nat, NEW n \in Nat, n > 0
  PROVE  (i + 1) \div n \in {i \div n, (i \div n) + 1}
<1>1. PICK a \in Nat, r \in 0 .. n - 1 : a = i \div n /\ r = i % n /\ i = n * a + r
  BY QuotientRemainder, Zenon
<1>2. CASE r = n - 1
  <2>1. i + 1 = n * (a + 1) + 0
    BY <1>1, <1>2, SMTT(20)
  <2>2. (i + 1) \div n = a + 1
    BY <1>1, <2>1, DivUnique
  <2> QED
    BY <1>1, <2>2
<1>3. CASE r # n - 1
  <2>1. i + 1 = n * a + (r + 1) /\ r + 1 \in 0 .. n - 1
    BY <1>1, <1>3
  <2>2. (i + 1) \div n = a
    BY <1>1, <2>1, DivUnique
  <2> QED
    BY <1>1, <2>2
<1> QED
  BY <1>2, <1>3, <1>1

\* n more are in the next.
LEMMA PeriodDiv ==
  ASSUME NEW i \in Nat, NEW n \in Nat, n > 0
  PROVE  (i + n) \div n = (i \div n) + 1
<1>1. PICK a \in Nat, r \in 0 .. n - 1 : a = i \div n /\ r = i % n /\ i = n * a + r
  BY QuotientRemainder, Zenon
<1>2. i + n = n * (a + 1) + r
  BY <1>1, SMTT(20)
<1>3. (i + n) \div n = a + 1
  BY <1>1, <1>2, DivUnique
<1> QED
  BY <1>1, <1>3

\* Division keeps the order.
LEMMA DivMonotone ==
  ASSUME NEW i \in Nat, NEW j \in Nat, i <= j, NEW n \in Nat, n > 0
  PROVE  i \div n <= j \div n
<1>1. PICK a \in Nat, r \in 0 .. n - 1 : a = i \div n /\ r = i % n /\ i = n * a + r
  BY QuotientRemainder, Zenon
<1>2. PICK b \in Nat, q \in 0 .. n - 1 : b = j \div n /\ q = j % n /\ j = n * b + q
  BY QuotientRemainder, Zenon
<1>3. CASE a > b
  <2>1. PICK d \in Nat : d = a - b /\ d >= 1
    BY <1>1, <1>2, <1>3
  <2>2. n * d = n * a - n * b
    <3>1. n * (a - b) = n * a - n * b
      BY <1>1, <1>2, SMTT(20)
    <3> QED
      BY <2>1, <3>1
  <2>3. PICK A \in Int, B \in Int, D \in Int : A = n * a /\ B = n * b /\ D = n * d
    BY <1>1, <1>2, <2>1
  <2>4. D >= n
    BY <2>1, <2>3, MultipleBound
  <2> QED
    BY <1>1, <1>2, <2>2, <2>3, <2>4
<1> QED
  BY <1>1, <1>2, <1>3

\* A number below the size of the ring is its own slot.
LEMMA SmallMod ==
  ASSUME NEW n \in Nat, n > 0, NEW i \in 0 .. n - 1
  PROVE  i % n = i
<1>1. i = n * 0 + i
  OBVIOUS
<1> QED
  BY <1>1, ModUnique

\* Indices a whole ring apart share a slot.
LEMMA PeriodMod ==
  ASSUME NEW i \in Nat, NEW n \in Nat, n > 0
  PROVE  (i + n) % n = i % n
<1>1. PICK a \in Nat, r \in 0 .. n - 1 : r = i % n /\ i = n * a + r
  BY QuotientRemainder
<1>2. i + n = n * (a + 1) + r
  BY <1>1, SMTT(20)
<1>3. (i + n) % n = r
  <2>1. i + n \in Nat
    OBVIOUS
  <2> QED
    BY <1>1, <1>2, <2>1, ModUnique
<1> QED
  BY <1>1, <1>3

\* Wrapping an index that was advanced gives the slot of the next number.
LEMMA NextMod ==
  ASSUME NEW i \in Nat, NEW n \in Nat, n > 0
  PROVE  ((i % n) + 1) % n = (i + 1) % n
<1>1. PICK a \in Nat, r \in 0 .. n - 1 : a = i \div n /\ r = i % n /\ i = n * a + r
  BY QuotientRemainder, Zenon
<1>2. CASE r = n - 1
  <2>1. i + 1 = n * (a + 1) + 0
    BY <1>1, <1>2, SMTT(20)
  <2>2. (i + 1) % n = 0
    BY <2>1, ModUnique
  <2>3. (r + 1) % n = 0
    <3>1. r + 1 = n * 1 + 0
      BY <1>2
    <3> QED
      BY <1>1, <3>1, ModUnique
  <2> QED
    BY <1>1, <2>2, <2>3
<1>3. CASE r # n - 1
  <2>1. i + 1 = n * a + (r + 1) /\ r + 1 \in 0 .. n - 1
    BY <1>1, <1>3
  <2>2. (i + 1) % n = r + 1
    BY <1>1, <2>1, ModUnique
  <2>3. (r + 1) % n = r + 1
    BY <2>1, SmallMod
  <2> QED
    BY <1>1, <2>2, <2>3
<1> QED
  BY <1>2, <1>3

\* Two indices less than one ring size apart live in different slots.
LEMMA WindowMod ==
  ASSUME NEW i \in Nat, NEW j \in Nat, NEW n \in Nat, i < j, j < i + n
  PROVE  i % n # j % n
<1>0. n > 0
  OBVIOUS
<1> SUFFICES ASSUME i % n = j % n
             PROVE  FALSE
  OBVIOUS
<1>1. PICK a \in Nat, r \in 0 .. n - 1 : a = i \div n /\ r = i % n /\ i = n * a + r
  BY <1>0, QuotientRemainder, Zenon
<1>2. PICK b \in Nat, q \in 0 .. n - 1 : b = j \div n /\ q = j % n /\ j = n * b + q
  BY <1>0, QuotientRemainder, Zenon
<1>3. PICK d \in Int : d = b - a
  OBVIOUS
<1>4. j - i = n * d
  <2>1. n * (b - a) = n * b - n * a
    BY <1>1, <1>2, SMTT(20)
  <2>2. PICK A \in Int, B \in Int, D \in Int : A = n * a /\ B = n * b /\ D = n * d
    BY <1>1, <1>2
  <2>3. D = B - A
    BY <1>3, <2>1, <2>2
  <2> QED
    BY <1>1, <1>2, <2>2, <2>3
<1>5. CASE d >= 1
  BY <1>4, <1>5, MultipleBound
<1>6. CASE d <= -1
  <2>1. PICK e \in Nat : e = -d /\ e >= 1
    BY <1>6
  <2>2. n * e = -(n * d)
    BY <2>1, SMTT(20)
  <2> QED
    BY <1>4, <2>1, <2>2, MultipleBound
<1>7. CASE d = 0
  BY <1>4, <1>7
<1> QED
  BY <1>5, <1>6, <1>7

-------------------------------------------------------------------------------
\* A non-empty set of naturals has a least element.
LEMMA LeastExists ==
  ASSUME NEW S \in SUBSET Nat, S # {}
  PROVE  \E x \in S : \A y \in S : x <= y
<1> DEFINE R == OpToRel(<, Nat)
<1>1. IsWellFoundedOn(R, Nat)
  BY NatLessThanWellFounded
<1>2. PICK x \in S : \A y \in S : ~(<<y, x>> \in R)
  BY <1>1, WFMin
<1>3. ASSUME NEW y \in S, y < x
      PROVE  FALSE
  <2>1. <<y, x>> \in Nat \X Nat
    OBVIOUS
  <2>2. <<y, x>> \in R
    BY <2>1, <1>3 DEF OpToRel
  <2> QED
    BY <2>2, <1>2
<1> QED
  BY <1>3

===============================================================================
