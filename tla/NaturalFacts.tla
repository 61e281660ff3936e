---------------------------- MODULE NaturalFacts ----------------------------
(* Facts about natural numbers that the proofs about rings, searches, page tables and texts    *)
(* need: least elements, quotients and remainders, and induction.  What has the property that  *)
(* an induction is about is a set, and what a loop makes a function.                           *)
EXTENDS Integers, WellFoundedInduction, TLAPS

\* A set of naturals that is not empty has a least element.
LEMMA LeastNatural ==
    ASSUME NEW S, S \subseteq Nat, S # {}
    PROVE  \E k \in S : \A j \in S : k <= j
<1> DEFINE R == OpToRel(<, Nat)
<1>1. \A x, y \in Nat : x < y => <<x, y>> \in R
  BY DEF OpToRel
<1>2. IsWellFoundedOn(R, Nat)
  BY NatLessThanWellFounded
<1> HIDE DEF R
<1>3. PICK x \in S : \A y \in S : <<y, x>> \notin R
  BY <1>2, WFMin
<1>4. ASSUME NEW y \in S PROVE x <= y
  <2>1. x \in Nat /\ y \in Nat
    OBVIOUS
  <2>2. ~(y < x)
    BY <1>1, <1>3, <2>1
  <2> QED BY <2>1, <2>2
<1> QED BY <1>4

\* Remainders of numbers below n and of numbers from n to below 2n.
LEMMA SmallRemainder ==
    ASSUME NEW n \in Nat \ {0}, NEW b \in 0..(n - 1)
    PROVE  b % n = b /\ (b + n) % n = b
<1>1. ASSUME NEW a \in Nat, NEW e \in {0, 1}, a = b + n * e
      PROVE  a % n = b
  <2> DEFINE d == a \div n
             m == a % n
  <2>1. a = n * d + m /\ m \in 0..(n - 1) /\ d \in Int
    OBVIOUS
  <2> HIDE DEF d, m
  <2>2. n * (d - e) = b - m
    BY <1>1, <2>1
  <2>3. b - m < n /\ b - m > -n
    BY <2>1
  <2>4. d - e = 0
    <3>1. CASE d - e >= 1
      <4>1. n * (d - e) >= n
        BY <2>1, <3>1
      <4> QED BY <2>2, <2>3, <4>1, <2>1
    <3>2. CASE d - e <= -1
      <4>1. n * (d - e) <= -n
        BY <2>1, <3>2
      <4> QED BY <2>2, <2>3, <4>1, <2>1
    <3> QED BY <2>1, <3>1, <3>2
  <2>5. m = b
    BY <2>1, <2>2, <2>4
  <2> QED BY <2>5 DEF m
<1>2. b \in Nat /\ b = b + n * 0
  OBVIOUS
<1>3. b + n \in Nat /\ b + n = b + n * 1
  OBVIOUS
<1> QED BY <1>1, <1>2, <1>3

\* A number is what its quotient and its remainder make of it.
LEMMA Division ==
    ASSUME NEW n \in Nat \ {0}, NEW x \in Nat
    PROVE  x \div n \in Nat /\ x % n \in 0..(n - 1) /\ x = n * (x \div n) + (x % n)
<1> DEFINE d == x \div n
           m == x % n
<1>1. x = n * d + m /\ m \in 0..(n - 1) /\ d \in Int
  OBVIOUS
<1> HIDE DEF d, m
<1>2. d >= 0
  <2> SUFFICES ASSUME d <= -1 PROVE FALSE
    BY <1>1
  <2>1. n * d <= -n
    BY <1>1
  <2> QED BY <1>1, <2>1
<1> QED BY <1>1, <1>2 DEF d, m

\* Only one quotient and one remainder make a number.
LEMMA UniqueQuotient ==
    ASSUME NEW n \in Nat \ {0}, NEW q \in Int, NEW r \in 0..(n - 1), NEW x \in Nat, x = n * q + r
    PROVE  x \div n = q /\ x % n = r
<1> DEFINE d == x \div n
           m == x % n
<1>1. x = n * d + m /\ m \in 0..(n - 1) /\ d \in Int
  OBVIOUS
<1> HIDE DEF d, m
<1>2. n * (d - q) = r - m
  BY <1>1
<1>3. r - m < n /\ r - m > -n
  BY <1>1
<1>4. d - q = 0
  <2>1. CASE d - q >= 1
    <3>1. n * (d - q) >= n
      BY <1>1, <2>1
    <3> QED BY <1>1, <1>2, <1>3, <3>1
  <2>2. CASE d - q <= -1
    <3>1. n * (d - q) <= -n
      BY <1>1, <2>2
    <3> QED BY <1>1, <1>2, <1>3, <3>1
  <2> QED BY <1>1, <2>1, <2>2
<1> QED BY <1>1, <1>2, <1>4 DEF d, m

\* Dividing twice divides by the product.
LEMMA DividedTwice ==
    ASSUME NEW n \in Nat \ {0}, NEW k \in Nat \ {0}, NEW x \in Nat
    PROVE  n * k \in Nat \ {0} /\ (x \div n) \div k = x \div (n * k)
<1> DEFINE a == x \div n
           b == a \div k
           c == x % n
           d == a % k
<1>1. a \in Nat /\ c \in 0..(n - 1) /\ x = n * a + c
  BY Division
<1>2. b \in Nat /\ d \in 0..(k - 1) /\ a = k * b + d
  <2> HIDE DEF a
  <2> QED BY <1>1, Division
<1> HIDE DEF a, b, c, d
<1>3. n * a = (n * k) * b + n * d
  <2>1. n * a = n * (k * b) + n * d
    BY <1>1, <1>2
  <2>2. n * (k * b) = (n * k) * b
    BY <1>1, <1>2
  <2> QED BY <2>1, <2>2
<1>4. n * d + c \in 0..(n * k - 1)
  <2>1. k - 1 - d \in Nat
    BY <1>2
  <2>2. n * (k - 1 - d) \in Nat
    BY <2>1
  <2>3. n * (k - 1 - d) = n * k - n - n * d
    BY <1>2
  <2>4. n * d \in Nat /\ n * k \in Nat
    BY <1>2
  <2> QED BY <1>1, <2>2, <2>3, <2>4
<1> DEFINE N == n * k
           r == n * d + c
<1>5. N \in Nat \ {0}
  OBVIOUS
<1>6. x = N * b + r /\ r \in 0..(N - 1)
  BY <1>1, <1>2, <1>3, <1>4
<1> HIDE DEF N, r
<1>7. x \div N = b
  BY <1>2, <1>5, <1>6, UniqueQuotient
<1> QED BY <1>5, <1>7 DEF N, b, a

\* Induction from a to b, the property being the set of the numbers that have it.
LEMMA StepByStep ==
    ASSUME NEW a \in Nat, NEW b \in Nat, NEW T, a \in T,
           \A k \in (a + 1)..b : k - 1 \in T => k \in T
    PROVE  \A k \in a..b : k \in T
<1> DEFINE Lack == {k \in a..b : k \notin T}
<1> SUFFICES ASSUME Lack # {} PROVE FALSE
  OBVIOUS
<1>1. Lack \subseteq Nat
  OBVIOUS
<1>2. PICK k \in Lack : \A j \in Lack : k <= j
  <2> HIDE DEF Lack
  <2> QED BY <1>1, LeastNatural
<1>3. k \in (a + 1)..b
  BY <1>2
<1>4. k - 1 \in T
  BY <1>2, <1>3
<1> QED BY <1>2, <1>3, <1>4

\* And the same from all smaller numbers.
LEMMA FromSmaller ==
    ASSUME NEW T, \A k \in Nat : (\A j \in 0..(k - 1) : j \in T) => k \in T
    PROVE  \A k \in Nat : k \in T
<1> DEFINE Lack == {k \in Nat : k \notin T}
<1> SUFFICES ASSUME Lack # {} PROVE FALSE
  OBVIOUS
<1>1. Lack \subseteq Nat
  OBVIOUS
<1>2. PICK k \in Lack : \A j \in Lack : k <= j
  <2> HIDE DEF Lack
  <2> QED BY <1>1, LeastNatural
<1>3. \A j \in 0..(k - 1) : j \in T
  BY <1>2
<1> QED BY <1>2, <1>3

\* f is what a loop makes, n times, that starts with a and makes its next value of the last
\* one and its counter.
Loops(f, S, a, n, step) ==
    f \in [0..n -> S] /\ f[0] = a /\ \A k \in 1..n : f[k] = step[<<f[k - 1], k>>]

\* There is such an f.
LEMMA Loop ==
    ASSUME NEW S, NEW a \in S, NEW n \in Nat, NEW step \in [S \X (1..n) -> S]
    PROVE  \E f : Loops(f, S, a, n, step)
<1> DEFINE Made(m, f) == f \in [0..m -> S] /\ f[0] = a /\ \A k \in 1..m : f[k] = step[<<f[k - 1], k>>]
           T == {m \in 0..n : \E f : Made(m, f)}
<1>1. 0 \in T
  <2> DEFINE f == [k \in 0..0 |-> a]
  <2>1. Made(0, f)
    OBVIOUS
  <2> HIDE DEF f
  <2>2. \E h : Made(0, h)
    BY Zenon, <2>1
  <2> QED BY <2>2
<1>2. ASSUME NEW m \in 1..n, m - 1 \in T PROVE m \in T
  <2>1. PICK f : Made(m - 1, f)
    BY <1>2
  <2> DEFINE g == [k \in 0..m |-> IF k = m THEN step[<<f[m - 1], m>>] ELSE f[k]]
  <2>2. f[m - 1] \in S /\ step[<<f[m - 1], m>>] \in S
    BY <2>1
  <2>3. g \in [0..m -> S]
    BY <2>1, <2>2
  <2>4. g[0] = a
    BY <2>1
  <2>5. ASSUME NEW k \in 1..m PROVE g[k] = step[<<g[k - 1], k>>]
    <3>1. CASE k = m
      <4>1. g[k - 1] = f[m - 1] /\ g[k] = step[<<f[m - 1], m>>]
        BY <3>1
      <4> HIDE DEF g
      <4> QED BY <3>1, <4>1
    <3>2. CASE k # m
      <4>1. k \in 1..(m - 1) /\ g[k] = f[k] /\ g[k - 1] = f[k - 1]
        BY <3>2
      <4> QED BY <2>1, <4>1
    <3> QED BY <3>1, <3>2
  <2> HIDE DEF g
  <2>6. Made(m, g)
    BY <2>3, <2>4, <2>5
  <2> QED BY <2>6
<1> HIDE DEF T
<1>3. \A m \in 0..n : m \in T
  BY <1>1, <1>2, StepByStep
<1>4. n \in T
  BY <1>3
<1> QED BY <1>4 DEF T, Loops
=============================================================================
