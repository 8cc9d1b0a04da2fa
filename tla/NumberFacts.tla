------------------------------ MODULE NumberFacts ------------------------------
(***************************************************************************)
(* Facts about sets of natural numbers, ranks, recursive sequences, sums,  *)
(* division and fractions that the proofs of the other modules rest on.    *)
(* InductionSet and SubsetInduction state induction for a set instead of a *)
(* formula: the numbers, or the subsets of a finite set, that have the     *)
(* property.                                                               *)
(***************************************************************************)
EXTENDS Rationals, Integers, FiniteSetsExt, FiniteSetTheorems, WellFoundedInduction, TLAPS

\* Every nonempty set of natural numbers has a least element.
LEMMA LeastElement ==
  ASSUME NEW S \in SUBSET Nat, S # {}
  PROVE  \E x \in S : \A y \in S : x <= y
<1>1. PICK x \in S : \A y \in S : ~(<<y, x>> \in OpToRel(<, Nat))
  BY NatLessThanWellFounded, WFMin
<1>2. \A y \in S : ~(y < x)
  BY <1>1 DEF OpToRel
<1>3. \A y \in S : y \in Nat /\ x \in Nat
  OBVIOUS
<1>4. \A y \in S : x <= y
  BY <1>2, <1>3
<1> QED
  BY <1>4

\* Every nonempty set of natural numbers with an upper bound has a greatest
\* element: the least of its upper bounds.
LEMMA GreatestElement ==
  ASSUME NEW N \in Nat, NEW S, S \subseteq 0 .. N, S # {}
  PROVE  \E x \in S : \A y \in S : y <= x
<1> DEFINE T == {n \in Nat : \A y \in S : y <= n}
<1>1. T \in SUBSET Nat /\ N \in T
  OBVIOUS
<1>2. PICK t \in T : \A u \in T : t <= u
  BY <1>1, LeastElement
<1>3. ASSUME t \notin S PROVE FALSE
  <2>1. PICK s \in S : TRUE
    OBVIOUS
  <2>2. t \in Nat /\ s \in Nat /\ s <= t
    OBVIOUS
  <2>3. s # t
    BY <1>3, <2>1
  <2>4. t - 1 \in Nat
    BY <2>2, <2>3
  <2>5. \A y \in S : y <= t - 1
    BY <1>3, <2>2
  <2>6. t - 1 \in T
    BY <2>4, <2>5
  <2> HIDE DEF T
  <2> QED
    BY <2>6, <1>2, <2>2
<1> QED
  BY <1>3

\* Min picks the least element of a nonempty set of numbers.
LEMMA MinIs ==
  ASSUME NEW S \in SUBSET Nat, S # {}
  PROVE  Min(S) \in S /\ \A y \in S : Min(S) <= y
BY LeastElement DEF Min

\* Max picks the greatest element of a nonempty bounded set of numbers.
LEMMA MaxIs ==
  ASSUME NEW N \in Nat, NEW S, S \subseteq 0 .. N, S # {}
  PROVE  Max(S) \in S /\ \A y \in S : y <= Max(S)
<1>1. \E x \in S : \A y \in S : y <= x
  BY GreatestElement
<1> QED
  BY <1>1 DEF Max

\* A set of integers has one greatest element: whatever is one is Max.
LEMMA MaxUnique ==
  ASSUME NEW S \in SUBSET Int, NEW x \in S, \A y \in S : y <= x
  PROVE  Max(S) = x
<1>1. /\ Max(S) \in S
      /\ \A y \in S : y <= Max(S)
  BY DEF Max
<1>2. x \in Int /\ Max(S) \in Int
  BY <1>1
<1>3. x <= Max(S) /\ Max(S) <= x
  BY <1>1
<1> QED
  BY <1>2, <1>3

\* A set of natural numbers that holds 0 and with each number the next holds all.
LEMMA InductionSet ==
  ASSUME NEW S \in SUBSET Nat, 0 \in S, \A n \in S : n + 1 \in S
  PROVE  S = Nat
<1> SUFFICES ASSUME Nat \ S # {} PROVE FALSE
  OBVIOUS
<1>1. PICK k \in Nat \ S : \A n \in Nat \ S : k <= n
  BY LeastElement
<1>2. k # 0 /\ k - 1 \in Nat
  BY <1>1
<1>3. k - 1 \in S
  BY <1>1, <1>2
<1>4. (k - 1) + 1 \in S
  BY <1>3
<1> QED
  BY <1>1, <1>4

\* The sequences over S from a, with the function G[n] from the n-th element to the next.
RecursiveSequences(S, a, G) ==
  {f \in [Nat -> S] : f[0] = a /\ \A n \in Nat : f[n + 1] = G[n][f[n]]}

\* There is one.
LEMMA RecursiveSequence ==
  ASSUME NEW S, NEW a \in S, NEW G \in [Nat -> [S -> S]]
  PROVE  RecursiveSequences(S, a, G) # {}
<1> DEFINE Approx(m) ==
      {g \in [0 .. m -> S] : g[0] = a /\ \A n \in 0 .. m - 1 : g[n + 1] = G[n][g[n]]}
    Long == {m \in Nat : Approx(m) # {}}
<1>1. \A m \in Nat : Approx(m) # {}
  <2>1. 0 \in Long
    <3>1. [n \in 0 .. 0 |-> a] \in Approx(0)
      OBVIOUS
    <3> QED
      BY <3>1
  <2>2. ASSUME NEW m \in Long PROVE m + 1 \in Long
    <3>1. PICK g \in Approx(m) : TRUE
      OBVIOUS
    <3>2. /\ m \in Nat /\ g \in [0 .. m -> S] /\ g[0] = a
          /\ \A n \in 0 .. m - 1 : g[n + 1] = G[n][g[n]]
      BY <3>1
    <3>3. g[m] \in S /\ G[m][g[m]] \in S
      BY <3>2
    <3> DEFINE h == [n \in 0 .. m + 1 |-> IF n = m + 1 THEN G[m][g[m]] ELSE g[n]]
    <3>4. h \in [0 .. m + 1 -> S]
      <4>1. \A n \in 0 .. m + 1 : n # m + 1 => n \in 0 .. m
        BY <3>2
      <4>2. \A n \in 0 .. m + 1 : (IF n = m + 1 THEN G[m][g[m]] ELSE g[n]) \in S
        BY <3>2, <3>3, <4>1
      <4> QED
        BY <4>2
    <3>5. h[0] = a
      BY <3>2
    <3>6. ASSUME NEW n \in 0 .. (m + 1) - 1 PROVE h[n + 1] = G[n][h[n]]
      <4>1. CASE n = m
        BY <3>2, <4>1
      <4>2. CASE n # m
        <5>1. n \in 0 .. m - 1 /\ n + 1 # m + 1 /\ n # m + 1
          BY <3>2, <4>2
        <5>2. h[n + 1] = g[n + 1] /\ h[n] = g[n]
          BY <3>2, <5>1
        <5> QED
          BY <3>2, <5>1, <5>2
      <4> QED
        BY <4>1, <4>2
    <3> HIDE DEF h
    <3>7. h \in Approx(m + 1)
      BY <3>4, <3>5, <3>6
    <3>8. m + 1 \in Nat
      BY <3>2
    <3> HIDE DEF Approx
    <3> QED
      BY <3>7, <3>8
  <2>3. Long = Nat
    <3> HIDE DEF Long
    <3>1. Long \in SUBSET Nat
      BY DEF Long
    <3> QED
      BY <2>1, <2>2, <3>1, InductionSet
  <2> QED
    BY <2>3
<1>2. ASSUME NEW m \in Nat, NEW g \in Approx(m), NEW h \in Approx(m + 1)
      PROVE  g[m] = h[m]
  <2> DEFINE Same == {n \in Nat : n <= m => g[n] = h[n]}
  <2>1. 0 \in Same
    OBVIOUS
  <2>2. ASSUME NEW n \in Same PROVE n + 1 \in Same
    <3> SUFFICES ASSUME n + 1 <= m PROVE g[n + 1] = h[n + 1]
      OBVIOUS
    <3>1. n \in 0 .. m - 1 /\ n \in 0 .. (m + 1) - 1 /\ g[n] = h[n]
      OBVIOUS
    <3> QED
      BY <3>1
  <2>3. Same = Nat
    <3> HIDE DEF Same
    <3>1. Same \in SUBSET Nat
      BY DEF Same
    <3> QED
      BY <2>1, <2>2, <3>1, InductionSet
  <2> QED
    BY <2>3
<1> DEFINE f == [n \in Nat |-> (CHOOSE g \in Approx(n) : TRUE)[n]]
<1>3. ASSUME NEW n \in Nat
      PROVE  f[n] \in S /\ f[n + 1] = G[n][f[n]]
  <2>1. PICK g \in Approx(n) : g = CHOOSE u \in Approx(n) : TRUE
    BY <1>1
  <2>2. Approx(n + 1) # {}
    <3>1. n + 1 \in Nat
      OBVIOUS
    <3> HIDE DEF Approx
    <3> QED
      BY <1>1, <3>1
  <2>3. PICK h \in Approx(n + 1) : h = CHOOSE u \in Approx(n + 1) : TRUE
    BY <2>2
  <2>4. f[n] = g[n] /\ f[n + 1] = h[n + 1]
    <3>1. \A k \in Nat : f[k] = (CHOOSE u \in Approx(k) : TRUE)[k]
      OBVIOUS
    <3>2. n + 1 \in Nat
      OBVIOUS
    <3> HIDE DEF f
    <3>3. f[n + 1] = (CHOOSE u \in Approx(n + 1) : TRUE)[n + 1]
      BY <3>1, <3>2, Zenon
    <3>4. f[n] = (CHOOSE u \in Approx(n) : TRUE)[n]
      BY <3>1, Zenon
    <3> QED
      BY <2>1, <2>3, <3>3, <3>4, Zenon
  <2>5. h[n + 1] = G[n][h[n]] /\ g[n] \in S
    OBVIOUS
  <2>6. g[n] = h[n]
    BY <1>2
  <2> QED
    BY <2>4, <2>5, <2>6
<1>4. f[0] = a
  <2>1. PICK g \in Approx(0) : g = CHOOSE u \in Approx(0) : TRUE
    BY <1>1
  <2> QED
    BY <2>1
<1>5. f \in [Nat -> S]
  BY <1>3
<1> QED
  <2> HIDE DEF f
  <2> QED
    BY <1>3, <1>4, <1>5 DEF RecursiveSequences

\* Those over an interval, from its first number up or from its last one down
UpSequences(N, S, a, G) ==
  {f \in [0 .. N -> S] : f[0] = a /\ \A i \in 0 .. N - 1 : f[i + 1] = G[i][f[i]]}

DownSequences(N, S, a, G) ==
  {f \in [0 .. N -> S] : f[N] = a /\ \A i \in 0 .. N - 1 : f[i] = G[i][f[i + 1]]}

\* There is one up.
LEMMA UpSequence ==
  ASSUME NEW N \in Nat, NEW S, NEW a \in S, NEW G \in [0 .. N - 1 -> [S -> S]]
  PROVE  UpSequences(N, S, a, G) # {}
<1> DEFINE H == [i \in Nat |-> IF i < N THEN G[i] ELSE [x \in S |-> x]]
<1>1. H \in [Nat -> [S -> S]]
  OBVIOUS
<1>2. \A i \in 0 .. N - 1 : H[i] = G[i]
  OBVIOUS
<1> HIDE DEF H
<1>3. PICK f \in [Nat -> S] : f[0] = a /\ \A i \in Nat : f[i + 1] = H[i][f[i]]
  <2>1. RecursiveSequences(S, a, H) # {}
    BY <1>1, RecursiveSequence
  <2> QED
    BY <2>1 DEF RecursiveSequences
<1> DEFINE g == [i \in 0 .. N |-> f[i]]
<1>4. g \in [0 .. N -> S] /\ g[0] = a
  BY <1>3
<1>5. ASSUME NEW i \in 0 .. N - 1 PROVE g[i + 1] = G[i][g[i]]
  <2>1. i \in Nat /\ i \in 0 .. N /\ i + 1 \in 0 .. N
    OBVIOUS
  <2>2. f[i + 1] = G[i][f[i]]
    BY <1>2, <1>3, <2>1
  <2> QED
    BY <2>1, <2>2
<1> HIDE DEF g
<1> QED
  BY <1>4, <1>5 DEF UpSequences

\* There is one down.
LEMMA DownSequence ==
  ASSUME NEW N \in Nat, NEW S, NEW a \in S, NEW G \in [0 .. N - 1 -> [S -> S]]
  PROVE  DownSequences(N, S, a, G) # {}
<1> DEFINE H == [i \in 0 .. N - 1 |-> G[N - 1 - i]]
<1>1. H \in [0 .. N - 1 -> [S -> S]]
  OBVIOUS
<1>2. \A i \in 0 .. N - 1 : H[i] = G[N - 1 - i]
  OBVIOUS
<1> HIDE DEF H
<1>3. PICK f \in [0 .. N -> S] : f[0] = a /\ \A i \in 0 .. N - 1 : f[i + 1] = H[i][f[i]]
  <2>1. UpSequences(N, S, a, H) # {}
    BY <1>1, UpSequence
  <2> QED
    BY <2>1 DEF UpSequences
<1> DEFINE g == [i \in 0 .. N |-> f[N - i]]
<1>4. g \in [0 .. N -> S] /\ g[N] = a
  BY <1>3
<1>5. ASSUME NEW i \in 0 .. N - 1 PROVE g[i] = G[i][g[i + 1]]
  <2> DEFINE j == N - 1 - i
  <2>1. j \in 0 .. N - 1 /\ j + 1 = N - i /\ j = N - (i + 1) /\ N - 1 - j = i
    OBVIOUS
  <2>2. f[j + 1] = H[j][f[j]] /\ H[j] = G[i]
    BY <1>2, <1>3, <2>1
  <2>3. g[i] = f[j + 1] /\ g[i + 1] = f[j]
    BY <2>1
  <2> QED
    BY <2>2, <2>3
<1> HIDE DEF g
<1> QED
  BY <1>4, <1>5 DEF DownSequences

--------------------------------------------------------------------------------
(* Products, division and fractions.                                       *)

\* A positive factor keeps an order.
LEMMA ProductOrder ==
  ASSUME NEW x \in Int, NEW y \in Int, NEW m \in Nat
  PROVE  /\ x <= y => m * x <= m * y
         /\ m > 0 => (x < y <=> m * x < m * y)
         /\ m > 0 => (x <= y <=> m * x <= m * y)
         /\ m > 0 => (x = y <=> m * x = m * y)
<1> DEFINE d == y - x
           u == m * x
           v == m * y
           w == m * d
<1>1. d \in Int /\ u \in Int /\ v \in Int /\ w \in Int /\ v = u + w
  OBVIOUS
<1>2. /\ d >= 0 => w >= 0
      /\ m > 0 /\ d > 0 => w > 0
      /\ m > 0 /\ d < 0 => w < 0
      /\ d = 0 => w = 0
  <2> HIDE DEF d
  <2> QED
    BY <1>1
<1>3. y = x + d
  OBVIOUS
<1> HIDE DEF d, u, v, w
<1>4. /\ x <= y => u <= v
      /\ m > 0 => (x < y <=> u < v) /\ (x <= y <=> u <= v) /\ (x = y <=> u = v)
  BY <1>1, <1>2, <1>3
<1> QED
  BY <1>4 DEF u, v

\* Equal fractions a / u = b / v are on the same side of 1.
LEMMA SameFraction ==
  ASSUME NEW a \in Int, NEW b \in Int, NEW u \in Nat \ {0}, NEW v \in Nat \ {0},
         a * v = b * u
  PROVE  (a < u <=> b < v) /\ (u < a <=> v < b)
<1>1. a < u <=> v * a < v * u
  BY ProductOrder
<1>2. b < v <=> u * b < u * v
  BY ProductOrder
<1>3. u < a <=> v * u < v * a
  BY ProductOrder
<1>4. v < b <=> u * v < u * b
  BY ProductOrder
<1>5. v * a = u * b /\ v * u = u * v
  OBVIOUS
<1> QED
  BY <1>1, <1>2, <1>3, <1>4, <1>5

\* The quotient and the rest
LEMMA Division ==
  ASSUME NEW a \in Int, NEW n \in Nat \ {0}
  PROVE  /\ a \div n \in Int /\ (a \in Nat => a \div n \in Nat)
         /\ a % n \in 0 .. n - 1
         /\ a = n * (a \div n) + (a % n)
OBVIOUS

\* The quotient is the greatest number whose multiple is not above.
LEMMA QuotientIs ==
  ASSUME NEW a \in Nat, NEW n \in Nat \ {0}
  PROVE  /\ n * (a \div n) <= a
         /\ \A x \in Int : n * x <= a => x <= a \div n
<1> DEFINE q == a \div n
           m == a % n
<1>1. a \in Int
  OBVIOUS
<1>2. q \in Int /\ m \in 0 .. n - 1 /\ a = n * q + m
  BY <1>1, Division
<1> HIDE DEF q, m
<1>3. n * q <= a
  <2> DEFINE u == n * q
  <2>1. u \in Int /\ a = u + m
    BY <1>2
  <2> HIDE DEF u
  <2>2. u <= a
    BY <1>2, <2>1
  <2> QED
    BY <2>2 DEF u
<1>4. ASSUME NEW x \in Int, n * x <= a PROVE x <= q
  <2> SUFFICES ASSUME x > q PROVE FALSE
    BY <1>2
  <2> DEFINE u == n * x
             v == n * (q + 1)
             w == n * q
  <2>1. q + 1 <= x /\ q + 1 \in Int /\ n \in Nat
    BY <1>2
  <2>2. v <= u
    BY <2>1, ProductOrder
  <2>3. u \in Int /\ v \in Int /\ w \in Int /\ v = w + n /\ u <= a /\ a = w + m
    BY <1>2, <1>4
  <2> HIDE DEF u, v, w
  <2> QED
    BY <1>2, <2>2, <2>3
<1> QED
  BY <1>3, <1>4 DEF q

\* The quotient of a multiple
LEMMA QuotientOfMultiple ==
  ASSUME NEW x \in Nat, NEW n \in Nat \ {0}
  PROVE  (n * x) \div n = x
<1> DEFINE a == n * x
           q == a \div n
<1>1. a \in Nat
  OBVIOUS
<1>2. n * x <= a
  OBVIOUS
<1> HIDE DEF a
<1>3. q \in Int /\ n * q <= a /\ x <= q
  BY <1>1, <1>2, Division, QuotientIs
<1> HIDE DEF q
<1>4. n * q <= n * x
  BY <1>3 DEF a
<1>5. q <= x
  BY <1>3, <1>4, ProductOrder
<1>6. q = x
  BY <1>3, <1>5
<1> QED
  BY <1>6 DEF q, a

\* A multiple of n less than n away from 0 is 0.
LEMMA SmallMultiple ==
  ASSUME NEW n \in Nat \ {0}, NEW d \in Int, n * d < n, n * d > -n
  PROVE  d = 0
<1>1. d >= 1 => n * d >= n
  OBVIOUS
<1>2. d <= -1 => n * d <= -n
  OBVIOUS
<1> QED
  BY <1>1, <1>2

\* A number that is a multiple and less than one more has that rest.
LEMMA RestIsUnique ==
  ASSUME NEW n \in Nat \ {0}, NEW a \in Int, NEW d \in Int, NEW r \in 0 .. n - 1,
         a = n * d + r
  PROVE  a % n = r /\ a \div n = d
<1> DEFINE q == a \div n
           m == a % n
<1>1. q \in Int /\ m \in 0 .. n - 1 /\ a = n * q + m
  BY Division
<1> HIDE DEF q, m
<1> DEFINE x == n * q
           y == n * d
           e == q - d
<1>2. x \in Int /\ y \in Int /\ a = x + m /\ a = y + r
  BY <1>1
<1>3. n * e = x - y /\ e \in Int
  BY <1>1
<1> HIDE DEF x, y, e
<1>4. n * e = r - m /\ r - m < n /\ r - m > -n
  BY <1>1, <1>2, <1>3
<1>5. e = 0
  BY <1>3, <1>4, SmallMultiple
<1>6. r = m
  BY <1>1, <1>4, <1>5
<1>7. q = d
  BY <1>1, <1>5 DEF e
<1> QED
  BY <1>6, <1>7 DEF q, m

\* The rest of a sum is that of the sum with one rest.
LEMMA RestOfSum ==
  ASSUME NEW n \in Nat \ {0}, NEW a \in Int, NEW b \in Int
  PROVE  ((a % n) + b) % n = (a + b) % n
<1> DEFINE q == a \div n
           m == a % n
           u == m + b
           v == u \div n
           r == u % n
<1>1. q \in Int /\ m \in Int /\ a = n * q + m
  BY Division
<1> HIDE DEF q, m
<1>2. u \in Int
  BY <1>1
<1> HIDE DEF u
<1>3. v \in Int /\ r \in 0 .. n - 1 /\ u = n * v + r
  BY <1>2, Division
<1> HIDE DEF v, r
<1> DEFINE x == n * q
           y == n * v
           d == q + v
           s == a + b
<1>4. x \in Int /\ y \in Int /\ a = x + m /\ u = y + r /\ n * d = x + y /\ d \in Int
  BY <1>1, <1>3
<1> HIDE DEF x, y
<1>5. s = n * d + r /\ s \in Int
  <2>1. s = (x + m) + b
    BY <1>4
  <2>2. (x + m) + b = x + u
    BY <1>1, <1>4 DEF u
  <2>3. x + u = (x + y) + r
    BY <1>3, <1>4
  <2>4. n * d \in Int
    BY <1>4
  <2> QED
    BY <1>3, <1>4, <2>1, <2>2, <2>3, <2>4
<1> HIDE DEF d, s
<1>6. d \in Int
  BY <1>4 DEF d
<1>7. s % n = r
  BY <1>3, <1>5, <1>6, RestIsUnique
<1> QED
  BY <1>7 DEF r, s, u, m

\* Numbers with the same rest are a multiple apart.
LEMMA SameRest ==
  ASSUME NEW n \in Nat \ {0}, NEW a \in Int, NEW b \in Int, a % n = b % n
  PROVE  \E d \in Int : a - b = n * d
<1> DEFINE q == a \div n
           r == b \div n
           m == a % n
<1>1. q \in Int /\ r \in Int /\ m \in Int /\ a = n * q + m /\ b = n * r + m
  BY Division
<1> HIDE DEF q, r, m
<1> DEFINE x == n * q
           y == n * r
<1>2. x \in Int /\ y \in Int /\ x - y = n * (q - r)
  BY <1>1
<1>3. a = x + m /\ b = y + m
  BY <1>1
<1> HIDE DEF x, y
<1>4. a - b = x - y
  BY <1>1, <1>2, <1>3
<1>5. a - b = n * (q - r) /\ q - r \in Int
  BY <1>1, <1>2, <1>4
<1> QED
  BY <1>5

--------------------------------------------------------------------------------
(* The elements of a finite set in an order, counted from the first.       *)

\* Those before an element, in an order that is a set of pairs
AheadOf(E, B, k) == {j \in E : <<j, k>> \in B}

\* The elements before one grow in number from none, one by one.
LEMMA Ranking ==
  ASSUME NEW E, IsFiniteSet(E), NEW B,
         \A k \in E : <<k, k>> \notin B,
         \A k, l \in E : k # l => <<k, l>> \in B \/ <<l, k>> \in B,
         \A j, k, l \in E : <<j, k>> \in B /\ <<k, l>> \in B => <<j, l>> \in B
  PROVE  /\ \A k \in E : Cardinality(AheadOf(E, B, k)) \in 0 .. Cardinality(E) - 1
         /\ \A k, l \in E :
              <<k, l>> \in B => Cardinality(AheadOf(E, B, k)) < Cardinality(AheadOf(E, B, l))
         /\ \A n \in 0 .. Cardinality(E) - 1 : \E k \in E : Cardinality(AheadOf(E, B, k)) = n
<1> DEFINE N == Cardinality(E)
           A(k) == AheadOf(E, B, k)
           rank == [k \in E |-> Cardinality(A(k)) + 1]
<1>1. N \in Nat
  BY FS_CardinalityType
<1>2. \A k \in E : /\ IsFiniteSet(A(k)) /\ Cardinality(A(k)) \in Nat
                    /\ A(k) \subseteq E /\ k \notin A(k)
  <2> TAKE k \in E
  <2>1. A(k) \in SUBSET E /\ k \notin A(k)
    BY DEF AheadOf
  <2>2. IsFiniteSet(A(k)) /\ Cardinality(A(k)) \in Nat
    BY <2>1, FS_Subset, FS_CardinalityType
  <2> QED
    BY <2>1, <2>2
<1>3. \A k, l \in E : <<k, l>> \in B => A(k) \cup {k} \subseteq A(l)
  BY DEF AheadOf
<1> HIDE DEF A
<1>4. \A k \in E : \A S : IsFiniteSet(S) /\ A(k) \cup {k} \subseteq S =>
                           Cardinality(A(k)) + 1 <= Cardinality(S)
  <2> TAKE k \in E
  <2> TAKE S
  <2> HAVE IsFiniteSet(S) /\ A(k) \cup {k} \subseteq S
  <2>1. Cardinality(A(k) \cup {k}) = Cardinality(A(k)) + 1
    BY <1>2, FS_AddElement
  <2>2. Cardinality(A(k) \cup {k}) <= Cardinality(S)
    BY FS_Subset
  <2> QED
    BY <2>1, <2>2
<1>5. \A k \in E : Cardinality(A(k)) \in 0 .. N - 1 /\ rank[k] \in 1 .. N
  <2> TAKE k \in E
  <2>1. A(k) \cup {k} \subseteq E
    BY <1>2
  <2>2. Cardinality(A(k)) + 1 <= N /\ Cardinality(A(k)) \in Nat
    BY <1>2, <1>4, <2>1
  <2> QED
    BY <1>1, <2>2
<1>6. \A k, l \in E : <<k, l>> \in B => Cardinality(A(k)) < Cardinality(A(l))
  <2> TAKE k, l \in E
  <2> HAVE <<k, l>> \in B
  <2>1. /\ Cardinality(A(k)) + 1 <= Cardinality(A(l))
        /\ Cardinality(A(k)) \in Nat /\ Cardinality(A(l)) \in Nat
    BY <1>2, <1>3, <1>4
  <2> QED
    BY <2>1
<1>7. rank \in Injection(E, 1 .. N)
  <2>1. rank \in [E -> 1 .. N]
    BY <1>5
  <2>2. \A k, l \in E : rank[k] = rank[l] => k = l
    <3> TAKE k, l \in E
    <3> HAVE rank[k] = rank[l]
    <3>1. Cardinality(A(k)) = Cardinality(A(l)) /\ Cardinality(A(k)) \in Nat
      BY <1>2
    <3>2. <<k, l>> \notin B /\ <<l, k>> \notin B
      BY <1>6, <3>1
    <3> QED
      BY <3>2
  <2> HIDE DEF rank, N
  <2> QED
    BY <2>1, <2>2 DEF Injection, IsInjective
<1>8. rank \in Surjection(E, 1 .. N)
  <2>1. IsFiniteSet(1 .. N) /\ Cardinality(1 .. N) = N
    BY <1>1, FS_Interval
  <2> QED
    BY <1>7, <2>1, FS_Injection
<1>9. \A n \in 0 .. N - 1 : \E k \in E : Cardinality(A(k)) = n
  <2> TAKE n \in 0 .. N - 1
  <2>1. n + 1 \in 1 .. N
    BY <1>1
  <2>2. PICK k \in E : rank[k] = n + 1
    BY <1>8, <2>1 DEF Surjection
  <2>3. Cardinality(A(k)) + 1 = n + 1 /\ Cardinality(A(k)) \in Nat
    BY <1>2, <2>2
  <2> QED
    BY <2>3
<1> QED
  BY <1>5, <1>6, <1>9 DEF A

Rank(E, k) == Cardinality({j \in E : j < k}) + 1

\* Of natural numbers: ranks grow with them and are all the numbers up to that of the set.
LEMMA Ranks ==
  ASSUME NEW E \in SUBSET Nat, IsFiniteSet(E)
  PROVE  /\ \A k \in E : Rank(E, k) \in 1 .. Cardinality(E)
         /\ \A k, l \in E : k < l => Rank(E, k) < Rank(E, l)
         /\ \A n \in 1 .. Cardinality(E) : \E k \in E : Rank(E, k) = n
<1> DEFINE B == {p \in E \X E : p[1] < p[2]}
           N == Cardinality(E)
<1>1. \A j, k \in E : <<j, k>> \in B <=> j < k
  OBVIOUS
<1>2. \A k \in E : k \in Nat
  OBVIOUS
<1> HIDE DEF B
<1>3. /\ \A k \in E : <<k, k>> \notin B
      /\ \A k, l \in E : k # l => <<k, l>> \in B \/ <<l, k>> \in B
      /\ \A j, k, l \in E : <<j, k>> \in B /\ <<k, l>> \in B => <<j, l>> \in B
  BY <1>1, <1>2
<1>4. \A k \in E : Rank(E, k) = Cardinality(AheadOf(E, B, k)) + 1
  <2> TAKE k \in E
  <2>1. AheadOf(E, B, k) = {j \in E : j < k}
    BY <1>1 DEF AheadOf
  <2> QED
    BY <2>1 DEF Rank
<1>5. /\ \A k \in E : Cardinality(AheadOf(E, B, k)) \in 0 .. N - 1
      /\ \A k, l \in E :
           <<k, l>> \in B => Cardinality(AheadOf(E, B, k)) < Cardinality(AheadOf(E, B, l))
      /\ \A n \in 0 .. N - 1 : \E k \in E : Cardinality(AheadOf(E, B, k)) = n
  BY <1>3, Ranking
<1>6. N \in Nat
  BY FS_CardinalityType
<1>7. ASSUME NEW n \in 1 .. N PROVE \E k \in E : Rank(E, k) = n
  <2>1. n - 1 \in 0 .. N - 1
    BY <1>6
  <2>2. PICK k \in E : Cardinality(AheadOf(E, B, k)) = n - 1
    BY <1>5, <2>1
  <2>3. Rank(E, k) = (n - 1) + 1
    BY <1>4, <2>2
  <2> QED
    BY <2>3
<1> HIDE DEF N
<1>8. \A k \in E : Rank(E, k) \in 1 .. N
  <2> TAKE k \in E
  <2>1. Cardinality(AheadOf(E, B, k)) \in 0 .. N - 1
    BY <1>5
  <2> QED
    BY <1>4, <1>6, <2>1
<1>9. ASSUME NEW k \in E, NEW l \in E, k < l PROVE Rank(E, k) < Rank(E, l)
  <2> DEFINE a == Cardinality(AheadOf(E, B, k))
             b == Cardinality(AheadOf(E, B, l))
  <2>1. a \in 0 .. N - 1 /\ b \in 0 .. N - 1 /\ a < b
    BY <1>1, <1>5, <1>9
  <2>2. Rank(E, k) = a + 1 /\ Rank(E, l) = b + 1
    BY <1>4
  <2> HIDE DEF a, b
  <2> QED
    BY <1>6, <2>1, <2>2
<1> QED
  BY <1>7, <1>8, <1>9 DEF N

--------------------------------------------------------------------------------
(* Sums over finite sets: SumFunctionOnSet of the module Functions.        *)

\* Induction over the subsets of a finite set: a collection of them that has every set
\* of which it has all the sets with one element less has all of them.
LEMMA SubsetInduction ==
  ASSUME NEW S, IsFiniteSet(S), NEW G \in SUBSET (SUBSET S),
         \A T \in SUBSET S : (\A x \in T : T \ {x} \in G) => T \in G
  PROVE  G = SUBSET S
<1> DEFINE Sized == {n \in Nat : \A T \in SUBSET S : Cardinality(T) = n => T \in G}
<1>1. \A T \in SUBSET S : IsFiniteSet(T) /\ Cardinality(T) \in Nat
  BY FS_Subset, FS_CardinalityType
<1>2. 0 \in Sized
  <2>1. ASSUME NEW T \in SUBSET S, Cardinality(T) = 0 PROVE T \in G
    BY <1>1, <2>1, FS_EmptySet
  <2> QED
    BY <2>1
<1>3. ASSUME NEW n \in Sized PROVE n + 1 \in Sized
  <2>1. ASSUME NEW T \in SUBSET S, Cardinality(T) = n + 1 PROVE T \in G
    <3>1. ASSUME NEW x \in T PROVE T \ {x} \in G
      <4>1. n \in Nat /\ T \ {x} \in SUBSET S
        OBVIOUS
      <4>2. Cardinality(T \ {x}) = (n + 1) - 1
        BY <1>1, <2>1, FS_RemoveElement
      <4>3. Cardinality(T \ {x}) = n
        BY <4>1, <4>2
      <4> QED
        BY <4>1, <4>3
    <3> QED
      BY <3>1
  <2> QED
    BY <2>1
<1>4. Sized = Nat
  <2>1. Sized \in SUBSET Nat
    OBVIOUS
  <2> HIDE DEF Sized
  <2> QED
    BY <1>2, <1>3, <2>1, InductionSet
<1>5. ASSUME NEW T \in SUBSET S PROVE T \in G
  <2>1. Cardinality(T) \in Sized
    BY <1>1, <1>4
  <2> QED
    BY <2>1
<1> QED
  BY <1>5

\* What op makes of the values of f over the subsets of S, element after element
IsFold(g, op, z, f, S) ==
  g = [s \in SUBSET S |->
         IF s = {} THEN z
         ELSE LET x == CHOOSE x \in s : TRUE IN op[<<f[x], g[s \ {x}]>>]]

\* An operation on a set can be folded over a finite one.
LEMMA FoldExists ==
  ASSUME NEW S, IsFiniteSet(S), NEW V, NEW op \in [V \X V -> V], NEW z \in V,
         NEW f, \A s \in S : f[s] \in V
  PROVE  \E g \in [SUBSET S -> V] : IsFold(g, op, z, f, S)
<1> DEFINE Folds == [SUBSET S -> V]
           First(s) == CHOOSE x \in s : TRUE
           More(u) ==
             [s \in SUBSET S |-> IF s = {} THEN z ELSE op[<<f[First(s)], u[s \ {First(s)}]>>]]
           none == [s \in SUBSET S |-> z]
           G == [n \in Nat |-> [u \in Folds |-> More(u)]]
<1>1. \A s \in SUBSET S : /\ IsFiniteSet(s) /\ Cardinality(s) \in Nat
                          /\ Cardinality(s) = 0 <=> s = {}
  BY FS_Subset, FS_CardinalityType, FS_EmptySet
<1>2. \A s \in SUBSET S : s # {} => First(s) \in s
  OBVIOUS
<1> HIDE DEF First
<1>3. none \in Folds
  OBVIOUS
<1>4. ASSUME NEW u \in Folds PROVE More(u) \in Folds
  <2>1. ASSUME NEW s \in SUBSET S, s # {}
        PROVE  op[<<f[First(s)], u[s \ {First(s)}]>>] \in V
    <3>1. f[First(s)] \in V /\ u[s \ {First(s)}] \in V
      BY <1>2, <2>1
    <3> QED
      BY <3>1
  <2> QED
    BY <2>1
<1>5. PICK F \in [Nat -> Folds] : F[0] = none /\ \A n \in Nat : F[n + 1] = More(F[n])
  <2>1. RecursiveSequences(Folds, none, G) # {}
    <3>1. G \in [Nat -> [Folds -> Folds]]
      <4> HIDE DEF Folds, More
      <4> QED
        BY <1>4
    <3> HIDE DEF Folds, none, G
    <3> QED
      BY <1>3, <3>1, RecursiveSequence
  <2>2. PICK F \in [Nat -> Folds] : F[0] = none /\ \A n \in Nat : F[n + 1] = G[n][F[n]]
    <3> HIDE DEF G, Folds, none
    <3> QED
      BY <2>1 DEF RecursiveSequences
  <2>3. \A n \in Nat : F[n + 1] = More(F[n])
    <3> HIDE DEF Folds, More
    <3> QED
      BY <2>2
  <2> HIDE DEF Folds, More, none
  <2> QED
    BY <2>2, <2>3
<1> DEFINE g == [s \in SUBSET S |-> F[Cardinality(s)][s]]
<1>6. g \in Folds
  <2>1. ASSUME NEW s \in SUBSET S PROVE F[Cardinality(s)][s] \in V
    <3>1. F[Cardinality(s)] \in Folds
      <4> HIDE DEF Folds
      <4> QED
        BY <1>1
    <3> QED
      BY <3>1
  <2> QED
    BY <2>1
<1>7. ASSUME NEW s \in SUBSET S
      PROVE  g[s] = IF s = {} THEN z ELSE op[<<f[First(s)], g[s \ {First(s)}]>>]
  <2>1. CASE s = {}
    BY <1>1, <1>5, <2>1
  <2>2. CASE s # {}
    <3> DEFINE r == s \ {First(s)}
    <3>1. r \in SUBSET S /\ Cardinality(r) \in Nat /\ Cardinality(s) = Cardinality(r) + 1
      BY <1>1, <1>2, <2>2, FS_RemoveElement
    <3>2. F[Cardinality(s)] = More(F[Cardinality(r)])
      <4> HIDE DEF More, Folds, r
      <4> QED
        BY <1>5, <3>1
    <3>3. F[Cardinality(s)][s] = op[<<f[First(s)], F[Cardinality(r)][r]>>]
      BY <2>2, <3>2
    <3> QED
      BY <2>2, <3>1, <3>3
  <2> QED
    BY <2>1, <2>2
<1>8. IsFold(g, op, z, f, S)
  <2> HIDE DEF g
  <2> SUFFICES g = [s \in SUBSET S |->
                      IF s = {} THEN z ELSE op[<<f[First(s)], g[s \ {First(s)}]>>]]
    BY DEF IsFold, First
  <2> QED
    BY <1>6, <1>7
<1> QED
  BY <1>6, <1>8

\* The sums of f over the subsets of S, element after element in the order of CHOOSE.
IsSum(g, f, S) ==
  g = [s \in SUBSET S |->
         IF s = {} THEN 0
         ELSE LET x == CHOOSE x \in s : TRUE IN f[x] + g[s \ {x}]]

\* SumFunctionOnSet, without the operators it folds.
LEMMA SumDef ==
  ASSUME NEW f, NEW S
  PROVE SumFunctionOnSet(f, S) = (CHOOSE g : IsSum(g, f, S))[S]
BY DEF SumFunctionOnSet, FoldFunctionOnSet, MapThenFoldSet, IsSum

\* The sums exist.
LEMMA SumExists ==
  ASSUME NEW S, IsFiniteSet(S), NEW f, \A s \in S : f[s] \in Int
  PROVE  \E g \in [SUBSET S -> Int] : IsSum(g, f, S)
<1> DEFINE add == [p \in Int \X Int |-> p[1] + p[2]]
<1>1. add \in [Int \X Int -> Int] /\ \A x, y \in Int : add[<<x, y>>] = x + y
  OBVIOUS
<1> HIDE DEF add
<1>2. \E g \in [SUBSET S -> Int] : IsFold(g, add, 0, f, S)
  <2>1. 0 \in Int
    OBVIOUS
  <2> DEFINE V == Int
  <2>2. \A s \in S : f[s] \in V
    OBVIOUS
  <2> HIDE DEF V
  <2> QED
    BY <1>1, <2>1, <2>2, FoldExists DEF V
<1> PICK g \in [SUBSET S -> Int] : IsFold(g, add, 0, f, S)
  BY <1>2
<1>3. ASSUME NEW s \in SUBSET S, s # {}
      PROVE  LET x == CHOOSE x \in s : TRUE
             IN  add[<<f[x], g[s \ {x}]>>] = f[x] + g[s \ {x}]
  <2> DEFINE x == CHOOSE x \in s : TRUE
  <2>1. x \in s
    BY <1>3
  <2> HIDE DEF x
  <2>2. add[<<f[x], g[s \ {x}]>>] = f[x] + g[s \ {x}]
    BY <1>1, <2>1
  <2> QED
    BY <2>2 DEF x
<1>4. IsSum(g, f, S)
  <2>1. g = [s \in SUBSET S |->
               IF s = {} THEN 0
               ELSE LET x == CHOOSE x \in s : TRUE IN add[<<f[x], g[s \ {x}]>>]]
    BY Zenon DEF IsFold
  <2>2. g = [s \in SUBSET S |->
               IF s = {} THEN 0
               ELSE LET x == CHOOSE x \in s : TRUE IN f[x] + g[s \ {x}]]
    BY ONLY <1>3, <2>1
  <2> QED
    BY ONLY <2>2, Zenon DEF IsSum
<1> QED
  BY <1>4

\* Sums over different sets agree: the sum over a subset is one of the sums over the set.
LEMMA SumUnique ==
  ASSUME NEW S, IsFiniteSet(S), NEW f, NEW T \in SUBSET S, NEW g, IsSum(g, f, S),
         NEW h, IsSum(h, f, T)
  PROVE  g[T] = h[T]
<1> DEFINE First(s) == CHOOSE x \in s : TRUE
           Same == {s \in SUBSET T : g[s] = h[s]}
<1>1. \A s : s # {} => First(s) \in s
  OBVIOUS
<1>2. g = [s \in SUBSET S |-> IF s = {} THEN 0 ELSE f[First(s)] + g[s \ {First(s)}]]
  BY DEF IsSum
<1>3. h = [s \in SUBSET T |-> IF s = {} THEN 0 ELSE f[First(s)] + h[s \ {First(s)}]]
  BY DEF IsSum
<1> HIDE DEF First
<1>4. IsFiniteSet(T)
  BY FS_Subset
<1>5. ASSUME NEW s \in SUBSET T, \A x \in s : s \ {x} \in Same PROVE s \in Same
  <2>1. g[s] = IF s = {} THEN 0 ELSE f[First(s)] + g[s \ {First(s)}]
    BY <1>2
  <2>2. h[s] = IF s = {} THEN 0 ELSE f[First(s)] + h[s \ {First(s)}]
    BY <1>3
  <2> QED
    BY <1>1, <1>5, <2>1, <2>2
<1>6. Same = SUBSET T
  <2>1. Same \in SUBSET (SUBSET T)
    OBVIOUS
  <2> HIDE DEF Same
  <2> QED
    BY <1>4, <1>5, <2>1, SubsetInduction
<1> QED
  BY <1>6

\* SumFunctionOnSet is one of the sums.
LEMMA SumValue ==
  ASSUME NEW S, IsFiniteSet(S), NEW f, \A s \in S : f[s] \in Int
  PROVE  /\ SumFunctionOnSet(f, S) \in Int
         /\ \E g : IsSum(g, f, S) /\ SumFunctionOnSet(f, S) = g[S]
<1>1. PICK g \in [SUBSET S -> Int] : IsSum(g, f, S)
  BY SumExists
<1>2. PICK h : IsSum(h, f, S) /\ SumFunctionOnSet(f, S) = h[S]
  BY <1>1, SumDef
<1>3. g[S] = h[S] /\ g[S] \in Int
  <2>1. S \in SUBSET S
    OBVIOUS
  <2> QED
    BY <1>1, <1>2, <2>1, SumUnique
<1> QED
  BY <1>2, <1>3

\* One sum from the sum over all but an element: the order of the elements is irrelevant.
LEMMA SumIs ==
  ASSUME NEW S, IsFiniteSet(S), NEW f, \A s \in S : f[s] \in Int
  PROVE  /\ SumFunctionOnSet(f, S) \in Int
         /\ S = {} => SumFunctionOnSet(f, S) = 0
         /\ \A x \in S : SumFunctionOnSet(f, S) = f[x] + SumFunctionOnSet(f, S \ {x})
<1> DEFINE First(s) == CHOOSE x \in s : TRUE
           Total(s) == SumFunctionOnSet(f, s)
           Good == {s \in SUBSET S : \A x \in s : Total(s) = f[x] + Total(s \ {x})}
<1>1. \A s : s # {} => First(s) \in s
  OBVIOUS
<1>2. ASSUME NEW s \in SUBSET S
      PROVE  /\ Total(s) \in Int
             /\ Total(s) = IF s = {} THEN 0 ELSE f[First(s)] + Total(s \ {First(s)})
  <2>1. IsFiniteSet(s) /\ \A x \in s : f[x] \in Int
    BY FS_Subset
  <2>2. PICK g : IsSum(g, f, s) /\ Total(s) = g[s]
    BY <2>1, SumValue
  <2>3. g[s] = IF s = {} THEN 0 ELSE f[First(s)] + g[s \ {First(s)}]
    BY <2>2 DEF IsSum
  <2>4. ASSUME s # {} PROVE Total(s \ {First(s)}) = g[s \ {First(s)}]
    <3> DEFINE r == s \ {First(s)}
    <3>1. r \in SUBSET s /\ r \in SUBSET S
      OBVIOUS
    <3> HIDE DEF r, First
    <3>2. IsFiniteSet(r) /\ \A x \in r : f[x] \in Int
      BY <3>1, FS_Subset
    <3>3. PICK h : IsSum(h, f, r) /\ Total(r) = h[r]
      BY <3>2, SumValue
    <3>4. g[r] = h[r]
      BY <2>1, <2>2, <3>1, <3>3, SumUnique
    <3> QED
      BY <3>3, <3>4 DEF r
  <2> QED
    BY <2>1, <2>2, <2>3, <2>4, SumValue
<1> HIDE DEF First, Total
<1>3. ASSUME NEW s \in SUBSET S, \A x \in s : s \ {x} \in Good, NEW x \in s
      PROVE  Total(s) = f[x] + Total(s \ {x})
  <2> DEFINE c == First(s)
             r == (s \ {c}) \ {x}
  <2>1. c \in s /\ Total(s) = f[c] + Total(s \ {c})
    BY <1>1, <1>2
  <2>2. CASE x = c
    BY <2>1, <2>2
  <2>3. CASE x # c
    <3>1. x \in s \ {c} /\ c \in s \ {x} /\ s \ {c} \in Good /\ s \ {x} \in Good
      BY <1>3, <2>1, <2>3
    <3>2. Total(s \ {c}) = f[x] + Total(r)
      BY <3>1
    <3>3. (s \ {x}) \ {c} = r
      OBVIOUS
    <3>4. Total(s \ {x}) = f[c] + Total(r)
      BY <3>1, <3>3
    <3>5. f[x] \in Int /\ f[c] \in Int /\ Total(r) \in Int
      <4>1. r \in SUBSET S
        OBVIOUS
      <4> HIDE DEF r
      <4> QED
        BY <1>2, <2>1, <4>1
    <3> QED
      BY <2>1, <3>2, <3>4, <3>5
  <2> QED
    BY <2>2, <2>3
<1>4. Good = SUBSET S
  <2>1. Good \in SUBSET (SUBSET S)
    OBVIOUS
  <2>2. ASSUME NEW s \in SUBSET S, \A x \in s : s \ {x} \in Good PROVE s \in Good
    BY <1>3, <2>2
  <2> HIDE DEF Good
  <2> QED
    BY <2>1, <2>2, SubsetInduction
<1>5. /\ Total(S) \in Int
      /\ S = {} => Total(S) = 0
      /\ \A x \in S : Total(S) = f[x] + Total(S \ {x})
  BY <1>2, <1>4
<1> QED
  BY <1>5 DEF Total

\* A sum grows by the element that is added.
LEMMA SumAdd ==
  ASSUME NEW S, IsFiniteSet(S), NEW f, \A s \in S : f[s] \in Int,
         NEW x, x \notin S, f[x] \in Int
  PROVE  SumFunctionOnSet(f, S \cup {x}) = f[x] + SumFunctionOnSet(f, S)
<1> DEFINE T == S \cup {x}
<1>1. IsFiniteSet(T) /\ \A s \in T : f[s] \in Int
  BY FS_AddElement
<1>2. x \in T /\ T \ {x} = S
  OBVIOUS
<1> HIDE DEF T
<1>3. SumFunctionOnSet(f, T) = f[x] + SumFunctionOnSet(f, S)
  BY <1>1, <1>2, SumIs
<1> QED
  BY <1>3 DEF T

\* A sum of multiples
LEMMA SumScaled ==
  ASSUME NEW S, IsFiniteSet(S), NEW f, NEW h, NEW a \in Int,
         \A s \in S : f[s] \in Int /\ h[s] = a * f[s]
  PROVE  SumFunctionOnSet(h, S) = a * SumFunctionOnSet(f, S)
<1> DEFINE F(s) == SumFunctionOnSet(f, s)
           H(s) == SumFunctionOnSet(h, s)
           Good == {s \in SUBSET S : H(s) = a * F(s)}
<1>1. ASSUME NEW s \in SUBSET S
      PROVE  /\ F(s) \in Int /\ (s = {} => F(s) = 0 /\ H(s) = 0)
             /\ \A x \in s : F(s) = f[x] + F(s \ {x}) /\ H(s) = h[x] + H(s \ {x})
  <2>1. IsFiniteSet(s) /\ \A x \in s : f[x] \in Int /\ h[x] \in Int
    BY FS_Subset
  <2> QED
    BY <2>1, SumIs
<1> HIDE DEF F, H
<1>2. ASSUME NEW s \in SUBSET S, \A x \in s : s \ {x} \in Good PROVE s \in Good
  <2>1. CASE s = {}
    BY <1>1, <2>1
  <2>2. CASE s # {}
    <3>1. PICK x \in s : s \ {x} \in Good
      BY <1>2, <2>2
    <3> DEFINE r == s \ {x}
    <3>2. r \in SUBSET S /\ H(r) = a * F(r)
      BY <3>1
    <3>3. F(s) = f[x] + F(r) /\ H(s) = h[x] + H(r)
      BY <1>1
    <3> HIDE DEF r
    <3>4. F(r) \in Int /\ f[x] \in Int /\ h[x] = a * f[x]
      BY <1>1, <3>2
    <3>5. \A i, k \in Int : a * i + a * k = a * (i + k)
      OBVIOUS
    <3> QED
      BY <3>2, <3>3, <3>4, <3>5
  <2> QED
    BY <2>1, <2>2
<1>3. Good = SUBSET S
  <2>1. Good \in SUBSET (SUBSET S)
    OBVIOUS
  <2> HIDE DEF Good
  <2> QED
    BY <1>2, <2>1, SubsetInduction
<1>4. H(S) = a * F(S)
  BY <1>3
<1> QED
  BY <1>4 DEF F, H

\* A sum of sums
LEMMA SumPlus ==
  ASSUME NEW S, IsFiniteSet(S), NEW f, NEW g, NEW h,
         \A s \in S : f[s] \in Int /\ g[s] \in Int /\ h[s] = f[s] + g[s]
  PROVE  SumFunctionOnSet(h, S) = SumFunctionOnSet(f, S) + SumFunctionOnSet(g, S)
<1> DEFINE F(s) == SumFunctionOnSet(f, s)
           G(s) == SumFunctionOnSet(g, s)
           H(s) == SumFunctionOnSet(h, s)
           Good == {s \in SUBSET S : H(s) = F(s) + G(s)}
<1>1. ASSUME NEW s \in SUBSET S
      PROVE  /\ F(s) \in Int /\ G(s) \in Int
             /\ s = {} => F(s) = 0 /\ G(s) = 0 /\ H(s) = 0
             /\ \A x \in s : /\ F(s) = f[x] + F(s \ {x})
                             /\ G(s) = g[x] + G(s \ {x})
                             /\ H(s) = h[x] + H(s \ {x})
  <2>1. IsFiniteSet(s) /\ \A x \in s : f[x] \in Int /\ g[x] \in Int /\ h[x] \in Int
    BY FS_Subset
  <2> QED
    BY <2>1, SumIs
<1> HIDE DEF F, G, H
<1>2. ASSUME NEW s \in SUBSET S, \A x \in s : s \ {x} \in Good PROVE s \in Good
  <2>1. CASE s = {}
    BY <1>1, <2>1
  <2>2. CASE s # {}
    <3>1. PICK x \in s : s \ {x} \in Good
      BY <1>2, <2>2
    <3> DEFINE r == s \ {x}
    <3>2. r \in SUBSET S /\ H(r) = F(r) + G(r)
      BY <3>1
    <3>3. F(s) = f[x] + F(r) /\ G(s) = g[x] + G(r) /\ H(s) = h[x] + H(r)
      BY <1>1
    <3> HIDE DEF r
    <3>4. /\ F(r) \in Int /\ G(r) \in Int /\ f[x] \in Int /\ g[x] \in Int
          /\ h[x] = f[x] + g[x]
      BY <1>1, <3>2
    <3> QED
      BY <3>2, <3>3, <3>4
  <2> QED
    BY <2>1, <2>2
<1>3. Good = SUBSET S
  <2>1. Good \in SUBSET (SUBSET S)
    OBVIOUS
  <2> HIDE DEF Good
  <2> QED
    BY <1>2, <2>1, SubsetInduction
<1>4. H(S) = F(S) + G(S)
  BY <1>3
<1> QED
  BY <1>4 DEF F, G, H

\* Smaller elements have a smaller sum, strictly if one of them is.
LEMMA SumCompare ==
  ASSUME NEW S, IsFiniteSet(S), NEW f, NEW g,
         \A s \in S : f[s] \in Int /\ g[s] \in Int /\ f[s] <= g[s]
  PROVE  /\ SumFunctionOnSet(f, S) <= SumFunctionOnSet(g, S)
         /\ (\E s \in S : f[s] < g[s]) => SumFunctionOnSet(f, S) < SumFunctionOnSet(g, S)
<1> DEFINE F(s) == SumFunctionOnSet(f, s)
           G(s) == SumFunctionOnSet(g, s)
           Good == {s \in SUBSET S : /\ F(s) <= G(s)
                                     /\ (\E x \in s : f[x] < g[x]) => F(s) < G(s)}
<1>1. ASSUME NEW s \in SUBSET S
      PROVE  /\ F(s) \in Int /\ G(s) \in Int
             /\ s = {} => F(s) = 0 /\ G(s) = 0
             /\ \A x \in s : F(s) = f[x] + F(s \ {x}) /\ G(s) = g[x] + G(s \ {x})
  <2>1. IsFiniteSet(s) /\ \A x \in s : f[x] \in Int /\ g[x] \in Int
    BY FS_Subset
  <2> QED
    BY <2>1, SumIs
<1> HIDE DEF F, G
<1>2. ASSUME NEW s \in SUBSET S, \A x \in s : s \ {x} \in Good PROVE s \in Good
  <2>1. ASSUME NEW x \in s
        PROVE  F(s) <= G(s) /\ (f[x] < g[x] => F(s) < G(s))
    <3> DEFINE r == s \ {x}
    <3>1. r \in SUBSET S /\ F(r) <= G(r)
      BY <1>2
    <3>2. F(s) = f[x] + F(r) /\ G(s) = g[x] + G(r)
      BY <1>1
    <3> HIDE DEF r
    <3>3. F(r) \in Int /\ G(r) \in Int /\ f[x] \in Int /\ g[x] \in Int /\ f[x] <= g[x]
      BY <1>1, <3>1
    <3> QED
      BY <3>1, <3>2, <3>3
  <2>2. CASE s = {}
    BY <1>1, <2>2
  <2>3. CASE s # {}
    BY <2>1, <2>3
  <2> QED
    BY <2>2, <2>3
<1>3. Good = SUBSET S
  <2>1. Good \in SUBSET (SUBSET S)
    OBVIOUS
  <2> HIDE DEF Good
  <2> QED
    BY <1>2, <2>1, SubsetInduction
<1>4. F(S) <= G(S) /\ ((\E x \in S : f[x] < g[x]) => F(S) < G(S))
  BY <1>3
<1> QED
  BY <1>4 DEF F, G

\* A sum of natural numbers is one, and not less than any of them.
LEMMA SumOfNaturals ==
  ASSUME NEW S, IsFiniteSet(S), NEW f, \A s \in S : f[s] \in Nat
  PROVE  /\ SumFunctionOnSet(f, S) \in Nat
         /\ \A s \in S : f[s] <= SumFunctionOnSet(f, S)
<1>1. ASSUME NEW T \in SUBSET S PROVE SumFunctionOnSet(f, T) \in Nat
  <2> DEFINE zero == [s \in T |-> 0]
  <2>1. /\ IsFiniteSet(T)
        /\ \A s \in T : zero[s] \in Int /\ f[s] \in Int /\ zero[s] = 0 * f[s] /\ zero[s] <= f[s]
    BY FS_Subset
  <2> HIDE DEF zero
  <2>2. SumFunctionOnSet(zero, T) = 0 * SumFunctionOnSet(f, T)
    BY <2>1, SumScaled
  <2>3. SumFunctionOnSet(f, T) \in Int /\ SumFunctionOnSet(zero, T) <= SumFunctionOnSet(f, T)
    BY <2>1, SumIs, SumCompare
  <2> QED
    BY <2>2, <2>3
<1>2. ASSUME NEW s \in S PROVE f[s] <= SumFunctionOnSet(f, S)
  <2> DEFINE T == S \ {s}
  <2>1. SumFunctionOnSet(f, S) = f[s] + SumFunctionOnSet(f, T)
    BY SumIs
  <2>2. SumFunctionOnSet(f, T) \in Nat /\ SumFunctionOnSet(f, S) \in Nat /\ f[s] \in Nat
    BY <1>1
  <2> HIDE DEF T
  <2> QED
    BY <2>1, <2>2
<1> QED
  BY <1>1, <1>2

\* A sum does not depend on the names of its elements.
LEMMA SumRenamed ==
  ASSUME NEW S, IsFiniteSet(S), NEW T, IsFiniteSet(T), NEW f, NEW g,
         NEW p \in Bijection(S, T), \A s \in S : f[s] \in Int /\ f[s] = g[p[s]]
  PROVE  SumFunctionOnSet(f, S) = SumFunctionOnSet(g, T)
<1> DEFINE Image(s) == {p[x] : x \in s}
           F(s) == SumFunctionOnSet(f, s)
           G(s) == SumFunctionOnSet(g, s)
           Good == {s \in SUBSET S : F(s) = G(Image(s))}
<1>1. /\ p \in [S -> T]
      /\ \A x, y \in S : p[x] = p[y] => x = y
      /\ \A y \in T : \E x \in S : p[x] = y
  BY DEF Bijection, Injection, Surjection, IsInjective
<1>2. \A y \in T : g[y] \in Int
  BY <1>1
<1>3. Image(S) = T
  BY <1>1
<1>4. ASSUME NEW s \in SUBSET S
      PROVE  /\ s = {} => F(s) = 0 /\ G(Image(s)) = 0
             /\ \A x \in s : F(s) = f[x] + F(s \ {x})
             /\ \A x \in s : G(Image(s)) = f[x] + G(Image(s \ {x}))
  <2>1. Image(s) \in SUBSET T
    BY <1>1
  <2>2. IsFiniteSet(s) /\ IsFiniteSet(Image(s))
    BY <2>1, FS_Subset
  <2>3. (\A x \in s : f[x] \in Int) /\ (\A y \in Image(s) : g[y] \in Int)
    BY <1>2, <2>1
  <2>4. s = {} => Image(s) = {}
    OBVIOUS
  <2>5. \A x \in s : /\ Image(s \ {x}) = Image(s) \ {p[x]} /\ p[x] \in Image(s)
                     /\ g[p[x]] = f[x]
    BY <1>1
  <2> HIDE DEF Image
  <2>6. /\ s = {} => F(s) = 0 /\ G(Image(s)) = 0
        /\ \A x \in s : F(s) = f[x] + F(s \ {x})
        /\ \A y \in Image(s) : G(Image(s)) = g[y] + G(Image(s) \ {y})
    BY <2>2, <2>3, <2>4, SumIs
  <2> QED
    BY <2>5, <2>6
<1> HIDE DEF F, G, Image
<1>5. ASSUME NEW s \in SUBSET S, \A x \in s : s \ {x} \in Good PROVE s \in Good
  <2>1. CASE s = {}
    BY <1>4, <2>1
  <2>2. CASE s # {}
    <3>1. PICK x \in s : F(s \ {x}) = G(Image(s \ {x}))
      BY <1>5, <2>2
    <3> QED
      BY <1>4, <3>1
  <2> QED
    BY <2>1, <2>2
<1>6. Good = SUBSET S
  <2>1. Good \in SUBSET (SUBSET S)
    OBVIOUS
  <2> HIDE DEF Good
  <2> QED
    BY <1>5, <2>1, SubsetInduction
<1>7. F(S) = G(Image(S))
  BY <1>6
<1> QED
  BY <1>3, <1>7 DEF F, G

\* The sum over two disjoint sets
LEMMA SumSplit ==
  ASSUME NEW S, IsFiniteSet(S), NEW T \in SUBSET S, NEW f, \A s \in S : f[s] \in Int
  PROVE  SumFunctionOnSet(f, S) = SumFunctionOnSet(f, T) + SumFunctionOnSet(f, S \ T)
<1> DEFINE F(s) == SumFunctionOnSet(f, s)
           Good == {s \in SUBSET T : F(S) = F(s) + F(S \ s)}
<1>1. \A s \in SUBSET S : /\ F(s) \in Int
                          /\ s = {} => F(s) = 0
                          /\ \A x \in s : F(s) = f[x] + F(s \ {x})
  <2>1. ASSUME NEW s \in SUBSET S PROVE IsFiniteSet(s) /\ \A x \in s : f[x] \in Int
    BY FS_Subset
  <2> QED
    BY <2>1, SumIs
<1> HIDE DEF F
<1>2. ASSUME NEW s \in SUBSET T, \A x \in s : s \ {x} \in Good PROVE s \in Good
  <2>1. CASE s = {}
    BY <1>1, <2>1
  <2>2. CASE s # {}
    <3>1. PICK x \in s : s \ {x} \in Good
      BY <1>2, <2>2
    <3> DEFINE r == s \ {x}
               u == S \ s
    <3>2. F(S) = F(r) + F(S \ r)
      BY <3>1
    <3>3. F(s) = f[x] + F(r)
      BY <1>1
    <3>4. F(S \ r) = f[x] + F(u)
      <4>1. S \ r \in SUBSET S /\ x \in S \ r /\ (S \ r) \ {x} = u
        OBVIOUS
      <4> HIDE DEF r, u
      <4> QED
        BY <1>1, <4>1
    <3>5. f[x] \in Int /\ F(r) \in Int /\ F(u) \in Int
      <4>1. r \in SUBSET S /\ u \in SUBSET S
        OBVIOUS
      <4> HIDE DEF r, u
      <4> QED
        BY <1>1, <4>1
    <3> HIDE DEF r
    <3> QED
      BY <3>2, <3>3, <3>4, <3>5
  <2> QED
    BY <2>1, <2>2
<1>3. Good = SUBSET T
  <2>1. Good \in SUBSET (SUBSET T) /\ IsFiniteSet(T)
    BY FS_Subset
  <2> HIDE DEF Good
  <2> QED
    BY <1>2, <2>1, SubsetInduction
<1>4. F(S) = F(T) + F(S \ T)
  BY <1>3
<1> QED
  BY <1>4 DEF F

\* Functions that agree on a set have the same sum over it.
LEMMA SumSame ==
  ASSUME NEW S, IsFiniteSet(S), NEW f, NEW g, \A s \in S : f[s] \in Int /\ f[s] = g[s]
  PROVE  SumFunctionOnSet(f, S) = SumFunctionOnSet(g, S)
<1>1. /\ SumFunctionOnSet(f, S) <= SumFunctionOnSet(g, S)
      /\ SumFunctionOnSet(g, S) <= SumFunctionOnSet(f, S)
      /\ SumFunctionOnSet(f, S) \in Int /\ SumFunctionOnSet(g, S) \in Int
  BY SumCompare, SumIs
<1> QED
  BY <1>1

\* The sum when one element changes
LEMMA SumChange ==
  ASSUME NEW S, IsFiniteSet(S), NEW f, NEW g, NEW x, x \in S,
         \A s \in S : f[s] \in Int /\ g[s] \in Int, \A s \in S : s # x => f[s] = g[s]
  PROVE  SumFunctionOnSet(g, S) = SumFunctionOnSet(f, S) - f[x] + g[x]
<1> DEFINE r == S \ {x}
<1>1. IsFiniteSet(r) /\ \A s \in r : f[s] \in Int /\ f[s] = g[s]
  BY FS_RemoveElement
<1>2. /\ SumFunctionOnSet(f, S) = f[x] + SumFunctionOnSet(f, r)
      /\ SumFunctionOnSet(g, S) = g[x] + SumFunctionOnSet(g, r)
  BY SumIs
<1> HIDE DEF r
<1>3. SumFunctionOnSet(f, r) = SumFunctionOnSet(g, r) /\ SumFunctionOnSet(f, r) \in Int
  BY <1>1, SumSame, SumIs
<1> QED
  BY <1>2, <1>3

\* The members of B that class puts into one of the classes D
InClasses(B, class, D) == {x \in B : class[x] \in D}

\* The sizes of the classes of a set add up to the size of the set.
LEMMA CountedClasses ==
  ASSUME NEW B, IsFiniteSet(B), NEW class, NEW D, IsFiniteSet(D), NEW f,
         \A d \in D : f[d] = Cardinality(InClasses(B, class, {d}))
  PROVE  SumFunctionOnSet(f, D) = Cardinality(InClasses(B, class, D))
<1> DEFINE F(s) == SumFunctionOnSet(f, s)
           In(s) == InClasses(B, class, s)
           Good == {s \in SUBSET D : F(s) = Cardinality(In(s))}
<1>1. ASSUME NEW s PROVE IsFiniteSet(In(s)) /\ Cardinality(In(s)) \in Nat
  <2>1. In(s) \in SUBSET B
    BY DEF InClasses
  <2> HIDE DEF In
  <2> QED
    BY <2>1, FS_Subset, FS_CardinalityType
<1>2. \A d \in D : f[d] = Cardinality(In({d})) /\ f[d] \in Int
  <2> TAKE d \in D
  <2>1. f[d] = Cardinality(In({d}))
    OBVIOUS
  <2> HIDE DEF In
  <2> QED
    BY <1>1, <2>1
<1>3. ASSUME NEW s \in SUBSET D
      PROVE  /\ s = {} => F(s) = 0
             /\ \A d \in s : F(s) = f[d] + F(s \ {d})
  <2>1. IsFiniteSet(s) /\ \A d \in s : f[d] \in Int
    BY <1>2, FS_Subset
  <2> QED
    BY <2>1, SumIs
<1>4. ASSUME NEW s, NEW d \in s
      PROVE  Cardinality(In(s)) = Cardinality(In({d})) + Cardinality(In(s \ {d}))
  <2>1. In(s) = In({d}) \cup In(s \ {d}) /\ In({d}) \cap In(s \ {d}) = {}
    BY DEF InClasses
  <2> HIDE DEF In
  <2>2. Cardinality(In({d}) \cup In(s \ {d})) =
          Cardinality(In({d})) + Cardinality(In(s \ {d})) - Cardinality({})
    <3> DEFINE A == In({d})
               C == In(s \ {d})
    <3>1. IsFiniteSet(A) /\ IsFiniteSet(C) /\ A \cap C = {}
      BY <1>1, <2>1
    <3> SUFFICES Cardinality(A \cup C) = Cardinality(A) + Cardinality(C) - Cardinality({})
      OBVIOUS
    <3> HIDE DEF A, C
    <3>2. Cardinality(A \cup C) = Cardinality(A) + Cardinality(C) - Cardinality(A \cap C)
      BY <3>1, FS_Union
    <3> QED
      BY <3>1, <3>2
  <2>3. Cardinality(In(s)) = Cardinality(In({d})) + Cardinality(In(s \ {d})) - 0
    BY <2>1, <2>2, FS_EmptySet
  <2> QED
    BY <1>1, <2>3
<1>5. In({}) = {}
  BY DEF InClasses
<1> HIDE DEF F, In
<1>6. ASSUME NEW s \in SUBSET D, \A x \in s : s \ {x} \in Good PROVE s \in Good
  <2>1. CASE s = {}
    BY <1>3, <1>5, <2>1, FS_EmptySet
  <2>2. CASE s # {}
    <3>1. PICK d \in s : s \ {d} \in Good
      BY <1>6, <2>2
    <3>2. F(s) = f[d] + F(s \ {d}) /\ F(s \ {d}) = Cardinality(In(s \ {d}))
      BY <1>3, <3>1
    <3>3. d \in D
      OBVIOUS
    <3> QED
      BY <1>2, <1>4, <3>2, <3>3
  <2> QED
    BY <2>1, <2>2
<1>7. Good = SUBSET D
  <2>1. Good \in SUBSET (SUBSET D)
    OBVIOUS
  <2> HIDE DEF Good
  <2> QED
    BY <1>6, <2>1, SubsetInduction
<1>8. F(D) = Cardinality(In(D))
  BY <1>7
<1> QED
  BY <1>8 DEF F, In

\* In the words of class
LEMMA SumOfClasses ==
  ASSUME NEW B, IsFiniteSet(B), NEW class, NEW D, IsFiniteSet(D), NEW f,
         \A d \in D : f[d] = Cardinality({x \in B : class[x] = d})
  PROVE  SumFunctionOnSet(f, D) = Cardinality({x \in B : class[x] \in D})
<1>1. ASSUME NEW d \in D PROVE f[d] = Cardinality(InClasses(B, class, {d}))
  <2>1. InClasses(B, class, {d}) = {x \in B : class[x] = d}
    BY DEF InClasses
  <2> QED
    BY <2>1
<1>2. SumFunctionOnSet(f, D) = Cardinality(InClasses(B, class, D))
  BY <1>1, CountedClasses
<1> QED
  BY <1>2 DEF InClasses

\* The sum of ones is the number of them.
LEMMA SumOfOnes ==
  ASSUME NEW S, IsFiniteSet(S)
  PROVE  SumFunctionOnSet([s \in S |-> 1], S) = Cardinality(S)
<1> DEFINE one == [s \in S |-> 1]
           same == [s \in S |-> s]
<1>1. ASSUME NEW s \in S PROVE one[s] = Cardinality({x \in S : same[x] = s})
  <2>1. {x \in S : same[x] = s} = {s}
    OBVIOUS
  <2> QED
    BY <2>1, FS_Singleton
<1>2. {x \in S : same[x] \in S} = S
  OBVIOUS
<1> HIDE DEF one, same
<1>3. SumFunctionOnSet(one, S) = Cardinality({x \in S : same[x] \in S})
  BY <1>1, SumOfClasses
<1> QED
  BY <1>2, <1>3 DEF one

\* The sum of differences of neighbours
LEMMA SumOfDrops ==
  ASSUME NEW first \in Nat, NEW last \in Nat, first <= last, NEW F,
         \A i \in first .. last : F[i] \in Int,
         NEW N, \A i \in first .. last - 1 : N[i] = F[i] - F[i + 1]
  PROVE  SumFunctionOnSet(N, first .. last - 1) = F[first] - F[last]
<1> DEFINE Good == {m \in Nat : first <= m /\ m <= last =>
                      SumFunctionOnSet(N, first .. m - 1) = F[first] - F[m]}
<1>1. SumFunctionOnSet(N, first .. first - 1) = F[first] - F[first]
  <2>1. first .. first - 1 = {}
    OBVIOUS
  <2>2. SumFunctionOnSet(N, {}) = 0
    BY SumIs, FS_EmptySet
  <2> QED
    BY <2>1, <2>2
<1>2. ASSUME NEW m \in Good PROVE m + 1 \in Good
  <2>1. SUFFICES ASSUME first <= m + 1, m + 1 <= last
                 PROVE  SumFunctionOnSet(N, first .. (m + 1) - 1) = F[first] - F[m + 1]
    OBVIOUS
  <2>2. CASE first = m + 1
    BY <1>1, <2>2
  <2>3. CASE first # m + 1
    <3> DEFINE D == first .. m
    <3>1. /\ m \in Nat /\ first <= m /\ m <= last /\ m \in first .. last - 1
          /\ first .. (m + 1) - 1 = D /\ D \ {m} = first .. m - 1 /\ m \in D
      BY <2>1, <2>3
    <3>2. IsFiniteSet(D) /\ \A i \in D : N[i] \in Int
      <4>1. ASSUME NEW i \in D PROVE N[i] \in Int
        <5>1. i \in first .. last - 1 /\ i \in first .. last /\ i + 1 \in first .. last
          BY <3>1
        <5>2. F[i] \in Int /\ F[i + 1] \in Int /\ N[i] = F[i] - F[i + 1]
          BY <5>1
        <5> QED
          BY <5>2
      <4>2. IsFiniteSet(D)
        BY <3>1, FS_Interval
      <4> QED
        BY <4>1, <4>2
    <3>3. SumFunctionOnSet(N, first .. m - 1) = F[first] - F[m]
      BY <3>1
    <3>4. SumFunctionOnSet(N, D) = N[m] + SumFunctionOnSet(N, D \ {m})
      <4>1. m \in D
        BY <3>1
      <4> HIDE DEF D
      <4> QED
        BY <3>2, <4>1, SumIs
    <3>5. F[m] \in Int /\ F[m + 1] \in Int /\ F[first] \in Int /\ N[m] = F[m] - F[m + 1]
      BY <2>1, <3>1
    <3>6. SumFunctionOnSet(N, D) = N[m] + (F[first] - F[m])
      BY <3>1, <3>3, <3>4
    <3>7. N[m] + (F[first] - F[m]) = F[first] - F[m + 1]
      BY <3>5
    <3> QED
      BY <3>1, <3>6, <3>7
  <2> QED
    BY <2>2, <2>3
<1>3. 0 \in Good
  <2>1. first <= 0 => first = 0
    OBVIOUS
  <2> QED
    BY <1>1, <2>1
<1>4. Good = Nat
  <2>1. Good \in SUBSET Nat
    OBVIOUS
  <2> HIDE DEF Good
  <2> QED
    BY <1>2, <1>3, <2>1, InductionSet
<1> QED
  BY <1>4

\* As many places after one another as there are places are different.
LEMMA PlacesDiffer ==
  ASSUME NEW n \in Nat \ {0}, NEW first \in Int, NEW i \in 1 .. n, NEW j \in 1 .. n,
         (first + i - 1) % n = (first + j - 1) % n
  PROVE  i = j
<1> DEFINE a == first + i - 1
           b == first + j - 1
<1>1. a \in Int /\ b \in Int /\ a - b = i - j /\ i - j < n /\ j - i < n
  OBVIOUS
<1>2. a % n = b % n
  OBVIOUS
<1> HIDE DEF a, b
<1>3. PICK d \in Int : a - b = n * d
  BY <1>1, <1>2, SameRest
<1>4. n * d < n /\ n * d > -n
  BY <1>1, <1>3
<1>5. d = 0
  BY <1>4, SmallMultiple
<1> QED
  BY <1>1, <1>3, <1>5

\* Of c times n numbers in a row c have a given rest.
LEMMA EvenlySpread ==
  ASSUME NEW n \in Nat \ {0}, NEW c \in Nat \ {0}, NEW b \in Nat, NEW k \in 0 .. n - 1
  PROVE  LET S == {x \in b .. b + n * c - 1 : x % n = k}
         IN  IsFiniteSet(S) /\ Cardinality(S) = c
<1> DEFINE S == {x \in b .. b + n * c - 1 : x % n = k}
           z == k - b
           r == z % n
           d == z \div n
           start == b + r
           f == [t \in 1 .. c |-> start + n * (t - 1)]
<1>1. z \in Int
  OBVIOUS
<1>2. d \in Int /\ r \in 0 .. n - 1 /\ z = n * d + r
  <2> HIDE DEF z
  <2> QED
    BY <1>1, Division
<1> HIDE DEF r, d
<1>3. start \in b .. b + n - 1 /\ start = k - n * d
  <2> DEFINE w == n * d
  <2>1. w \in Int /\ k - b = w + r
    BY <1>2 DEF z
  <2> HIDE DEF w
  <2>2. b + r = k - w /\ b + r \in b .. b + n - 1
    BY <1>2, <2>1
  <2> QED
    BY <2>2 DEF w
<1> HIDE DEF z, start
<1>4. ASSUME NEW t \in 1 .. c PROVE f[t] \in S
  <2> DEFINE j == t - 1
             u == n * j
             v == n * d
             w == n * (c - 1)
             g == j - d
             x == start + u
  <2>1. j \in Nat /\ j <= c - 1 /\ j \in Int /\ c - 1 \in Int /\ n \in Nat
    OBVIOUS
  <2>2. u <= w /\ u \in Nat /\ w \in Int /\ n * c = w + n /\ v \in Int
    <3> HIDE DEF j
    <3>1. n * j <= n * (c - 1)
      BY <2>1, ProductOrder
    <3>2. n * j \in Nat /\ n * (c - 1) \in Int /\ n * c = n * (c - 1) + n /\ n * d \in Int
      BY <1>2, <2>1
    <3> QED
      BY <3>1, <3>2
  <2>3. n * g = u - v /\ g \in Int
    BY <1>2, <2>1
  <2> HIDE DEF j, u, v, w, g
  <2>4. x \in b .. b + n * c - 1 /\ x \in Int
    <3> DEFINE size == n * c
    <3>1. size = w + n /\ size \in Int
      BY <2>2
    <3> HIDE DEF size
    <3>2. x \in b .. b + size - 1
      BY <1>3, <2>2, <3>1
    <3> QED
      BY <3>2 DEF size
  <2>5. x = n * g + k
    BY <1>3, <2>2, <2>3 DEF v
  <2> HIDE DEF x
  <2>6. x % n = k
    BY <2>3, <2>4, <2>5, RestIsUnique
  <2>7. f[t] = x
    BY DEF x, u, j
  <2> QED
    BY <2>4, <2>6, <2>7
<1>5. ASSUME NEW t \in 1 .. c, NEW s \in 1 .. c, f[t] = f[s] PROVE t = s
  <2> DEFINE u == n * (t - 1)
             v == n * (s - 1)
  <2>1. start + u = start + v /\ u \in Int /\ v \in Int /\ start \in Int
    BY <1>3, <1>5
  <2> HIDE DEF u, v
  <2>2. u = v
    BY <2>1
  <2>3. t - 1 \in Int /\ s - 1 \in Int /\ n \in Nat /\ n > 0
    OBVIOUS
  <2>4. t - 1 = s - 1
    BY <2>2, <2>3, ProductOrder DEF u, v
  <2> QED
    BY <2>4
<1>6. ASSUME NEW x \in S PROVE \E t \in 1 .. c : f[t] = x
  <2>1. x \in Int /\ x % n = k /\ b <= x /\ x < b + n * c
    OBVIOUS
  <2>2. start \in Int /\ start % n = k
    <3> DEFINE e == -d
    <3>1. start \in Int /\ e \in Int /\ start = n * e + k
      BY <1>2, <1>3
    <3> HIDE DEF e
    <3>2. start % n = k
      BY <3>1, RestIsUnique
    <3> QED
      BY <3>1, <3>2
  <2>3. PICK g \in Int : x - start = n * g
    <3>1. x % n = start % n
      BY <2>1, <2>2
    <3>2. x \in Int /\ start \in Int
      BY <2>1, <2>2
    <3> HIDE DEF S, f
    <3> QED
      BY <3>1, <3>2, SameRest
  <2> DEFINE u == n * g
             size == n * c
  <2>4. u \in Int /\ size \in Int /\ u = x - start /\ b <= x /\ x < b + size
    BY <2>1, <2>3
  <2>5. u > n * (-1) /\ u < size
    <3> HIDE DEF u, size
    <3> QED
      BY <1>3, <2>4
  <2>6. -1 \in Int /\ n \in Nat /\ n > 0 /\ c \in Int
    OBVIOUS
  <2>7. -1 < g
    <3> DEFINE e == -1
    <3>1. e \in Int /\ n * e < n * g
      BY <2>5
    <3> HIDE DEF e
    <3>2. e < g
      BY <2>6, <3>1, ProductOrder
    <3> QED
      BY <3>2 DEF e
  <2>8. g < c
    BY <2>5, <2>6, ProductOrder
  <2>9. g + 1 \in 1 .. c /\ (g + 1) - 1 = g
    BY <2>7, <2>8
  <2>10. f[g + 1] = start + n * g
    BY <2>9
  <2>11. start + n * g = x
    <3> HIDE DEF u
    <3>1. start + u = x
      BY <2>1, <2>2, <2>4
    <3> QED
      BY <3>1 DEF u
  <2> QED
    BY <2>9, <2>10, <2>11
<1> HIDE DEF S, f
<1>7. f \in [1 .. c -> S]
  <2>1. DOMAIN f = 1 .. c /\ f = [t \in 1 .. c |-> f[t]]
    BY DEF f
  <2> QED
    BY <1>4, <2>1
<1>8. f \in Bijection(1 .. c, S)
  BY <1>5, <1>6, <1>7 DEF Bijection, Injection, Surjection, IsInjective
<1>9. IsFiniteSet(1 .. c) /\ Cardinality(1 .. c) = c
  BY FS_Interval
<1>10. IsFiniteSet(S) /\ Cardinality(S) = c
  BY <1>8, <1>9, FS_Bijection DEF ExistsBijection
<1> QED
  BY <1>10 DEF S

-------------------------------------------------------------------------------
(* Fractions: what is reduced has the value it had, and sums of fractions  *)
(* over one denominator are sums of integers.                              *)

\* Euclid's algorithm ends, so that gcd is what it says.
LEMMA GcdDef ==
  \A p \in Nat \X Nat : gcd[p] = IF p[2] = 0 THEN p[1] ELSE gcd[<<p[2], p[1] % p[2]>>]
<1> DEFINE D == Nat \X Nat
           S == [D -> Nat]
           More(u) == [p \in D |-> IF p[2] = 0 THEN p[1] ELSE u[<<p[2], p[1] % p[2]>>]]
           first == [p \in D |-> p[1]]
           G == [n \in Nat |-> [u \in S |-> More(u)]]
<1>1. ASSUME NEW p \in D
      PROVE  p[1] \in Nat /\ p[2] \in Nat /\ p = <<p[1], p[2]>>
             /\ (p[2] # 0 => p[1] % p[2] \in 0 .. p[2] - 1 /\ <<p[2], p[1] % p[2]>> \in D)
  <2>1. p[1] \in Nat /\ p[2] \in Nat /\ p = <<p[1], p[2]>>
    OBVIOUS
  <2>2. p[2] # 0 => p[1] % p[2] \in 0 .. p[2] - 1
    <3> DEFINE a == p[1]
               b == p[2]
    <3> HIDE DEF a, b
    <3>1. a \in Int /\ b \in Nat
      BY <2>1 DEF a, b
    <3>2. b # 0 => a % b \in 0 .. b - 1
      BY <3>1, Division
    <3> QED
      BY <3>2 DEF a, b
  <2> QED
    BY <2>1, <2>2
<1>2. first \in S
  BY <1>1
<1>3. ASSUME NEW u \in S PROVE More(u) \in S
  BY <1>1
<1>4. G \in [Nat -> [S -> S]]
  <2> HIDE DEF S, More
  <2> QED
    BY <1>3
<1>5. PICK f \in [Nat -> S] : \A n \in Nat : f[n + 1] = G[n][f[n]]
  <2>1. RecursiveSequences(S, first, G) # {}
    <3> HIDE DEF S, first, G
    <3> QED
      BY <1>2, <1>4, RecursiveSequence
  <2> QED
    BY <2>1 DEF RecursiveSequences
<1>6. \A n \in Nat : f[n] \in S /\ f[n + 1] = More(f[n])
  <2> HIDE DEF S, More
  <2> QED
    BY <1>5
<1>7. \A n \in Nat, p \in D :
        f[n + 1][p] = IF p[2] = 0 THEN p[1] ELSE f[n][<<p[2], p[1] % p[2]>>]
  <2> TAKE n \in Nat, p \in D
  <2>1. f[n + 1] = More(f[n])
    BY <1>6
  <2>2. More(f[n])[p] = IF p[2] = 0 THEN p[1] ELSE f[n][<<p[2], p[1] % p[2]>>]
    BY ONLY p \in D DEF More
  <2> HIDE DEF More
  <2> QED
    BY ONLY <2>1, <2>2
<1> HIDE DEF S, More
<1> DEFINE Same == {k \in Nat : \A p \in D, n \in Nat :
                      p[2] <= k /\ k < n => f[n + 1][p] = f[n][p]}
<1>8. 0 \in Same
  <2>1. ASSUME NEW p \in D, NEW n \in Nat, p[2] <= 0, 0 < n PROVE f[n + 1][p] = f[n][p]
    <3>1. p[2] = 0 /\ n - 1 \in Nat /\ (n - 1) + 1 = n
      BY <1>1, <2>1
    <3>2. f[n + 1][p] = p[1] /\ f[(n - 1) + 1][p] = p[1]
      BY <1>7, <3>1
    <3> QED
      BY <3>1, <3>2
  <2> QED
    BY <2>1
<1>9. ASSUME NEW k \in Same PROVE k + 1 \in Same
  <2>1. ASSUME NEW p \in D, NEW n \in Nat, p[2] <= k + 1, k + 1 < n
        PROVE  f[n + 1][p] = f[n][p]
    <3>1. k \in Nat /\ n - 1 \in Nat /\ (n - 1) + 1 = n /\ k < n - 1
      BY <2>1
    <3>2. f[n + 1][p] = IF p[2] = 0 THEN p[1] ELSE f[n][<<p[2], p[1] % p[2]>>]
      BY <1>7
    <3>3. f[n][p] = IF p[2] = 0 THEN p[1] ELSE f[n - 1][<<p[2], p[1] % p[2]>>]
      BY <1>7, <3>1
    <3>4. CASE p[2] = 0
      BY <3>2, <3>3, <3>4
    <3>5. CASE p[2] # 0
      <4> DEFINE q == <<p[2], p[1] % p[2]>>
      <4>1. q \in D /\ q[2] \in 0 .. p[2] - 1 /\ p[2] \in Nat
        BY <1>1, <3>5
      <4>2. q[2] <= k
        BY <2>1, <3>1, <4>1
      <4>3. f[(n - 1) + 1][q] = f[n - 1][q]
        BY <3>1, <4>1, <4>2
      <4> QED
        BY <3>1, <3>2, <3>3, <3>5, <4>3
    <3> QED
      BY <3>4, <3>5
  <2> QED
    BY <2>1
<1>10. Same = Nat
  <2>1. Same \in SUBSET Nat
    OBVIOUS
  <2> HIDE DEF Same
  <2> QED
    BY <1>8, <1>9, <2>1, InductionSet
<1>11. ASSUME NEW p \in D, NEW m \in Nat, p[2] < m
       PROVE  \A d \in Nat : f[m + d][p] = f[m][p]
  <2> DEFINE Good == {d \in Nat : f[m + d][p] = f[m][p]}
  <2>1. 0 \in Good
    OBVIOUS
  <2>2. ASSUME NEW d \in Good PROVE d + 1 \in Good
    <3>1. p[2] \in Same /\ p[2] \in Nat
      BY <1>1, <1>10
    <3>2. d \in Nat /\ m + d \in Nat /\ p[2] < m + d /\ m + (d + 1) = (m + d) + 1
      BY <1>11, <3>1
    <3>3. f[(m + d) + 1][p] = f[m + d][p]
      BY <3>1, <3>2
    <3> QED
      BY <3>2, <3>3
  <2>3. Good = Nat
    <3>1. Good \in SUBSET Nat
      OBVIOUS
    <3> HIDE DEF Good
    <3> QED
      BY <2>1, <2>2, <3>1, InductionSet
  <2> QED
    BY <2>3
<1> HIDE DEF Same
<1> DEFINE g == [p \in D |-> f[p[2] + 1][p]]
           Next1(h) == [p \in D |-> IF p[2] = 0 THEN p[1] ELSE h[<<p[2], p[1] % p[2]>>]]
<1>12. ASSUME NEW p \in D
       PROVE  g[p] \in Nat /\ g[p] = IF p[2] = 0 THEN p[1] ELSE g[<<p[2], p[1] % p[2]>>]
  <2> DEFINE a == p[1]
             b == p[2]
             q == <<p[2], p[1] % p[2]>>
             r == q[2]
  <2>1. a \in Nat /\ b \in Nat /\ b + 1 \in Nat /\ g[p] = f[b + 1][p]
    BY <1>1
  <2>2. g[p] \in Nat
    BY <1>6, <2>1 DEF S
  <2>3. f[b + 1][p] = IF b = 0 THEN a ELSE f[b][q]
    BY <1>7, <2>1
  <2>4. CASE b = 0
    BY <2>1, <2>2, <2>3, <2>4
  <2>5. CASE b # 0
    <3>1. r \in Nat /\ r < b /\ q \in D
      BY <1>1, <2>5
    <3>2. g[q] = f[r + 1][q]
      BY <3>1
    <3>3. f[b + 1][p] = f[b][q]
      BY <2>3, <2>5
    <3> HIDE DEF q, b
    <3>4. q[2] < r + 1 /\ r + 1 \in Nat /\ b - (r + 1) \in Nat /\ (r + 1) + (b - (r + 1)) = b
      BY <2>1, <3>1
    <3>5. f[(r + 1) + (b - (r + 1))][q] = f[r + 1][q]
      BY <1>11, <3>1, <3>4
    <3>6. g[p] = g[q]
      BY <2>1, <3>2, <3>3, <3>4, <3>5
    <3> QED
      BY <2>2, <2>5, <3>6 DEF q, b
  <2> QED
    BY <2>4, <2>5
<1>13. g = Next1(g)
  <2>1. \A p \in D : g[p] = Next1(g)[p]
    <3> HIDE DEF g
    <3> QED
      BY <1>12
  <2> HIDE DEF D
  <2> QED
    BY <2>1
<1>14. gcd = CHOOSE h : h = Next1(h)
  BY DEF gcd
<1>15. gcd = Next1(gcd)
  <2> HIDE DEF g, Next1
  <2> QED
    BY <1>13, <1>14
<1>16. DOMAIN gcd = D /\ \A p \in D : gcd[p] = Next1(gcd)[p]
  <2>1. DOMAIN Next1(gcd) = D
    OBVIOUS
  <2> HIDE DEF Next1, D
  <2> QED
    BY <1>15, <2>1
<1> QED
  BY <1>16

\* It divides both numbers.
Divides(g, p) ==
  /\ g \in Nat /\ (p[1] > 0 \/ p[2] > 0 => g > 0)
  /\ \E x, y \in Nat : p[1] = g * x /\ p[2] = g * y

LEMMA GcdIs ==
  \A p \in Nat \X Nat : Divides(gcd[p], p)
<1> DEFINE D == Nat \X Nat
           Good == {k \in Nat : \A p \in D : p[2] <= k => Divides(gcd[p], p)}
<1>1. \A p \in D : p[1] \in Nat /\ p[2] \in Nat
  OBVIOUS
<1>2. ASSUME NEW p \in D, p[2] = 0 PROVE Divides(gcd[p], p)
  <2>1. gcd[p] = p[1]
    BY <1>2, GcdDef
  <2>2. p[1] \in Nat /\ p[1] = p[1] * 1 /\ p[2] = p[1] * 0
    BY <1>1, <1>2
  <2> QED
    BY <1>2, <2>1, <2>2 DEF Divides
<1>3. 0 \in Good
  BY <1>1, <1>2
<1>4. ASSUME NEW k \in Good, NEW p \in D, p[2] <= k + 1 PROVE Divides(gcd[p], p)
  <2>1. CASE p[2] = 0
    BY <1>2, <2>1
  <2>2. CASE p[2] # 0
    <3> DEFINE a == p[1]
               b == p[2]
               m == a % b
               n == a \div b
               q == <<b, m>>
               g == gcd[q]
    <3>1. a \in Nat /\ b \in Nat \ {0}
      BY <1>1, <2>2
    <3>2. gcd[p] = g
      BY <2>2, GcdDef
    <3> HIDE DEF a, b
    <3>3. m \in Nat /\ m < b /\ n \in Nat /\ a = b * n + m
      <4>1. a \in Int
        BY <3>1
      <4>2. m \in 0 .. b - 1 /\ n \in Nat /\ a = b * n + m
        BY <3>1, <4>1, Division
      <4> QED
        BY <3>1, <4>2
    <3> HIDE DEF m, n
    <3>4. q \in D /\ q[1] = b /\ q[2] = m
      BY <3>1, <3>3
    <3>5. m <= k
      BY <1>4, <3>1, <3>3 DEF b
    <3>6. Divides(g, q)
      BY <3>4, <3>5
    <3> HIDE DEF g
    <3>7. g \in Nat /\ g > 0
      BY <3>1, <3>4, <3>6 DEF Divides
    <3>8. PICK x \in Nat, y \in Nat : b = g * x /\ m = g * y
      BY <3>4, <3>6 DEF Divides
    <3>9. a = g * (x * n + y)
      <4>1. a = (g * x) * n + g * y
        BY <3>3, <3>8
      <4>2. (g * x) * n = g * (x * n)
        BY <3>3, <3>7
      <4> DEFINE u == x * n
      <4>3. u \in Nat /\ a = g * u + g * y
        BY <3>3, <4>1, <4>2
      <4> HIDE DEF u
      <4>4. a = g * (u + y)
        BY <3>7, <4>3
      <4> QED
        BY <4>4 DEF u
    <3>10. x * n + y \in Nat
      BY <3>3
    <3> QED
      BY <3>2, <3>7, <3>8, <3>9, <3>10 DEF Divides, a, b
  <2> QED
    BY <2>1, <2>2
<1>5. Good = Nat
  <2>1. \A k \in Good : k + 1 \in Good
    BY <1>4
  <2>2. Good \in SUBSET Nat
    OBVIOUS
  <2> HIDE DEF Good
  <2> QED
    BY <1>3, <2>1, <2>2, InductionSet
<1> QED
  BY <1>1, <1>5

\* A reduced fraction is the one it was.
LEMMA RatioIs ==
  ASSUME NEW n \in Int, NEW d \in Nat \ {0}
  PROVE  /\ Ratio(n, d)[1] \in Int /\ Ratio(n, d)[2] \in Nat \ {0}
         /\ Ratio(n, d)[1] * d = n * Ratio(n, d)[2]
<1> DEFINE a == AbsOf(n)
           p == <<a, d>>
           g == gcd[p]
<1>1. a \in Nat /\ (n >= 0 => a = n) /\ (n < 0 => a = -n) /\ AbsOf(d) = d
  BY DEF AbsOf
<1> HIDE DEF a
<1>2. p \in Nat \X Nat /\ p[1] = a /\ p[2] = d
  BY <1>1
<1>3. Divides(g, p)
  BY <1>2, GcdIs
<1>4. Ratio(n, d) = <<1 * (IF n < 0 THEN -(a \div g) ELSE n \div g), d \div g>>
  BY <1>1 DEF Ratio, a
<1> HIDE DEF g
<1>5. PICK x \in Nat, y \in Nat : a = g * x /\ d = g * y
  BY <1>2, <1>3 DEF Divides
<1>6. g \in Nat \ {0}
  BY <1>2, <1>3 DEF Divides
<1>7. a \div g = x /\ d \div g = y
  BY <1>5, <1>6, QuotientOfMultiple
<1>8. y # 0
  BY <1>5, <1>6
<1>9. CASE n >= 0
  <2>1. Ratio(n, d) = <<x, y>>
    BY <1>1, <1>4, <1>7, <1>9
  <2>2. x * (g * y) = (g * x) * y
    BY <1>6
  <2> QED
    BY <1>1, <1>5, <1>8, <1>9, <2>1, <2>2
<1>10. CASE n < 0
  <2>1. Ratio(n, d) = <<-x, y>>
    BY <1>1, <1>4, <1>7, <1>10
  <2>2. (-x) * (g * y) = (-(g * x)) * y
    BY <1>6
  <2> QED
    BY <1>1, <1>5, <1>8, <1>10, <2>1, <2>2
<1> QED
  BY <1>9, <1>10

\* m times a fraction is below or above 1 as m times its numerator is its denominator.
LEMMA ScaledIs ==
  ASSUME NEW n \in Int, NEW d \in Nat \ {0}, NEW m \in Int
  PROVE  /\ Less(Scaled(m, Ratio(n, d)), One) <=> m * n < d
         /\ Less(One, Scaled(m, Ratio(n, d))) <=> d < m * n
<1> DEFINE r == Ratio(n, d)
           u == r[1]
           v == r[2]
           x == m * u
           q == Ratio(x, v)
           w == q[1]
           z == q[2]
<1>1. u \in Int /\ v \in Nat \ {0} /\ u * d = n * v
  BY RatioIs
<1>2. Scaled(m, r) = q
  BY DEF Scaled
<1> HIDE DEF r, u, v
<1>3. x \in Int
  BY <1>1
<1>4. w \in Int /\ z \in Nat \ {0} /\ w * v = x * z
  <2> HIDE DEF x
  <2> QED
    BY <1>1, <1>3, RatioIs
<1>5. (Less(q, One) <=> w < z) /\ (Less(One, q) <=> z < w)
  <2> HIDE DEF q
  <2> QED
    BY <1>4 DEF Less, One
<1> HIDE DEF q, w, z
<1>6. (w < z <=> x < v) /\ (z < w <=> v < x)
  <2> HIDE DEF x
  <2> QED
    BY <1>1, <1>3, <1>4, SameFraction
<1> DEFINE y == m * n
<1>7. y \in Int /\ x * d = y * v
  <2>1. (m * u) * d = m * (u * d) /\ (m * n) * v = m * (n * v)
    BY <1>1
  <2> QED
    BY <1>1, <2>1
<1> HIDE DEF x, y
<1>8. (x < v <=> y < d) /\ (v < x <=> d < y)
  BY <1>1, <1>3, <1>7, SameFraction
<1> QED
  BY <1>2, <1>5, <1>6, <1>8 DEF y, r

\* The greatest common divisor is a sum of multiples of both.
Combines(g, p) == \E s, t \in Int : g = s * p[1] + t * p[2]

LEMMA GcdCombines ==
  \A p \in Nat \X Nat : Combines(gcd[p], p)
<1> DEFINE D == Nat \X Nat
           Good == {k \in Nat : \A p \in D : p[2] <= k => Combines(gcd[p], p)}
<1>1. \A p \in D : p[1] \in Nat /\ p[2] \in Nat
  OBVIOUS
<1>2. ASSUME NEW p \in D, p[2] = 0 PROVE Combines(gcd[p], p)
  <2>1. gcd[p] = p[1]
    BY <1>2, GcdDef
  <2>2. p[1] \in Nat /\ p[1] = 1 * p[1] + 0 * p[2] /\ 0 \in Int /\ 1 \in Int
    BY <1>1, <1>2
  <2> QED
    BY <2>1, <2>2 DEF Combines
<1>3. 0 \in Good
  BY <1>1, <1>2
<1>4. ASSUME NEW k \in Good, NEW p \in D, p[2] <= k + 1 PROVE Combines(gcd[p], p)
  <2>1. CASE p[2] = 0
    BY <1>2, <2>1
  <2>2. CASE p[2] # 0
    <3> DEFINE a == p[1]
               b == p[2]
               m == a % b
               n == a \div b
               q == <<b, m>>
               g == gcd[q]
    <3>1. a \in Nat /\ b \in Nat \ {0}
      BY <1>1, <2>2
    <3>2. gcd[p] = g
      BY <2>2, GcdDef
    <3> HIDE DEF a, b
    <3>3. m \in Nat /\ m < b /\ n \in Nat /\ a = b * n + m
      <4>1. a \in Int
        BY <3>1
      <4>2. m \in 0 .. b - 1 /\ n \in Nat /\ a = b * n + m
        BY <3>1, <4>1, Division
      <4> QED
        BY <3>1, <4>2
    <3> HIDE DEF m, n
    <3>4. q \in D /\ q[1] = b /\ q[2] = m
      BY <3>1, <3>3
    <3>5. m <= k
      BY <1>4, <3>1, <3>3 DEF b
    <3>6. Combines(g, q)
      BY <3>4, <3>5
    <3> HIDE DEF g
    <3>7. PICK s \in Int, t \in Int : g = s * b + t * m
      BY <3>4, <3>6 DEF Combines
    <3>8. g = t * a + (s - t * n) * b
      <4> DEFINE x == b * n
      <4>1. x \in Int /\ m = a - x /\ a \in Int
        BY <3>1, <3>3
      <4>2. t * (a - x) = t * a - t * x
        BY <4>1
      <4>3. t * x = (t * n) * b
        BY <3>1, <3>3
      <4> DEFINE y == t * n
                 z == t * a
      <4>4. y \in Int /\ z \in Int
        BY <3>1, <3>3
      <4>5. g = s * b + (z - y * b)
        BY <3>7, <4>1, <4>2, <4>3
      <4> HIDE DEF y, z
      <4>6. (s - y) * b = s * b - y * b
        BY <3>1, <4>4
      <4> DEFINE u == s * b
                 v == y * b
      <4>7. u \in Int /\ v \in Int
        BY <3>1, <4>4
      <4>8. g = u + (z - v) /\ (s - y) * b = u - v
        BY <4>5, <4>6
      <4> HIDE DEF u, v
      <4>9. g = z + (u - v)
        BY <4>4, <4>7, <4>8
      <4> QED
        BY <4>8, <4>9 DEF y, z
    <3>9. s - t * n \in Int
      BY <3>3
    <3> QED
      BY <3>2, <3>8, <3>9 DEF Combines, a, b
  <2> QED
    BY <2>1, <2>2
<1>5. Good = Nat
  <2>1. \A k \in Good : k + 1 \in Good
    BY <1>4
  <2>2. Good \in SUBSET Nat
    OBVIOUS
  <2> HIDE DEF Good
  <2> QED
    BY <1>3, <2>1, <2>2, InductionSet
<1> QED
  BY <1>1, <1>5

\* A reduced fraction of a natural number is not negative.
LEMMA RatioIsNatural ==
  ASSUME NEW n \in Nat, NEW d \in Nat \ {0}
  PROVE  /\ Ratio(n, d)[1] \in Nat /\ Ratio(n, d)[2] \in Nat \ {0}
         /\ Ratio(n, d)[1] * d = n * Ratio(n, d)[2]
<1> DEFINE a == Ratio(n, d)[1]
           b == Ratio(n, d)[2]
<1>1. a \in Int /\ b \in Nat \ {0} /\ a * d = n * b
  BY RatioIs
<1> HIDE DEF a, b
<1>2. a >= 0
  <2> SUFFICES ASSUME a < 0 PROVE FALSE
    BY <1>1
  <2>1. d * a < d * 0
    BY <1>1, ProductOrder
  <2> DEFINE x == n * b
             y == d * a
  <2>2. x \in Nat /\ y = x
    BY <1>1
  <2>3. y < 0
    BY <2>1
  <2> HIDE DEF x, y
  <2> QED
    BY <2>2, <2>3
<1> QED
  BY <1>1, <1>2 DEF a, b

\* The fractions that are not negative
Fractions == Nat \X (Nat \ {0})

\* A fraction of natural numbers is one, and 0 just for the numerator 0.
LEMMA RatioFraction ==
  ASSUME NEW n \in Nat, NEW d \in Nat \ {0}
  PROVE  Ratio(n, d) \in Fractions /\ (n > 0 => Ratio(n, d)[1] > 0)
<1> DEFINE a == Ratio(n, d)[1]
           b == Ratio(n, d)[2]
<1>1. Ratio(n, d) = <<a, b>>
  BY DEF Ratio
<1>2. a \in Int /\ b \in Nat \ {0} /\ a * d = n * b
  BY RatioIs
<1> HIDE DEF a, b
<1>3. a >= 0 /\ (n > 0 => a > 0)
  <2>1. n * b >= 0 /\ (n > 0 => n * b > 0)
    BY <1>2
  <2>2. (a < 0 => a * d < 0) /\ (a = 0 => a * d = 0)
    BY <1>2
  <2> DEFINE u == n * b
             v == a * d
  <2>3. u = v /\ u \in Int /\ v \in Int
    BY <1>2
  <2>4. u >= 0 /\ (n > 0 => u > 0) /\ (a < 0 => v < 0) /\ (a = 0 => v = 0)
    BY <2>1, <2>2
  <2> HIDE DEF u, v
  <2> QED
    BY <1>2, <2>3, <2>4
<1>4. <<a, b>> \in Fractions
  BY <1>2, <1>3 DEF Fractions
<1>5. n > 0 => Ratio(n, d)[1] > 0
  BY <1>3 DEF a
<1> QED
  BY <1>1, <1>4, <1>5

\* The sum of two fractions
LEMMA PlusIs ==
  ASSUME NEW p \in Fractions, NEW q \in Fractions
  PROVE  /\ Plus(p, q) \in Fractions
         /\ p[1] > 0 \/ q[1] > 0 => Plus(p, q)[1] > 0
<1> DEFINE a == p[1]
           b == p[2]
           u == q[1]
           v == q[2]
           n == a * v + u * b
           d == b * v
<1>1. a \in Nat /\ b \in Nat \ {0} /\ u \in Nat /\ v \in Nat \ {0}
  BY DEF Fractions
<1>2. Plus(p, q) = Ratio(n, d)
  BY DEF Plus
<1> HIDE DEF a, b, u, v
<1>3. n \in Nat /\ d \in Nat \ {0} /\ (a > 0 \/ u > 0 => n > 0)
  <2>1. a * v \in Nat /\ u * b \in Nat /\ d \in Nat \ {0}
    BY <1>1
  <2>2. (a > 0 => a * v > 0) /\ (u > 0 => u * b > 0)
    BY <1>1
  <2> QED
    BY <2>1, <2>2
<1> HIDE DEF n, d
<1>4. Ratio(n, d) \in Fractions /\ (n > 0 => Ratio(n, d)[1] > 0)
  BY <1>3, RatioFraction
<1> QED
  BY <1>2, <1>3, <1>4 DEF a, u

\* The product of two fractions
LEMMA TimesIs ==
  ASSUME NEW p \in Fractions, NEW q \in Fractions
  PROVE  /\ Times(p, q) \in Fractions
         /\ p[1] > 0 /\ q[1] > 0 => Times(p, q)[1] > 0
<1> DEFINE a == p[1]
           b == p[2]
           u == q[1]
           v == q[2]
           n == a * u
           d == b * v
<1>1. a \in Nat /\ b \in Nat \ {0} /\ u \in Nat /\ v \in Nat \ {0}
  BY DEF Fractions
<1>2. Times(p, q) = Ratio(n, d)
  BY DEF Times
<1> HIDE DEF a, b, u, v
<1>3. n \in Nat /\ d \in Nat \ {0} /\ (a > 0 /\ u > 0 => n > 0)
  BY <1>1
<1> HIDE DEF n, d
<1>4. Ratio(n, d) \in Fractions /\ (n > 0 => Ratio(n, d)[1] > 0)
  BY <1>3, RatioFraction
<1> QED
  BY <1>2, <1>3, <1>4 DEF a, u

\* A multiple of a fraction
LEMMA ScaledFraction ==
  ASSUME NEW k \in Nat, NEW p \in Fractions
  PROVE  /\ Scaled(k, p) \in Fractions
         /\ k > 0 /\ p[1] > 0 => Scaled(k, p)[1] > 0
<1> DEFINE a == p[1]
           b == p[2]
           n == k * a
<1>1. a \in Nat /\ b \in Nat \ {0}
  BY DEF Fractions
<1>2. Scaled(k, p) = Ratio(n, b)
  BY DEF Scaled
<1> HIDE DEF a, b
<1>3. n \in Nat /\ (k > 0 /\ a > 0 => n > 0)
  BY <1>1
<1> HIDE DEF n
<1>4. Ratio(n, b) \in Fractions /\ (n > 0 => Ratio(n, b)[1] > 0)
  BY <1>1, <1>3, RatioFraction
<1> QED
  BY <1>2, <1>3, <1>4 DEF a

\* What a fraction leaves of 1: a fraction again unless it is more
LEMMA RestOfOne ==
  ASSUME NEW p \in Fractions
  PROVE  /\ Minus(One, p)[1] < 0 \/ Minus(One, p) \in Fractions
         /\ Less(p, One) => Minus(One, p) \in Fractions /\ Minus(One, p)[1] > 0
<1> DEFINE a == p[1]
           b == p[2]
           n == b - a
<1>1. a \in Nat /\ b \in Nat \ {0}
  BY DEF Fractions
<1>2. Minus(One, p) = Ratio(n, b)
  <2>1. 1 * b - a * 1 = n /\ 1 * b = b
    BY <1>1
  <2> HIDE DEF n, a, b
  <2>2. Minus(One, p) = Ratio(1 * b - a * 1, 1 * b)
    BY DEF Minus, One, a, b
  <2> QED
    BY <2>1, <2>2
<1>3. Less(p, One) <=> a < b
  BY <1>1 DEF Less, One
<1> HIDE DEF a, b
<1>4. n \in Int /\ (n >= 0 => n \in Nat) /\ (a < b => n > 0)
  BY <1>1
<1> HIDE DEF n
<1>5. n >= 0 => Ratio(n, b) \in Fractions /\ (n > 0 => Ratio(n, b)[1] > 0)
  BY <1>1, <1>4, RatioFraction
<1>6. ASSUME n < 0 PROVE Ratio(n, b)[1] < 0
  <2> DEFINE u == Ratio(n, b)[1]
             v == Ratio(n, b)[2]
  <2>1. u \in Int /\ v \in Nat \ {0} /\ u * b = n * v
    BY <1>1, <1>4, RatioIs
  <2> HIDE DEF u, v
  <2>2. n * v < 0
    BY <1>4, <1>6, <2>1
  <2>3. u >= 0 => u * b >= 0
    BY <1>1, <2>1
  <2>4. u < 0
    BY <1>1, <2>1, <2>2, <2>3
  <2> QED
    BY <2>4 DEF u
<1> QED
  BY <1>2, <1>3, <1>4, <1>5, <1>6

\* The fractions are closed under their sum: as a function of two
AddFractions == [p \in Fractions \X Fractions |-> Plus(p[1], p[2])]

\* The sums of fractions over the subsets of D
IsFractionSum(g, f, D) ==
  g = [s \in SUBSET D |->
         IF s = {} THEN Zero
         ELSE LET x == CHOOSE x \in s : TRUE IN Plus(f[x], g[s \ {x}])]

\* SumOver, without the operators it folds
LEMMA SumOverDef ==
  ASSUME NEW D, NEW f, DOMAIN f = D
  PROVE  SumOver(f) = (CHOOSE g : IsFractionSum(g, f, D))[D]
BY DEF SumOver, FoldFunction, FoldFunctionOnSet, MapThenFoldSet, IsFractionSum

\* A sum of fractions, built up one by one
SumSteps(h, f, D) ==
  /\ SumOver(f) = h[D] /\ h[{}] = Zero
  /\ \A s \in SUBSET D :
       /\ h[s] \in Fractions
       /\ s # {} => \E x \in s : h[s] = Plus(f[x], h[s \ {x}])

LEMMA FractionSumSteps ==
  ASSUME NEW D, IsFiniteSet(D), NEW f, DOMAIN f = D, \A x \in D : f[x] \in Fractions
  PROVE  \E h : SumSteps(h, f, D)
<1>1. Zero \in Fractions
  BY DEF Zero, Fractions
<1>2. /\ AddFractions \in [Fractions \X Fractions -> Fractions]
      /\ \A p, q \in Fractions : AddFractions[<<p, q>>] = Plus(p, q)
  <2>1. \A p, q \in Fractions : Plus(p, q) \in Fractions
    BY PlusIs
  <2> DEFINE F == Fractions
  <2> HIDE DEF F
  <2> QED
    BY <2>1 DEF AddFractions, F
<1>3. PICK g \in [SUBSET D -> Fractions] : IsFold(g, AddFractions, Zero, f, D)
  <2> DEFINE F == Fractions
             op == AddFractions
  <2>1. op \in [F \X F -> F] /\ Zero \in F /\ \A x \in D : f[x] \in F
    BY <1>1, <1>2
  <2> HIDE DEF F, op
  <2>2. \E g \in [SUBSET D -> F] : IsFold(g, op, Zero, f, D)
    BY <2>1, FoldExists
  <2> QED
    BY <2>2 DEF F, op
<1>4. ASSUME NEW s \in SUBSET D, s # {}
      PROVE  LET x == CHOOSE x \in s : TRUE
             IN  AddFractions[<<f[x], g[s \ {x}]>>] = Plus(f[x], g[s \ {x}])
  <2> DEFINE x == CHOOSE x \in s : TRUE
             r == s \ {x}
  <2>1. x \in s /\ r \in SUBSET D
    BY <1>4
  <2> HIDE DEF x, r
  <2>2. g[r] \in Fractions /\ f[x] \in Fractions
    BY <2>1
  <2>3. AddFractions[<<f[x], g[r]>>] = Plus(f[x], g[r])
    BY <1>2, <2>2
  <2> QED
    BY <2>3 DEF x, r
<1>5. IsFractionSum(g, f, D)
  <2>1. g = [s \in SUBSET D |->
               IF s = {} THEN Zero
               ELSE LET x == CHOOSE x \in s : TRUE IN AddFractions[<<f[x], g[s \ {x}]>>]]
    BY <1>3, Zenon DEF IsFold
  <2>2. g = [s \in SUBSET D |->
               IF s = {} THEN Zero
               ELSE LET x == CHOOSE x \in s : TRUE IN Plus(f[x], g[s \ {x}])]
    BY ONLY <1>4, <2>1
  <2> QED
    BY ONLY <2>2, Zenon DEF IsFractionSum
<1> DEFINE h == CHOOSE h : IsFractionSum(h, f, D)
           First(s) == CHOOSE x \in s : TRUE
           Good == {s \in SUBSET D : h[s] \in Fractions}
<1>6. IsFractionSum(h, f, D)
  BY <1>5
<1>7. \A s \in SUBSET D :
        h[s] = IF s = {} THEN Zero ELSE Plus(f[First(s)], h[s \ {First(s)}])
  <2> HIDE DEF h
  <2> QED
    BY <1>6 DEF IsFractionSum
<1>8. \A s : s # {} => First(s) \in s
  OBVIOUS
<1>9. SumOver(f) = h[D]
  BY SumOverDef DEF h
<1> HIDE DEF h, First
<1>10. ASSUME NEW s \in SUBSET D, \A x \in s : s \ {x} \in Good PROVE s \in Good
  <2>1. CASE s = {}
    BY <1>1, <1>7, <2>1
  <2>2. CASE s # {}
    <3> DEFINE x == First(s)
               r == s \ {x}
    <3>1. x \in s /\ r \in Good /\ h[s] = Plus(f[x], h[r]) /\ f[x] \in Fractions
      BY <1>7, <1>8, <1>10, <2>2
    <3> HIDE DEF x, r
    <3> QED
      BY <3>1, PlusIs
  <2> QED
    BY <2>1, <2>2
<1>11. Good = SUBSET D
  <2>1. Good \in SUBSET (SUBSET D)
    OBVIOUS
  <2> HIDE DEF Good
  <2>2. \A s \in SUBSET D : (\A x \in s : s \ {x} \in Good) => s \in Good
    BY <1>10
  <2> QED
    BY <2>1, <2>2, SubsetInduction
<1>12. h[{}] = Zero
  BY <1>7
<1>13. ASSUME NEW s \in SUBSET D
       PROVE  h[s] \in Fractions /\ (s # {} => \E x \in s : h[s] = Plus(f[x], h[s \ {x}]))
  BY <1>7, <1>8, <1>11
<1> QED
  BY <1>9, <1>12, <1>13 DEF SumSteps

\* It is a fraction, and positive if one of them is.
LEMMA FractionSum ==
  ASSUME NEW D, IsFiniteSet(D), NEW f, DOMAIN f = D, \A x \in D : f[x] \in Fractions
  PROVE  /\ SumOver(f) \in Fractions
         /\ \A x \in D : f[x][1] > 0 => SumOver(f)[1] > 0
<1>0. PICK h : SumSteps(h, f, D)
  BY FractionSumSteps
<1>1. /\ SumOver(f) = h[D] /\ h[{}] = Zero
      /\ \A s \in SUBSET D :
           /\ h[s] \in Fractions
           /\ s # {} => \E x \in s : h[s] = Plus(f[x], h[s \ {x}])
  BY <1>0 DEF SumSteps
<1> DEFINE Good == {s \in SUBSET D : \A x \in s : f[x][1] > 0 => h[s][1] > 0}
<1>2. ASSUME NEW s \in SUBSET D, \A x \in s : s \ {x} \in Good PROVE s \in Good
  <2>1. SUFFICES ASSUME NEW y \in s, f[y][1] > 0 PROVE h[s][1] > 0
    OBVIOUS
  <2>2. PICK x \in s : h[s] = Plus(f[x], h[s \ {x}])
    BY <1>1
  <2> DEFINE r == s \ {x}
  <2>3. r \in Good /\ r \in SUBSET D /\ f[x] \in Fractions /\ h[r] \in Fractions
    BY <1>1, <1>2
  <2>4. y = x \/ h[r][1] > 0
    BY <2>1, <2>3
  <2> HIDE DEF r
  <2>5. Plus(f[x], h[r])[1] > 0
    BY <2>1, <2>3, <2>4, PlusIs
  <2> QED
    BY <2>2, <2>5 DEF r
<1>3. Good = SUBSET D
  <2>1. Good \in SUBSET (SUBSET D)
    OBVIOUS
  <2> HIDE DEF Good
  <2>2. \A s \in SUBSET D : (\A x \in s : s \ {x} \in Good) => s \in Good
    BY <1>2
  <2> QED
    BY <2>1, <2>2, SubsetInduction
<1>4. D \in Good
  BY <1>3
<1> QED
  BY <1>1, <1>4

\* p is n / d.
IsFraction(p, n, d) == p[1] * d = n * p[2]

\* A reduced fraction of the same numbers is 1.
LEMMA RatioOne ==
  ASSUME NEW d \in Nat \ {0}
  PROVE  Ratio(d, d) = One
<1>1. <<d, d>> \in Nat \X Nat /\ <<d, 0>> \in Nat \X Nat /\ AbsOf(d) = d
  BY DEF AbsOf
<1>2. d % d = 0
  <2>1. d \in Int /\ 1 \in Int /\ 0 \in 0 .. d - 1 /\ d = d * 1 + 0
    OBVIOUS
  <2> QED
    BY <2>1, RestIsUnique
<1>3. gcd[<<d, d>>] = gcd[<<d, d % d>>] /\ gcd[<<d, 0>>] = d
  BY <1>1, GcdDef
<1>4. gcd[<<d, d>>] = d
  BY <1>2, <1>3
<1>5. d \div d = 1
  <2>1. d = d * 1 /\ 1 \in Nat
    OBVIOUS
  <2> QED
    BY <2>1, QuotientOfMultiple
<1> QED
  BY <1>1, <1>4, <1>5 DEF Ratio, One

\* The product with a fraction of known value
LEMMA ProductValue ==
  ASSUME NEW p \in Fractions, NEW q \in Fractions, NEW n \in Nat, NEW d \in Nat \ {0},
         IsFraction(p, n, d)
  PROVE  IsFraction(Times(p, q), n * q[1], d * q[2])
<1> DEFINE a == p[1]
           b == p[2]
           u == q[1]
           v == q[2]
           x == a * u
           y == b * v
           w == Ratio(x, y)[1]
           z == Ratio(x, y)[2]
<1>1. a \in Nat /\ b \in Nat \ {0} /\ u \in Nat /\ v \in Nat \ {0} /\ a * d = n * b
  BY DEF Fractions, IsFraction
<1>2. Times(p, q) = Ratio(x, y)
  BY DEF Times
<1> HIDE DEF a, b, u, v
<1>3. x \in Int /\ x \in Nat /\ y \in Nat \ {0}
  BY <1>1
<1>4. w \in Int /\ z \in Nat \ {0} /\ w * y = x * z
  <2> HIDE DEF x, y
  <2> QED
    BY <1>3, RatioIs
<1> HIDE DEF w, z
<1> DEFINE r == n * u
           s == d * v
<1>5. r \in Nat /\ s \in Nat \ {0} /\ x * s = r * y
  <2>1. (a * u) * (d * v) = (a * d) * (u * v)
    BY <1>1
  <2>2. (n * u) * (b * v) = (n * b) * (u * v)
    BY <1>1
  <2> QED
    BY <1>1, <2>1, <2>2
<1> HIDE DEF x, y, r, s
<1>6. w * s = r * z
  <2>1. (w * s) * y = (w * y) * s /\ (x * z) * s = (x * s) * z /\ (r * y) * z = (r * z) * y
    BY <1>3, <1>4, <1>5
  <2>2. (w * s) * y = (r * z) * y
    BY <1>4, <1>5, <2>1
  <2> DEFINE e == w * s
             f == r * z
  <2>3. e \in Int /\ f \in Int /\ y * e = y * f
    BY <1>3, <1>4, <1>5, <2>2
  <2> HIDE DEF e, f
  <2>4. e = f
    BY <1>3, <2>3, ProductOrder
  <2> QED
    BY <2>4 DEF e, f
<1> QED
  BY <1>2, <1>6 DEF IsFraction, w, z, r, s, u, v

\* A sum of two fractions with a common denominator
LEMMA SumOfTwoValues ==
  ASSUME NEW p \in Fractions, NEW q \in Fractions, NEW m \in Int, NEW n \in Int,
         NEW d \in Nat \ {0}, IsFraction(p, m, d), IsFraction(q, n, d)
  PROVE  IsFraction(Plus(p, q), m + n, d)
<1> DEFINE a == p[1]
           b == p[2]
           u == q[1]
           v == q[2]
           x == a * v + u * b
           y == b * v
           w == Ratio(x, y)[1]
           z == Ratio(x, y)[2]
           r == m + n
<1>1. /\ a \in Nat /\ b \in Nat \ {0} /\ u \in Nat /\ v \in Nat \ {0}
      /\ a * d = m * b /\ u * d = n * v
  BY DEF Fractions, IsFraction
<1>2. Plus(p, q) = Ratio(x, y)
  BY DEF Plus
<1> HIDE DEF a, b, u, v
<1>3. x \in Int /\ y \in Nat \ {0}
  BY <1>1
<1>4. w \in Int /\ z \in Nat \ {0} /\ w * y = x * z
  <2> HIDE DEF x, y
  <2> QED
    BY <1>3, RatioIs
<1> HIDE DEF w, z
<1>5. r \in Int /\ x * d = r * y
  <2>1. (a * v + u * b) * d = (a * d) * v + (u * d) * b
    BY <1>1
  <2>2. (m + n) * (b * v) = (m * b) * v + (n * v) * b
    BY <1>1
  <2> QED
    BY <1>1, <2>1, <2>2
<1> HIDE DEF x, y, r
<1>6. w * d = r * z
  <2>1. (w * d) * y = (w * y) * d /\ (x * z) * d = (x * d) * z /\ (r * y) * z = (r * z) * y
    BY <1>3, <1>4, <1>5
  <2>2. (w * d) * y = (r * z) * y
    BY <1>4, <1>5, <2>1
  <2> DEFINE e == w * d
             f == r * z
  <2>3. e \in Int /\ f \in Int /\ y * e = y * f
    BY <1>3, <1>4, <1>5, <2>2
  <2> HIDE DEF e, f
  <2>4. e = f
    BY <1>3, <2>3, ProductOrder
  <2> QED
    BY <2>4 DEF e, f
<1> QED
  BY <1>2, <1>6 DEF IsFraction, w, z, r

\* A sum with a value of 1 is 1.
LEMMA PlusOne ==
  ASSUME NEW p \in Fractions, NEW q \in Fractions, NEW d \in Nat \ {0},
         IsFraction(Plus(p, q), d, d)
  PROVE  Plus(p, q) = One
<1> DEFINE a == p[1]
           b == p[2]
           u == q[1]
           v == q[2]
           x == a * v + u * b
           y == b * v
           w == Ratio(x, y)[1]
           z == Ratio(x, y)[2]
<1>1. a \in Nat /\ b \in Nat \ {0} /\ u \in Nat /\ v \in Nat \ {0}
  BY DEF Fractions
<1>2. Plus(p, q) = Ratio(x, y)
  BY DEF Plus
<1> HIDE DEF a, b, u, v
<1>3. x \in Int /\ y \in Nat \ {0}
  BY <1>1
<1> HIDE DEF x, y
<1>4. w \in Int /\ z \in Nat \ {0} /\ w * y = x * z
  BY <1>3, RatioIs
<1>5. w * d = d * z
  BY <1>2 DEF IsFraction
<1> HIDE DEF w, z
<1>6. w = z
  <2>1. d * w = d * z
    BY <1>4, <1>5
  <2> QED
    BY <1>4, <2>1, ProductOrder
<1>7. x = y
  <2>1. z * x = z * y
    BY <1>3, <1>4, <1>6
  <2> QED
    BY <1>3, <1>4, <2>1, ProductOrder
<1> QED
  BY <1>2, <1>3, <1>7, RatioOne

\* The sum of fractions with a common denominator
LEMMA FractionSumValue ==
  ASSUME NEW D, IsFiniteSet(D), NEW f, DOMAIN f = D, \A x \in D : f[x] \in Fractions,
         NEW N, NEW d \in Nat \ {0}, \A x \in D : N[x] \in Int /\ IsFraction(f[x], N[x], d)
  PROVE  /\ IsFraction(SumOver(f), SumFunctionOnSet(N, D), d)
         /\ D # {} /\ SumFunctionOnSet(N, D) = d => SumOver(f) = One
<1>0. PICK h : SumSteps(h, f, D)
  BY FractionSumSteps
<1>1. /\ SumOver(f) = h[D] /\ h[{}] = Zero
      /\ \A s \in SUBSET D :
           /\ h[s] \in Fractions
           /\ s # {} => \E x \in s : h[s] = Plus(f[x], h[s \ {x}])
  BY <1>0 DEF SumSteps
<1> DEFINE sum(s) == SumFunctionOnSet(N, s)
           Good == {s \in SUBSET D : IsFraction(h[s], sum(s), d)}
<1>2. ASSUME NEW s \in SUBSET D
      PROVE  /\ sum(s) \in Int /\ (s = {} => sum(s) = 0)
             /\ \A x \in s : sum(s) = N[x] + sum(s \ {x})
  <2>1. IsFiniteSet(s) /\ \A x \in s : N[x] \in Int
    BY FS_Subset
  <2> QED
    BY <2>1, SumIs
<1> HIDE DEF sum
<1>3. ASSUME NEW s \in SUBSET D, \A x \in s : s \ {x} \in Good PROVE s \in Good
  <2>1. CASE s = {}
    BY <1>1, <1>2, <2>1 DEF IsFraction, Zero
  <2>2. CASE s # {}
    <3>1. PICK x \in s : h[s] = Plus(f[x], h[s \ {x}])
      BY <1>1, <2>2
    <3> DEFINE r == s \ {x}
    <3>2. /\ r \in SUBSET D /\ IsFraction(h[r], sum(r), d) /\ h[r] \in Fractions
          /\ sum(s) = N[x] + sum(r) /\ sum(r) \in Int
          /\ f[x] \in Fractions /\ N[x] \in Int /\ IsFraction(f[x], N[x], d)
      BY <1>1, <1>2, <1>3
    <3> HIDE DEF r
    <3>3. IsFraction(Plus(f[x], h[r]), N[x] + sum(r), d)
      BY <3>2, SumOfTwoValues
    <3>4. IsFraction(h[s], sum(s), d)
      BY <3>1, <3>2, <3>3 DEF r
    <3> QED
      BY <3>4
  <2> QED
    BY <2>1, <2>2
<1>4. Good = SUBSET D
  <2>1. Good \in SUBSET (SUBSET D)
    OBVIOUS
  <2> HIDE DEF Good
  <2>2. \A s \in SUBSET D : (\A x \in s : s \ {x} \in Good) => s \in Good
    BY <1>3
  <2> QED
    BY <2>1, <2>2, SubsetInduction
<1>5. IsFraction(h[D], sum(D), d)
  BY <1>4
<1>6. ASSUME D # {}, sum(D) = d PROVE h[D] = One
  <2>1. PICK x \in D : h[D] = Plus(f[x], h[D \ {x}])
    BY <1>1, <1>6
  <2>2. f[x] \in Fractions /\ h[D \ {x}] \in Fractions
    BY <1>1
  <2> QED
    BY <1>5, <1>6, <2>1, <2>2, PlusOne
<1> QED
  BY <1>1, <1>5, <1>6 DEF sum

\* A fraction is that of multiples, too.
LEMMA ValueScaled ==
  ASSUME NEW p \in Fractions, NEW n \in Int, NEW d \in Nat \ {0}, NEW e \in Nat \ {0},
         IsFraction(p, n, d)
  PROVE  IsFraction(p, n * e, d * e)
<1> DEFINE a == p[1]
           b == p[2]
<1>1. a \in Nat /\ b \in Nat \ {0} /\ a * d = n * b
  BY DEF Fractions, IsFraction
<1> HIDE DEF a, b
<1>2. a * (d * e) = (a * d) * e /\ (n * e) * b = (n * b) * e
  BY <1>1
<1>3. a * (d * e) = (n * e) * b
  BY <1>1, <1>2
<1> QED
  BY <1>3 DEF IsFraction, a, b

\* What a fraction leaves of 1
LEMMA RestValue ==
  ASSUME NEW p \in Fractions, NEW n \in Nat, NEW d \in Nat \ {0}, IsFraction(p, d - n, d)
  PROVE  Minus(One, p) \in Fractions /\ IsFraction(Minus(One, p), n, d)
<1> DEFINE a == p[1]
           b == p[2]
           x == b - a
           w == Ratio(x, b)[1]
           z == Ratio(x, b)[2]
<1>1. a \in Nat /\ b \in Nat \ {0} /\ a * d = (d - n) * b
  BY DEF Fractions, IsFraction
<1>2. Minus(One, p) = Ratio(x, b)
  <2>1. 1 * b - a * 1 = x /\ 1 * b = b
    BY <1>1
  <2> HIDE DEF x, a, b
  <2>2. Minus(One, p) = Ratio(1 * b - a * 1, 1 * b)
    BY DEF Minus, One, a, b
  <2> QED
    BY <2>1, <2>2
<1> HIDE DEF a, b
<1>3. x \in Int /\ x * d = n * b
  <2>1. (b - a) * d = b * d - a * d /\ (d - n) * b = b * d - n * b
    BY <1>1
  <2> DEFINE s == b * d
             t == n * b
             u == a * d
  <2>2. s \in Int /\ t \in Int /\ u \in Int /\ u = s - t /\ x * d = s - u
    BY <1>1, <2>1
  <2> HIDE DEF s, t, u
  <2>3. s - u = t
    BY <2>2
  <2> QED
    BY <1>1, <2>2, <2>3 DEF t
<1>4. x >= 0
  <2> DEFINE t == n * b
  <2>1. t \in Nat /\ x * d = t
    BY <1>1, <1>3
  <2> HIDE DEF x, t
  <2>2. x < 0 => x * d < 0
    BY <1>3
  <2> QED
    BY <1>3, <2>1, <2>2
<1> HIDE DEF x
<1>5. x \in Nat
  BY <1>3, <1>4
<1>6. Ratio(x, b) \in Fractions
  BY <1>1, <1>5, RatioFraction
<1>7. w \in Int /\ z \in Nat \ {0} /\ w * b = x * z
  BY <1>1, <1>3, RatioIs
<1> HIDE DEF w, z
<1>8. w * d = n * z
  <2>1. (w * d) * b = (w * b) * d /\ (x * z) * d = (x * d) * z /\ (n * b) * z = (n * z) * b
    BY <1>1, <1>3, <1>7
  <2>2. (w * d) * b = (n * z) * b
    BY <1>3, <1>7, <2>1
  <2> DEFINE e == w * d
             g == n * z
  <2>3. e \in Int /\ g \in Int /\ b * e = b * g
    BY <1>1, <1>7, <2>2
  <2> HIDE DEF e, g
  <2>4. e = g
    BY <1>1, <2>3, ProductOrder
  <2> QED
    BY <2>4 DEF e, g
<1> QED
  BY <1>2, <1>6, <1>8 DEF IsFraction, w, z

\* The less of a fraction and one that is not less
LEMMA LeastValue ==
  ASSUME NEW p \in Fractions, NEW q \in Fractions, NEW n \in Nat, NEW d \in Nat \ {0},
         IsFraction(p, n, d), n * q[2] <= q[1] * d
  PROVE  Least(p, q) \in Fractions /\ IsFraction(Least(p, q), n, d)
<1> DEFINE a == p[1]
           b == p[2]
           u == q[1]
           v == q[2]
<1>1. /\ a \in Nat /\ b \in Nat \ {0} /\ u \in Nat /\ v \in Nat \ {0} /\ a * d = n * b
      /\ n * v <= u * d
  BY DEF Fractions, IsFraction
<1>2. Less(p, q) <=> a * v < u * b
  BY DEF Less
<1>3. CASE Less(p, q)
  BY <1>3 DEF Least
<1>4. CASE ~Less(p, q)
  <2> HIDE DEF a, b, u, v
  <2>1. u * b <= a * v
    <3> DEFINE e == u * b
               g == a * v
    <3>1. e \in Int /\ g \in Int /\ ~(g < e)
      BY <1>1, <1>2, <1>4
    <3> HIDE DEF e, g
    <3>2. e <= g
      BY <3>1
    <3> QED
      BY <3>2 DEF e, g
  <2>2. u * d <= n * v
    <3> DEFINE e == u * b
               g == a * v
    <3>1. e \in Int /\ g \in Int /\ d \in Nat
      BY <1>1
    <3>2. d * e <= d * g
      <4>1. e <= g
        BY <2>1
      <4> HIDE DEF e, g
      <4> QED
        BY <3>1, <4>1, ProductOrder
    <3>3. d * (u * b) = b * (u * d) /\ d * (a * v) = (a * d) * v /\ (n * b) * v = b * (n * v)
      BY <1>1
    <3> DEFINE r == u * d
               s == n * v
    <3>4. r \in Int /\ s \in Int /\ b * r <= b * s
      BY <1>1, <3>2, <3>3
    <3> HIDE DEF r, s
    <3>5. r <= s
      BY <1>1, <3>4, ProductOrder
    <3> QED
      BY <3>5 DEF r, s
  <2>3. u * d = n * v
    <3> DEFINE r == u * d
               s == n * v
    <3>1. r \in Int /\ s \in Int /\ r <= s /\ s <= r
      BY <1>1, <2>2
    <3> HIDE DEF r, s
    <3>2. r = s
      BY <3>1
    <3> QED
      BY <3>2 DEF r, s
  <2>4. Least(p, q) = q
    BY <1>4 DEF Least
  <2> QED
    BY <2>3, <2>4 DEF IsFraction, u, v
<1> QED
  BY <1>3, <1>4

\* A product with a fraction of 1 or more is not less.
LEMMA ProductAtLeast ==
  ASSUME NEW p \in Fractions, NEW q \in Fractions, NEW n \in Nat, NEW d \in Nat \ {0},
         IsFraction(p, n, d), q[2] <= q[1]
  PROVE  n * Times(p, q)[2] <= Times(p, q)[1] * d
<1> DEFINE u == q[1]
           v == q[2]
           t == Times(p, q)
           w == t[1]
           z == t[2]
<1>1. u \in Nat /\ v \in Nat \ {0} /\ v <= u
  BY DEF Fractions
<1>2. IsFraction(t, n * u, d * v) /\ t \in Fractions
  BY ProductValue, TimesIs
<1> HIDE DEF u, v, t
<1>3. w \in Nat /\ z \in Nat \ {0} /\ w * (d * v) = (n * u) * z
  BY <1>2 DEF Fractions, IsFraction
<1> HIDE DEF w, z
<1>4. (n * z) * v <= (n * z) * u
  <2> DEFINE e == n * z
  <2>1. e \in Nat /\ v \in Int /\ u \in Int
    BY <1>1, <1>3
  <2> HIDE DEF e
  <2>2. e * v <= e * u
    BY <1>1, <2>1, ProductOrder
  <2> QED
    BY <2>2 DEF e
<1>5. (n * z) * u = (n * u) * z /\ w * (d * v) = v * (w * d) /\ (n * z) * v = v * (n * z)
  BY <1>1, <1>3
<1> DEFINE e == n * z
           g == w * d
<1>6. e \in Int /\ g \in Int /\ v * e <= v * g
  BY <1>1, <1>3, <1>4, <1>5
<1> HIDE DEF e, g
<1>7. e <= g
  BY <1>1, <1>6, ProductOrder
<1> QED
  BY <1>7 DEF e, g, w, z, t

\* A product is a pair of numbers.
LEMMA ProductType ==
  ASSUME NEW p \in Fractions, NEW q \in Fractions
  PROVE  Times(p, q)[1] \in Nat /\ Times(p, q)[2] \in Nat \ {0}
BY TimesIs DEF Fractions

\* Products of what the chances x leave of 1, over one denominator d: the part that a chance
\* takes of a product is what it loses to the next.
Telescopes(g, x, first, m, F, d) ==
  /\ d \in Nat \ {0} /\ F[first] = d
  /\ \A i \in first .. m : F[i] \in Nat /\ g[i] \in Fractions /\ IsFraction(g[i], F[i], d)
  /\ \A i \in first .. m - 1 : IsFraction(Times(g[i], x[i]), F[i] - F[i + 1], d)

\* One factor more
LEMMA TelescopesOn ==
  ASSUME NEW first \in Nat, NEW m \in Nat, first <= m, NEW g, NEW x, NEW F, NEW d,
         Telescopes(g, x, first, m, F, d),
         \A i \in first .. m : x[i] \in Fractions, AtMost(x[m], One),
         g[m + 1] = Times(g[m], Minus(One, x[m]))
  PROVE  \E G, e : Telescopes(g, x, first, m + 1, G, e)
<1> DEFINE p == x[m]
           a == p[1]
           b == p[2]
           q == Minus(One, p)
           u == q[1]
           v == q[2]
           n == F[m]
           e == d * v
           G == [i \in first .. m + 1 |-> IF i = m + 1 THEN n * u ELSE F[i] * v]
<1>1. /\ d \in Nat \ {0} /\ F[first] = d
      /\ \A i \in first .. m : F[i] \in Nat /\ g[i] \in Fractions /\ IsFraction(g[i], F[i], d)
      /\ \A i \in first .. m - 1 : IsFraction(Times(g[i], x[i]), F[i] - F[i + 1], d)
  BY DEF Telescopes
<1>0. p \in Fractions
  OBVIOUS
<1>2. a \in Nat /\ b \in Nat \ {0} /\ a <= b
  <2>1. a \in Nat /\ b \in Nat \ {0}
    BY <1>0 DEF Fractions
  <2>2. ~(b < a)
    <3>1. 1 * b = b /\ a * 1 = a
      BY <2>1
    <3>2. ~(1 * b < a * 1)
      BY DEF AtMost, Less, One
    <3> QED
      BY <3>1, <3>2
  <2> QED
    BY <2>1, <2>2
<1>3. q \in Fractions /\ IsFraction(q, b - a, b)
  <2>1. b - a \in Nat /\ b - (b - a) = a
    BY <1>2
  <2>2. IsFraction(p, b - (b - a), b)
    BY <2>1 DEF IsFraction
  <2> HIDE DEF p, q, a, b
  <2> QED
    BY <1>0, <1>2, <2>1, <2>2, RestValue DEF q
<1>4. u \in Nat /\ v \in Nat \ {0} /\ u * b = (b - a) * v
  BY <1>3 DEF Fractions, IsFraction
<1>5. p \in Fractions /\ g[m + 1] = Times(g[m], q)
  BY <1>0
<1>6. n \in Nat /\ g[m] \in Fractions /\ IsFraction(g[m], n, d) /\ first \in first .. m
  BY <1>1
<1> HIDE DEF p, q, a, b, u, v
<1>7. e \in Nat \ {0}
  BY <1>1, <1>4
<1>8. /\ G[m + 1] = n * u
      /\ \A i \in first .. m : G[i] = F[i] * v
  <2>1. \A i \in first .. m : i # m + 1 /\ i \in first .. m + 1
    OBVIOUS
  <2> QED
    BY <2>1
<1> HIDE DEF n, e, G
<1>9. G[first] = e
  BY <1>1, <1>6, <1>8 DEF e
<1>10. ASSUME NEW i \in first .. m + 1
       PROVE  G[i] \in Nat /\ g[i] \in Fractions /\ IsFraction(g[i], G[i], e)
  <2>1. CASE i \in first .. m
    <3>1. F[i] \in Nat /\ F[i] \in Int /\ g[i] \in Fractions /\ IsFraction(g[i], F[i], d)
      BY <1>1, <2>1
    <3>2. IsFraction(g[i], F[i] * v, e)
      BY <1>1, <1>4, <3>1, ValueScaled DEF e
    <3>3. F[i] * v \in Nat
      BY <1>4, <3>1
    <3> QED
      BY <1>8, <2>1, <3>1, <3>2, <3>3
  <2>2. CASE i = m + 1
    <3>1. g[i] \in Fractions
      BY <1>3, <1>5, <1>6, <2>2, TimesIs
    <3>2. IsFraction(g[i], n * u, e)
      BY <1>1, <1>3, <1>5, <1>6, <2>2, ProductValue DEF e, u, v
    <3>3. n * u \in Nat
      BY <1>4, <1>6
    <3> QED
      BY <1>8, <2>2, <3>1, <3>2, <3>3
  <2> QED
    BY <2>1, <2>2
<1>11. ASSUME NEW i \in first .. (m + 1) - 1
       PROVE  IsFraction(Times(g[i], x[i]), G[i] - G[i + 1], e)
  <2>1. CASE i \in first .. m - 1
    <3> DEFINE t == Times(g[i], x[i])
               w == t[1]
               z == t[2]
               r == F[i]
               s == F[i + 1]
    <3>1. i \in first .. m /\ i + 1 \in first .. m
      BY <2>1
    <3>2. r \in Nat /\ s \in Nat /\ w * d = (r - s) * z /\ G[i] = r * v /\ G[i + 1] = s * v
      BY <1>1, <1>8, <2>1, <3>1 DEF IsFraction
    <3>3. w \in Int /\ z \in Int
      <4>1. g[i] \in Fractions /\ x[i] \in Fractions
        BY <1>1, <3>1
      <4> QED
        BY <4>1, ProductType
    <3> HIDE DEF t, w, z, r, s
    <3>4. w * (d * v) = (w * d) * v /\ (r * v - s * v) * z = ((r - s) * z) * v
      BY <1>1, <1>4, <3>2, <3>3
    <3>5. w * e = (G[i] - G[i + 1]) * z
      BY <3>2, <3>4 DEF e
    <3> QED
      BY <3>5 DEF IsFraction, t, w, z
  <2>2. CASE i = m
    <3> DEFINE t == Times(g[m], p)
               w == t[1]
               z == t[2]
    <3>1. t \in Fractions /\ IsFraction(t, n * a, d * b)
      <4>1. IsFraction(t, n * p[1], d * p[2])
        BY <1>1, <1>5, <1>6, ProductValue
      <4> QED
        BY <1>5, <1>6, <4>1, TimesIs DEF a, b
    <3>2. w \in Nat /\ z \in Nat \ {0} /\ w * (d * b) = (n * a) * z
      BY <3>1 DEF Fractions, IsFraction
    <3> HIDE DEF t, w, z
    <3>3. w * (d * v) = (n * v - n * u) * z
      <4> DEFINE nz == n * z
                 bv == b * v
                 ub == u * b
      <4>1. (w * (d * v)) * b = (w * (d * b)) * v
        BY <1>1, <1>2, <1>4, <3>2
      <4>2. ((n * a) * z) * v = nz * (a * v)
        BY <1>2, <1>4, <1>6, <3>2
      <4>3. ((n * v - n * u) * z) * b = nz * (bv - ub)
        BY <1>2, <1>4, <1>6, <3>2
      <4>4. bv - ub = a * v
        <5>1. (b - a) * v = b * v - a * v
          BY <1>2, <1>4
        <5> DEFINE av == a * v
        <5>2. av \in Int /\ bv \in Int /\ ub = bv - av
          BY <1>2, <1>4, <5>1
        <5> HIDE DEF av, bv, ub
        <5>3. bv - ub = av
          BY <5>2
        <5> QED
          BY <5>3 DEF av
      <4> DEFINE s == w * (d * v)
                 r == (n * v - n * u) * z
      <4>5. s \in Int /\ r \in Int
        BY <1>1, <1>4, <1>6, <3>2
      <4>6. s * b = r * b
        BY <3>2, <4>1, <4>2, <4>3, <4>4
      <4> HIDE DEF s, r
      <4>7. b * s = b * r
        BY <1>2, <4>5, <4>6
      <4>8. s = r
        BY <1>2, <4>5, <4>7, ProductOrder
      <4> QED
        BY <4>8 DEF s, r
    <3>4. G[m] = n * v /\ G[m + 1] = n * u
      BY <1>6, <1>8 DEF n
    <3>5. w * e = (G[m] - G[m + 1]) * z
      BY <3>3, <3>4 DEF e
    <3>6. IsFraction(t, G[m] - G[m + 1], e)
      BY <3>5 DEF IsFraction, w, z
    <3> QED
      BY <2>2, <3>6 DEF t, p
  <2> QED
    BY <2>1, <2>2
<1>12. Telescopes(g, x, first, m + 1, G, e)
  BY <1>7, <1>9, <1>10, <1>11 DEF Telescopes
<1> QED
  BY <1>12

\* All the factors
LEMMA FactorsTelescope ==
  ASSUME NEW first \in Nat, NEW last \in Nat, first <= last, NEW g, NEW x,
         \A i \in first .. last : x[i] \in Fractions,
         \A i \in first .. last - 1 : AtMost(x[i], One),
         g[first] = One,
         \A i \in first .. last - 1 : g[i + 1] = Times(g[i], Minus(One, x[i]))
  PROVE  \E F, d : Telescopes(g, x, first, last, F, d)
<1> DEFINE Good == {m \in Nat : first <= m /\ m <= last =>
                      \E F, d : Telescopes(g, x, first, m, F, d)}
<1>1. \E F, d : Telescopes(g, x, first, first, F, d)
  <2> DEFINE F == [i \in {first} |-> 1]
  <2>1. first .. first = {first} /\ first .. first - 1 = {}
    OBVIOUS
  <2>2. F[first] = 1 /\ IsFraction(g[first], 1, 1) /\ g[first] \in Fractions
    BY DEF IsFraction, One, Fractions
  <2> HIDE DEF F
  <2>3. Telescopes(g, x, first, first, F, 1)
    BY <2>1, <2>2 DEF Telescopes
  <2> QED
    BY <2>3
<1>2. ASSUME NEW m \in Good PROVE m + 1 \in Good
  <2>1. SUFFICES ASSUME first <= m + 1, m + 1 <= last
                 PROVE  \E F, d : Telescopes(g, x, first, m + 1, F, d)
    OBVIOUS
  <2>2. CASE first = m + 1
    BY <1>1, <2>2
  <2>3. CASE first # m + 1
    <3>1. m \in Nat /\ first <= m /\ m <= last /\ m \in first .. last - 1
      BY <2>1, <2>3
    <3>2. PICK F, d : Telescopes(g, x, first, m, F, d)
      BY <3>1
    <3>3. \A i \in first .. m : x[i] \in Fractions
      BY <3>1
    <3>4. AtMost(x[m], One) /\ g[m + 1] = Times(g[m], Minus(One, x[m]))
      BY <3>1
    <3> HIDE DEF Good
    <3> QED
      BY <3>1, <3>2, <3>3, <3>4, TelescopesOn
  <2> QED
    BY <2>2, <2>3
<1>3. 0 \in Good
  <2>1. first <= 0 => first = 0
    OBVIOUS
  <2> QED
    BY <1>1, <2>1
<1>4. Good = Nat
  <2>1. Good \in SUBSET Nat
    OBVIOUS
  <2> HIDE DEF Good
  <2> QED
    BY <1>2, <1>3, <2>1, InductionSet
<1> QED
  BY <1>4

\* A factor may be cancelled.
LEMMA Cancel ==
  ASSUME NEW x \in Int, NEW y \in Int, NEW k \in Nat \ {0}, x * k = y * k
  PROVE  x = y
<1>1. k \in Nat /\ k > 0 /\ k * x = k * y
  OBVIOUS
<1> QED
  BY <1>1, ProductOrder

\* Two fractions with the same value
LEMMA EqualValues ==
  ASSUME NEW a \in Int, NEW b \in Nat \ {0}, NEW n \in Int, NEW d \in Nat \ {0},
         NEW x \in Int, NEW y \in Nat \ {0}, a * d = n * b, n * y = x * d
  PROVE  a * y = x * b
<1> DEFINE u == a * y
           v == x * b
<1>1. u \in Int /\ v \in Int
  OBVIOUS
<1>2. u * d = (a * d) * y /\ v * d = (x * d) * b /\ (n * b) * y = (n * y) * b
  OBVIOUS
<1>3. u * d = v * d
  BY <1>2
<1> HIDE DEF u, v
<1>4. u = v
  BY <1>1, <1>3, Cancel
<1> QED
  BY <1>4 DEF u, v

\* A fraction has every value that equals one of its values.
LEMMA ValueIs ==
  ASSUME NEW p \in Fractions, NEW n \in Int, NEW d \in Nat \ {0}, IsFraction(p, n, d),
         NEW m \in Int, NEW e \in Nat \ {0}, n * e = m * d
  PROVE  IsFraction(p, m, e)
<1> DEFINE a == p[1]
           b == p[2]
<1>1. a \in Int /\ b \in Nat \ {0} /\ a * d = n * b
  BY DEF Fractions, IsFraction
<1> HIDE DEF a, b
<1>2. a * e = m * b
  BY <1>1, EqualValues
<1> QED
  BY <1>2 DEF IsFraction, a, b

\* Ratio has the value of its numbers
LEMMA RatioValue ==
  ASSUME NEW n \in Nat, NEW d \in Nat \ {0}
  PROVE  Ratio(n, d) \in Fractions /\ IsFraction(Ratio(n, d), n, d)
<1>1. n \in Int
  OBVIOUS
<1> QED
  BY <1>1, RatioFraction, RatioIs DEF IsFraction

\* The value of a product
LEMMA TimesValue ==
  ASSUME NEW p \in Fractions, NEW n \in Nat, NEW d \in Nat \ {0}, IsFraction(p, n, d),
         NEW q \in Fractions, NEW m \in Nat, NEW e \in Nat \ {0}, IsFraction(q, m, e)
  PROVE  Times(p, q) \in Fractions /\ IsFraction(Times(p, q), n * m, d * e)
<1> DEFINE a == p[1]
           b == p[2]
           u == q[1]
           v == q[2]
           r == Times(p, q)
<1>1. /\ a \in Nat /\ b \in Nat \ {0} /\ u \in Nat /\ v \in Nat \ {0}
      /\ a * d = n * b /\ u * e = m * v /\ r = Ratio(a * u, b * v)
  BY DEF Fractions, IsFraction, Times
<1> HIDE DEF a, b, u, v, r
<1>2. a * u \in Nat /\ b * v \in Nat \ {0} /\ n * m \in Nat /\ d * e \in Nat \ {0}
  BY <1>1
<1>3. (a * u) * (d * e) = (n * m) * (b * v)
  <2>1. (a * u) * (d * e) = (a * d) * (u * e)
    BY <1>1
  <2>2. (n * m) * (b * v) = (n * b) * (m * v)
    BY <1>1
  <2> QED
    BY <1>1, <2>1, <2>2
<1> DEFINE x == a * u
           y == b * v
           s == n * m
           t == d * e
<1>4. x \in Nat /\ y \in Nat \ {0} /\ s \in Int /\ t \in Nat \ {0} /\ x * t = s * y
      /\ r = Ratio(x, y) /\ x \in Int
  BY <1>1, <1>2, <1>3
<1> HIDE DEF x, y, s, t
<1>5. r \in Fractions /\ IsFraction(r, x, y)
  BY <1>4, RatioValue
<1>6. IsFraction(r, s, t)
  BY <1>4, <1>5, ValueIs
<1> QED
  BY <1>5, <1>6 DEF r, s, t

\* The value of a multiple
LEMMA ScaledValue ==
  ASSUME NEW k \in Nat, NEW p \in Fractions, NEW n \in Nat, NEW d \in Nat \ {0},
         IsFraction(p, n, d)
  PROVE  Scaled(k, p) \in Fractions /\ IsFraction(Scaled(k, p), k * n, d)
<1> DEFINE a == p[1]
           b == p[2]
           r == Scaled(k, p)
<1>1. a \in Nat /\ b \in Nat \ {0} /\ a * d = n * b /\ r = Ratio(k * a, b)
  BY DEF Fractions, IsFraction, Scaled
<1> HIDE DEF a, b, r
<1> DEFINE x == k * a
           s == k * n
<1>2. x \in Nat /\ s \in Int /\ x \in Int /\ x * d = s * b
  <2>1. (k * a) * d = k * (a * d) /\ (k * n) * b = k * (n * b)
    BY <1>1
  <2> QED
    BY <1>1, <2>1
<1>3. r = Ratio(x, b)
  BY <1>1
<1> HIDE DEF x, s
<1>4. r \in Fractions /\ IsFraction(r, x, b)
  BY <1>1, <1>2, <1>3, RatioValue
<1>5. IsFraction(r, s, d)
  BY <1>1, <1>2, <1>4, ValueIs
<1> QED
  BY <1>4, <1>5 DEF r, s

\* The value of a difference that is not negative
LEMMA MinusValue ==
  ASSUME NEW p \in Fractions, NEW q \in Fractions, NEW n \in Nat, NEW m \in Nat, m <= n,
         NEW d \in Nat \ {0}, IsFraction(p, n, d), IsFraction(q, m, d)
  PROVE  Minus(p, q) \in Fractions /\ IsFraction(Minus(p, q), n - m, d)
<1> DEFINE a == p[1]
           b == p[2]
           u == q[1]
           v == q[2]
           r == Minus(p, q)
           x == a * v - u * b
           y == b * v
           s == n - m
<1>1. /\ a \in Nat /\ b \in Nat \ {0} /\ u \in Nat /\ v \in Nat \ {0}
      /\ a * d = n * b /\ u * d = m * v /\ r = Ratio(x, y)
  BY DEF Fractions, IsFraction, Minus
<1> HIDE DEF a, b, u, v, r
<1>2. x \in Int /\ y \in Nat \ {0} /\ s \in Nat
  BY <1>1
<1>3. x * d = s * y
  <2>1. (a * v - u * b) * d = (a * d) * v - (u * d) * b
    BY <1>1
  <2>2. (n - m) * (b * v) = (n * b) * v - (m * v) * b
    BY <1>1
  <2> QED
    BY <1>1, <2>1, <2>2
<1> HIDE DEF x, y, s
<1>4. x \in Nat
  <2> SUFFICES ASSUME x < 0 PROVE FALSE
    BY <1>2
  <2>1. d * x < d * 0
    BY <1>2, ProductOrder
  <2> DEFINE e == d * x
             f == s * y
  <2>2. e = f /\ f \in Nat
    BY <1>2, <1>3
  <2>3. e < 0
    BY <2>1
  <2> HIDE DEF e, f
  <2> QED
    BY <2>2, <2>3
<1>5. r \in Fractions /\ IsFraction(r, x, y)
  BY <1>1, <1>2, <1>4, RatioValue
<1>6. IsFraction(r, s, d)
  BY <1>2, <1>3, <1>5, ValueIs
<1> QED
  BY <1>5, <1>6 DEF r, s

\* The value of a quotient
LEMMA OverValue ==
  ASSUME NEW p \in Fractions, NEW q \in Fractions, NEW n \in Nat, NEW m \in Nat \ {0},
         NEW d \in Nat \ {0}, IsFraction(p, n, d), IsFraction(q, m, d)
  PROVE  Over(p, q) \in Fractions /\ IsFraction(Over(p, q), n, m)
<1> DEFINE a == p[1]
           b == p[2]
           u == q[1]
           v == q[2]
           r == Over(p, q)
           x == a * v
           y == b * u
<1>1. /\ a \in Nat /\ b \in Nat \ {0} /\ u \in Nat /\ v \in Nat \ {0}
      /\ a * d = n * b /\ u * d = m * v /\ r = Ratio(x, y)
  BY DEF Fractions, IsFraction, Over
<1> HIDE DEF a, b, u, v, r
<1>2. u \in Nat \ {0}
  <2> SUFFICES ASSUME u = 0 PROVE FALSE
    BY <1>1
  <2>1. m * v = 0
    BY <1>1
  <2>2. m * v \in Nat \ {0}
    BY <1>1
  <2> QED
    BY <2>1, <2>2
<1>3. x \in Nat /\ x \in Int /\ y \in Nat \ {0}
  BY <1>1, <1>2
<1>4. x * m = n * y
  <2>1. (x * m) * d = (a * d) * (v * m)
    BY <1>1
  <2>2. (n * y) * d = (n * b) * (u * d)
    BY <1>1
  <2>3. (x * m) * d = (n * y) * d
    BY <1>1, <2>1, <2>2
  <2> DEFINE e == x * m
             f == n * y
  <2>4. e \in Int /\ f \in Int
    BY <1>3
  <2> HIDE DEF e, f
  <2>5. e = f
    BY <2>3, <2>4, Cancel DEF e, f
  <2> QED
    BY <2>5 DEF e, f
<1> HIDE DEF x, y
<1>5. r \in Fractions /\ IsFraction(r, x, y)
  BY <1>1, <1>3, RatioValue
<1>6. IsFraction(r, n, m)
  BY <1>3, <1>4, <1>5, ValueIs
<1> QED
  BY <1>5, <1>6 DEF r

\* A reduced fraction: no other number divides both parts.
Reduced(p) == \E s, t \in Int : s * p[1] + t * p[2] = 1

\* and is reduced.
LEMMA RatioReduced ==
  ASSUME NEW n \in Nat, NEW d \in Nat \ {0}
  PROVE  Ratio(n, d) \in Fractions /\ Reduced(Ratio(n, d))
<1> DEFINE p == <<n, d>>
           g == gcd[p]
<1>1. p \in Nat \X Nat /\ p[1] = n /\ p[2] = d
  OBVIOUS
<1>2. Divides(g, p) /\ Combines(g, p)
  BY <1>1, GcdIs, GcdCombines
<1>3. Ratio(n, d) = <<n \div g, d \div g>>
  <2>1. AbsOf(n) = n /\ AbsOf(d) = d /\ ~(d < 0) /\ ~(n < 0)
    BY DEF AbsOf
  <2>2. Ratio(n, d) = <<1 * (n \div g), d \div g>>
    BY <2>1 DEF Ratio
  <2>3. n \div g \in Int
    <3>1. g \in Nat \ {0}
      BY <1>1, <1>2 DEF Divides
    <3> HIDE DEF g
    <3> QED
      BY <3>1
  <2> DEFINE x == n \div g
  <2> HIDE DEF x
  <2>4. 1 * x = x
    BY <2>3 DEF x
  <2> QED
    BY <2>2, <2>4 DEF x
<1>4. g \in Nat \ {0}
  BY <1>1, <1>2 DEF Divides
<1>5. PICK x \in Nat, y \in Nat : n = g * x /\ d = g * y
  BY <1>1, <1>2 DEF Divides
<1>6. PICK s \in Int, t \in Int : g = s * n + t * d
  BY <1>1, <1>2 DEF Combines
<1> HIDE DEF g
<1>7. n \div g = x /\ d \div g = y
  BY <1>4, <1>5, QuotientOfMultiple
<1>8. s * x + t * y = 1
  <2> DEFINE e == s * x + t * y
  <2>1. e \in Int /\ e * g = s * (g * x) + t * (g * y)
    BY <1>4
  <2>2. e * g = 1 * g
    BY <1>4, <1>5, <1>6, <2>1
  <2> HIDE DEF e
  <2>3. e = 1
    BY <1>4, <2>1, <2>2, Cancel
  <2> QED
    BY <2>3 DEF e
<1>9. Reduced(Ratio(n, d))
  <2> DEFINE r == Ratio(n, d)
  <2>1. r[1] = x /\ r[2] = y
    BY <1>3, <1>7
  <2> HIDE DEF r
  <2>2. s * r[1] + t * r[2] = 1
    BY <1>8, <2>1
  <2>3. Reduced(r)
    BY <2>2, Zenon DEF Reduced
  <2> QED
    BY <2>3 DEF r
<1> QED
  BY <1>9, RatioFraction

\* Two reduced fractions with the same value are equal.
LEMMA ReducedUnique ==
  ASSUME NEW p \in Fractions, Reduced(p), NEW q \in Fractions, Reduced(q),
         p[1] * q[2] = q[1] * p[2]
  PROVE  p = q
<1> DEFINE a == p[1]
           b == p[2]
           u == q[1]
           v == q[2]
<1>1. /\ a \in Nat /\ b \in Nat \ {0} /\ u \in Nat /\ v \in Nat \ {0} /\ a * v = u * b
      /\ p = <<a, b>> /\ q = <<u, v>>
  BY DEF Fractions
<1>2. PICK s \in Int, t \in Int : s * a + t * b = 1
  BY DEF Reduced
<1>3. PICK k \in Int, l \in Int : k * u + l * v = 1
  BY DEF Reduced
<1> HIDE DEF a, b, u, v
<1>4. ASSUME NEW x \in Nat \ {0}, NEW y \in Nat \ {0}, NEW e \in Int, x = y * e
      PROVE  y <= x
  <2>1. e >= 1
    <3> SUFFICES ASSUME e <= 0 PROVE FALSE
      BY <1>4
    <3>1. y * e <= y * 0
      BY <1>4, ProductOrder
    <3> DEFINE f == y * e
    <3>2. f <= 0 /\ x = f
      BY <1>4, <3>1
    <3> HIDE DEF f
    <3> QED
      BY <3>2
  <2>2. y * 1 <= y * e
    BY <1>4, <2>1, ProductOrder
  <2> DEFINE f == y * e
  <2>3. f = x /\ y <= f
    BY <1>4, <2>2
  <2> HIDE DEF f
  <2> QED
    BY <2>3
<1>5. b <= v
  <2> DEFINE e == s * u + t * v
  <2>1. v * (s * a + t * b) = s * (a * v) + t * (v * b)
    BY <1>1
  <2>2. b * e = s * (u * b) + t * (v * b)
    BY <1>1
  <2>3. v = b * e /\ e \in Int
    BY <1>1, <1>2, <2>1, <2>2
  <2> HIDE DEF e
  <2> QED
    BY <1>1, <1>4, <2>3
<1>6. v <= b
  <2> DEFINE e == k * a + l * b
  <2>1. b * (k * u + l * v) = k * (u * b) + l * (b * v)
    BY <1>1
  <2>2. v * e = k * (a * v) + l * (b * v)
    BY <1>1
  <2>3. b = v * e /\ e \in Int
    BY <1>1, <1>3, <2>1, <2>2
  <2> HIDE DEF e
  <2> QED
    BY <1>1, <1>4, <2>3
<1>7. b = v
  BY <1>1, <1>5, <1>6
<1>8. a = u
  BY <1>1, <1>7, Cancel
<1> QED
  BY <1>1, <1>7, <1>8

\* A reduced fraction is the ratio of its value.
LEMMA ReducedIs ==
  ASSUME NEW p \in Fractions, Reduced(p), NEW n \in Nat, NEW d \in Nat \ {0},
         IsFraction(p, n, d)
  PROVE  p = Ratio(n, d)
<1> DEFINE q == Ratio(n, d)
<1>1. q \in Fractions /\ Reduced(q) /\ IsFraction(q, n, d)
  BY RatioReduced, RatioValue
<1> HIDE DEF q
<1> DEFINE a == p[1]
           b == p[2]
           u == q[1]
           v == q[2]
<1>2. /\ a \in Int /\ b \in Nat \ {0} /\ u \in Int /\ v \in Nat \ {0}
      /\ a * d = n * b /\ u * d = n * v
  BY <1>1 DEF Fractions, IsFraction
<1> HIDE DEF a, b, u, v
<1>3. a * v = u * b
  <2>1. n * v = u * d
    BY <1>2
  <2> QED
    BY <1>2, <2>1, EqualValues
<1>4. p = q
  BY <1>1, <1>3, ReducedUnique DEF a, b, u, v
<1> QED
  BY <1>4 DEF q

\* The sum of a function that is not empty is a reduced fraction.
LEMMA SumIsReduced ==
  ASSUME NEW D, IsFiniteSet(D), D # {}, NEW f, DOMAIN f = D, \A x \in D : f[x] \in Fractions
  PROVE  SumOver(f) \in Fractions /\ Reduced(SumOver(f))
<1>1. PICK h : SumSteps(h, f, D)
  BY FractionSumSteps
<1>2. PICK x \in D : SumOver(f) = Plus(f[x], h[D \ {x}])
  BY <1>1 DEF SumSteps
<1> DEFINE p == f[x]
           q == h[D \ {x}]
<1>3. p \in Fractions /\ q \in Fractions /\ SumOver(f) = Plus(p, q)
  BY <1>1, <1>2 DEF SumSteps
<1> HIDE DEF p, q
<1> DEFINE a == p[1] * q[2] + q[1] * p[2]
           b == p[2] * q[2]
<1>4. a \in Nat /\ b \in Nat \ {0}
  BY <1>3 DEF Fractions
<1>5. SumOver(f) = Ratio(a, b)
  BY <1>3 DEF Plus
<1> HIDE DEF a, b
<1> QED
  BY <1>4, <1>5, RatioReduced

(* A walk with the chance u / d of coming on and v / d of starting here is *)
(* taken with the chances x and y, or passes.                              *)
LEMMA StepValues ==
  ASSUME NEW p \in Fractions, NEW q \in Fractions, NEW u \in Nat, NEW v \in Nat,
         NEW d \in Nat \ {0}, IsFraction(p, u, d), IsFraction(q, v, d),
         NEW x \in Fractions, NEW y \in Fractions, NEW b \in Nat \ {0},
         NEW h \in 0 .. b, NEW g \in 0 .. b, IsFraction(x, h, b), IsFraction(y, g, b)
  PROVE  /\ Plus(Times(p, x), Times(q, y)) \in Fractions
         /\ IsFraction(Plus(Times(p, x), Times(q, y)), u * h + v * g, d * b)
         /\ Plus(Times(p, Minus(One, x)), Times(q, Minus(One, y))) \in Fractions
         /\ IsFraction(Plus(Times(p, Minus(One, x)), Times(q, Minus(One, y))),
                       u * (b - h) + v * (b - g), d * b)
<1>1. d * b \in Nat \ {0} /\ h \in Nat /\ g \in Nat /\ b - h \in Nat /\ b - g \in Nat
      /\ b - (b - h) = h /\ b - (b - g) = g
  OBVIOUS
<1>2. /\ Minus(One, x) \in Fractions /\ IsFraction(Minus(One, x), b - h, b)
      /\ Minus(One, y) \in Fractions /\ IsFraction(Minus(One, y), b - g, b)
  BY <1>1, RestValue
<1> DEFINE e == d * b
<1>3. ASSUME NEW X \in Fractions, NEW Y \in Fractions, NEW H \in Nat, NEW G \in Nat,
             IsFraction(X, H, b), IsFraction(Y, G, b)
      PROVE  /\ Plus(Times(p, X), Times(q, Y)) \in Fractions
             /\ IsFraction(Plus(Times(p, X), Times(q, Y)), u * H + v * G, e)
  <2> DEFINE r == Times(p, X)
             s == Times(q, Y)
             m == u * H
             n == v * G
  <2>1. r \in Fractions /\ IsFraction(r, m, e) /\ s \in Fractions /\ IsFraction(s, n, e)
    BY <1>3, TimesValue
  <2>2. m \in Int /\ n \in Int /\ e \in Nat \ {0}
    BY <1>1, <1>3
  <2> HIDE DEF r, s, m, n, e
  <2>3. Plus(r, s) \in Fractions /\ IsFraction(Plus(r, s), m + n, e)
    BY <2>1, <2>2, PlusIs, SumOfTwoValues
  <2> QED
    BY <2>3 DEF r, s, m, n
<1>4. /\ Plus(Times(p, x), Times(q, y)) \in Fractions
      /\ IsFraction(Plus(Times(p, x), Times(q, y)), u * h + v * g, e)
  BY <1>1, <1>3
<1> DEFINE X == Minus(One, x)
           Y == Minus(One, y)
           H == b - h
           G == b - g
<1>5. /\ Plus(Times(p, X), Times(q, Y)) \in Fractions
      /\ IsFraction(Plus(Times(p, X), Times(q, Y)), u * H + v * G, e)
  <2>1. X \in Fractions /\ Y \in Fractions /\ H \in Nat /\ G \in Nat
        /\ IsFraction(X, H, b) /\ IsFraction(Y, G, b)
    BY <1>1, <1>2
  <2> HIDE DEF X, Y, H, G, e
  <2> QED
    BY <1>3, <2>1
<1> QED
  BY <1>4, <1>5
================================================================================
