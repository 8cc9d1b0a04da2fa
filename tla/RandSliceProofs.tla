--------------------------- MODULE RandSliceProofs ---------------------------
(***************************************************************************)
(* Random slicing partitions the virtual blocks as its table says, in fair *)
(* shares, and moves no block from one old disk to another, for every      *)
(* number of blocks and disks, all capacities, every sequence of calls of  *)
(* setDisks and both options.                                              *)
(***************************************************************************)
EXTENDS RandSlice, NumberFacts

--------------------------------------------------------------------------------
(* The inductive invariant.                                                *)

Old == DOMAIN disks
New == DOMAIN new_disks

\* The capacity when setDisks is done
Total == capacity + SumFunction(new_disks)

\* Block x is in a free interval.
IsFree(x) == \E m \in DOMAIN free_space : free_space[m].first <= x /\ x < free_space[m].second

\* The blocks of an old disk that it keeps as far as is decided, and those whose interval
\* has not been looked at.
Kept(d) == {x \in Block : owner[x] = d /\ ~IsFree(x)}
Rest(d) == {x \in last_low .. VSPACE_MAX - 1 : owner[x] = d}

\* The disks and their capacity
Members ==
  /\ \E n \in 0 .. MaxDisks : Old = 0 .. n - 1
  /\ disks \in [Old -> 1 .. MaxCapacity]
  /\ partitions \in [Old -> 0 .. VSPACE_MAX]
  /\ capacity = SumFunction(disks)

\* What add_partitions asks for: every old disk gives what it has more than its share,
\* and there is one request for each new disk, of its share and a part of the rounding
\* errors.
Requests ==
  pc # "idle" =>
    /\ \E n \in 1 .. MaxDisks, m \in 1 .. MaxDisks :
         n < m /\ Old = 0 .. n - 1 /\ New = n .. m - 1
    /\ new_disks \in [New -> 1 .. MaxCapacity]
    /\ old_partitions \in [Old -> 0 .. VSPACE_MAX]
    /\ \A d \in Old : partitions[d] = Share(disks[d], Total)
    /\ new_partitions # <<>>
    /\ \A k, l \in DOMAIN new_partitions :
         new_partitions[k].pid = new_partitions[l].pid => k = l
    /\ \A k \in DOMAIN new_partitions : new_partitions[k].pid \in New
    /\ \A d \in New : \E k \in DOMAIN new_partitions : new_partitions[k].pid = d
    /\ \A k \in DOMAIN new_partitions :
         new_partitions[k].size - Share(new_disks[new_partitions[k].pid], Total) \in
           0 .. Cardinality(Old \cup New) - 1

\* The blocks that an old disk keeps are its share and what it has still to give.
KeepsShare ==
  pc # "idle" => \A d \in Old : Cardinality(Kept(d)) = partitions[d] + old_partitions[d]

\* The intervals of a list do not overlap and lie in the space.
Intervals(list) ==
  /\ \A m \in DOMAIN list : list[m].first <= list[m].second /\ list[m].second <= VSPACE_MAX
  /\ \A m, n \in DOMAIN list :
       m # n => \/ list[m].second <= list[n].first
                \/ list[n].second <= list[m].first
                \/ list[n].first = list[n].second
                \/ list[m].first = list[m].second

\* While the free space is collected: it lies in order before the interval to look at
\* next, and what a disk has still to give is there from that interval on.
Collecting ==
  pc = "collect" =>
    /\ \A x \in Block : owner[x] \in Old
    /\ \A m \in DOMAIN free_space : /\ free_space[m].first < free_space[m].second
                                    /\ free_space[m].second <= last_low
    /\ \A m, n \in DOMAIN free_space :
         m < n => free_space[m].second <= free_space[n].first
    /\ \A d \in Old : old_partitions[d] <= Cardinality(Rest(d))
    /\ Sizes(free_space) + SumFunction(old_partitions) =
         SumFunction([n \in DOMAIN new_partitions |-> new_partitions[n].size])

\* While it is handed out: the requests are met one after the other, and the loop has left
\* nothing behind that the one at hand needs.
Reusing ==
  pc = "reuse" =>
    /\ part \in DOMAIN new_partitions
    /\ free \in 1 .. Len(free_space) + 1
    /\ psize <= new_partitions[part].size
    /\ \A x \in Block : owner[x] \in Old \cup New
    /\ \A x \in Block : IsFree(x) => owner[x] \in Old
    /\ \A d \in Old : old_partitions[d] = 0
    /\ \A k \in DOMAIN new_partitions :
         Cardinality(BlocksOf(new_partitions[k].pid)) =
           IF k < part THEN new_partitions[k].size
           ELSE IF k = part THEN new_partitions[k].size - psize
           ELSE 0
    /\ psize > 0 => \A m \in 1 .. free - 1 : free_space[m].first = free_space[m].second

\* Nothing is left when setDisks is done.
Done == pc = "idle" => \A m \in DOMAIN free_space : free_space[m].first = free_space[m].second

IInv ==
  /\ TypeOK /\ Members /\ TableMatchesTree /\ FairShares
  /\ Requests /\ KeepsShare /\ Intervals(free_space)
  /\ Collecting /\ Reusing /\ FreeSpaceMeetsDemand /\ Done

--------------------------------------------------------------------------------
(* Shares.                                                                 *)

\* A share is the quotient, rounded down.
LEMMA ShareIs ==
  ASSUME NEW c \in Nat, NEW t \in Nat \ {0}
  PROVE  /\ Share(c, t) \in Nat
         /\ t * Share(c, t) <= VSPACE_MAX * c
         /\ VSPACE_MAX * c < t * Share(c, t) + t
<1>1. c * VSPACE_MAX \in Nat /\ c * VSPACE_MAX = VSPACE_MAX * c
  BY SpaceAssumption
<1>2. \A a \in Nat : /\ a \div t \in Nat
                     /\ t * (a \div t) <= a
                     /\ a < t * (a \div t) + t
  OBVIOUS
<1> QED
  BY <1>1, <1>2 DEF Share

\* A disk with some capacity has a share of at least one block and at most all of them;
\* in a larger system it has a smaller one.
LEMMA ShareBounds ==
  ASSUME NEW c \in Nat \ {0}, NEW t \in Nat \ {0}, c <= t
  PROVE  /\ Share(c, t) <= VSPACE_MAX
         /\ t <= VSPACE_MAX => Share(c, t) >= 1
         /\ \A u \in Nat : t <= u => Share(c, u) <= Share(c, t)
<1> DEFINE s == Share(c, t)
           V == VSPACE_MAX
<1>1. /\ s \in Nat /\ V \in Nat \ {0}
      /\ t * s <= V * c /\ V * c < t * s + t
  BY ShareIs, SpaceAssumption
<1>2. ASSUME NEW u \in Nat, t <= u PROVE Share(c, u) <= s
  <2> DEFINE r == Share(c, u)
  <2>1. u \in Nat \ {0} /\ r \in Nat /\ u * r <= V * c
    BY <1>2, ShareIs
  <2> HIDE DEF s, r, V
  <2>2. t * r <= u * r
    BY <1>2, <2>1
  <2>3. t * r < t * s + t
    BY <1>1, <2>1, <2>2
  <2>4. t * r < t * (s + 1)
    BY <1>1, <2>3
  <2>5. r < s + 1
    BY <1>1, <2>1, <2>4
  <2>6. r <= s
    BY <1>1, <2>1, <2>5
  <2> QED
    BY <2>6 DEF r
<1> HIDE DEF s, V
<1>3. s <= V
  <2>1. V * c <= V * t
    BY <1>1
  <2>2. t * s <= t * V
    BY <1>1, <2>1
  <2> QED
    BY <1>1, <2>2
<1>4. ASSUME t <= V PROVE s >= 1
  <2>1. V <= V * c
    BY <1>1
  <2>2. s = 0 => t * s = 0
    BY <1>1
  <2> QED
    BY <1>1, <1>4, <2>1, <2>2
<1> QED
  BY <1>2, <1>3, <1>4 DEF s, V

\* A sum of numbers up to a bound
LEMMA SumBounded ==
  ASSUME NEW S, IsFiniteSet(S), NEW f, NEW k \in Nat, \A s \in S : f[s] \in Nat /\ f[s] <= k
  PROVE  /\ SumFunctionOnSet(f, S) \in Nat
         /\ SumFunctionOnSet(f, S) <= k * Cardinality(S)
         /\ \A s \in S : f[s] <= SumFunctionOnSet(f, S)
<1> DEFINE zero == [s \in S |-> 0]
           one == [s \in S |-> 1]
           all == [s \in S |-> k]
<1>1. \A s \in S : /\ f[s] \in Int /\ zero[s] \in Int /\ one[s] \in Int /\ all[s] \in Int
                   /\ zero[s] <= f[s] /\ f[s] <= all[s]
                   /\ all[s] = k * one[s] /\ zero[s] = 0 * one[s]
  OBVIOUS
<1>2. SumFunctionOnSet(one, S) = Cardinality(S) /\ Cardinality(S) \in Nat
  BY SumOfOnes, FS_CardinalityType
<1> HIDE DEF zero, one, all
<1>3. /\ SumFunctionOnSet(zero, S) \in Int /\ SumFunctionOnSet(f, S) \in Int
      /\ SumFunctionOnSet(zero, S) <= SumFunctionOnSet(f, S)
      /\ SumFunctionOnSet(f, S) <= SumFunctionOnSet(all, S)
  BY <1>1, SumIs, SumCompare
<1>4. SumFunctionOnSet(all, S) = k * SumFunctionOnSet(one, S)
  BY <1>1, SumScaled
<1>5. SumFunctionOnSet(zero, S) = 0 * SumFunctionOnSet(one, S)
  BY <1>1, SumScaled
<1>6. SumFunctionOnSet(f, S) \in Nat /\ SumFunctionOnSet(f, S) <= k * Cardinality(S)
  BY <1>2, <1>3, <1>4, <1>5
<1>7. ASSUME NEW s \in S PROVE f[s] <= SumFunctionOnSet(f, S)
  <2> DEFINE only == [x \in S |-> IF x = s THEN f[s] ELSE 0]
  <2>1. /\ \A x \in S : zero[x] \in Int /\ only[x] \in Int /\ only[x] <= f[x]
        /\ \A x \in S : x # s => zero[x] = only[x]
        /\ only[s] = f[s] /\ zero[s] = 0
    BY <1>1 DEF zero
  <2> HIDE DEF only
  <2>2. SumFunctionOnSet(only, S) = SumFunctionOnSet(zero, S) - zero[s] + only[s]
    BY <2>1, SumChange
  <2>3. SumFunctionOnSet(only, S) <= SumFunctionOnSet(f, S)
    BY <1>1, <2>1, SumCompare
  <2>4. SumFunctionOnSet(zero, S) = 0
    BY <1>2, <1>5
  <2> QED
    BY <1>3, <2>1, <2>2, <2>3, <2>4
<1> QED
  BY <1>6, <1>7

\* The shares of all disks of a system leave less than one block for each of them.
LEMMA SumOfShares ==
  ASSUME NEW D, IsFiniteSet(D), NEW c, \A d \in D : c[d] \in Nat \ {0},
         NEW t \in Nat \ {0}, t = SumFunctionOnSet(c, D),
         NEW f, \A d \in D : f[d] = Share(c[d], t)
  PROVE  /\ SumFunctionOnSet(f, D) \in Int
         /\ VSPACE_MAX - SumFunctionOnSet(f, D) \in 0 .. Cardinality(D) - 1
<1> DEFINE V == VSPACE_MAX
           one == [d \in D |-> 1]
           low == [d \in D |-> t * f[d]]
           up == [d \in D |-> t * f[d] + t]
           all == [d \in D |-> V * c[d]]
           F == SumFunctionOnSet(f, D)
           n == Cardinality(D)
<1>1. V \in Nat \ {0} /\ n \in Nat /\ SumFunctionOnSet(one, D) = n
  BY SpaceAssumption, SumOfOnes, FS_CardinalityType
<1>2. \A d \in D : /\ f[d] \in Nat /\ c[d] \in Nat
                   /\ t * f[d] <= V * c[d] /\ V * c[d] < t * f[d] + t
  BY ShareIs
<1>3. D # {}
  BY SumIs
<1> HIDE DEF V
<1>4. \A d \in D : /\ f[d] \in Int /\ c[d] \in Int /\ one[d] \in Int
                   /\ low[d] \in Int /\ up[d] \in Int /\ all[d] \in Int
                   /\ low[d] <= all[d] /\ all[d] <= up[d] /\ all[d] < up[d]
  <2> TAKE d \in D
  <2>1. t * f[d] \in Int /\ V * c[d] \in Int /\ t * f[d] + t \in Int
    BY <1>1, <1>2
  <2> QED
    BY <1>2, <2>1
<1> DEFINE ts == [d \in D |-> t]
<1>5. \A d \in D : /\ low[d] = t * f[d] /\ all[d] = V * c[d]
                   /\ ts[d] \in Int /\ ts[d] = t * one[d]
                   /\ up[d] = low[d] + ts[d]
  OBVIOUS
<1> HIDE DEF low, up, all, one, ts
<1>6. F \in Int
  BY <1>4, SumIs
<1> HIDE DEF F, n
<1>7. /\ SumFunctionOnSet(low, D) = t * F
      /\ SumFunctionOnSet(up, D) = t * F + t * n
      /\ SumFunctionOnSet(all, D) = V * t
  <2>1. SumFunctionOnSet(low, D) = t * F
    BY <1>4, <1>5, SumScaled DEF F
  <2>2. SumFunctionOnSet(ts, D) = t * n
    BY <1>1, <1>4, <1>5, SumScaled
  <2>3. SumFunctionOnSet(up, D) = SumFunctionOnSet(low, D) + SumFunctionOnSet(ts, D)
    BY <1>4, <1>5, SumPlus
  <2>4. SumFunctionOnSet(all, D) = V * SumFunctionOnSet(c, D)
    <3>1. V \in Int /\ \A d \in D : c[d] \in Int /\ all[d] = V * c[d]
      BY <1>1, <1>4, <1>5
    <3> QED
      BY <3>1, SumScaled
  <2> QED
    BY <2>1, <2>2, <2>3, <2>4
<1>8. SumFunctionOnSet(low, D) <= SumFunctionOnSet(all, D)
  BY <1>4, SumCompare
<1>9. SumFunctionOnSet(all, D) < SumFunctionOnSet(up, D)
  BY <1>3, <1>4, SumCompare
<1>10. t * F <= t * V /\ t * V < t * (F + n)
  BY <1>1, <1>6, <1>7, <1>8, <1>9
<1>11. F <= V /\ V < F + n
  BY <1>1, <1>6, <1>10
<1> QED
  BY <1>1, <1>6, <1>11 DEF F, n, V

--------------------------------------------------------------------------------
(* Lists of intervals and of requests.                                     *)

Interval == [first : 0 .. VSPACE_MAX, second : 0 .. VSPACE_MAX]

\* The sort puts every element at a place of its own.
LEMMA SortRearranges ==
  ASSUME NEW R, NEW list \in Seq(R), NEW size \in [DOMAIN list -> Int]
  PROVE  \E p \in Bijection(DOMAIN list, DOMAIN list) :
           SortBySize(list, size) = [n \in DOMAIN list |-> list[p[n]]]
<1> DEFINE D == DOMAIN list
           N == Len(list)
           Before(i, j) == size[i] > size[j] \/ (size[i] = size[j] /\ i < j)
           Ahead(i) == {j \in D : Before(j, i)}
           q == [i \in D |-> Cardinality(Ahead(i)) + 1]
<1>1. D = 1 .. N /\ N \in Nat /\ IsFiniteSet(D) /\ Cardinality(D) = N
  BY FS_Interval
<1>2. \A i \in D : i \in Int /\ size[i] \in Int
  BY <1>1
<1>3. /\ \A i \in D : ~Before(i, i)
      /\ \A i, j \in D : i # j => Before(i, j) \/ Before(j, i)
      /\ \A i, j, k \in D : Before(i, j) /\ Before(j, k) => Before(i, k)
  BY <1>2
<1> HIDE DEF D, Before
<1>4. ASSUME NEW i \in D
      PROVE  /\ IsFiniteSet(Ahead(i)) /\ Cardinality(Ahead(i)) \in Nat
             /\ Cardinality(Ahead(i)) + 1 \in D
  <2>1. Ahead(i) \subseteq D \ {i}
    BY <1>3
  <2> HIDE DEF Ahead
  <2>2. IsFiniteSet(D \ {i}) /\ Cardinality(D \ {i}) = Cardinality(D) - 1
    BY <1>1, FS_RemoveElement
  <2>3. /\ IsFiniteSet(Ahead(i)) /\ Cardinality(Ahead(i)) \in Nat
        /\ Cardinality(Ahead(i)) <= N - 1
    BY <1>1, <2>1, <2>2, FS_Subset, FS_CardinalityType
  <2> QED
    BY <1>1, <2>3
<1>5. ASSUME NEW i \in D, NEW j \in D, Before(i, j)
      PROVE  Cardinality(Ahead(i)) # Cardinality(Ahead(j))
  <2>1. Ahead(i) \subseteq Ahead(j) /\ i \in Ahead(j) /\ i \notin Ahead(i)
    BY <1>3, <1>5
  <2> HIDE DEF Ahead
  <2> QED
    BY <1>4, <2>1, FS_Subset
<1>6. q \in Bijection(D, D)
  <2>1. q \in [D -> D]
    BY <1>4
  <2>2. \A i, j \in D : q[i] = q[j] => i = j
    <3> SUFFICES ASSUME NEW i \in D, NEW j \in D, q[i] = q[j], i # j PROVE FALSE
      OBVIOUS
    <3>1. Cardinality(Ahead(i)) = Cardinality(Ahead(j))
      <4>1. Cardinality(Ahead(i)) \in Nat /\ Cardinality(Ahead(j)) \in Nat
        BY <1>4
      <4>2. Cardinality(Ahead(i)) + 1 = Cardinality(Ahead(j)) + 1
        OBVIOUS
      <4> HIDE DEF Ahead
      <4> QED
        BY <4>1, <4>2
    <3> QED
      BY <1>3, <1>5, <3>1
  <2> HIDE DEF q
  <2>3. q \in Injection(D, D)
    BY <2>1, <2>2 DEF Injection, IsInjective
  <2> QED
    BY <1>1, <2>3, FS_Injection DEF Bijection
<1>7. \A n \in D : \E i \in D : q[i] = n
  BY <1>6 DEF Bijection, Surjection
<1>8. \A i, j \in D : q[i] = q[j] => i = j
  BY <1>6 DEF Bijection, Injection, IsInjective
<1> DEFINE p == [n \in D |-> CHOOSE i \in D : q[i] = n]
<1>9. \A n \in D : p[n] \in D /\ q[p[n]] = n
  BY <1>7
<1>10. p \in Bijection(D, D)
  <2>1. p \in [D -> D] /\ \A m, n \in D : p[m] = p[n] => m = n
    BY <1>9
  <2>2. \A i \in D : \E n \in D : p[n] = i
    <3> TAKE i \in D
    <3>1. q[i] \in D
      BY <1>6 DEF Bijection, Injection
    <3>2. p[q[i]] = i
      <4> HIDE DEF p, q
      <4> QED
        BY <1>8, <1>9, <3>1
    <3> QED
      BY <3>1, <3>2
  <2> HIDE DEF p
  <2> QED
    BY <2>1, <2>2 DEF Bijection, Injection, Surjection, IsInjective
<1>11. SortBySize(list, size) = [n \in D |-> list[p[n]]]
  <2>1. SortBySize(list, size) =
          [n \in D |-> list[CHOOSE i \in D : Cardinality(Ahead(i)) + 1 = n]]
    BY DEF SortBySize, D, Before
  <2>2. \A n \in D : p[n] = CHOOSE i \in D : Cardinality(Ahead(i)) + 1 = n
    OBVIOUS
  <2> HIDE DEF p, q
  <2> QED
    BY <2>1, <2>2
<1> QED
  BY <1>10, <1>11 DEF D

\* The sizes of a list are numbers, and their sum is one.
LEMMA SizesIs ==
  ASSUME NEW list \in Seq(Interval)
  PROVE  /\ Sizes(list) \in Int
         /\ DOMAIN list = 1 .. Len(list) /\ Len(list) \in Nat /\ IsFiniteSet(DOMAIN list)
         /\ \A n \in DOMAIN list : /\ list[n].first \in 0 .. VSPACE_MAX
                                   /\ list[n].second \in 0 .. VSPACE_MAX
                                   /\ list[n].second - list[n].first \in Int
<1> DEFINE f == [n \in DOMAIN list |-> list[n].second - list[n].first]
<1>1. DOMAIN list = 1 .. Len(list) /\ Len(list) \in Nat /\ IsFiniteSet(DOMAIN list)
  BY FS_Interval
<1>2. ASSUME NEW n \in DOMAIN list
      PROVE  /\ list[n].first \in 0 .. VSPACE_MAX /\ list[n].second \in 0 .. VSPACE_MAX
             /\ list[n].second - list[n].first \in Int
  <2>1. list[n] \in Interval
    OBVIOUS
  <2>2. list[n].first \in 0 .. VSPACE_MAX /\ list[n].second \in 0 .. VSPACE_MAX
    BY <2>1 DEF Interval
  <2> QED
    BY <2>2, SpaceAssumption
<1>3. Sizes(list) = SumFunctionOnSet(f, DOMAIN list) /\ \A n \in DOMAIN list : f[n] \in Int
  BY <1>2 DEF Sizes, SumFunction
<1> HIDE DEF f
<1>4. Sizes(list) \in Int
  BY <1>1, <1>3, SumIs
<1> QED
  BY <1>1, <1>2, <1>4

\* Only empty intervals, and proper ones, have a sum of 0.
LEMMA SizesOfEmpty ==
  ASSUME NEW list \in Seq(Interval),
         \A n \in DOMAIN list : list[n].first <= list[n].second
  PROVE  Sizes(list) = 0 <=> \A n \in DOMAIN list : list[n].first = list[n].second
<1> DEFINE S == DOMAIN list
           f == [n \in S |-> list[n].second - list[n].first]
<1>1. /\ IsFiniteSet(S) /\ VSPACE_MAX \in Nat
      /\ \A n \in S : /\ list[n].first \in 0 .. VSPACE_MAX
                      /\ list[n].second \in 0 .. VSPACE_MAX
  BY SizesIs, SpaceAssumption
<1>2. \A n \in S : /\ f[n] \in Nat /\ f[n] <= VSPACE_MAX
                   /\ f[n] = 0 <=> list[n].first = list[n].second
  BY <1>1
<1>3. Sizes(list) = SumFunctionOnSet(f, S)
  BY DEF Sizes, SumFunction
<1> HIDE DEF f, S
<1>4. /\ SumFunctionOnSet(f, S) \in Nat
      /\ \A n \in S : f[n] <= SumFunctionOnSet(f, S)
  BY <1>1, <1>2, SumBounded
<1>5. ASSUME Sizes(list) = 0, NEW n \in S PROVE list[n].first = list[n].second
  <2>1. f[n] <= 0 /\ f[n] \in Nat
    BY <1>2, <1>3, <1>4, <1>5
  <2> QED
    BY <1>2, <2>1
<1>6. ASSUME \A n \in S : list[n].first = list[n].second PROVE Sizes(list) = 0
  <2>1. \A n \in S : f[n] \in Nat /\ f[n] <= 0
    BY <1>2, <1>6
  <2>2. SumFunctionOnSet(f, S) <= 0 * Cardinality(S) /\ Cardinality(S) \in Nat
    BY <1>1, <2>1, SumBounded, FS_CardinalityType
  <2> QED
    BY <1>3, <1>4, <2>2
<1> QED
  BY <1>5, <1>6 DEF S

\* The sum when an interval is appended
LEMMA SizesAppend ==
  ASSUME NEW list \in Seq(Interval), NEW i \in Interval
  PROVE  Sizes(Append(list, i)) = Sizes(list) + (i.second - i.first)
<1> DEFINE longer == Append(list, i)
           n == Len(list)
           f == [k \in DOMAIN longer |-> longer[k].second - longer[k].first]
           g == [k \in DOMAIN list |-> list[k].second - list[k].first]
<1>1. /\ longer \in Seq(Interval) /\ n \in Nat
      /\ DOMAIN longer = 1 .. n + 1 /\ DOMAIN list = 1 .. n
      /\ \A k \in 1 .. n : longer[k] = list[k]
      /\ longer[n + 1] = i
  OBVIOUS
<1> HIDE DEF longer
<1>2. Sizes(longer) = SumFunctionOnSet(f, 1 .. n + 1)
  BY <1>1 DEF Sizes, SumFunction
<1>3. Sizes(list) = SumFunctionOnSet(g, 1 .. n)
  BY <1>1 DEF Sizes, SumFunction
<1>4. \A k \in 1 .. n + 1 : f[k] \in Int
  BY <1>1, SizesIs
<1>5. \A k \in 1 .. n : f[k] = g[k]
  BY <1>1
<1>6. f[n + 1] = i.second - i.first
  BY <1>1
<1> HIDE DEF f, g
<1>7. IsFiniteSet(1 .. n) /\ n + 1 \notin 1 .. n /\ 1 .. n + 1 = (1 .. n) \cup {n + 1}
  <2>1. n + 1 \notin 1 .. n /\ 1 .. n + 1 = (1 .. n) \cup {n + 1}
    BY <1>1
  <2> QED
    BY <1>1, <2>1, SizesIs
<1>8. SumFunctionOnSet(f, 1 .. n + 1) = f[n + 1] + SumFunctionOnSet(f, 1 .. n)
  BY <1>4, <1>7, SumAdd
<1>9. SumFunctionOnSet(f, 1 .. n) = SumFunctionOnSet(g, 1 .. n)
  BY <1>4, <1>5, <1>7, SumSame
<1>10. f[n + 1] \in Int /\ Sizes(list) \in Int
  BY <1>4, <1>7, SizesIs
<1> QED
  BY <1>2, <1>3, <1>6, <1>8, <1>9, <1>10 DEF longer

\* The sum when an interval changes
LEMMA SizesChange ==
  ASSUME NEW list \in Seq(Interval), NEW k \in DOMAIN list, NEW i \in Interval
  PROVE  Sizes([list EXCEPT ![k] = i]) =
           Sizes(list) - (list[k].second - list[k].first) + (i.second - i.first)
<1> DEFINE D == DOMAIN list
           other == [list EXCEPT ![k] = i]
           f == [n \in D |-> list[n].second - list[n].first]
           g == [n \in D |-> other[n].second - other[n].first]
<1>1. /\ other \in Seq(Interval) /\ DOMAIN other = D
      /\ other[k] = i /\ \A n \in D \ {k} : other[n] = list[n]
  OBVIOUS
<1> HIDE DEF other
<1>2. Sizes(list) = SumFunctionOnSet(f, D) /\ Sizes(other) = SumFunctionOnSet(g, D)
  BY <1>1 DEF Sizes, SumFunction
<1>3. f[k] = list[k].second - list[k].first /\ g[k] = i.second - i.first
  BY <1>1
<1>4. IsFiniteSet(D) /\ k \in D
  BY SizesIs
<1>5. \A n \in D : f[n] \in Int /\ g[n] \in Int
  BY <1>1, SizesIs
<1>6. \A n \in D : n # k => f[n] = g[n]
  BY <1>1
<1> HIDE DEF f, g, D
<1>7. f[k] \in Int /\ g[k] \in Int
  BY <1>4, <1>5
<1>8. \A m : m \in D /\ (\A n \in D : n # m => f[n] = g[n]) =>
               SumFunctionOnSet(g, D) = SumFunctionOnSet(f, D) - f[m] + g[m]
  BY <1>4, <1>5, SumChange
<1>9. SumFunctionOnSet(g, D) = SumFunctionOnSet(f, D) - f[k] + g[k]
  BY <1>4, <1>6, <1>8
<1> QED
  BY <1>2, <1>3, <1>9 DEF other

\* The sum does not depend on the order of the list.
LEMMA SizesRearranged ==
  ASSUME NEW list \in Seq(Interval), NEW p \in Bijection(DOMAIN list, DOMAIN list)
  PROVE  Sizes([n \in DOMAIN list |-> list[p[n]]]) = Sizes(list)
<1> DEFINE D == DOMAIN list
           other == [n \in D |-> list[p[n]]]
           f == [n \in D |-> list[n].second - list[n].first]
           g == [n \in D |-> other[n].second - other[n].first]
<1>1. IsFiniteSet(D) /\ \A n \in D : f[n] \in Int
  BY SizesIs
<1>2. p \in [D -> D]
  BY DEF Bijection, Injection
<1>3. \A n \in D : p[n] \in D /\ g[n] = f[p[n]] /\ g[n] \in Int
  BY <1>1, <1>2
<1>4. Sizes(list) = SumFunctionOnSet(f, D) /\ Sizes(other) = SumFunctionOnSet(g, D)
  BY DEF Sizes, SumFunction
<1> HIDE DEF f, g, other, D
<1>5. SumFunctionOnSet(g, D) = SumFunctionOnSet(f, D)
  BY <1>1, <1>3, SumRenamed DEF D
<1> QED
  BY <1>4, <1>5 DEF other, D

--------------------------------------------------------------------------------
(* Collecting the free space.                                              *)

\* The blocks of the interval that starts at low have one owner.
LEMMA IntervalEndIs ==
  ASSUME NEW low \in Block
  PROVE  /\ IntervalEnd(low) \in low + 1 .. VSPACE_MAX
         /\ \A x \in low .. IntervalEnd(low) - 1 : owner[x] = owner[low]
<1> DEFINE ends == {x \in low + 1 .. VSPACE_MAX : x = VSPACE_MAX \/ owner[x] # owner[low]}
<1>1. low \in Nat /\ low < VSPACE_MAX /\ VSPACE_MAX \in Nat
  BY SpaceAssumption DEF Block
<1>2. ends \in SUBSET Nat /\ VSPACE_MAX \in ends
  BY <1>1
<1>3. IntervalEnd(low) \in ends /\ \A y \in ends : IntervalEnd(low) <= y
  <2> HIDE DEF ends
  <2>1. Min(ends) \in ends /\ \A y \in ends : Min(ends) <= y
    BY <1>2, MinIs
  <2> QED
    BY <2>1 DEF IntervalEnd, ends
<1>4. ASSUME NEW x \in low .. IntervalEnd(low) - 1, owner[x] # owner[low] PROVE FALSE
  <2>1. x # low /\ x \in low + 1 .. VSPACE_MAX /\ x < IntervalEnd(low)
    BY <1>1, <1>3, <1>4
  <2>2. x \in ends
    BY <1>4, <2>1
  <2> QED
    BY <1>3, <2>1, <2>2
<1> QED
  BY <1>3, <1>4

\* What the invariants say while the free space is collected
LEMMA CollectFacts ==
  ASSUME IInv, pc = "collect", last_low < VSPACE_MAX
  PROVE  /\ last_low \in Block /\ last_low \in Nat /\ VSPACE_MAX \in Nat
         /\ owner[last_low] \in Old
         /\ free_space \in Seq(Interval)
         /\ old_partitions \in [Old -> 0 .. VSPACE_MAX]
         /\ old_partitions[owner[last_low]] \in Nat
         /\ IntervalEnd(last_low) \in last_low + 1 .. VSPACE_MAX
<1>1. last_low \in Block /\ last_low \in Nat /\ VSPACE_MAX \in Nat
  BY SpaceAssumption DEF IInv, TypeOK, Block
<1>2. owner[last_low] \in Old /\ old_partitions \in [Old -> 0 .. VSPACE_MAX]
  BY <1>1 DEF IInv, Collecting, Requests
<1>3. free_space \in Seq(Interval)
  BY DEF IInv, TypeOK, Interval
<1> QED
  BY <1>1, <1>2, <1>3, IntervalEndIs

\* The last element of a list is replaced.
LEMMA LastReplaced ==
  ASSUME NEW R, NEW list \in Seq(R), list # <<>>, NEW i \in R
  PROVE  Append(Front(list), i) = [list EXCEPT ![Len(list)] = i]
<1> DEFINE front == Front(list)
           n == Len(list)
<1>1. n \in Nat /\ n > 0 /\ DOMAIN list = 1 .. n /\ \A k \in 1 .. n : list[k] \in R
  OBVIOUS
<1>2. /\ front \in Seq(R) /\ Len(front) = n - 1
      /\ \A k \in 1 .. n - 1 : front[k] = list[k]
  BY <1>1 DEF Front
<1> HIDE DEF front
<1>3. /\ Append(front, i) \in Seq(R) /\ Len(Append(front, i)) = Len(front) + 1
      /\ Append(front, i)[Len(front) + 1] = i
      /\ \A k \in 1 .. Len(front) : Append(front, i)[k] = front[k]
  BY <1>2
<1>4. Append(front, i) = [k \in 1 .. n |-> IF k = n THEN i ELSE list[k]]
  <2> DEFINE longer == Append(front, i)
  <2>1. longer \in Seq(R) /\ Len(longer) = n /\ n \in Nat
    BY <1>1, <1>2, <1>3
  <2>2. ASSUME NEW k \in 1 .. n PROVE longer[k] = IF k = n THEN i ELSE list[k]
    <3>1. CASE k = n
      <4>1. Len(front) + 1 = n
        BY <1>1, <1>2
      <4> QED
        BY <1>3, <3>1, <4>1
    <3>2. CASE k # n
      <4>1. k \in 1 .. n - 1
        <5> HIDE DEF n
        <5> QED
          BY <1>1, <3>2
      <4>2. k \in 1 .. Len(front)
        BY <1>2, <4>1
      <4>3. longer[k] = front[k]
        <5>1. \A m \in 1 .. Len(front) : longer[m] = front[m]
          BY <1>3
        <5> HIDE DEF longer
        <5> QED
          BY <4>2, <5>1
      <4> QED
        BY <1>2, <3>2, <4>1, <4>3
    <3> QED
      BY <3>1, <3>2
  <2> HIDE DEF longer, n
  <2>3. longer = [k \in 1 .. n |-> longer[k]]
    BY <2>1
  <2> QED
    BY <2>2, <2>3 DEF longer
<1>5. [list EXCEPT ![n] = i] = [k \in 1 .. n |-> IF k = n THEN i ELSE list[k]]
  OBVIOUS
<1> QED
  BY <1>4, <1>5 DEF front

\* A free interval that is added lies behind all others, or makes the last one longer.
LEMMA AddFreeIs ==
  ASSUME IInv, pc = "collect", last_low < VSPACE_MAX,
         NEW from \in Nat, NEW to \in Nat, last_low <= from, from < to, to <= VSPACE_MAX,
         Extends => from = last_low, AddFree(from, to)
  PROVE  /\ free_space' \in Seq(Interval)
         /\ Sizes(free_space') = Sizes(free_space) + (to - from)
         /\ \A x \in Block : IsFree(x)' <=> IsFree(x) \/ (from <= x /\ x < to)
         /\ \A m \in DOMAIN free_space' : /\ free_space'[m].first < free_space'[m].second
                                          /\ free_space'[m].second <= to
         /\ \A m, n \in DOMAIN free_space' :
              m < n => free_space'[m].second <= free_space'[n].first
<1> DEFINE L == Len(free_space)
           f == free_space[L].first
<1>1. /\ free_space \in Seq(Interval) /\ L \in Nat /\ DOMAIN free_space = 1 .. L
      /\ VSPACE_MAX \in Nat /\ last_low \in Nat
      /\ \A m \in 1 .. L : /\ free_space[m].first \in Nat /\ free_space[m].second \in Nat
                           /\ free_space[m].first < free_space[m].second
                           /\ free_space[m].second <= last_low
      /\ \A m, n \in 1 .. L : m < n => free_space[m].second <= free_space[n].first
  <2>1. free_space \in Seq(Interval) /\ VSPACE_MAX \in Nat /\ last_low \in Nat
    BY CollectFacts
  <2>2. /\ L \in Nat /\ DOMAIN free_space = 1 .. L
        /\ \A m \in 1 .. L : free_space[m].first \in Nat /\ free_space[m].second \in Nat
    BY <2>1, SizesIs
  <2> QED
    BY <2>1, <2>2 DEF IInv, Collecting
<1>2. CASE Extends
  <2>1. free_space # <<>> /\ free_space[L].second = last_low /\ from = last_low
    BY <1>2 DEF Extends, Last
  <2>2. L \in 1 .. L
    BY <1>1, <2>1
  <2> DEFINE i == [first |-> f, second |-> to]
  <2>3. i \in Interval /\ f < to /\ f \in Nat
    BY <1>1, <2>1, <2>2 DEF Interval
  <2>4. free_space' = [free_space EXCEPT ![L] = i]
    <3>1. free_space' = Append(Front(free_space), i)
      BY <1>2 DEF AddFree, Last
    <3> HIDE DEF i
    <3>2. Append(Front(free_space), i) = [free_space EXCEPT ![L] = i]
      BY <1>1, <2>1, <2>3, LastReplaced
    <3> QED
      BY <3>1, <3>2
  <2>5. Sizes(free_space') = Sizes(free_space) + (to - from)
    <3>1. Sizes(free_space') =
            Sizes(free_space) - (free_space[L].second - f) + (i.second - i.first)
      <4> HIDE DEF i
      <4> QED
        BY <1>1, <2>2, <2>3, <2>4, SizesChange
    <3>2. Sizes(free_space) \in Int
      BY <1>1, SizesIs
    <3> QED
      BY <1>1, <2>1, <2>3, <3>1, <3>2
  <2>6. /\ free_space' \in Seq(Interval) /\ DOMAIN free_space' = 1 .. L
        /\ free_space'[L] = i
    <3> HIDE DEF i
    <3> QED
      BY <1>1, <2>2, <2>3, <2>4
  <2>7. ASSUME NEW m \in 1 .. L, m # L PROVE free_space'[m] = free_space[m]
    BY <1>1, <2>4, <2>7
  <2>8. ASSUME NEW x \in Block
        PROVE  IsFree(x)' <=> IsFree(x) \/ (from <= x /\ x < to)
    <3>1. x \in Nat
      BY <1>1 DEF Block
    <3>2. f <= x /\ x < to <=> (f <= x /\ x < free_space[L].second) \/ (from <= x /\ x < to)
      BY <1>1, <2>1, <2>2, <2>3, <3>1
    <3>3. IsFree(x)' <=> (f <= x /\ x < to) \/
            \E m \in 1 .. L : m # L /\ free_space[m].first <= x /\ x < free_space[m].second
      BY <2>2, <2>6, <2>7 DEF IsFree
    <3>4. IsFree(x) <=> (f <= x /\ x < free_space[L].second) \/
            \E m \in 1 .. L : m # L /\ free_space[m].first <= x /\ x < free_space[m].second
      BY <1>1, <2>2 DEF IsFree
    <3> QED
      BY <3>2, <3>3, <3>4
  <2>9. ASSUME NEW m \in 1 .. L
        PROVE  /\ free_space'[m].first = free_space[m].first
               /\ free_space'[m].second = IF m = L THEN to ELSE free_space[m].second
               /\ free_space[m].first < free_space[m].second
               /\ free_space[m].second <= last_low /\ free_space[m].second \in Nat
    <3>1. CASE m = L
      BY <1>1, <2>6, <3>1
    <3>2. CASE m # L
      BY <1>1, <2>7, <3>2
    <3> QED
      BY <3>1, <3>2
  <2>10. ASSUME NEW m \in 1 .. L
         PROVE  free_space'[m].first < free_space'[m].second /\ free_space'[m].second <= to
    <3>1. CASE m = L
      BY <2>3, <2>9, <3>1
    <3>2. CASE m # L
      <4>1. /\ free_space'[m].first = free_space[m].first
            /\ free_space'[m].second = free_space[m].second
            /\ free_space[m].first < free_space[m].second
            /\ free_space[m].second <= last_low /\ free_space[m].second \in Nat
        BY <2>9, <3>2
      <4>2. last_low <= to
        BY <1>1, <2>1
      <4> QED
        BY <1>1, <4>1, <4>2
    <3> QED
      BY <3>1, <3>2
  <2>11. ASSUME NEW m \in 1 .. L, NEW n \in 1 .. L, m < n
         PROVE  free_space'[m].second <= free_space'[n].first
    <3>1. m # L
      <4> HIDE DEF L
      <4> QED
        BY <1>1, <2>11
    <3>2. free_space[m].second <= free_space[n].first
      BY <1>1, <2>11
    <3> QED
      BY <2>9, <3>1, <3>2
  <2> QED
    BY <2>5, <2>6, <2>8, <2>10, <2>11
<1>3. CASE ~Extends
  <2> DEFINE i == [first |-> from, second |-> to]
  <2>1. i \in Interval
    BY <1>1 DEF Interval
  <2>2. free_space' = Append(free_space, i)
    BY <1>3 DEF AddFree
  <2>3. Sizes(free_space') = Sizes(free_space) + (to - from)
    <3>1. Sizes(free_space') = Sizes(free_space) + (i.second - i.first)
      <4> HIDE DEF i
      <4> QED
        BY <1>1, <2>1, <2>2, SizesAppend
    <3> QED
      BY <3>1
  <2>4. /\ free_space' \in Seq(Interval) /\ DOMAIN free_space' = 1 .. L + 1
        /\ free_space'[L + 1] = i
        /\ \A m \in 1 .. L : free_space'[m] = free_space[m]
    <3> HIDE DEF i
    <3> QED
      BY <1>1, <2>1, <2>2
  <2>5. \A m \in 1 .. L + 1 : m = L + 1 \/ m \in 1 .. L
    BY <1>1
  <2>6. L + 1 \in 1 .. L + 1 /\ \A m \in 1 .. L : m \in 1 .. L + 1
    BY <1>1
  <2>7. ASSUME NEW x \in Block
        PROVE  IsFree(x)' <=> IsFree(x) \/ (from <= x /\ x < to)
    BY <1>1, <2>4, <2>5, <2>6 DEF IsFree
  <2>8. \A m \in DOMAIN free_space' : /\ free_space'[m].first < free_space'[m].second
                                      /\ free_space'[m].second <= to
    BY <1>1, <2>4, <2>5
  <2>9. \A m, n \in DOMAIN free_space' :
          m < n => free_space'[m].second <= free_space'[n].first
    <3> SUFFICES ASSUME NEW m \in 1 .. L + 1, NEW n \in 1 .. L + 1, m < n
                 PROVE  free_space'[m].second <= free_space'[n].first
      BY <2>4
    <3>1. m \in 1 .. L
      BY <1>1
    <3>2. free_space[m].second <= from /\ free_space'[m] = free_space[m]
      BY <1>1, <2>4, <3>1
    <3>3. CASE n = L + 1
      BY <2>4, <3>2, <3>3
    <3>4. CASE n # L + 1
      <4>1. n \in 1 .. L
        BY <2>5, <3>4
      <4>2. free_space[m].second <= free_space[n].first /\ free_space'[n] = free_space[n]
        BY <1>1, <2>4, <3>1, <4>1
      <4> QED
        BY <3>2, <4>2
    <3> QED
      BY <3>3, <3>4
  <2> QED
    BY <2>3, <2>4, <2>7, <2>8, <2>9
<1> QED
  BY <1>2, <1>3

\* The numbers of an interval are taken from a set that has them.
LEMMA IntervalRemoved ==
  ASSUME NEW S, IsFiniteSet(S), NEW a \in Nat, NEW b \in Nat, a <= b,
         a .. b - 1 \subseteq S
  PROVE  /\ Cardinality(S) \in Nat
         /\ Cardinality(S \ (a .. b - 1)) = Cardinality(S) - (b - a)
<1> DEFINE I == a .. b - 1
<1>1. IsFiniteSet(I) /\ Cardinality(I) = b - a
  <2>1. b - 1 \in Int /\ a \in Int
    OBVIOUS
  <2>2. IsFiniteSet(I) /\ Cardinality(I) = IF a > b - 1 THEN 0 ELSE (b - 1) - a + 1
    BY <2>1, FS_Interval
  <2> QED
    BY <2>2
<1>2. S \cap I = I
  OBVIOUS
<1> HIDE DEF I
<1>3. Cardinality(S \ I) = Cardinality(S) - Cardinality(S \cap I)
  BY <1>1, FS_Difference
<1>4. Cardinality(S) \in Nat
  BY FS_CardinalityType
<1> QED
  BY <1>1, <1>2, <1>3, <1>4 DEF I

\* The sum over a whole function when one element changes
LEMMA SumOfChanged ==
  ASSUME NEW S, IsFiniteSet(S), NEW f \in [S -> Int], NEW g \in [S -> Int], NEW x \in S,
         \A s \in S : s # x => f[s] = g[s]
  PROVE  /\ SumFunction(f) \in Int
         /\ SumFunction(g) = SumFunction(f) - f[x] + g[x]
<1>1. SumFunctionOnSet(g, S) = SumFunctionOnSet(f, S) - f[x] + g[x]
  BY SumChange
<1>2. SumFunctionOnSet(f, S) \in Int
  BY SumIs
<1> QED
  BY <1>1, <1>2 DEF SumFunction

\* There are finitely many disks.
LEMMA OldIsFinite ==
  ASSUME Members
  PROVE  IsFiniteSet(Old) /\ Old \subseteq Nat /\ Cardinality(Old) \in Nat
<1>1. PICK n \in 0 .. MaxDisks : Old = 0 .. n - 1
  BY DEF Members
<1>2. n \in Nat
  BY BoundAssumption
<1>3. IsFiniteSet(0 .. n - 1) /\ 0 .. n - 1 \subseteq Nat
  BY <1>2, FS_Interval
<1> QED
  BY <1>1, <1>3, FS_CardinalityType

\* The sets of blocks are finite.
LEMMA BlocksAreFinite ==
  ASSUME VSPACE_MAX \in Nat, last_low \in Nat
  PROVE  /\ IsFiniteSet(Block)
         /\ \A d : IsFiniteSet(BlocksOf(d)) /\ IsFiniteSet(Kept(d)) /\ IsFiniteSet(Rest(d))
<1>1. IsFiniteSet(Block) /\ IsFiniteSet(last_low .. VSPACE_MAX - 1)
  BY FS_Interval DEF Block
<1>2. \A d : /\ BlocksOf(d) \subseteq Block /\ Kept(d) \subseteq Block
             /\ Rest(d) \subseteq last_low .. VSPACE_MAX - 1
  BY DEF BlocksOf, Kept, Rest
<1> QED
  BY <1>1, <1>2, FS_Subset

\* An interval is looked at: the part [a, b) of it is collected, which is all that its
\* partition has still to give, or all of the interval.
LEMMA Collected ==
  ASSUME IInv, pc = "collect", last_low < VSPACE_MAX,
         NEW pid, pid = owner[last_low], NEW high, high = IntervalEnd(last_low),
         NEW a \in Nat, NEW b \in Nat, last_low <= a, a <= b, b <= high,
         b - a <= old_partitions[pid],
         b - a = old_partitions[pid] \/ (a = last_low /\ b = high),
         last_low' = high, old_partitions' = [old_partitions EXCEPT ![pid] = @ - (b - a)],
         free_space' \in Seq(Interval),
         Sizes(free_space') = Sizes(free_space) + (b - a),
         \A x \in Block : IsFree(x)' <=> IsFree(x) \/ (a <= x /\ x < b),
         \A m \in DOMAIN free_space' : /\ free_space'[m].first < free_space'[m].second
                                       /\ free_space'[m].second <= high,
         \A m, n \in DOMAIN free_space' :
           m < n => free_space'[m].second <= free_space'[n].first,
         even' \in BOOLEAN, last_complete' \in BOOLEAN,
         UNCHANGED <<pc, members, owner, arguments, new_partitions, assimilation>>
  PROVE  IInv'
<1>1. /\ last_low \in Block /\ last_low \in Nat /\ VSPACE_MAX \in Nat
      /\ pid \in Old /\ high \in last_low + 1 .. VSPACE_MAX /\ high \in Nat
      /\ old_partitions \in [Old -> 0 .. VSPACE_MAX] /\ old_partitions[pid] \in Nat
      /\ free_space \in Seq(Interval)
  BY CollectFacts
<1>2. /\ \A x \in last_low .. high - 1 : owner[x] = pid
      /\ last_low .. high - 1 \subseteq Block
  BY <1>1, IntervalEndIs DEF Block
<1>3. /\ pc' = pc /\ disks' = disks /\ partitions' = partitions /\ capacity' = capacity
      /\ owner' = owner /\ even_odd' = even_odd /\ sort_free' = sort_free
      /\ new_disks' = new_disks /\ new_partitions' = new_partitions
      /\ part' = part /\ free' = free /\ psize' = psize
      /\ Old' = Old /\ New' = New /\ Total' = Total
  BY DEF members, arguments, assimilation, Old, New, Total, SumFunction
<1>4. /\ old_partitions' \in [Old -> 0 .. VSPACE_MAX]
      /\ old_partitions'[pid] = old_partitions[pid] - (b - a)
      /\ \A d \in Old : d # pid => old_partitions'[d] = old_partitions[d]
  <2> DEFINE given == old_partitions[pid] - (b - a)
  <2>1. given \in 0 .. VSPACE_MAX
    <3>1. old_partitions[pid] \in 0 .. VSPACE_MAX /\ b - a \in Nat
      BY <1>1
    <3> QED
      BY <1>1, <3>1
  <2>2. old_partitions' = [old_partitions EXCEPT ![pid] = given]
    BY <1>1
  <2> HIDE DEF given
  <2>3. /\ old_partitions' \in [Old -> 0 .. VSPACE_MAX] /\ old_partitions'[pid] = given
        /\ \A d \in Old : d # pid => old_partitions'[d] = old_partitions[d]
    BY <1>1, <2>1, <2>2
  <2> QED
    BY <2>3 DEF given
<1>5. TypeOK'
  <2>1. TypeOK
    BY DEF IInv
  <2>2. /\ last_low' \in 0 .. VSPACE_MAX
        /\ old_partitions' \in [DOMAIN old_partitions' -> 0 .. VSPACE_MAX]
    BY <1>1, <1>4
  <2> QED
    BY <1>3, <2>1, <2>2 DEF TypeOK, Interval, Block
<1>6. Members' /\ TableMatchesTree' /\ FairShares' /\ Reusing' /\ FreeSpaceMeetsDemand' /\ Done'
  BY <1>3 DEF IInv, Members, TableMatchesTree, FairShares, Reusing, FreeSpaceMeetsDemand,
              Done, SumFunction
<1>7. Requests'
  BY <1>3, <1>4 DEF IInv, Requests, Share
<1>8. KeepsShare'
  <2>1. a .. b - 1 \subseteq last_low .. high - 1
    BY <1>1
  <2>2. ASSUME NEW x \in Block, last_low <= x PROVE ~IsFree(x)
    <3>1. \A m \in DOMAIN free_space : free_space[m].second <= last_low
      BY DEF IInv, Collecting
    <3>2. \A m \in DOMAIN free_space : free_space[m].second \in Nat
      BY <1>1, SizesIs, SMTT(30)
    <3>3. x \in Nat
      BY <1>1 DEF Block
    <3> QED
      BY <1>1, <2>2, <3>1, <3>2, <3>3 DEF IsFree
  <2>3. ASSUME NEW d PROVE Kept(d)' = Kept(d) \ {x \in a .. b - 1 : owner[x] = d}
    <3>1. \A x \in Block : x \in Int
      BY <1>1 DEF Block
    <3>2. \A x \in Block : a <= x /\ x < b <=> x \in a .. b - 1
      BY <1>1, <3>1
    <3>3. \A x \in Block : ~IsFree(x)' <=> ~IsFree(x) /\ x \notin a .. b - 1
      BY <3>2
    <3>4. Kept(d)' = {x \in Block : owner[x] = d /\ ~IsFree(x)'}
      BY <1>3 DEF Kept, Block
    <3> QED
      BY <3>3, <3>4 DEF Kept
  <2>4. a .. b - 1 \subseteq Kept(pid)
    <3> SUFFICES ASSUME NEW x \in a .. b - 1 PROVE x \in Kept(pid)
      OBVIOUS
    <3>1. x \in last_low .. high - 1 /\ x \in Block /\ last_low <= x
      BY <1>1, <1>2, <2>1, SMTT(30)
    <3> QED
      BY <1>2, <2>2, <3>1 DEF Kept
  <2>5. ASSUME NEW d \in Old
        PROVE  Cardinality(Kept(d))' = partitions[d] + old_partitions'[d]
    <3>1. Cardinality(Kept(d)) = partitions[d] + old_partitions[d]
      BY DEF IInv, KeepsShare
    <3>2. Cardinality(Kept(d))' = Cardinality(Kept(d)')
      OBVIOUS
    <3>3. CASE d = pid
      <4>1. Kept(d)' = Kept(d) \ (a .. b - 1)
        <5>1. {x \in a .. b - 1 : owner[x] = d} = a .. b - 1
          BY <1>2, <2>1, <3>3
        <5> QED
          BY <2>3, <5>1
      <4>2. Cardinality(Kept(d)) \in Nat /\ Cardinality(Kept(d)') = Cardinality(Kept(d)) - (b - a)
        <5>1. IsFiniteSet(Kept(d)) /\ a .. b - 1 \subseteq Kept(d)
          BY <1>1, <2>4, <3>3, BlocksAreFinite
        <5>2. \A S : IsFiniteSet(S) /\ a .. b - 1 \subseteq S =>
                /\ Cardinality(S) \in Nat
                /\ Cardinality(S \ (a .. b - 1)) = Cardinality(S) - (b - a)
          BY IntervalRemoved
        <5> QED
          BY <4>1, <5>1, <5>2
      <4>3. partitions[d] \in Nat
        <5>1. partitions \in [Old -> 0 .. VSPACE_MAX]
          BY DEF IInv, Members
        <5> QED
          BY <1>1, <5>1
      <4> QED
        BY <1>1, <1>4, <3>1, <3>2, <3>3, <4>2, <4>3, SMTT(30)
    <3>4. CASE d # pid
      <4>1. {x \in a .. b - 1 : owner[x] = d} = {}
        BY <1>2, <2>1, <3>4
      <4>2. Kept(d)' = Kept(d)
        BY <2>3, <4>1
      <4> QED
        BY <1>4, <3>1, <3>2, <3>4, <4>2
    <3> QED
      BY <3>3, <3>4
  <2> QED
    BY <1>3, <2>5 DEF KeepsShare
<1>9. Intervals(free_space)'
  <2>1. \A m \in DOMAIN free_space' : /\ m \in Int
                                      /\ free_space'[m].first \in Nat
                                      /\ free_space'[m].second \in Nat
    BY SizesIs
  <2>2. \A m \in DOMAIN free_space' : /\ free_space'[m].first <= free_space'[m].second
                                      /\ free_space'[m].second <= VSPACE_MAX
    BY <1>1, <2>1
  <2>3. \A m, n \in DOMAIN free_space' : m # n => m < n \/ n < m
    BY <2>1
  <2>4. \A m, n \in DOMAIN free_space' :
          m # n => \/ free_space'[m].second <= free_space'[n].first
                   \/ free_space'[n].second <= free_space'[m].first
    BY <2>3
  <2> QED
    BY <2>2, <2>4 DEF Intervals
<1>10. Collecting'
  <2>1. \A x \in Block : owner[x] \in Old
    BY DEF IInv, Collecting
  <2>2. ASSUME NEW d \in Old PROVE old_partitions'[d] <= Cardinality(Rest(d)')
    <3> DEFINE seen == last_low .. high - 1
    <3>1. old_partitions[d] <= Cardinality(Rest(d))
      BY DEF IInv, Collecting
    <3>2. Rest(d)' = {x \in high .. VSPACE_MAX - 1 : owner[x] = d}
      BY <1>3 DEF Rest
    <3>3. Rest(d)' = Rest(d) \ {x \in seen : owner[x] = d}
      <4>1. high .. VSPACE_MAX - 1 = (last_low .. VSPACE_MAX - 1) \ seen
        BY <1>1
      <4> HIDE DEF seen
      <4> QED
        BY <3>2, <4>1 DEF Rest
    <3>4. CASE d = pid
      <4>1. Rest(d)' = Rest(d) \ seen
        BY <1>2, <3>3, <3>4
      <4>2. seen \subseteq Rest(d)
        <5>1. seen \subseteq last_low .. VSPACE_MAX - 1
          BY <1>1
        <5> QED
          BY <1>2, <3>4, <5>1 DEF Rest
      <4>3. /\ Cardinality(Rest(d)) \in Nat
            /\ Cardinality(Rest(d)') = Cardinality(Rest(d)) - (high - last_low)
        <5>1. IsFiniteSet(Rest(d)) /\ last_low <= high
          BY <1>1, BlocksAreFinite
        <5>2. \A S : IsFiniteSet(S) /\ seen \subseteq S =>
                /\ Cardinality(S) \in Nat
                /\ Cardinality(S \ seen) = Cardinality(S) - (high - last_low)
          BY <1>1, <5>1, IntervalRemoved
        <5> HIDE DEF seen
        <5> QED
          BY <4>1, <4>2, <5>1, <5>2
      <4>4. Cardinality(Rest(d)') \in Nat
        <5>1. IsFiniteSet(Rest(d)')
          BY <1>1, <4>1, BlocksAreFinite, FS_Subset
        <5> QED
          BY <5>1, FS_CardinalityType
      <4> QED
        BY <1>1, <1>4, <3>1, <3>4, <4>3, <4>4, SMTT(30)
    <3>5. CASE d # pid
      <4>1. Rest(d)' = Rest(d)
        BY <1>2, <3>3, <3>5
      <4> QED
        BY <1>4, <3>1, <3>5, <4>1
    <3> QED
      BY <3>4, <3>5
  <2>3. Sizes(free_space') + SumFunction(old_partitions') =
          SumFunction([n \in DOMAIN new_partitions |-> new_partitions[n].size])
    <3>1. IsFiniteSet(Old)
      BY OldIsFinite DEF IInv
    <3>2. /\ old_partitions \in [Old -> Int] /\ old_partitions' \in [Old -> Int]
          /\ \A d \in Old : d # pid => old_partitions[d] = old_partitions'[d]
      BY <1>1, <1>4
    <3>3. /\ SumFunction(old_partitions) \in Int
          /\ SumFunction(old_partitions') =
               SumFunction(old_partitions) - old_partitions[pid] + old_partitions'[pid]
      <4> DEFINE f == old_partitions
                 g == old_partitions'
                 S == Old
      <4>1. /\ IsFiniteSet(S) /\ pid \in S /\ f \in [S -> Int] /\ g \in [S -> Int]
            /\ \A s \in S : s # pid => f[s] = g[s]
        BY <1>1, <3>1, <3>2
      <4> HIDE DEF f, g, S
      <4>2. SumFunction(f) \in Int /\ SumFunction(g) = SumFunction(f) - f[pid] + g[pid]
        BY <4>1, SumOfChanged
      <4> QED
        BY <4>2 DEF f, g, S
    <3>4. SumFunction(old_partitions') = SumFunction(old_partitions) - (b - a)
      BY <1>1, <1>4, <3>3
    <3>5. Sizes(free_space) \in Int
      BY <1>1, SizesIs
    <3>6. Sizes(free_space') + SumFunction(old_partitions') =
            Sizes(free_space) + SumFunction(old_partitions)
      BY <3>3, <3>4, <3>5
    <3> QED
      BY <3>6 DEF IInv, Collecting
  <2> QED
    BY <1>3, <2>1, <2>2, <2>3 DEF Collecting, Sizes, SumFunction, Block
<1> QED
  BY <1>5, <1>6, <1>7, <1>8, <1>9, <1>10 DEF IInv

\* An interval is skipped: nothing is collected.
LEMMA SkipIntervalKeeps ==
  ASSUME IInv, SkipInterval
  PROVE  IInv'
<1> DEFINE pid == owner[last_low]
           high == IntervalEnd(last_low)
<1>1. pc = "collect" /\ last_low < VSPACE_MAX /\ old_partitions[pid] = 0
  BY DEF SkipInterval
<1>2. /\ last_low \in Nat /\ VSPACE_MAX \in Nat /\ high \in last_low + 1 .. VSPACE_MAX
      /\ old_partitions \in [Old -> 0 .. VSPACE_MAX] /\ pid \in Old
      /\ free_space \in Seq(Interval)
  BY <1>1, CollectFacts
<1>3. /\ last_low' = high /\ old_partitions' = old_partitions /\ free_space' = free_space
      /\ even' = even /\ last_complete' = last_complete
      /\ UNCHANGED <<pc, members, owner, arguments, new_partitions, assimilation>>
  BY DEF SkipInterval
<1> HIDE DEF pid, high
<1>4. old_partitions' = [old_partitions EXCEPT ![pid] = @ - (last_low - last_low)]
  BY <1>1, <1>2, <1>3
<1>5. /\ free_space' \in Seq(Interval)
      /\ Sizes(free_space') = Sizes(free_space) + (last_low - last_low)
  <2>1. Sizes(free_space) \in Int
    BY <1>2, SizesIs
  <2>2. Sizes(free_space') = Sizes(free_space)
    BY <1>3
  <2> QED
    BY <1>2, <1>3, <2>1, <2>2
<1>6. \A x \in Block : IsFree(x)' <=> IsFree(x) \/ (last_low <= x /\ x < last_low)
  <2>1. \A x \in Block : x \in Int
    BY <1>2 DEF Block
  <2> QED
    BY <1>2, <1>3, <2>1 DEF IsFree
<1>7. /\ \A m \in DOMAIN free_space' : /\ free_space'[m].first < free_space'[m].second
                                       /\ free_space'[m].second <= high
      /\ \A m, n \in DOMAIN free_space' :
           m < n => free_space'[m].second <= free_space'[n].first
  <2>1. /\ \A m \in DOMAIN free_space : /\ free_space[m].first < free_space[m].second
                                        /\ free_space[m].second <= last_low
        /\ \A m, n \in DOMAIN free_space :
             m < n => free_space[m].second <= free_space[n].first
    BY <1>1 DEF IInv, Collecting
  <2>2. \A m \in DOMAIN free_space : free_space[m].second \in Nat
    BY <1>2, SizesIs
  <2>3. \A m \in DOMAIN free_space : free_space[m].second <= high
    BY <1>2, <2>1, <2>2
  <2> QED
    BY <1>3, <2>1, <2>3
<1>8. even' \in BOOLEAN /\ last_complete' \in BOOLEAN
  BY <1>3 DEF IInv, TypeOK
<1> QED
  <2>1. /\ last_low <= last_low /\ last_low <= high /\ last_low - last_low = old_partitions[pid]
        /\ last_low - last_low <= old_partitions[pid]
    BY <1>1, <1>2
  <2> QED
    BY <1>1, <1>2, <1>3, <1>4, <1>5, <1>6, <1>7, <1>8, <2>1, Collected DEF pid, high

\* A whole interval is taken.
LEMMA TakeIntervalKeeps ==
  ASSUME IInv, TakeInterval
  PROVE  IInv'
<1> DEFINE pid == owner[last_low]
           high == IntervalEnd(last_low)
<1>1. /\ pc = "collect" /\ last_low < VSPACE_MAX /\ high - last_low < old_partitions[pid]
      /\ AddFree(last_low, high)
  BY DEF TakeInterval
<1>2. /\ last_low \in Nat /\ VSPACE_MAX \in Nat /\ high \in last_low + 1 .. VSPACE_MAX
      /\ high \in Nat /\ last_low < high /\ high <= VSPACE_MAX
      /\ old_partitions \in [Old -> 0 .. VSPACE_MAX] /\ pid \in Old
      /\ old_partitions[pid] \in Nat
  BY <1>1, CollectFacts
<1>3. /\ last_low' = high
      /\ old_partitions' = [old_partitions EXCEPT ![pid] = @ - (high - last_low)]
      /\ UNCHANGED <<pc, members, owner, arguments, new_partitions, assimilation>>
  BY DEF TakeInterval
<1>4. /\ free_space' \in Seq(Interval)
      /\ Sizes(free_space') = Sizes(free_space) + (high - last_low)
      /\ \A x \in Block : IsFree(x)' <=> IsFree(x) \/ (last_low <= x /\ x < high)
      /\ \A m \in DOMAIN free_space' : /\ free_space'[m].first < free_space'[m].second
                                       /\ free_space'[m].second <= high
      /\ \A m, n \in DOMAIN free_space' :
           m < n => free_space'[m].second <= free_space'[n].first
  <2> HIDE DEF high
  <2> QED
    BY <1>1, <1>2, AddFreeIs
<1>5. even' \in BOOLEAN /\ last_complete' \in BOOLEAN
  BY DEF TakeInterval, IInv, TypeOK
<1> DEFINE from == last_low
           to == high
<1> HIDE DEF pid, high
<1>6. /\ from \in Nat /\ to \in Nat /\ last_low <= from /\ from <= to /\ to <= high
      /\ to - from <= old_partitions[pid] /\ from = last_low /\ to = high
  BY <1>1, <1>2
<1>7. /\ old_partitions' = [old_partitions EXCEPT ![pid] = @ - (to - from)]
      /\ Sizes(free_space') = Sizes(free_space) + (to - from)
      /\ \A x \in Block : IsFree(x)' <=> IsFree(x) \/ (from <= x /\ x < to)
  BY <1>3, <1>4
<1> HIDE DEF from, to
<1> QED
  BY <1>1, <1>2, <1>3, <1>4, <1>5, <1>6, <1>7, Collected DEF pid, high

\* An interval is cut.
LEMMA CutIntervalKeeps ==
  ASSUME IInv, CutInterval
  PROVE  IInv'
<1> DEFINE pid == owner[last_low]
           high == IntervalEnd(last_low)
           size == old_partitions[pid]
           from == IF even /\ ~Extends THEN high - size ELSE last_low
           to == IF even /\ ~Extends THEN high ELSE last_low + size
<1>1. /\ pc = "collect" /\ last_low < VSPACE_MAX /\ size # 0 /\ high - last_low >= size
      /\ AddFree(from, to)
  BY DEF CutInterval
<1>2. /\ last_low \in Nat /\ VSPACE_MAX \in Nat /\ high \in last_low + 1 .. VSPACE_MAX
      /\ high \in Nat /\ last_low < high /\ high <= VSPACE_MAX
      /\ old_partitions \in [Old -> 0 .. VSPACE_MAX] /\ pid \in Old /\ size \in Nat
  BY <1>1, CollectFacts
<1>3. /\ last_low' = high
      /\ old_partitions' = [old_partitions EXCEPT ![pid] = 0]
      /\ UNCHANGED <<pc, members, owner, arguments, new_partitions, assimilation>>
  BY DEF CutInterval
<1> HIDE DEF pid, high, size
<1>4. /\ from \in Nat /\ to \in Nat /\ last_low <= from /\ from < to /\ to <= high
      /\ to <= VSPACE_MAX /\ to - from = size /\ (Extends => from = last_low)
  BY <1>1, <1>2
<1> HIDE DEF from, to
<1>5. old_partitions' = [old_partitions EXCEPT ![pid] = @ - (to - from)]
  <2>1. old_partitions[pid] - (to - from) = 0
    BY <1>2, <1>4 DEF size
  <2> QED
    BY <1>3, <2>1
<1>6. /\ free_space' \in Seq(Interval)
      /\ Sizes(free_space') = Sizes(free_space) + (to - from)
      /\ \A x \in Block : IsFree(x)' <=> IsFree(x) \/ (from <= x /\ x < to)
      /\ \A m \in DOMAIN free_space' : /\ free_space'[m].first < free_space'[m].second
                                       /\ free_space'[m].second <= to
      /\ \A m, n \in DOMAIN free_space' :
           m < n => free_space'[m].second <= free_space'[n].first
  BY <1>1, <1>4, AddFreeIs
<1>7. \A m \in DOMAIN free_space' : free_space'[m].second <= high
  <2>1. \A m \in DOMAIN free_space' : free_space'[m].second \in Nat
    BY <1>6, SizesIs
  <2> QED
    BY <1>2, <1>4, <1>6, <2>1
<1>8. even' \in BOOLEAN /\ last_complete' \in BOOLEAN
  BY DEF CutInterval, IInv, TypeOK
<1>9. /\ from <= to /\ to - from <= old_partitions[pid] /\ to - from = old_partitions[pid]
  BY <1>2, <1>4 DEF size
<1> QED
  BY <1>1, <1>2, <1>3, <1>4, <1>5, <1>6, <1>7, <1>8, <1>9, Collected DEF pid, high

--------------------------------------------------------------------------------
(* Starting to hand out.                                                   *)

Request == [pid : Id, size : 0 .. VSPACE_MAX]

\* A bijection of a set onto itself
LEMMA BijectionIs ==
  ASSUME NEW S, NEW p \in Bijection(S, S)
  PROVE  /\ \A x \in S : p[x] \in S
         /\ \A x, y \in S : p[x] = p[y] => x = y
         /\ \A y \in S : \E x \in S : p[x] = y
BY DEF Bijection, Injection, Surjection, IsInjective

\* A list with the same positions
LEMMA SamePositions ==
  ASSUME NEW R, NEW list \in Seq(R), NEW other \in [DOMAIN list -> R]
  PROVE  other \in Seq(R) /\ DOMAIN other = DOMAIN list /\ Len(other) = Len(list)
<1>1. DOMAIN list = 1 .. Len(list) /\ Len(list) \in Nat
  OBVIOUS
<1>2. other \in [1 .. Len(list) -> R]
  BY <1>1
<1> QED
  BY <1>1, <1>2

\* Both lists are put in some order.
LEMMA StartReuseRearranges ==
  ASSUME TypeOK, StartReuse
  PROVE  /\ \E p \in Bijection(DOMAIN free_space, DOMAIN free_space) :
              free_space' = [n \in DOMAIN free_space |-> free_space[p[n]]]
         /\ \E q \in Bijection(DOMAIN new_partitions, DOMAIN new_partitions) :
              new_partitions' = [n \in DOMAIN new_partitions |-> new_partitions[q[n]]]
<1>1. free_space \in Seq(Interval) /\ new_partitions \in Seq(Request)
  BY DEF TypeOK, Interval, Request
<1>2. CASE sort_free
  <2> DEFINE lengths == [n \in DOMAIN free_space |->
                           free_space[n].second - free_space[n].first]
             sizes == [n \in DOMAIN new_partitions |-> new_partitions[n].size]
  <2>1. /\ free_space' = SortBySize(free_space, lengths)
        /\ new_partitions' = SortBySize(new_partitions, sizes)
    BY <1>2 DEF StartReuse
  <2>2. lengths \in [DOMAIN free_space -> Int]
    BY <1>1, SizesIs
  <2>3. sizes \in [DOMAIN new_partitions -> Int]
    <3>1. \A n \in DOMAIN new_partitions : new_partitions[n] \in Request
      BY <1>1
    <3>2. \A r \in Request : r.size \in Int
      BY SpaceAssumption DEF Request
    <3> QED
      BY <3>1, <3>2
  <2> HIDE DEF lengths, sizes
  <2>4. \E p \in Bijection(DOMAIN free_space, DOMAIN free_space) :
          SortBySize(free_space, lengths) = [n \in DOMAIN free_space |-> free_space[p[n]]]
    BY <1>1, <2>2, SortRearranges
  <2>5. \E q \in Bijection(DOMAIN new_partitions, DOMAIN new_partitions) :
          SortBySize(new_partitions, sizes) =
            [n \in DOMAIN new_partitions |-> new_partitions[q[n]]]
    BY <1>1, <2>3, SortRearranges
  <2> QED
    BY <2>1, <2>4, <2>5
<1>3. CASE ~sort_free
  <2>1. free_space' = free_space /\ new_partitions' = new_partitions
    BY <1>3 DEF StartReuse
  <2>2. ASSUME NEW R, NEW list \in Seq(R)
        PROVE  \E p \in Bijection(DOMAIN list, DOMAIN list) :
                 list = [n \in DOMAIN list |-> list[p[n]]]
    <3> DEFINE p == [n \in DOMAIN list |-> n]
    <3>1. p \in Bijection(DOMAIN list, DOMAIN list)
      BY DEF Bijection, Injection, Surjection, IsInjective
    <3>2. list = [n \in DOMAIN list |-> list[p[n]]]
      OBVIOUS
    <3> QED
      BY <3>1, <3>2
  <2> QED
    BY <1>1, <2>1, <2>2
<1> QED
  BY <1>2, <1>3

\* The free space is handed out as soon as the whole space has been looked at.
LEMMA StartReuseKeeps ==
  ASSUME IInv, StartReuse
  PROVE  IInv'
<1> DEFINE F == DOMAIN free_space
           N == DOMAIN new_partitions
<1>1. /\ pc = "collect" /\ last_low = VSPACE_MAX /\ VSPACE_MAX \in Nat /\ TypeOK
      /\ free_space \in Seq(Interval) /\ new_partitions \in Seq(Request)
      /\ old_partitions \in [Old -> 0 .. VSPACE_MAX]
  BY SpaceAssumption DEF StartReuse, IInv, TypeOK, Interval, Request, Requests
<1>2. PICK p \in Bijection(F, F) : free_space' = [n \in F |-> free_space[p[n]]]
  BY <1>1, StartReuseRearranges
<1>3. PICK q \in Bijection(N, N) : new_partitions' = [n \in N |-> new_partitions[q[n]]]
  BY <1>1, StartReuseRearranges
<1>4. /\ pc' = "reuse" /\ part' = 1 /\ free' = 1 /\ psize' = new_partitions'[1].size
      /\ disks' = disks /\ partitions' = partitions /\ capacity' = capacity
      /\ owner' = owner /\ even_odd' = even_odd /\ sort_free' = sort_free
      /\ new_disks' = new_disks /\ old_partitions' = old_partitions
      /\ last_low' = last_low /\ even' = even /\ last_complete' = last_complete
      /\ Old' = Old /\ New' = New /\ Total' = Total
  BY DEF StartReuse, members, arguments, collection, Old, New, Total, SumFunction
<1>5. /\ free_space' \in Seq(Interval) /\ DOMAIN free_space' = F
      /\ \A n \in F : p[n] \in F /\ free_space'[n] = free_space[p[n]]
      /\ \A m, n \in F : p[m] = p[n] => m = n
      /\ \A n \in F : \E m \in F : p[m] = n
  <2>1. /\ \A n \in F : p[n] \in F
        /\ \A m, n \in F : p[m] = p[n] => m = n
        /\ \A n \in F : \E m \in F : p[m] = n
    BY BijectionIs
  <2>2. \A n \in F : free_space[n] \in Interval
    BY <1>1
  <2>3. free_space' \in [F -> Interval] /\ \A n \in F : free_space'[n] = free_space[p[n]]
    BY <1>2, <2>1, <2>2
  <2>4. free_space' \in Seq(Interval) /\ DOMAIN free_space' = F
    BY <1>1, <2>3, SamePositions
  <2> QED
    BY <2>1, <2>3, <2>4
<1>6. /\ new_partitions' \in Seq(Request) /\ DOMAIN new_partitions' = N
      /\ \A n \in N : q[n] \in N /\ new_partitions'[n] = new_partitions[q[n]]
      /\ \A m, n \in N : q[m] = q[n] => m = n
      /\ \A n \in N : \E m \in N : q[m] = n
      /\ Len(new_partitions') = Len(new_partitions)
  <2>1. /\ \A n \in N : q[n] \in N
        /\ \A m, n \in N : q[m] = q[n] => m = n
        /\ \A n \in N : \E m \in N : q[m] = n
    BY BijectionIs
  <2>2. \A n \in N : new_partitions[n] \in Request
    BY <1>1
  <2>3. /\ new_partitions' \in [N -> Request]
        /\ \A n \in N : new_partitions'[n] = new_partitions[q[n]]
    BY <1>3, <2>1, <2>2
  <2>4. /\ new_partitions' \in Seq(Request) /\ DOMAIN new_partitions' = N
        /\ Len(new_partitions') = Len(new_partitions)
    BY <1>1, <2>3, SamePositions
  <2> QED
    BY <2>1, <2>3, <2>4
<1>7. \A d \in Old : old_partitions[d] = 0
  <2> TAKE d \in Old
  <2>1. old_partitions[d] <= Cardinality(Rest(d)) /\ old_partitions[d] \in Nat
    BY <1>1 DEF IInv, Collecting
  <2>2. Rest(d) = {}
    BY <1>1 DEF Rest
  <2> QED
    BY <2>1, <2>2, FS_EmptySet
<1>8. TypeOK'
  <2>1. 1 \in N
    BY <1>1 DEF IInv, Requests
  <2>2. new_partitions'[1] \in Request
    BY <1>6, <2>1
  <2>3. psize' \in 0 .. VSPACE_MAX
    BY <1>4, <2>2 DEF Request
  <2> QED
    BY <1>1, <1>4, <1>5, <1>6, <2>3 DEF TypeOK, Interval, Request, Block
<1>9. Members' /\ TableMatchesTree' /\ FairShares' /\ Done' /\ Collecting'
  BY <1>4 DEF IInv, Members, TableMatchesTree, FairShares, Collecting, Done, SumFunction
<1>10. Requests'
  <2>1. Requests /\ pc # "idle"
    BY <1>1 DEF IInv
  <2>2. N # {}
    BY <1>1, <2>1 DEF Requests
  <2>3. new_partitions' # <<>>
    BY <1>6, <2>2
  <2>4. ASSUME NEW k \in N, NEW l \in N, new_partitions'[k].pid = new_partitions'[l].pid
        PROVE  k = l
    <3>1. q[k] \in N /\ q[l] \in N /\ new_partitions[q[k]].pid = new_partitions[q[l]].pid
      BY <1>6, <2>4
    <3>2. q[k] = q[l]
      BY <2>1, <3>1 DEF Requests
    <3> QED
      BY <1>6, <3>2
  <2>5. ASSUME NEW k \in N
        PROVE  /\ new_partitions'[k].pid \in New
               /\ new_partitions'[k].size - Share(new_disks[new_partitions'[k].pid], Total) \in
                    0 .. Cardinality(Old \cup New) - 1
    <3>1. q[k] \in N /\ new_partitions'[k] = new_partitions[q[k]]
      BY <1>6
    <3>2. \A l \in N :
            /\ new_partitions[l].pid \in New
            /\ new_partitions[l].size - Share(new_disks[new_partitions[l].pid], Total) \in
                 0 .. Cardinality(Old \cup New) - 1
      BY <2>1 DEF Requests
    <3> QED
      BY <3>1, <3>2
  <2>6. \A d \in New : \E k \in N : new_partitions'[k].pid = d
    <3> TAKE d \in New
    <3>1. PICK l \in N : new_partitions[l].pid = d
      BY <2>1 DEF Requests
    <3>2. PICK k \in N : q[k] = l
      BY <1>6
    <3> QED
      BY <1>6, <3>1, <3>2
  <2> QED
    BY <1>4, <1>6, <2>1, <2>3, <2>4, <2>5, <2>6 DEF Requests, Share
<1>11. \A x : IsFree(x)' <=> IsFree(x)
  <2> TAKE x
  <2>1. IsFree(x)' => IsFree(x)
    BY <1>5 DEF IsFree
  <2>2. ASSUME IsFree(x) PROVE IsFree(x)'
    <3>1. PICK n \in F : free_space[n].first <= x /\ x < free_space[n].second
      BY <2>2 DEF IsFree
    <3>2. PICK m \in F : p[m] = n
      BY <1>5
    <3>3. free_space'[m] = free_space[n]
      BY <1>5, <3>2
    <3> QED
      BY <1>5, <3>1, <3>3 DEF IsFree
  <2> QED
    BY <2>1, <2>2
<1>12. KeepsShare'
  <2>1. \A d : Kept(d)' = Kept(d)
    BY <1>4, <1>11 DEF Kept, Block
  <2>2. \A d \in Old : Cardinality(Kept(d)) = partitions[d] + old_partitions[d]
    BY <1>1 DEF IInv, KeepsShare
  <2>3. \A d \in Old : Cardinality(Kept(d))' = partitions'[d] + old_partitions'[d]
    BY <1>4, <2>1, <2>2
  <2> QED
    BY <1>4, <2>3 DEF KeepsShare
<1>13. Intervals(free_space)'
  <2>1. Intervals(free_space)
    BY DEF IInv
  <2>2. \A m \in F : /\ free_space'[m].first <= free_space'[m].second
                     /\ free_space'[m].second <= VSPACE_MAX
    <3> TAKE m \in F
    <3>1. p[m] \in F /\ free_space'[m] = free_space[p[m]]
      BY <1>5
    <3> QED
      BY <2>1, <3>1 DEF Intervals
  <2>3. ASSUME NEW m \in F, NEW n \in F, m # n
        PROVE  \/ free_space'[m].second <= free_space'[n].first
               \/ free_space'[n].second <= free_space'[m].first
               \/ free_space'[n].first = free_space'[n].second
               \/ free_space'[m].first = free_space'[m].second
    <3>1. /\ p[m] \in F /\ free_space'[m] = free_space[p[m]]
          /\ p[n] \in F /\ free_space'[n] = free_space[p[n]]
          /\ p[m] # p[n]
      BY <1>5, <2>3
    <3> QED
      BY <2>1, <3>1 DEF Intervals
  <2> QED
    BY <1>5, <2>2, <2>3 DEF Intervals
<1>14. Reusing'
  <2>1. /\ \A x \in Block : owner[x] \in Old
        /\ \A k \in N : new_partitions'[k].pid \in New
        /\ Old \cap New = {}
    <3>1. /\ \A x \in Block : owner[x] \in Old
          /\ \A k \in N : new_partitions[k].pid \in New
      BY <1>1 DEF IInv, Collecting, Requests
    <3>2. Old \cap New = {}
      BY <1>1 DEF IInv, Requests
    <3> QED
      BY <1>6, <3>1, <3>2
  <2>2. 1 \in N /\ N = 1 .. Len(new_partitions)
    BY <1>1 DEF IInv, Requests
  <2>3. psize' \in Int /\ psize' <= new_partitions'[1].size /\ psize' = new_partitions'[1].size
    BY <1>1, <1>4, <1>8 DEF TypeOK
  <2>4. 1 \in 1 .. Len(free_space') + 1
    BY <1>5, SizesIs
  <2>5. \A k \in N : Cardinality(BlocksOf(new_partitions'[k].pid)) = 0
    <3> TAKE k \in N
    <3>1. BlocksOf(new_partitions'[k].pid) = {}
      BY <2>1 DEF BlocksOf
    <3> QED
      BY <3>1, FS_EmptySet
  <2>6. \A k \in N : Cardinality(BlocksOf(new_partitions'[k].pid)) =
                       IF k < 1 THEN new_partitions'[k].size
                       ELSE IF k = 1 THEN new_partitions'[k].size - psize'
                       ELSE 0
    BY <2>2, <2>3, <2>5
  <2>7. 1 .. 1 - 1 = {}
    OBVIOUS
  <2>8. \A k \in N : Cardinality(BlocksOf(new_partitions[k].pid))' =
                       IF k < 1 THEN new_partitions'[k].size
                       ELSE IF k = 1 THEN new_partitions'[k].size - psize'
                       ELSE 0
    BY <1>4, <2>6 DEF BlocksOf, Block
  <2>9. (\A x \in Block : owner[x] \in Old \cup New /\ (IsFree(x) => owner[x] \in Old))'
    BY <1>4, <2>1 DEF Block
  <2>10. (\A m \in 1 .. free - 1 : free_space[m].first = free_space[m].second)'
    BY <1>4, <2>7
  <2> QED
    BY <1>4, <1>6, <1>7, <2>2, <2>3, <2>4, <2>8, <2>9, <2>10 DEF Reusing
<1>15. FreeSpaceMeetsDemand'
  <2> DEFINE f == [n \in N |-> new_partitions[n].size]
             g == [n \in N |-> new_partitions'[n].size]
             L == Len(new_partitions')
  <2>1. N = 1 .. L /\ L \in Nat /\ 1 \in N /\ IsFiniteSet(N)
    <3>1. N = 1 .. Len(new_partitions) /\ Len(new_partitions) \in Nat
      BY <1>1
    <3>2. 1 \in N
      BY <1>1, <3>1 DEF IInv, Requests
    <3> QED
      BY <1>6, <3>1, <3>2, FS_Interval
  <2>2. Sizes(free_space) + SumFunction(old_partitions) = SumFunctionOnSet(f, N)
    BY <1>1 DEF IInv, Collecting, SumFunction
  <2>3. SumFunction(old_partitions) = 0
    <3>1. IsFiniteSet(Old)
      BY OldIsFinite DEF IInv
    <3>2. \A d \in Old : old_partitions[d] \in Nat /\ old_partitions[d] <= 0
      BY <1>7
    <3>3. /\ SumFunctionOnSet(old_partitions, Old) \in Nat
          /\ SumFunctionOnSet(old_partitions, Old) <= 0 * Cardinality(Old)
      BY <3>1, <3>2, SumBounded
    <3>4. Cardinality(Old) \in Nat
      BY <3>1, FS_CardinalityType
    <3>5. SumFunctionOnSet(old_partitions, Old) = 0
      BY <3>3, <3>4
    <3> QED
      BY <1>1, <3>5 DEF SumFunction
  <2>4. Sizes(free_space') = Sizes(free_space) /\ Sizes(free_space) \in Int
    BY <1>1, <1>2, SizesRearranged, SizesIs
  <2>5. SumFunctionOnSet(g, N) = SumFunctionOnSet(f, N)
    <3>1. \A r \in Request : r.size \in Int
      BY <1>1 DEF Request
    <3>2. \A n \in N : g[n] \in Int /\ g[n] = f[q[n]]
      BY <1>1, <1>6, <3>1, SMTT(30)
    <3>3. IsFiniteSet(N) /\ q \in Bijection(N, N)
      BY <2>1
    <3> HIDE DEF f, g, N
    <3>4. \A u, v : \A h \in Bijection(N, N) :
            (\A n \in N : u[n] \in Int /\ u[n] = v[h[n]]) =>
              SumFunctionOnSet(u, N) = SumFunctionOnSet(v, N)
      BY <3>3, SumRenamed
    <3> QED
      BY <3>2, <3>3, <3>4
  <2>6. SumFunctionOnSet(g, N) = g[1] + SumFunctionOnSet(g, 2 .. L)
    <3>1. N \ {1} = 2 .. L
      BY <2>1
    <3>2. \A n \in N : g[n] \in Int
      <4>1. \A r \in Request : r.size \in Int
        BY <1>1 DEF Request
      <4> QED
        BY <1>6, <4>1
    <3> HIDE DEF g, N
    <3>3. IsFiniteSet(N) /\ 1 \in N
      BY <2>1
    <3>4. \A x \in N : SumFunctionOnSet(g, N) = g[x] + SumFunctionOnSet(g, N \ {x})
      BY ONLY <3>2, <3>3, SumIs
    <3>5. SumFunctionOnSet(g, N) = g[1] + SumFunctionOnSet(g, N \ {1})
      BY <3>3, <3>4
    <3> QED
      BY <3>1, <3>5
  <2>7. g[1] = psize'
    BY <1>4, <2>1
  <2>8. Sizes(free_space') = psize' + SumFunctionOnSet(g, 2 .. L)
    BY <2>2, <2>3, <2>4, <2>5, <2>6, <2>7
  <2>9. g = [n \in DOMAIN new_partitions' |-> new_partitions'[n].size]
    BY <1>6
  <2>10. part' + 1 = 2
    BY <1>4
  <2> HIDE DEF f, g
  <2> QED
    BY <2>8, <2>9, <2>10 DEF FreeSpaceMeetsDemand, Sizes, SumFunction
<1> QED
  BY <1>8, <1>9, <1>10, <1>12, <1>13, <1>14, <1>15 DEF IInv

--------------------------------------------------------------------------------
(* Handing out.                                                            *)

\* What the invariants say while the free space is handed out
LEMMA ReuseFacts ==
  ASSUME IInv, pc = "reuse"
  PROVE  /\ VSPACE_MAX \in Nat /\ psize \in Nat /\ last_low \in Nat
         /\ free_space \in Seq(Interval) /\ new_partitions \in Seq(Request)
         /\ Len(free_space) \in Nat /\ DOMAIN free_space = 1 .. Len(free_space)
         /\ Len(new_partitions) \in Nat /\ DOMAIN new_partitions = 1 .. Len(new_partitions)
         /\ \A m \in DOMAIN free_space : /\ free_space[m].first \in Nat
                                         /\ free_space[m].second \in Nat
                                         /\ free_space[m].first <= free_space[m].second
         /\ \A k \in DOMAIN new_partitions : new_partitions[k].size \in Nat
         /\ part \in DOMAIN new_partitions /\ part \in Nat
         /\ free \in 1 .. Len(free_space) + 1 /\ free \in Nat
         /\ Old \cap New = {}
<1>1. TypeOK /\ Intervals(free_space) /\ Requests /\ Reusing
  BY DEF IInv
<1>2. /\ VSPACE_MAX \in Nat /\ psize \in Nat /\ last_low \in Nat
      /\ free_space \in Seq(Interval) /\ new_partitions \in Seq(Request)
      /\ part \in Nat /\ free \in Nat
  BY <1>1, SpaceAssumption DEF TypeOK, Interval, Request
<1>3. /\ Len(free_space) \in Nat /\ DOMAIN free_space = 1 .. Len(free_space)
      /\ Len(new_partitions) \in Nat /\ DOMAIN new_partitions = 1 .. Len(new_partitions)
  BY <1>2
<1>4. \A m \in DOMAIN free_space : /\ free_space[m].first \in Nat
                                   /\ free_space[m].second \in Nat
                                   /\ free_space[m].first <= free_space[m].second
  <2>1. \A m \in DOMAIN free_space : /\ free_space[m].first \in Nat
                                     /\ free_space[m].second \in Nat
    BY <1>2, SizesIs
  <2> QED
    BY <1>1, <2>1 DEF Intervals
<1>5. \A k \in DOMAIN new_partitions : new_partitions[k].size \in Nat
  <2>1. \A r \in Request : r.size \in Nat
    BY <1>2 DEF Request
  <2> QED
    BY <1>2, <2>1
<1>6. part \in DOMAIN new_partitions /\ free \in 1 .. Len(free_space) + 1
  BY <1>1 DEF Reusing
<1>7. Old \cap New = {}
  BY <1>1 DEF Requests
<1> QED
  BY <1>2, <1>3, <1>4, <1>5, <1>6, <1>7

\* What the requests from position k on ask for
Asked(k) == SumFunctionOnSet([n \in DOMAIN new_partitions |-> new_partitions[n].size],
                             k .. Len(new_partitions))

\* The free space is what the requests not yet met ask for, and that of a request and
\* those behind it is the sum of both.
LEMMA AskedIs ==
  ASSUME IInv, pc = "reuse"
  PROVE  /\ Sizes(free_space) = psize + Asked(part + 1)
         /\ \A k \in Nat \ {0} : Asked(k) \in Nat
         /\ \A k \in DOMAIN new_partitions :
              Asked(k) = new_partitions[k].size + Asked(k + 1)
         /\ Asked(Len(new_partitions) + 1) = 0
<1> DEFINE f == [n \in DOMAIN new_partitions |-> new_partitions[n].size]
           L == Len(new_partitions)
<1>1. /\ VSPACE_MAX \in Nat /\ L \in Nat /\ DOMAIN new_partitions = 1 .. L
      /\ \A k \in 1 .. L : f[k] \in Nat
  BY ReuseFacts
<1>2. \A k \in 1 .. L : f[k] = new_partitions[k].size
  BY <1>1
<1>3. Sizes(free_space) = psize + SumFunctionOnSet(f, part + 1 .. L)
  BY DEF IInv, FreeSpaceMeetsDemand
<1>4. ASSUME NEW k \in Nat \ {0}
      PROVE  /\ IsFiniteSet(k .. L) /\ \A n \in k .. L : f[n] \in Int
             /\ SumFunctionOnSet(f, k .. L) \in Nat
  <2>1. k .. L \subseteq 1 .. L /\ IsFiniteSet(k .. L)
    BY <1>1, FS_Interval, SMTT(30)
  <2>2. \A n \in k .. L : f[n] \in Nat /\ f[n] <= VSPACE_MAX
    <3>1. \A r \in Request : r.size \in Nat /\ r.size <= VSPACE_MAX
      BY <1>1 DEF Request
    <3>2. \A n \in 1 .. L : f[n] \in Nat /\ f[n] <= VSPACE_MAX
      <4>1. new_partitions \in Seq(Request)
        BY ReuseFacts
      <4> QED
        BY <1>1, <1>2, <3>1, <4>1
    <3> HIDE DEF f
    <3> QED
      BY <2>1, <3>2
  <2> DEFINE S == k .. L
  <2> HIDE DEF f, S
  <2>3. IsFiniteSet(S) /\ \A n \in S : f[n] \in Nat /\ f[n] <= VSPACE_MAX
    BY <2>1, <2>2 DEF S
  <2>4. SumFunctionOnSet(f, S) \in Nat
    BY <1>1, <2>3, SumBounded
  <2> QED
    BY <2>3, <2>4 DEF S
<1>5. ASSUME NEW k \in 1 .. L
      PROVE  SumFunctionOnSet(f, k .. L) = f[k] + SumFunctionOnSet(f, k + 1 .. L)
  <2> DEFINE S == k .. L
  <2>1. k \in S /\ S \ {k} = k + 1 .. L /\ k \in Nat \ {0}
    BY <1>1
  <2>2. IsFiniteSet(S) /\ \A n \in S : f[n] \in Int
    BY <1>4, <2>1
  <2> HIDE DEF f, S
  <2>3. \A x \in S : SumFunctionOnSet(f, S) = f[x] + SumFunctionOnSet(f, S \ {x})
    BY <2>2, SumIs
  <2>4. SumFunctionOnSet(f, S) = f[k] + SumFunctionOnSet(f, S \ {k})
    BY <2>1, <2>3
  <2> QED
    BY <2>1, <2>4 DEF S
<1> HIDE DEF f
<1>6. SumFunctionOnSet(f, L + 1 .. L) = 0
  <2>1. L + 1 .. L = {} /\ IsFiniteSet({})
    BY <1>1, FS_EmptySet
  <2> QED
    BY <2>1, SumIs
<1> QED
  BY <1>1, <1>2, <1>3, <1>4, <1>5, <1>6 DEF Asked, f

\* The partition at hand has got all blocks when its loop ends.
LEMMA LoopEnds ==
  ASSUME IInv, pc = "reuse", ~Assimilating
  PROVE  psize = 0
<1>1. psize \in Nat /\ (psize > 0 => free = Len(free_space) + 1)
  BY ReuseFacts DEF Assimilating
<1>2. ASSUME psize > 0 PROVE FALSE
  <2>1. \A m \in DOMAIN free_space : free_space[m].first = free_space[m].second
    <3>1. \A m \in 1 .. free - 1 : free_space[m].first = free_space[m].second
      BY <1>2 DEF IInv, Reusing
    <3> QED
      BY <1>1, <1>2, <3>1, ReuseFacts
  <2>2. Sizes(free_space) = 0
    BY <2>1, ReuseFacts, SizesOfEmpty
  <2>3. Sizes(free_space) = psize + Asked(part + 1) /\ Asked(part + 1) \in Nat
    BY AskedIs, ReuseFacts
  <2> QED
    BY <1>1, <1>2, <2>2, <2>3
<1> QED
  BY <1>1, <1>2

\* An empty interval is skipped.
LEMMA SkipUsedKeeps ==
  ASSUME IInv, SkipUsed
  PROVE  IInv'
<1>1. /\ pc = "reuse" /\ free <= Len(free_space) /\ psize > 0
      /\ free_space[free].second - free_space[free].first = 0
  BY DEF SkipUsed, Assimilating, isize
<1>2. /\ Len(free_space) \in Nat /\ DOMAIN free_space = 1 .. Len(free_space)
      /\ free \in Nat /\ free \in DOMAIN free_space
      /\ free_space[free].first \in Nat /\ free_space[free].second \in Nat
  BY <1>1, ReuseFacts
<1>3. /\ free' = free + 1 /\ pc' = pc /\ disks' = disks /\ partitions' = partitions
      /\ capacity' = capacity /\ owner' = owner /\ even_odd' = even_odd
      /\ sort_free' = sort_free /\ new_disks' = new_disks
      /\ old_partitions' = old_partitions /\ last_low' = last_low /\ even' = even
      /\ last_complete' = last_complete /\ new_partitions' = new_partitions
      /\ free_space' = free_space /\ part' = part /\ psize' = psize
      /\ Old' = Old /\ New' = New /\ Total' = Total
  BY DEF SkipUsed, members, arguments, collection, Old, New, Total, SumFunction
<1>4. TypeOK'
  <2>1. TypeOK /\ free' \in Nat
    BY <1>2, <1>3 DEF IInv
  <2> QED
    BY <1>3, <2>1 DEF TypeOK, Block
<1>5. /\ Members' /\ TableMatchesTree' /\ FairShares' /\ Done' /\ Collecting'
      /\ FreeSpaceMeetsDemand'
  BY <1>1, <1>3 DEF IInv, Members, TableMatchesTree, FairShares, Collecting, Done,
                    FreeSpaceMeetsDemand, Sizes, SumFunction
<1>6. Requests' /\ Intervals(free_space)'
  BY <1>3 DEF IInv, Requests, Intervals, Share
<1>7. (\A x : IsFree(x)' <=> IsFree(x)) /\ \A d : BlocksOf(d)' = BlocksOf(d)
  BY <1>3 DEF IsFree, BlocksOf, Block
<1>8. KeepsShare'
  <2>1. \A d : Kept(d)' = Kept(d)
    BY <1>3, <1>7 DEF Kept, Block
  <2> QED
    BY <1>3, <2>1 DEF IInv, KeepsShare
<1>9. Reusing'
  <2>1. Reusing /\ pc = "reuse"
    BY <1>1 DEF IInv
  <2>2. free' \in 1 .. Len(free_space) + 1
    BY <1>2, <1>3
  <2>3. \A m \in 1 .. free' - 1 : free_space[m].first = free_space[m].second
    <3>1. \A m \in 1 .. free - 1 : free_space[m].first = free_space[m].second
      BY <1>1, <2>1 DEF Reusing
    <3>2. \A m \in 1 .. free' - 1 : m \in 1 .. free - 1 \/ m = free
      BY <1>2, <1>3
    <3>3. free_space[free].first = free_space[free].second
      BY <1>1, <1>2
    <3> QED
      BY <3>1, <3>2, <3>3
  <2> QED
    BY <1>3, <1>7, <2>1, <2>2, <2>3 DEF Reusing, Block
<1> QED
  BY <1>4, <1>5, <1>6, <1>8, <1>9 DEF IInv

\* The next partition comes to hand.
LEMMA NextPartitionKeeps ==
  ASSUME IInv, NextPartition
  PROVE  IInv'
<1>1. pc = "reuse" /\ psize = 0 /\ part < Len(new_partitions)
  <2>1. pc = "reuse" /\ ~Assimilating /\ part < Len(new_partitions)
    BY DEF NextPartition
  <2> QED
    BY <2>1, LoopEnds
<1>2. /\ part \in Nat /\ part + 1 \in DOMAIN new_partitions
      /\ new_partitions[part + 1].size \in Nat /\ new_partitions[part + 1] \in Request
      /\ DOMAIN new_partitions = 1 .. Len(new_partitions) /\ Len(new_partitions) \in Nat
      /\ Len(free_space) \in Nat
  <2>1. /\ part \in Nat /\ part \in DOMAIN new_partitions /\ Len(new_partitions) \in Nat
        /\ DOMAIN new_partitions = 1 .. Len(new_partitions) /\ Len(free_space) \in Nat
        /\ new_partitions \in Seq(Request)
        /\ \A k \in DOMAIN new_partitions : new_partitions[k].size \in Nat
    BY <1>1, ReuseFacts
  <2>2. part + 1 \in DOMAIN new_partitions
    BY <1>1, <2>1
  <2> QED
    BY <2>1, <2>2
<1>3. /\ part' = part + 1 /\ free' = 1 /\ psize' = new_partitions[part + 1].size
      /\ pc' = pc /\ disks' = disks /\ partitions' = partitions
      /\ capacity' = capacity /\ owner' = owner /\ even_odd' = even_odd
      /\ sort_free' = sort_free /\ new_disks' = new_disks
      /\ old_partitions' = old_partitions /\ last_low' = last_low /\ even' = even
      /\ last_complete' = last_complete /\ new_partitions' = new_partitions
      /\ free_space' = free_space
      /\ Old' = Old /\ New' = New /\ Total' = Total
  BY DEF NextPartition, members, arguments, collection, Old, New, Total, SumFunction
<1>4. TypeOK'
  <2>1. TypeOK /\ part' \in Nat /\ free' \in Nat
    BY <1>2, <1>3 DEF IInv
  <2>2. psize' \in 0 .. VSPACE_MAX
    BY <1>2, <1>3 DEF Request
  <2> QED
    BY <1>3, <2>1, <2>2 DEF TypeOK, Block
<1>5. /\ Members' /\ TableMatchesTree' /\ FairShares' /\ Done' /\ Collecting'
  BY <1>1, <1>3 DEF IInv, Members, TableMatchesTree, FairShares, Collecting, Done,
                    SumFunction
<1>6. Requests' /\ Intervals(free_space)'
  BY <1>3 DEF IInv, Requests, Intervals, Share
<1>7. (\A x : IsFree(x)' <=> IsFree(x)) /\ \A d : BlocksOf(d)' = BlocksOf(d)
  BY <1>3 DEF IsFree, BlocksOf, Block
<1>8. KeepsShare'
  <2>1. \A d : Kept(d)' = Kept(d)
    BY <1>3, <1>7 DEF Kept, Block
  <2> QED
    BY <1>3, <2>1 DEF IInv, KeepsShare
<1>9. Reusing'
  <2>1. Reusing /\ pc = "reuse"
    BY <1>1 DEF IInv
  <2>2. free' \in 1 .. Len(free_space) + 1 /\ 1 .. free' - 1 = {}
    BY <1>2, <1>3
  <2>3. psize' <= new_partitions[part'].size
    BY <1>2, <1>3
  <2>4. ASSUME NEW k \in DOMAIN new_partitions
        PROVE  Cardinality(BlocksOf(new_partitions[k].pid)) =
                 IF k < part' THEN new_partitions[k].size
                 ELSE IF k = part' THEN new_partitions[k].size - psize'
                 ELSE 0
    <3>1. Cardinality(BlocksOf(new_partitions[k].pid)) =
            IF k < part THEN new_partitions[k].size
            ELSE IF k = part THEN new_partitions[k].size - psize
            ELSE 0
      BY <2>1 DEF Reusing
    <3>2. new_partitions[k].size \in Nat
      BY <1>1, ReuseFacts
    <3>3. k \in Nat
      BY <1>2
    <3>4. CASE k = part + 1
      BY <1>2, <1>3, <3>1, <3>2, <3>4
    <3>5. CASE k # part + 1
      BY <1>1, <1>2, <1>3, <3>1, <3>2, <3>3, <3>5
    <3> QED
      BY <3>4, <3>5
  <2> QED
    BY <1>2, <1>3, <1>7, <2>1, <2>2, <2>3, <2>4 DEF Reusing, Block
<1>10. FreeSpaceMeetsDemand'
  <2>1. Sizes(free_space) = psize + Asked(part + 1)
    BY <1>1, AskedIs
  <2>2. \A k \in DOMAIN new_partitions : Asked(k) = new_partitions[k].size + Asked(k + 1)
    BY <1>1, AskedIs
  <2>3. Asked(part + 1) = psize' + Asked(part' + 1) /\ Asked(part + 1) \in Nat
    <3>1. Asked(part + 1) = new_partitions[part + 1].size + Asked((part + 1) + 1)
      BY <1>2, <2>2
    <3>2. Asked(part + 1) \in Nat
      BY <1>1, <1>2, AskedIs
    <3> QED
      BY <1>3, <3>1, <3>2
  <2>4. Sizes(free_space) = psize' + Asked(part' + 1)
    BY <1>1, <2>1, <2>3
  <2> QED
    BY <1>3, <2>4 DEF FreeSpaceMeetsDemand, Asked, Sizes, SumFunction
<1> QED
  BY <1>4, <1>5, <1>6, <1>8, <1>9, <1>10 DEF IInv

\* The partition at hand gets the first k blocks of the free interval at hand, and i is
\* what is left of that.
LEMMA HandedOut ==
  ASSUME IInv, Assimilating, NEW i \in Interval, NEW k \in Nat, NEW pid,
         pid = new_partitions[part].pid, NEW low, low = free_space[free].first,
         k > 0, k <= psize, low + k <= free_space[free].second,
         \/ i.first = low + k /\ i.second = free_space[free].second
         \/ i.first = i.second /\ low + k = free_space[free].second,
         psize' = psize - k, psize' > 0 => i.first = i.second,
         free' = free + 1, free_space' = [free_space EXCEPT ![free] = i],
         owner' = [x \in Block |-> IF low <= x /\ x < low + k THEN pid ELSE owner[x]],
         UNCHANGED <<pc, members, arguments, collection, new_partitions, part>>
  PROVE  IInv'
<1> DEFINE L == Len(free_space)
           high == free_space[free].second
           Given(x) == low <= x /\ x < low + k
<1>1. /\ pc = "reuse" /\ psize \in Nat /\ psize > 0 /\ VSPACE_MAX \in Nat /\ last_low \in Nat
      /\ free_space \in Seq(Interval) /\ L \in Nat /\ DOMAIN free_space = 1 .. L
      /\ new_partitions \in Seq(Request)
      /\ free \in Nat /\ free \in 1 .. L /\ low \in Nat /\ high \in Nat /\ low + k <= high
      /\ high <= VSPACE_MAX
      /\ part \in DOMAIN new_partitions /\ Old \cap New = {}
  <2>1. pc = "reuse" /\ free <= L /\ psize > 0
    BY DEF Assimilating
  <2>2. /\ psize \in Nat /\ VSPACE_MAX \in Nat /\ last_low \in Nat
        /\ free_space \in Seq(Interval) /\ L \in Nat /\ DOMAIN free_space = 1 .. L
        /\ new_partitions \in Seq(Request) /\ free \in Nat /\ free \in 1 .. L + 1
        /\ part \in DOMAIN new_partitions /\ Old \cap New = {}
    BY <2>1, ReuseFacts
  <2>3. free \in 1 .. L
    BY <2>1, <2>2
  <2>4. free_space[free] \in Interval
    BY <2>2, <2>3
  <2> QED
    BY <2>1, <2>2, <2>3, <2>4 DEF Interval
<1>2. /\ i.first \in Nat /\ i.second \in Nat /\ i.second <= VSPACE_MAX
      /\ i.first <= i.second
  <2>1. i.first \in Nat /\ i.second \in Nat /\ i.second <= VSPACE_MAX
    BY <1>1 DEF Interval
  <2> QED
    BY <1>1, <2>1
<1>3. /\ pc' = pc /\ disks' = disks /\ partitions' = partitions
      /\ capacity' = capacity /\ even_odd' = even_odd
      /\ sort_free' = sort_free /\ new_disks' = new_disks
      /\ old_partitions' = old_partitions /\ last_low' = last_low /\ even' = even
      /\ last_complete' = last_complete /\ new_partitions' = new_partitions
      /\ part' = part
      /\ Old' = Old /\ New' = New /\ Total' = Total
  BY DEF members, arguments, collection, Old, New, Total, SumFunction
<1>4. /\ free_space' \in Seq(Interval) /\ DOMAIN free_space' = 1 .. L
      /\ Len(free_space') = L /\ free_space'[free] = i
      /\ \A m \in 1 .. L : m # free => free_space'[m] = free_space[m]
  <2>1. /\ free_space' \in Seq(Interval) /\ DOMAIN free_space' = 1 .. L
        /\ free_space'[free] = i /\ Len(free_space') = L
    BY <1>1
  <2>2. \A m \in 1 .. L : m # free => free_space'[m] = free_space[m]
    <3> TAKE m \in 1 .. L
    <3> QED
      BY <1>1
  <2> QED
    BY <2>1, <2>2
<1>5. \A m \in 1 .. L : /\ free_space[m].first \in Nat /\ free_space[m].second \in Nat
                        /\ free_space[m].first <= free_space[m].second
                        /\ free_space[m].second <= VSPACE_MAX
  BY <1>1, ReuseFacts DEF IInv, Intervals
<1> HIDE DEF Given
\* The blocks handed out were free and are not any more.
<1>6. ASSUME NEW x \in Block PROVE IsFree(x)' <=> IsFree(x) /\ ~Given(x)
  <2> DEFINE Other == \E m \in 1 .. L : /\ m # free
                                        /\ free_space[m].first <= x /\ x < free_space[m].second
  <2>1. x \in Nat
    BY <1>1 DEF Block
  <2>2. i.first <= x /\ x < i.second <=> (low <= x /\ x < high) /\ ~Given(x)
    <3>1. CASE i.first = low + k /\ i.second = high
      BY <1>1, <2>1, <3>1 DEF Given
    <3>2. CASE i.first = i.second /\ low + k = high
      BY <1>1, <1>2, <2>1, <3>2 DEF Given
    <3> QED
      BY <3>1, <3>2
  <2>3. IsFree(x)' <=> (i.first <= x /\ x < i.second) \/ Other
    BY <1>1, <1>4 DEF IsFree
  <2>4. IsFree(x) <=> (low <= x /\ x < high) \/ Other
    BY <1>1 DEF IsFree
  <2>5. Given(x) => ~Other
    <3> SUFFICES ASSUME Given(x), NEW m \in 1 .. L, m # free,
                        free_space[m].first <= x, x < free_space[m].second
                 PROVE  FALSE
      OBVIOUS
    <3>1. low <= x /\ x < high
      BY <1>1, <2>1 DEF Given
    <3>2. \/ high <= free_space[m].first \/ free_space[m].second <= low
          \/ free_space[m].first = free_space[m].second \/ low = high
      BY <1>1 DEF IInv, Intervals
    <3>3. free_space[m].first \in Nat /\ free_space[m].second \in Nat
      BY <1>5
    <3> QED
      BY <1>1, <2>1, <3>1, <3>2, <3>3, SMTT(30)
  <2> HIDE DEF Other
  <2> QED
    BY <2>2, <2>3, <2>4, <2>5
<1>7. ASSUME NEW x \in Block, Given(x) PROVE IsFree(x) /\ owner[x] \in Old
  <2>1. IsFree(x)
    <3>1. x \in Nat
      BY <1>1 DEF Block
    <3>2. low <= x /\ x < high
      BY <1>1, <1>7, <3>1 DEF Given
    <3> QED
      BY <1>1, <3>2 DEF IsFree
  <2> QED
    BY <1>1, <2>1 DEF IInv, Reusing
<1>8. ASSUME NEW x \in Block
      PROVE  owner'[x] = IF Given(x) THEN pid ELSE owner[x]
  BY DEF Given
<1>9. pid \in New /\ pid \notin Old /\ pid \in Id
  <2>1. pid \in New
    BY <1>1 DEF IInv, Requests
  <2>2. new_partitions[part] \in Request
    BY <1>1
  <2> QED
    BY <1>1, <2>1, <2>2 DEF Request
<1>10. TypeOK'
  <2>1. TypeOK
    BY DEF IInv
  <2>2. owner' \in [Block -> Id]
    <3>1. owner \in [Block -> Id]
      BY <2>1 DEF TypeOK
    <3> QED
      BY <1>9, <3>1
  <2>3. free' \in Nat /\ psize' \in 0 .. VSPACE_MAX
    <3>1. psize <= VSPACE_MAX
      BY <1>1, <2>1 DEF TypeOK
    <3>2. psize - k \in 0 .. VSPACE_MAX
      BY <1>1, <3>1
    <3> QED
      BY <1>1, <3>2
  <2> QED
    BY <1>3, <1>4, <2>1, <2>2, <2>3 DEF TypeOK, Interval, Block
<1>11. /\ Members' /\ TableMatchesTree' /\ FairShares' /\ Done' /\ Collecting'
  BY <1>1, <1>3 DEF IInv, Members, TableMatchesTree, FairShares, Collecting, Done,
                    SumFunction
<1>12. Requests'
  BY <1>3 DEF IInv, Requests, Share
<1>13. KeepsShare'
  <2>1. ASSUME NEW d \in Old PROVE Kept(d)' = Kept(d)
    <3>1. \A x \in Block : owner'[x] = d /\ ~IsFree(x)' <=> owner[x] = d /\ ~IsFree(x)
      BY <1>6, <1>7, <1>8, <1>9
    <3> QED
      BY <3>1 DEF Kept, Block
  <2>2. \A d \in Old : Cardinality(Kept(d))' = partitions'[d] + old_partitions'[d]
    BY <1>1, <1>3, <2>1 DEF IInv, KeepsShare
  <2> QED
    BY <1>3, <2>2 DEF KeepsShare
<1>14. Intervals(free_space)'
  <2>1. \A m \in 1 .. L : /\ free_space'[m].first <= free_space'[m].second
                          /\ free_space'[m].second <= VSPACE_MAX
    <3> TAKE m \in 1 .. L
    <3>1. CASE m = free
      BY <1>2, <1>4, <3>1
    <3>2. CASE m # free
      BY <1>4, <1>5, <3>2
    <3> QED
      BY <3>1, <3>2
  <2>2. ASSUME NEW m \in 1 .. L, m # free
        PROVE  \/ i.second <= free_space[m].first \/ free_space[m].second <= i.first
               \/ free_space[m].first = free_space[m].second \/ i.first = i.second
    <3>1. \/ high <= free_space[m].first \/ free_space[m].second <= low
          \/ free_space[m].first = free_space[m].second \/ low = high
      BY <1>1, <2>2 DEF IInv, Intervals
    <3>2. free_space[m].first \in Nat /\ free_space[m].second \in Nat
      BY <1>5
    <3>3. CASE i.first = low + k /\ i.second = high
      BY <1>1, <3>1, <3>2, <3>3
    <3> QED
      BY <3>3
  <2>3. ASSUME NEW m \in 1 .. L, NEW n \in 1 .. L, m # n
        PROVE  \/ free_space'[m].second <= free_space'[n].first
               \/ free_space'[n].second <= free_space'[m].first
               \/ free_space'[n].first = free_space'[n].second
               \/ free_space'[m].first = free_space'[m].second
    <3>1. CASE m = free
      BY <1>4, <2>2, <2>3, <3>1
    <3>2. CASE n = free
      BY <1>4, <2>2, <2>3, <3>2
    <3>3. CASE m # free /\ n # free
      <4>1. /\ free_space'[m] = free_space[m] /\ free_space'[n] = free_space[n]
            /\ m \in DOMAIN free_space /\ n \in DOMAIN free_space
        BY <1>1, <1>4, <3>3
      <4> QED
        BY <2>3, <4>1 DEF IInv, Intervals
    <3> QED
      BY <3>1, <3>2, <3>3
  <2> QED
    BY <1>4, <2>1, <2>3 DEF Intervals
<1>15. Reusing'
  <2>1. Reusing
    BY DEF IInv
  <2>2. /\ part \in DOMAIN new_partitions /\ free' \in 1 .. L + 1
        /\ psize' <= new_partitions[part].size
    <3>1. psize <= new_partitions[part].size /\ new_partitions[part].size \in Nat
      BY <1>1, <2>1, ReuseFacts DEF Reusing
    <3> QED
      BY <1>1, <3>1
  <2>3. (\A x \in Block : owner[x] \in Old \cup New /\ (IsFree(x) => owner[x] \in Old))'
    <3>1. \A x \in Block : /\ owner'[x] \in Old \cup New
                           /\ IsFree(x)' => owner'[x] \in Old
      BY <1>1, <1>6, <1>8, <1>9, <2>1 DEF Reusing
    <3> QED
      BY <1>3, <3>1 DEF Block
  <2>4. ASSUME NEW n \in DOMAIN new_partitions
        PROVE  Cardinality(BlocksOf(new_partitions[n].pid))' =
                 IF n < part THEN new_partitions[n].size
                 ELSE IF n = part THEN new_partitions[n].size - psize'
                 ELSE 0
    <3> DEFINE d == new_partitions[n].pid
    <3>1. /\ d \in New /\ d \notin Old /\ new_partitions[n].size \in Nat
          /\ Cardinality(BlocksOf(d)) =
               IF n < part THEN new_partitions[n].size
               ELSE IF n = part THEN new_partitions[n].size - psize
               ELSE 0
      <4>1. d \in New
        BY <1>1 DEF IInv, Requests
      <4> QED
        BY <1>1, <2>1, <4>1, ReuseFacts DEF Reusing
    <3>2. BlocksOf(d)' = {x \in Block : owner'[x] = d}
      BY <1>3 DEF BlocksOf, Block
    <3>3. CASE n = part
      <4> DEFINE top == low + k
                 given == low .. top - 1
                 new == {x \in Block : owner'[x] = d}
      <4>1. d = pid
        BY <3>3
      <4>2. given \subseteq Block /\ \A x \in Block : x \in given <=> Given(x)
        <5>1. \A x \in given : x \in Block
          BY <1>1 DEF Block
        <5>2. \A x \in Block : x \in Int
          BY <1>1 DEF Block
        <5>3. low \in Nat /\ top \in Int
          BY <1>1
        <5>4. \A x \in Block : x \in low .. top - 1 <=> low <= x /\ x < top
          <6> HIDE DEF top
          <6> QED
            BY ONLY <5>2, <5>3
        <5> QED
          BY <5>1, <5>4, Zenon DEF Given
      <4> HIDE DEF given
      <4>3. given \subseteq new
        BY <1>8, <4>1, <4>2
      <4>4. BlocksOf(d) = new \ given
        BY <1>7, <1>8, <3>1, <4>1, <4>2 DEF BlocksOf
      <4>5. IsFiniteSet(new)
        <5>1. IsFiniteSet(Block)
          BY <1>1, BlocksAreFinite
        <5> QED
          BY <5>1, FS_Subset
      <4> HIDE DEF new
      <4>6. Cardinality(new) \in Nat /\ Cardinality(new \ given) = Cardinality(new) - k
        <5>1. low <= top /\ top \in Nat /\ top - low = k
          BY <1>1
        <5> HIDE DEF top
        <5>2. IsFiniteSet(given) /\ Cardinality(given) = k
          <6>1. low \in Int /\ top - 1 \in Int
            BY <1>1, <5>1
          <6>2. /\ IsFiniteSet(given)
                /\ Cardinality(given) = IF low > top - 1 THEN 0 ELSE (top - 1) - low + 1
            BY <6>1, FS_Interval DEF given
          <6>3. ~(low > top - 1) /\ (top - 1) - low + 1 = k
            BY <1>1, <5>1, SMTT(30)
          <6> QED
            BY <6>2, <6>3
        <5>3. new \cap given = given
          BY <4>3
        <5>4. Cardinality(new \ given) = Cardinality(new) - Cardinality(new \cap given)
          BY <4>5, <5>2, FS_Difference
        <5> QED
          BY <4>5, <5>2, <5>3, <5>4, FS_CardinalityType
      <4>7. Cardinality(new) = new_partitions[n].size - psize'
        <5>1. Cardinality(new) - k = new_partitions[n].size - psize
          BY <1>1, <3>1, <3>3, <4>4, <4>6
        <5>2. Cardinality(new) = (new_partitions[n].size - psize) + k
          BY <1>1, <3>1, <4>6, <5>1
        <5>3. (new_partitions[n].size - psize) + k = new_partitions[n].size - (psize - k)
          BY <1>1, <3>1
        <5> QED
          BY <5>2, <5>3
      <4> QED
        BY <1>1, <3>2, <3>3, <4>7 DEF new
    <3>4. CASE n # part
      <4>1. d # pid
        BY <1>1, <3>4 DEF IInv, Requests
      <4>2. BlocksOf(d)' = BlocksOf(d)
        <5>1. \A x \in Block : owner'[x] = d <=> owner[x] = d
          BY <1>7, <1>8, <3>1, <4>1
        <5> QED
          BY <3>2, <5>1 DEF BlocksOf
      <4> QED
        BY <3>1, <3>4, <4>2
    <3> QED
      BY <3>3, <3>4
  <2>5. ASSUME psize' > 0, NEW m \in 1 .. free' - 1
        PROVE  free_space'[m].first = free_space'[m].second
    <3>1. CASE m = free
      BY <1>4, <2>5, <3>1
    <3>2. CASE m # free
      <4>1. m \in 1 .. free - 1 /\ m \in 1 .. L
        BY <1>1, <3>2
      <4>2. free_space[m].first = free_space[m].second
        BY <1>1, <2>1, <4>1 DEF Reusing
      <4> QED
        BY <1>4, <3>2, <4>1, <4>2
    <3> QED
      BY <3>1, <3>2
  <2> QED
    BY <1>1, <1>3, <1>4, <2>1, <2>2, <2>3, <2>4, <2>5 DEF Reusing
<1>16. FreeSpaceMeetsDemand'
  <2>1. Sizes(free_space) = psize + Asked(part + 1) /\ Asked(part + 1) \in Nat
    <3>1. part + 1 \in Nat \ {0}
      BY <1>1, ReuseFacts
    <3> QED
      BY <1>1, <3>1, AskedIs
  <2>2. Sizes(free_space') = Sizes(free_space) - k
    <3>1. Sizes([free_space EXCEPT ![free] = i]) =
            Sizes(free_space) - (high - low) + (i.second - i.first)
      BY <1>1, SizesChange
    <3>2. Sizes(free_space') = Sizes([free_space EXCEPT ![free] = i])
      OBVIOUS
    <3> HIDE DEF high
    <3>3. i.second - i.first = (high - low) - k
      <4>1. CASE i.first = low + k /\ i.second = high
        BY <1>1, <4>1
      <4>2. CASE i.first = i.second /\ low + k = high
        <5>1. i.second - i.first = 0
          BY <1>2, <4>2
        <5>2. (high - low) - k = 0
          BY <1>1, <4>2
        <5> QED
          BY <5>1, <5>2
      <4> QED
        BY <4>1, <4>2 DEF high
    <3>4. Sizes(free_space) \in Int
      BY <1>1, SizesIs
    <3> QED
      BY <1>1, <1>2, <3>1, <3>2, <3>3, <3>4
  <2>3. Sizes(free_space') = psize' + Asked(part + 1)
    BY <1>1, <2>1, <2>2
  <2> QED
    BY <1>3, <2>3 DEF FreeSpaceMeetsDemand, Asked, Sizes, SumFunction
<1> QED
  BY <1>10, <1>11, <1>12, <1>13, <1>14, <1>15, <1>16 DEF IInv

\* A part of the free interval is enough for the partition at hand.
LEMMA AssimilatePartiallyKeeps ==
  ASSUME IInv, AssimilatePartially
  PROVE  IInv'
<1> DEFINE low == free_space[free].first
           high == free_space[free].second
           pid == new_partitions[part].pid
           i == [first |-> low + psize, second |-> high]
<1>1. Assimilating /\ pc = "reuse" /\ free <= Len(free_space) /\ psize > 0 /\ high - low > psize
  BY DEF AssimilatePartially, Assimilating, isize
<1>2. /\ psize \in Nat /\ VSPACE_MAX \in Nat /\ low \in Nat /\ high \in Nat
      /\ high <= VSPACE_MAX
  <2>1. /\ psize \in Nat /\ VSPACE_MAX \in Nat /\ free_space \in Seq(Interval)
        /\ free \in 1 .. Len(free_space)
    BY <1>1, ReuseFacts
  <2>2. free_space[free] \in Interval
    BY <2>1
  <2> QED
    BY <2>1, <2>2 DEF Interval
<1>3. owner' = [x \in Block |-> IF low <= x /\ x < low + psize THEN pid ELSE owner[x]]
  <2>1. Tree!Insert(low, low + psize, pid)
    BY DEF AssimilatePartially
  <2> HIDE DEF low, pid
  <2> QED
    BY <2>1 DEF Tree!Insert, Tree!Span, Block
<1>4. free_space' = [free_space EXCEPT ![free] = i]
  <2>1. free_space' = [free_space EXCEPT ![free].first = low + psize]
    BY DEF AssimilatePartially
  <2>2. free_space \in Seq(Interval) /\ free \in 1 .. Len(free_space)
    BY <1>1, ReuseFacts
  <2>3. free_space[free] \in Interval
    BY <2>2
  <2>4. [free_space[free] EXCEPT !.first = low + psize] = i
    BY <2>3 DEF Interval
  <2> HIDE DEF low, i
  <2> QED
    BY <2>1, <2>4
<1>5. /\ psize' = 0 /\ free' = free + 1
      /\ UNCHANGED <<pc, members, arguments, collection, new_partitions, part>>
  BY DEF AssimilatePartially
<1>6. i \in Interval /\ i.first = low + psize /\ i.second = high
  <2>1. low + psize \in 0 .. VSPACE_MAX /\ high \in 0 .. VSPACE_MAX
    BY <1>1, <1>2
  <2> QED
    BY <2>1 DEF Interval
<1> DEFINE k == psize
<1>7. /\ k \in Nat /\ k > 0 /\ k <= psize /\ low + k <= high
      /\ psize' = psize - k /\ ~(psize' > 0)
  BY <1>1, <1>2, <1>5
<1> HIDE DEF i, low, high, pid
<1>8. /\ owner' = [x \in Block |-> IF low <= x /\ x < low + k THEN pid ELSE owner[x]]
      /\ i.first = low + k
  BY <1>3, <1>6
<1> HIDE DEF k
<1> QED
  BY <1>1, <1>4, <1>5, <1>6, <1>7, <1>8, HandedOut DEF low, high, pid

\* All of the free interval goes to the partition at hand.
LEMMA AssimilateCompletelyKeeps ==
  ASSUME IInv, AssimilateCompletely
  PROVE  IInv'
<1> DEFINE low == free_space[free].first
           high == free_space[free].second
           pid == new_partitions[part].pid
           i == [first |-> 0, second |-> 0]
           k == high - low
<1>1. /\ Assimilating /\ pc = "reuse" /\ free <= Len(free_space) /\ psize > 0
      /\ k # 0 /\ k <= psize
  BY DEF AssimilateCompletely, Assimilating, isize
<1>2. /\ psize \in Nat /\ VSPACE_MAX \in Nat /\ low \in Nat /\ high \in Nat /\ low <= high
  <2>1. /\ psize \in Nat /\ VSPACE_MAX \in Nat
        /\ free \in 1 .. Len(free_space) /\ DOMAIN free_space = 1 .. Len(free_space)
    BY <1>1, ReuseFacts
  <2> QED
    BY <1>1, <2>1, ReuseFacts
<1>3. owner' = [x \in Block |-> IF low <= x /\ x < high THEN pid ELSE owner[x]]
  BY DEF AssimilateCompletely, Tree!Insert, Tree!Span, Block
<1>4. free_space' = [free_space EXCEPT ![free] = i]
  BY DEF AssimilateCompletely
<1>5. /\ psize' = psize - k /\ free' = free + 1
      /\ UNCHANGED <<pc, members, arguments, collection, new_partitions, part>>
  BY DEF AssimilateCompletely, isize
<1>6. i \in Interval /\ i.first = i.second
  BY <1>2 DEF Interval
<1> HIDE DEF i, low, high, pid
<1>7. k \in Nat /\ k > 0 /\ low + k = high /\ low + k <= high
  BY <1>1, <1>2
<1>8. owner' = [x \in Block |-> IF low <= x /\ x < low + k THEN pid ELSE owner[x]]
  BY <1>3, <1>7
<1> HIDE DEF k
<1> QED
  BY <1>1, <1>4, <1>5, <1>6, <1>7, <1>8, HandedOut DEF low, high, pid

\* When the last partition is done, no free block is left.
LEMMA NothingIsLeft ==
  ASSUME IInv, UpdateMembers
  PROVE  /\ pc = "reuse" /\ psize = 0 /\ part = Len(new_partitions)
         /\ \A m \in DOMAIN free_space : free_space[m].first = free_space[m].second
         /\ \A x \in Block : ~IsFree(x)
<1>1. pc = "reuse" /\ psize = 0 /\ part = Len(new_partitions)
  <2>1. pc = "reuse" /\ ~Assimilating /\ part = Len(new_partitions)
    BY DEF UpdateMembers
  <2> QED
    BY <2>1, LoopEnds
<1>2. Sizes(free_space) = 0
  <2>1. Sizes(free_space) = psize + Asked(part + 1) /\ Asked(Len(new_partitions) + 1) = 0
    BY <1>1, AskedIs
  <2> QED
    BY <1>1, <2>1
<1>3. \A m \in DOMAIN free_space : free_space[m].first = free_space[m].second
  BY <1>1, <1>2, ReuseFacts, SizesOfEmpty
<1>4. ASSUME NEW x \in Block PROVE ~IsFree(x)
  <2>1. x \in Nat
    BY SpaceAssumption DEF Block
  <2> QED
    BY <1>1, <1>3, <2>1, ReuseFacts DEF IsFree
<1> QED
  BY <1>1, <1>3, <1>4

\* A system has at most as many units of capacity as there are blocks.
LEMMA CapacityIs ==
  ASSUME NEW m \in 1 .. MaxDisks, NEW c \in [0 .. m - 1 -> 1 .. MaxCapacity]
  PROVE  /\ SumFunction(c) \in Nat \ {0} /\ SumFunction(c) <= VSPACE_MAX
         /\ \A d \in 0 .. m - 1 : c[d] \in Nat \ {0} /\ c[d] <= SumFunction(c)
<1> DEFINE D == 0 .. m - 1
<1>1. /\ MaxDisks \in Nat /\ MaxCapacity \in Nat /\ m \in Nat /\ m >= 1 /\ m <= MaxDisks
      /\ VSPACE_MAX \in Nat /\ MaxDisks * MaxCapacity <= VSPACE_MAX
  BY SpaceAssumption, BoundAssumption, CapacityAssumption
<1>2. IsFiniteSet(D) /\ Cardinality(D) = m
  <2>1. 0 \in Int /\ m - 1 \in Int
    BY <1>1
  <2>2. IsFiniteSet(D) /\ Cardinality(D) = IF 0 > m - 1 THEN 0 ELSE (m - 1) - 0 + 1
    BY <2>1, FS_Interval
  <2> QED
    BY <1>1, <2>2
<1>3. 0 \in D
  BY <1>1
<1>4. \A d \in D : c[d] \in Nat /\ c[d] <= MaxCapacity /\ c[d] >= 1
  BY <1>1
<1> DEFINE total == SumFunctionOnSet(c, D)
<1>5. SumFunction(c) = total
  BY DEF SumFunction
<1> HIDE DEF D
<1>6. /\ total \in Nat /\ total <= MaxCapacity * Cardinality(D)
      /\ \A d \in D : c[d] <= total
  BY <1>1, <1>2, <1>4, SumBounded
<1> HIDE DEF total
<1>7. MaxCapacity * m <= MaxDisks * MaxCapacity
  <2>1. \A a, b, k \in Nat : a <= b => k * a <= b * k
    OBVIOUS
  <2> QED
    BY <1>1, <2>1
<1>8. total <= VSPACE_MAX
  <2> DEFINE u == MaxCapacity * m
             w == MaxDisks * MaxCapacity
  <2>1. total <= u
    BY <1>2, <1>6
  <2>2. u \in Nat /\ w \in Nat /\ total \in Nat /\ VSPACE_MAX \in Nat
    BY <1>1, <1>6
  <2>3. u <= w /\ w <= VSPACE_MAX
    BY <1>1, <1>7
  <2> HIDE DEF u, w
  <2> QED
    BY <2>1, <2>2, <2>3
<1>9. total # 0
  BY <1>3, <1>4, <1>6
<1> QED
  BY <1>4, <1>5, <1>6, <1>8, <1>9 DEF D

\* The members are updated: every old disk has kept its share and every new one has got
\* what was asked for it.
LEMMA UpdateMembersKeeps ==
  ASSUME IInv, UpdateMembers
  PROVE  IInv'
<1> DEFINE All == Old \cup New
<1>1. /\ pc = "reuse" /\ psize = 0 /\ part = Len(new_partitions)
      /\ \A m \in DOMAIN free_space : free_space[m].first = free_space[m].second
      /\ \A x \in Block : ~IsFree(x)
  BY NothingIsLeft
<1>2. Requests /\ Reusing /\ Members /\ TypeOK /\ KeepsShare
  BY DEF IInv
<1>3. PICK n \in 1 .. MaxDisks, m \in 1 .. MaxDisks :
        n < m /\ Old = 0 .. n - 1 /\ New = n .. m - 1
  BY <1>1, <1>2 DEF Requests
<1>4. /\ n \in Nat /\ m \in Nat /\ m <= MaxDisks /\ MaxDisks \in Nat /\ VSPACE_MAX \in Nat
      /\ All = 0 .. m - 1 /\ Old \cap New = {}
      /\ IsFiniteSet(All) /\ Cardinality(All) = m
  <2>1. n \in Nat /\ m \in Nat /\ m <= MaxDisks /\ MaxDisks \in Nat /\ VSPACE_MAX \in Nat
    BY SpaceAssumption, BoundAssumption
  <2>2. All = 0 .. m - 1 /\ Old \cap New = {}
    BY <1>3, <2>1
  <2> HIDE DEF All
  <2>3. 0 \in Int /\ m - 1 \in Int
    BY <2>1
  <2>4. IsFiniteSet(All) /\ Cardinality(All) = IF 0 > m - 1 THEN 0 ELSE (m - 1) - 0 + 1
    BY <2>2, <2>3, FS_Interval
  <2> QED
    BY <2>1, <2>2, <2>4
<1>5. /\ pc' = "idle" /\ DOMAIN disks' = All /\ DOMAIN partitions' = All
      /\ partitions' = [d \in All |-> partitions'[d]]
      /\ \A d \in New : disks'[d] = new_disks[d]
      /\ \A d \in Old : disks'[d] = disks[d] /\ partitions'[d] = partitions[d]
      /\ capacity' = Total
      /\ owner' = owner /\ even_odd' = even_odd /\ sort_free' = sort_free
      /\ new_disks' = new_disks /\ old_partitions' = old_partitions
      /\ last_low' = last_low /\ even' = even /\ last_complete' = last_complete
      /\ new_partitions' = new_partitions /\ free_space' = free_space
      /\ part' = part /\ free' = free /\ psize' = psize
  <2>1. /\ disks' = [d \in Old \cup New |-> IF d \in New THEN new_disks[d] ELSE disks[d]]
        /\ DOMAIN partitions' = All
        /\ partitions' = [d \in All |-> partitions'[d]]
        /\ \A d \in Old : partitions'[d] = partitions[d]
        /\ capacity' = Total
    <3>1. DOMAIN partitions = Old
      BY <1>2 DEF Members
    <3> QED
      BY <1>4, <3>1 DEF UpdateMembers, Old, New, Total
  <2>2. /\ owner' = owner /\ even_odd' = even_odd /\ sort_free' = sort_free
        /\ new_disks' = new_disks /\ old_partitions' = old_partitions
        /\ last_low' = last_low /\ even' = even /\ last_complete' = last_complete
        /\ new_partitions' = new_partitions /\ free_space' = free_space
        /\ part' = part /\ free' = free /\ psize' = psize /\ pc' = "idle"
    BY DEF UpdateMembers, arguments, collection, assimilation
  <2> QED
    BY <1>4, <2>1, <2>2
<1>6. disks' \in [All -> 1 .. MaxCapacity]
  <2>1. disks' = [d \in All |-> IF d \in New THEN new_disks[d] ELSE disks[d]]
    BY DEF UpdateMembers, Old, New
  <2>2. /\ \A d \in New : new_disks[d] \in 1 .. MaxCapacity
        /\ \A d \in Old : disks[d] \in 1 .. MaxCapacity
    BY <1>1, <1>2 DEF Requests, Members
  <2> QED
    BY <2>1, <2>2
<1>7. capacity' = SumFunction(disks')
  <2> DEFINE f == disks'
  <2>1. /\ DOMAIN f = All /\ \A d \in All : f[d] \in Int
        /\ \A d \in Old : f[d] = disks[d]
        /\ \A d \in New : f[d] = new_disks[d]
        /\ DOMAIN disks = Old /\ DOMAIN new_disks = New
    BY <1>5, <1>6, BoundAssumption DEF Old, New
  <2>2. /\ Old \in SUBSET All /\ All \ Old = New /\ IsFiniteSet(All) /\ IsFiniteSet(Old)
        /\ IsFiniteSet(New)
    BY <1>4, FS_Subset
  <2> HIDE DEF f, All
  <2>3. SumFunctionOnSet(f, All) = SumFunctionOnSet(f, Old) + SumFunctionOnSet(f, All \ Old)
    BY <2>1, <2>2, SumSplit
  <2>4. \A d \in All : d \in Old \/ d \in New
    BY <2>2
  <2>5. (\A d \in Old : f[d] \in Int) /\ \A d \in New : f[d] \in Int
    BY <2>1, <2>2
  <2>6. SumFunctionOnSet(f, Old) = SumFunctionOnSet(disks, Old)
    BY <2>1, <2>2, <2>5, SumSame
  <2>7. SumFunctionOnSet(f, New) = SumFunctionOnSet(new_disks, New)
    BY <2>1, <2>2, <2>5, SumSame
  <2>8. /\ SumFunction(f) = SumFunctionOnSet(f, All)
        /\ SumFunction(new_disks) = SumFunctionOnSet(new_disks, New)
        /\ capacity = SumFunctionOnSet(disks, Old)
    BY <1>2, <2>1 DEF SumFunction, Members
  <2>9. SumFunction(f) = Total
    BY <2>2, <2>3, <2>6, <2>7, <2>8 DEF Total
  <2> QED
    BY <1>5, <2>9 DEF f
<1>8. /\ capacity' \in Nat \ {0} /\ capacity' <= VSPACE_MAX
      /\ \A d \in All : disks'[d] \in Nat \ {0} /\ disks'[d] <= capacity'
  <2> DEFINE f == disks'
  <2>1. f \in [0 .. m - 1 -> 1 .. MaxCapacity] /\ capacity' = SumFunction(f)
    BY <1>4, <1>6, <1>7
  <2> HIDE DEF f, All
  <2>2. /\ SumFunction(f) \in Nat \ {0} /\ SumFunction(f) <= VSPACE_MAX
        /\ \A d \in 0 .. m - 1 : f[d] \in Nat \ {0} /\ f[d] <= SumFunction(f)
    BY <2>1, CapacityIs
  <2> QED
    BY <1>4, <2>1, <2>2 DEF f
<1>9. ASSUME NEW d \in All
      PROVE  /\ partitions'[d] = Cardinality(BlocksOf(d)) /\ partitions'[d] \in 0 .. VSPACE_MAX
             /\ partitions'[d] - Share(disks'[d], capacity') \in 0 .. m - 1
             /\ partitions'[d] > 0
  <2>1. Share(disks'[d], capacity') \in Nat /\ Share(disks'[d], capacity') >= 1
    <3> DEFINE c == disks'[d]
    <3>1. c \in Nat \ {0} /\ capacity' \in Nat \ {0} /\ c <= capacity' /\ capacity' <= VSPACE_MAX
      BY <1>8
    <3>2. \A a \in Nat \ {0}, t \in Nat \ {0} :
            a <= t /\ t <= VSPACE_MAX => Share(a, t) \in Nat /\ Share(a, t) >= 1
      BY ShareIs, ShareBounds
    <3> HIDE DEF c
    <3>3. Share(c, capacity') \in Nat /\ Share(c, capacity') >= 1
      BY <3>1, <3>2
    <3> QED
      BY <3>3 DEF c
  <2>2. Cardinality(BlocksOf(d)) \in 0 .. VSPACE_MAX
    <3>1. IsFiniteSet(Block) /\ Cardinality(Block) = VSPACE_MAX
      <4>1. 0 \in Int /\ VSPACE_MAX - 1 \in Int
        BY <1>4
      <4>2. /\ IsFiniteSet(Block)
            /\ Cardinality(Block) = IF 0 > VSPACE_MAX - 1 THEN 0 ELSE (VSPACE_MAX - 1) - 0 + 1
        BY <4>1, FS_Interval DEF Block
      <4> QED
        BY <1>4, <4>2
    <3>2. BlocksOf(d) \subseteq Block
      BY DEF BlocksOf
    <3>3. IsFiniteSet(BlocksOf(d)) /\ Cardinality(BlocksOf(d)) <= Cardinality(Block)
      BY <3>1, <3>2, FS_Subset
    <3> QED
      BY <1>4, <3>1, <3>3, FS_CardinalityType
  <2>3. CASE d \in Old
    <3>1. Kept(d) = BlocksOf(d)
      BY <1>1 DEF Kept, BlocksOf
    <3>2. old_partitions[d] = 0 /\ partitions[d] \in Nat
      BY <1>1, <1>2, <2>3 DEF Reusing, Members
    <3>3. partitions[d] = Cardinality(BlocksOf(d))
      BY <1>1, <1>2, <2>3, <3>1, <3>2 DEF KeepsShare
    <3>4. partitions'[d] = Share(disks'[d], capacity')
      BY <1>1, <1>2, <1>5, <2>3 DEF Requests
    <3>5. /\ partitions'[d] = Cardinality(BlocksOf(d))
          /\ partitions'[d] = Share(disks'[d], capacity')
      BY <1>5, <2>3, <3>3, <3>4
    <3> DEFINE s == Share(disks'[d], capacity')
    <3>6. partitions'[d] = s /\ s \in Nat /\ s >= 1
      BY <2>1, <3>5
    <3> HIDE DEF s
    <3>7. partitions'[d] - s \in 0 .. m - 1 /\ partitions'[d] > 0
      BY <1>4, <3>6
    <3> QED
      BY <2>2, <3>5, <3>7 DEF s
  <2>4. CASE d \in New
    <3>1. PICK k \in DOMAIN new_partitions : new_partitions[k].pid = d
      BY <1>1, <1>2, <2>4 DEF Requests
    <3>2. \A l \in DOMAIN new_partitions : new_partitions[l].pid = d => l = k
      BY <1>1, <1>2, <3>1 DEF Requests
    <3>3. /\ DOMAIN new_partitions = 1 .. Len(new_partitions) /\ k \in Nat
          /\ new_partitions[k].size \in Nat
      BY <1>1, ReuseFacts
    <3>4. (CHOOSE p \in ToSet(new_partitions) : p.pid = d) = new_partitions[k]
      <4>1. \A p \in ToSet(new_partitions) :
              \E l \in DOMAIN new_partitions : p = new_partitions[l]
        BY DEF ToSet
      <4>2. new_partitions[k] \in ToSet(new_partitions)
        BY DEF ToSet
      <4>3. \A p \in ToSet(new_partitions) : p.pid = d => p = new_partitions[k]
        BY <3>2, <4>1
      <4> QED
        BY <3>1, <4>2, <4>3
    <3>5. partitions'[d] = new_partitions[k].size
      <4>1. partitions'[d] = (CHOOSE p \in ToSet(new_partitions) : p.pid = d).size
        BY <2>4 DEF UpdateMembers, New
      <4> QED
        BY <3>4, <4>1
    <3>6. Cardinality(BlocksOf(d)) = new_partitions[k].size
      <4>1. k <= part
        BY <1>1, <3>3
      <4>2. Cardinality(BlocksOf(d)) = IF k < part THEN new_partitions[k].size
                                       ELSE IF k = part THEN new_partitions[k].size - psize
                                       ELSE 0
        BY <1>1, <1>2, <3>1 DEF Reusing
      <4>3. part \in Nat
        BY <1>1, ReuseFacts
      <4> QED
        BY <1>1, <3>3, <4>1, <4>2, <4>3
    <3>7. new_partitions[k].size - Share(disks'[d], capacity') \in 0 .. m - 1
      BY <1>1, <1>2, <1>4, <1>5, <2>4, <3>1 DEF Requests
    <3>8. new_partitions[k].size > 0
      BY <1>4, <2>1, <3>3, <3>7
    <3> QED
      BY <2>2, <3>3, <3>5, <3>6, <3>7, <3>8
  <2> QED
    BY <2>3, <2>4
<1>10. TypeOK'
  <2>1. TypeOK
    BY <1>2
  <2>2. /\ DOMAIN disks' = 0 .. m - 1 /\ m \in 0 .. MaxDisks
        /\ disks' \in [DOMAIN disks' -> 1 .. MaxCapacity]
        /\ capacity' \in 0 .. VSPACE_MAX
    BY <1>4, <1>5, <1>6, <1>8
  <2>3. partitions' \in [DOMAIN disks' -> 0 .. VSPACE_MAX]
    <3> HIDE DEF All
    <3> QED
      BY <1>5, <1>9
  <2> QED
    BY <1>5, <2>1, <2>2, <2>3 DEF TypeOK, Block
<1>11. Members'
  <2>1. Old' = All /\ m \in 0 .. MaxDisks
    BY <1>4, <1>5 DEF Old
  <2>2. partitions' \in [All -> 0 .. VSPACE_MAX]
    BY <1>5, <1>10 DEF TypeOK
  <2> QED
    BY <1>4, <1>6, <1>7, <2>1, <2>2 DEF Members, SumFunction
<1>12. TableMatchesTree'
  <2>1. \A x \in Block : owner[x] \in All
    BY <1>1, <1>2 DEF Reusing
  <2>2. \A d \in All : partitions'[d] = Cardinality(BlocksOf(d))' /\ partitions'[d] > 0
    BY <1>5, <1>9 DEF BlocksOf, Block
  <2> QED
    BY <1>5, <2>1, <2>2 DEF TableMatchesTree, Block
<1>13. FairShares'
  BY <1>4, <1>5, <1>9 DEF FairShares, Share
<1>14. /\ Requests' /\ KeepsShare' /\ Collecting' /\ Reusing' /\ FreeSpaceMeetsDemand'
  BY <1>5 DEF Requests, KeepsShare, Collecting, Reusing, FreeSpaceMeetsDemand
<1>15. Done' /\ Intervals(free_space)'
  BY <1>1, <1>5 DEF Done, IInv, Intervals
<1> QED
  BY <1>10, <1>11, <1>12, <1>13, <1>14, <1>15 DEF IInv

--------------------------------------------------------------------------------
(* The calls of setDisks.                                                  *)

\* A set of numbers from 0 on has as many as its bound says.
LEMMA CountIs ==
  ASSUME NEW m \in Nat
  PROVE  IsFiniteSet(0 .. m - 1) /\ Cardinality(0 .. m - 1) = m
<1>1. 0 \in Int /\ m - 1 \in Int
  OBVIOUS
<1>2. /\ IsFiniteSet(0 .. m - 1)
      /\ Cardinality(0 .. m - 1) = IF 0 > m - 1 THEN 0 ELSE (m - 1) - 0 + 1
  BY <1>1, FS_Interval
<1> QED
  BY <1>2

\* The new disks have the ids from the number of disks on.
LEMMA NewDisksAre ==
  ASSUME Members, NEW added \in NewDisks
  PROVE  \E n \in Nat, m \in 1 .. MaxDisks :
           /\ n < m /\ Old = 0 .. n - 1 /\ Cardinality(Old) = n
           /\ DOMAIN added = n .. m - 1 /\ added \in [n .. m - 1 -> 1 .. MaxCapacity]
           /\ n = 0 <=> disks = <<>>
<1>1. PICK n \in 0 .. MaxDisks : Old = 0 .. n - 1
  BY DEF Members
<1>2. n \in Nat /\ MaxDisks \in Nat
  BY BoundAssumption
<1>3. Cardinality(Old) = n
  BY <1>1, <1>2, CountIs
<1>4. PICK k \in n .. MaxDisks - 1 : added \in [n .. k -> 1 .. MaxCapacity]
  BY <1>3 DEF NewDisks, Old
<1>5. k + 1 \in 1 .. MaxDisks /\ n < k + 1 /\ (k + 1) - 1 = k
  BY <1>2, <1>4
<1>6. n = 0 <=> disks = <<>>
  <2>1. disks \in [Old -> 1 .. MaxCapacity]
    BY DEF Members
  <2>2. ASSUME n = 0 PROVE disks = <<>>
    <3>1. DOMAIN disks = {} /\ disks = [d \in {} |-> disks[d]]
      BY <1>1, <2>1, <2>2
    <3> QED
      BY <3>1
  <2>3. ASSUME disks = <<>> PROVE n = 0
    <3>1. Old = {}
      BY <2>3 DEF Old
    <3> QED
      BY <1>1, <1>2, <3>1
  <2> QED
    BY <2>2, <2>3
<1> QED
  BY <1>1, <1>2, <1>3, <1>4, <1>5, <1>6

\* The sum of the sizes of some classes
LEMMA SumOfParts ==
  ASSUME NEW B, IsFiniteSet(B), NEW class, NEW D, IsFiniteSet(D), NEW f, NEW In,
         \A d \in D : /\ f[d] = Cardinality(In[d]) /\ In[d] \subseteq B
                      /\ \A x \in B : x \in In[d] <=> class[x] = d,
         \A x \in B : class[x] \in D
  PROVE  SumFunctionOnSet(f, D) = Cardinality(B)
<1>1. ASSUME NEW d \in D PROVE f[d] = Cardinality({x \in B : class[x] = d})
  <2>1. In[d] = {x \in B : class[x] = d}
    OBVIOUS
  <2> QED
    BY <2>1
<1>2. {x \in B : class[x] \in D} = B
  OBVIOUS
<1>3. SumFunctionOnSet(f, D) = Cardinality({x \in B : class[x] \in D})
  BY <1>1, SumOfClasses
<1> QED
  BY <1>2, <1>3

\* Every block belongs to one disk, so that the table adds up to all of them.
LEMMA TableAddsUp ==
  ASSUME Members, TableMatchesTree, pc = "idle", disks # <<>>
  PROVE  SumFunctionOnSet(partitions, Old) = VSPACE_MAX
<1>1. IsFiniteSet(Block) /\ Cardinality(Block) = VSPACE_MAX
  BY SpaceAssumption, CountIs DEF Block
<1> DEFINE B == Block
           class == owner
           D == Old
           f == partitions
           In == [d \in Old |-> BlocksOf(d)]
<1>2. IsFiniteSet(B) /\ IsFiniteSet(D)
  BY <1>1, OldIsFinite
<1>3. \A d \in D : /\ f[d] = Cardinality(In[d]) /\ In[d] \subseteq B
                   /\ \A x \in B : x \in In[d] <=> class[x] = d
  BY DEF TableMatchesTree, BlocksOf, Old
<1>4. \A x \in B : class[x] \in D
  BY DEF TableMatchesTree, Old
<1> HIDE DEF B, class, D, f, In
<1>5. SumFunctionOnSet(f, D) = Cardinality(B)
  BY <1>2, <1>3, <1>4, SumOfParts
<1> QED
  BY <1>1, <1>5 DEF B, D, f

\* A call that adds disks
LEMMA AddPartitionsKeeps ==
  ASSUME IInv, NEW added \in NewDisks, AddPartitions(added)
  PROVE  IInv'
<1>1. disks # <<>> /\ pc = "idle" /\ Members /\ TypeOK /\ TableMatchesTree /\ FairShares
  BY DEF AddPartitions, IInv
<1>2. PICK n \in Nat, m \in 1 .. MaxDisks :
        /\ n < m /\ Old = 0 .. n - 1 /\ Cardinality(Old) = n
        /\ DOMAIN added = n .. m - 1 /\ added \in [n .. m - 1 -> 1 .. MaxCapacity]
        /\ n = 0 <=> disks = <<>>
  BY <1>1, NewDisksAre
<1> DEFINE Added == n .. m - 1
           All == 0 .. m - 1
           total == capacity + SumFunction(added)
           c == [d \in All |-> IF d \in Added THEN added[d] ELSE disks[d]]
           share == [d \in All |-> Share(c[d], total)]
           lost == [d \in DOMAIN partitions |-> partitions[d] - Share(disks[d], total)]
           gained == [d \in DOMAIN added |-> Share(added[d], total)]
           first == Min(DOMAIN added)
           list == [j \in 1 .. Cardinality(DOMAIN added) |->
                      [pid |-> first + j - 1, size |-> gained[first + j - 1]]]
           r == SumFunction(lost) - SumFunction(gained)
           q == m - n
<1>3. /\ n \in Nat \ {0} /\ m \in Nat /\ m <= MaxDisks /\ MaxDisks \in Nat
      /\ VSPACE_MAX \in Nat
      /\ Old \cup Added = All /\ Old \cap Added = {} /\ All \ Old = Added
      /\ Old \subseteq All /\ Added \subseteq All
      /\ IsFiniteSet(All) /\ Cardinality(All) = m /\ IsFiniteSet(Old) /\ IsFiniteSet(Added)
  <2>1. n \in Nat \ {0} /\ m \in Nat /\ m <= MaxDisks /\ MaxDisks \in Nat
    BY <1>1, <1>2, BoundAssumption
  <2>2. VSPACE_MAX \in Nat
    BY SpaceAssumption
  <2>3. /\ Old \cup Added = All /\ Old \cap Added = {} /\ All \ Old = Added
        /\ Old \subseteq All /\ Added \subseteq All
    BY <1>2, <2>1
  <2>4. IsFiniteSet(All) /\ Cardinality(All) = m
    BY <2>1, CountIs
  <2> HIDE DEF All, Added
  <2> QED
    BY <2>1, <2>2, <2>3, <2>4, FS_Subset
<1>4. /\ disks \in [Old -> 1 .. MaxCapacity] /\ partitions \in [Old -> 0 .. VSPACE_MAX]
      /\ capacity = SumFunctionOnSet(disks, Old) /\ DOMAIN disks = Old
      /\ DOMAIN partitions = Old
  BY <1>1 DEF Members, SumFunction
<1>5. /\ c \in [All -> 1 .. MaxCapacity]
      /\ \A d \in Old : c[d] = disks[d]
      /\ \A d \in Added : c[d] = added[d]
  BY <1>2, <1>3, <1>4
<1>6. total = SumFunctionOnSet(c, All) /\ SumFunction(c) = total
  <2>1. /\ Old \in SUBSET All /\ \A d \in All : c[d] \in Int
        /\ \A d \in Old : c[d] \in Int /\ c[d] = disks[d]
        /\ \A d \in Added : c[d] \in Int /\ c[d] = added[d]
    BY <1>3, <1>5
  <2> DEFINE f == c
  <2> HIDE DEF f, All, Added
  <2>2. \A d \in All : f[d] \in Int
    BY <2>1 DEF f
  <2>3. SumFunctionOnSet(f, All) = SumFunctionOnSet(f, Old) + SumFunctionOnSet(f, All \ Old)
    BY <1>3, <2>2, SumSplit
  <2>4. \A D, g, h : IsFiniteSet(D) /\ (\A d \in D : g[d] \in Int /\ g[d] = h[d]) =>
                       SumFunctionOnSet(g, D) = SumFunctionOnSet(h, D)
    BY SumSame
  <2>5. SumFunctionOnSet(f, Old) = SumFunctionOnSet(disks, Old)
    BY <1>3, <2>1, <2>4 DEF f
  <2>6. SumFunctionOnSet(f, Added) = SumFunctionOnSet(added, Added)
    BY <1>3, <2>1, <2>4 DEF f
  <2>7. SumFunction(added) = SumFunctionOnSet(added, Added)
    BY <1>2 DEF SumFunction, Added
  <2>8. SumFunctionOnSet(f, All) = total
    BY <1>3, <1>4, <2>3, <2>5, <2>6, <2>7
  <2>9. DOMAIN c = All
    BY DEF All
  <2> QED
    BY <2>8, <2>9 DEF f, SumFunction
<1>7. /\ total \in Nat \ {0} /\ total <= VSPACE_MAX
      /\ \A d \in All : c[d] \in Nat \ {0} /\ c[d] <= total
  <2> HIDE DEF c, total
  <2> QED
    BY <1>5, <1>6, CapacityIs
<1>8. \A d \in All : /\ share[d] = Share(c[d], total) /\ share[d] \in Nat
                     /\ share[d] <= VSPACE_MAX
  <2>1. \A a \in Nat \ {0}, t \in Nat \ {0} :
          a <= t => Share(a, t) \in Nat /\ Share(a, t) <= VSPACE_MAX
    BY ShareIs, ShareBounds
  <2> HIDE DEF c, total
  <2> QED
    BY <1>7, <2>1
<1>9. \A d \in Old : /\ lost[d] = partitions[d] - share[d] /\ lost[d] \in 0 .. VSPACE_MAX
                     /\ lost[d] <= partitions[d]
  <2> TAKE d \in Old
  <2> HIDE DEF c, total
  <2>1. /\ d \in All /\ c[d] = disks[d] /\ disks[d] \in Nat \ {0}
        /\ disks[d] <= total /\ partitions[d] \in 0 .. VSPACE_MAX
    BY <1>3, <1>4, <1>5, <1>7
  <2>2. lost[d] = partitions[d] - share[d] /\ share[d] = Share(disks[d], total)
    BY <1>4, <1>8, <2>1
  <2>3. /\ capacity \in Nat \ {0} /\ disks[d] <= capacity
    <3>1. disks \in [0 .. n - 1 -> 1 .. MaxCapacity] /\ n \in 1 .. MaxDisks
      BY <1>2, <1>3, <1>4
    <3>2. \A f \in [0 .. n - 1 -> 1 .. MaxCapacity] :
            /\ SumFunction(f) \in Nat \ {0}
            /\ \A i \in 0 .. n - 1 : f[i] <= SumFunction(f)
      BY <3>1, CapacityIs
    <3>3. capacity = SumFunction(disks)
      BY <1>4 DEF SumFunction
    <3> QED
      BY <1>2, <3>1, <3>2, <3>3
  <2>4. capacity <= total
    <3>1. SumFunctionOnSet(c, All) = SumFunctionOnSet(c, Old) + SumFunctionOnSet(c, All \ Old)
      <4>1. \A e \in All : c[e] \in Int
        BY <1>7
      <4> HIDE DEF All, Added
      <4> QED
        BY <1>3, <4>1, SumSplit
    <3>2. SumFunctionOnSet(c, Old) = capacity
      <4>1. \A e \in Old : c[e] \in Int /\ c[e] = disks[e]
        BY <1>3, <1>5, <1>7
      <4>2. SumFunctionOnSet(c, Old) = SumFunctionOnSet(disks, Old)
        BY <1>3, <4>1, SumSame
      <4> QED
        BY <1>4, <4>2
    <3>3. SumFunctionOnSet(c, Added) \in Nat
      <4>1. \A e \in Added : c[e] \in Nat /\ c[e] <= total
        BY <1>3, <1>7
      <4> HIDE DEF All, Added
      <4> QED
        BY <1>3, <1>7, <4>1, SumBounded
    <3> HIDE DEF All, Added
    <3> QED
      BY <1>3, <1>6, <1>7, <2>3, <3>1, <3>2, <3>3
  <2>5. Share(disks[d], total) \in Nat /\ Share(disks[d], total) <= Share(disks[d], capacity)
    <3>1. \A a \in Nat \ {0}, t \in Nat \ {0}, u \in Nat \ {0} :
            a <= t /\ t <= u => Share(a, u) \in Nat /\ Share(a, u) <= Share(a, t)
      BY ShareIs, ShareBounds
    <3> QED
      BY <1>7, <2>1, <2>3, <2>4, <3>1
  <2>6. Share(disks[d], capacity) \in Nat
    BY <2>1, <2>3, ShareIs
  <2>7. partitions[d] - Share(disks[d], capacity) \in 0 .. n - 1
    BY <1>1, <1>2 DEF FairShares, Old
  <2> DEFINE a == Share(disks[d], total)
             b == Share(disks[d], capacity)
  <2> HIDE DEF a, b, share, lost
  <2>8. /\ partitions[d] \in 0 .. VSPACE_MAX /\ a \in Nat /\ b \in Nat /\ a <= b
        /\ partitions[d] - b \in 0 .. n - 1
        /\ lost[d] = partitions[d] - share[d] /\ share[d] = a
    BY <2>1, <2>2, <2>5, <2>6, <2>7 DEF a, b
  <2> QED
    BY <1>3, <2>8
<1>10. \A d \in Added : gained[d] = share[d]
  BY <1>2, <1>3, <1>5
<1>11. /\ r \in 0 .. m - 1
       /\ r = VSPACE_MAX - SumFunctionOnSet(share, All)
       /\ SumFunctionOnSet(share, Added) \in Int
       /\ SumFunction(lost) = SumFunctionOnSet(share, Added) + r
  <2>1. /\ SumFunctionOnSet(share, All) \in Int
        /\ VSPACE_MAX - SumFunctionOnSet(share, All) \in 0 .. m - 1
    <3> HIDE DEF All, Added, c, total, share
    <3> QED
      BY <1>3, <1>6, <1>7, <1>8, SumOfShares
  <2>2. SumFunctionOnSet(share, All) =
          SumFunctionOnSet(share, Old) + SumFunctionOnSet(share, All \ Old)
    <3>1. \A d \in All : share[d] \in Int
      BY <1>8
    <3> HIDE DEF All, Added, share
    <3> QED
      BY <1>3, <3>1, SumSplit
  <2>3. SumFunctionOnSet(partitions, Old) =
          SumFunctionOnSet(lost, Old) + SumFunctionOnSet(share, Old)
    <3>1. \A d \in Old : /\ lost[d] \in Int /\ share[d] \in Int
                         /\ partitions[d] = lost[d] + share[d]
      <4> TAKE d \in Old
      <4>1. /\ lost[d] = partitions[d] - share[d] /\ lost[d] \in Int /\ share[d] \in Int
            /\ partitions[d] \in Int
        BY <1>3, <1>4, <1>8, <1>9
      <4> HIDE DEF lost, share
      <4> QED
        BY <4>1
    <3> HIDE DEF share, lost
    <3> QED
      BY <1>3, <3>1, SumPlus
  <2>4. SumFunctionOnSet(partitions, Old) = VSPACE_MAX
    BY <1>1, TableAddsUp
  <2>5. SumFunctionOnSet(gained, Added) = SumFunctionOnSet(share, Added)
    <3>1. \A d \in Added : gained[d] \in Int /\ gained[d] = share[d]
      <4>1. /\ \A d \in All : share[d] \in Nat
            /\ \A d \in Added : d \in All /\ gained[d] = share[d]
        BY <1>3, <1>8, <1>10
      <4> HIDE DEF share, gained, Added, All
      <4> QED
        BY <4>1
    <3> HIDE DEF share, gained, Added
    <3> QED
      BY <1>3, <3>1, SumSame
  <2>6. /\ SumFunction(lost) = SumFunctionOnSet(lost, Old)
        /\ SumFunction(gained) = SumFunctionOnSet(gained, Added)
    <3>1. DOMAIN lost = Old /\ DOMAIN gained = Added
      BY <1>2, <1>4
    <3> HIDE DEF lost, gained, Added
    <3> QED
      BY <3>1 DEF SumFunction
  <2>7. /\ SumFunctionOnSet(share, Old) \in Int /\ SumFunctionOnSet(share, Added) \in Int
        /\ SumFunctionOnSet(lost, Old) \in Int
    <3>1. /\ \A d \in Old : share[d] \in Int /\ lost[d] \in Int
          /\ \A d \in Added : share[d] \in Int
      BY <1>3, <1>8, <1>9, SMTT(30)
    <3> HIDE DEF share, lost, Added
    <3> QED
      BY <1>3, <3>1, SumIs
  <2>8. r = SumFunctionOnSet(lost, Old) - SumFunctionOnSet(share, Added)
    BY <2>5, <2>6
  <2> HIDE DEF share, lost, gained, All, Added, r
  <2>9. r = VSPACE_MAX - SumFunctionOnSet(share, All)
    BY <1>3, <2>1, <2>2, <2>3, <2>4, <2>7, <2>8
  <2>10. SumFunction(lost) = SumFunctionOnSet(share, Added) + r
    BY <2>6, <2>7, <2>8
  <2> QED
    BY <2>1, <2>7, <2>9, <2>10
<1>12. /\ q \in Nat \ {0} /\ DOMAIN list = 1 .. q
       /\ \A j \in 1 .. q : list[j] = [pid |-> n + j - 1, size |-> share[n + j - 1]]
  <2>1. q \in Nat \ {0} /\ Cardinality(Added) = q
    <3>1. IsFiniteSet(n .. m - 1)
          /\ Cardinality(n .. m - 1) = IF n > m - 1 THEN 0 ELSE (m - 1) - n + 1
      BY <1>3, FS_Interval
    <3> QED
      BY <1>2, <1>3, <3>1
  <2>2. first = n
    <3> DEFINE S == DOMAIN added
    <3>1. S \in SUBSET Nat /\ n \in S /\ \A y \in S : n <= y
      BY <1>2, <1>3
    <3> HIDE DEF S
    <3>2. Min(S) \in S /\ \A y \in S : Min(S) <= y
      BY <3>1, MinIs
    <3> QED
      BY <1>3, <3>1, <3>2 DEF S
  <2>3. DOMAIN list = 1 .. q
    BY <1>2, <2>1
  <2>4. ASSUME NEW j \in 1 .. q
        PROVE  list[j] = [pid |-> n + j - 1, size |-> share[n + j - 1]]
    <3>1. n + j - 1 \in Added
      BY <1>3, <2>1
    <3>2. list[j] = [pid |-> first + j - 1, size |-> gained[first + j - 1]]
      BY <2>3
    <3> HIDE DEF first, gained, share, list
    <3> QED
      BY <1>10, <2>2, <3>1, <3>2
  <2> QED
    BY <2>1, <2>3, <2>4
<1>13. /\ pc' = "collect" /\ disks' = disks /\ capacity' = capacity /\ owner' = owner
       /\ partitions' = [d \in Old |-> share[d]] /\ old_partitions' = lost
       /\ new_partitions' = [list EXCEPT ![q].size = @ + r]
       /\ new_disks' = added /\ last_low' = 0 /\ free_space' = <<>>
       /\ even' = FALSE /\ last_complete' = FALSE
       /\ even_odd' = even_odd /\ sort_free' = sort_free
       /\ part' = part /\ free' = free /\ psize' = psize
       /\ Old' = Old /\ New' = Added /\ Total' = total
  <2>1. Len(list) = q /\ \A d \in Old : share[d] = Share(disks[d], total)
    <3>1. \A d \in Old : d \in All /\ c[d] = disks[d]
      BY <1>3, <1>5
    <3>2. \A d \in Old : share[d] = Share(disks[d], total)
      BY <1>8, <3>1
    <3>3. Len(list) = q
      <4>1. list = [j \in 1 .. q |-> list[j]]
        BY <1>12
      <4> DEFINE l == list
      <4> HIDE DEF l, q
      <4>2. q \in Nat \ {0} /\ l = [j \in 1 .. q |-> l[j]]
        BY <1>12, <4>1 DEF l
      <4>3. l \in Seq({l[j] : j \in 1 .. q}) /\ DOMAIN l = 1 .. q
        BY <4>2
      <4>4. Len(l) \in Nat /\ 1 .. Len(l) = 1 .. q
        BY <4>3
      <4>5. q \in 1 .. q
        BY <4>2
      <4>6. Len(l) \in 1 .. Len(l)
        BY <4>2, <4>4, <4>5
      <4>7. Len(l) = q
        BY <4>2, <4>4, <4>5, <4>6
      <4> QED
        BY <4>7 DEF l
    <3> QED
      BY <3>2, <3>3
  <2>2. /\ old_partitions' = lost
        /\ partitions' = [d \in Old |-> Share(disks[d], total)]
        /\ new_partitions' = [list EXCEPT ![Len(list)].size = @ + r]
        /\ new_disks' = added /\ last_low' = 0 /\ free_space' = <<>>
        /\ even' = FALSE /\ last_complete' = FALSE /\ pc' = "collect"
        /\ disks' = disks /\ capacity' = capacity /\ owner' = owner
        /\ even_odd' = even_odd /\ sort_free' = sort_free
        /\ part' = part /\ free' = free /\ psize' = psize
    BY <1>4 DEF AddPartitions, assimilation
  <2> HIDE DEF list, r, lost, share
  <2>3. partitions' = [d \in Old |-> share[d]]
    BY <2>1, <2>2
  <2>4. Old' = Old /\ New' = Added /\ Total' = total
    BY <1>2, <2>2 DEF Old, New, Total
  <2> QED
    BY <2>1, <2>2, <2>3, <2>4
<1> DEFINE asked == new_partitions'
<1>14. /\ asked \in Seq(Request) /\ DOMAIN asked = 1 .. q
       /\ \A j \in 1 .. q :
            /\ asked[j].pid = n + j - 1
            /\ asked[j].size = share[n + j - 1] + (IF j = q THEN r ELSE 0)
  <2>1. \A j \in 1 .. q : n + j - 1 \in Added /\ n + j - 1 \in All /\ n + j - 1 \in Id
    BY <1>3, <1>12 DEF Id
  <2>2. \A j \in 1 .. q : /\ share[n + j - 1] \in Nat
                          /\ share[n + j - 1] + r \in Nat
                          /\ share[n + j - 1] + r <= VSPACE_MAX
    <3>1. \A d \in All : share[d] <= SumFunctionOnSet(share, All)
      <4>1. \A d \in All : share[d] \in Nat /\ share[d] <= VSPACE_MAX
        BY <1>8
      <4> HIDE DEF share, All
      <4> QED
        BY <1>3, <4>1, SumBounded
    <3>2. ASSUME NEW d \in All
          PROVE  share[d] \in Nat /\ share[d] + r \in Nat /\ share[d] + r <= VSPACE_MAX
      <4> DEFINE u == SumFunctionOnSet(share, All)
      <4>1. /\ share[d] \in Nat /\ share[d] <= u
            /\ r \in 0 .. m - 1 /\ r = VSPACE_MAX - u
        BY <1>8, <1>11, <3>1
      <4>2. u \in Int
        <5>1. \A e \in All : share[e] \in Int
          BY <1>8
        <5> HIDE DEF share, All
        <5> QED
          BY <1>3, <5>1, SumIs
      <4> HIDE DEF r, u, share
      <4> QED
        BY <1>3, <4>1, <4>2
    <3> HIDE DEF share, All, Added, r
    <3> QED
      BY <2>1, <3>2
  <2> HIDE DEF share, r, list, q, All, Added
  <2>3. new_partitions' = [list EXCEPT ![q].size = @ + r]
    BY <1>13
  <2>4. ASSUME NEW j \in 1 .. q
        PROVE  /\ asked[j] \in Request /\ asked[j].pid = n + j - 1
               /\ asked[j].size = share[n + j - 1] + (IF j = q THEN r ELSE 0)
    <3> DEFINE u == share[n + j - 1]
               w == n + j - 1
    <3>1. /\ list[j] = [pid |-> w, size |-> u] /\ w \in Id
          /\ u \in Nat /\ u + r \in Nat /\ u + r <= VSPACE_MAX
          /\ r \in Nat
      <4>1. list[j] = [pid |-> w, size |-> u]
        BY <1>12
      <4>2. w \in Id /\ u \in Nat /\ u + r \in Nat /\ u + r <= VSPACE_MAX
        BY <2>1, <2>2
      <4>3. r \in Nat
        BY <1>3, <1>11
      <4> QED
        BY <4>1, <4>2, <4>3
    <3>2. asked[j] = IF j = q THEN [list[j] EXCEPT !.size = @ + r] ELSE list[j]
      BY <1>12, <2>3
    <3> HIDE DEF u, w
    <3>3. asked[j] = [pid |-> w, size |-> IF j = q THEN u + r ELSE u]
      BY <3>1, <3>2
    <3>4. asked[j] \in Request
      BY <1>3, <3>1, <3>3 DEF Request
    <3>5. asked[j].pid = w /\ asked[j].size = u + (IF j = q THEN r ELSE 0)
      BY <3>1, <3>3
    <3> QED
      BY <3>4, <3>5 DEF u, w
  <2>5. DOMAIN asked = 1 .. q /\ asked = [j \in 1 .. q |-> asked[j]]
    BY <1>12, <2>3
  <2>6. asked \in Seq(Request)
    <3> HIDE DEF asked
    <3> QED
      BY <1>12, <2>4, <2>5
  <2> QED
    BY <2>4, <2>5, <2>6
<1>15. /\ partitions' \in [Old -> 0 .. VSPACE_MAX]
       /\ old_partitions' \in [Old -> 0 .. VSPACE_MAX]
  <2>1. ASSUME NEW d \in Old
        PROVE  share[d] \in 0 .. VSPACE_MAX /\ lost[d] \in 0 .. VSPACE_MAX
    <3>1. /\ share[d] \in Nat /\ share[d] <= VSPACE_MAX
          /\ lost[d] \in 0 .. VSPACE_MAX
      BY <1>3, <1>8, <1>9
    <3> HIDE DEF share, lost
    <3> QED
      BY <1>3, <3>1
  <2>2. lost = [d \in Old |-> lost[d]]
    BY <1>4
  <2> HIDE DEF share, lost
  <2> QED
    BY <1>13, <2>1, <2>2
<1>16. TypeOK'
  <2>1. asked \in Seq([pid : Id, size : 0 .. VSPACE_MAX])
    BY <1>14 DEF Request
  <2>2. /\ free_space' \in Seq([first : 0 .. VSPACE_MAX, second : 0 .. VSPACE_MAX])
        /\ last_low' \in 0 .. VSPACE_MAX
        /\ pc' \in {"idle", "collect", "reuse"}
        /\ even' \in BOOLEAN /\ last_complete' \in BOOLEAN
    <3>1. /\ pc' = "collect" /\ last_low' = 0 /\ free_space' = <<>>
          /\ even' = FALSE /\ last_complete' = FALSE
      BY <1>13
    <3>2. \A S : <<>> \in Seq(S)
      OBVIOUS
    <3>3. 0 \in 0 .. VSPACE_MAX
      BY <1>3
    <3> QED
      BY <3>1, <3>2, <3>3
  <2>3. DOMAIN disks' = Old
    BY <1>4, <1>13
  <2>4. /\ partitions' \in [DOMAIN disks' -> 0 .. VSPACE_MAX]
        /\ old_partitions' \in [DOMAIN old_partitions' -> 0 .. VSPACE_MAX]
    BY <1>15, <2>3
  <2> HIDE DEF asked, share, lost, r, list, total
  <2> QED
    BY <1>1, <1>13, <2>1, <2>2, <2>4 DEF TypeOK, Block, asked
<1>17. /\ Members' /\ TableMatchesTree' /\ FairShares' /\ Reusing'
       /\ FreeSpaceMeetsDemand' /\ Done'
  <2>1. Members'
    BY <1>1, <1>13, <1>15 DEF Members
  <2> QED
    BY <1>13, <2>1 DEF TableMatchesTree, FairShares, Reusing, FreeSpaceMeetsDemand, Done
<1>18. Requests'
  <2>1. n \in 1 .. MaxDisks /\ Old' = 0 .. n - 1 /\ New' = n .. m - 1
    BY <1>2, <1>3, <1>13
  <2>2. new_disks' \in [New' -> 1 .. MaxCapacity] /\ old_partitions' \in [Old' -> 0 .. VSPACE_MAX]
    BY <1>2, <1>13, <1>15
  <2>3. \A d \in Old' : partitions'[d] = Share(disks'[d], Total')
    <3>1. \A d \in Old : d \in All /\ c[d] = disks[d] /\ share[d] = Share(c[d], total)
      BY <1>3, <1>5, <1>8
    <3> HIDE DEF share, c, total
    <3> QED
      BY <1>13, <3>1
  <2>4. asked # <<>>
    <3>1. 1 \in DOMAIN asked
      BY <1>12, <1>14
    <3> HIDE DEF asked
    <3> QED
      BY <3>1
  <2>5. ASSUME NEW k \in DOMAIN asked, NEW l \in DOMAIN asked, asked[k].pid = asked[l].pid
        PROVE  k = l
    <3>1. k \in 1 .. q /\ l \in 1 .. q /\ asked[k].pid = n + k - 1 /\ asked[l].pid = n + l - 1
      BY <1>14
    <3>2. n + k - 1 = n + l - 1
      BY <2>5, <3>1
    <3>3. k \in Int /\ l \in Int /\ n \in Int
      BY <1>3, <1>12, <3>1
    <3> HIDE DEF asked
    <3> QED
      BY <3>2, <3>3
  <2>6. ASSUME NEW k \in DOMAIN asked
        PROVE  asked[k].pid \in New'
    <3>1. k \in 1 .. q /\ asked[k].pid = n + k - 1
      BY <1>14
    <3>2. New' = Added
      BY <1>13
    <3> HIDE DEF asked
    <3> QED
      BY <1>3, <1>12, <3>1, <3>2
  <2>7. \A d \in New' : \E k \in DOMAIN asked : asked[k].pid = d
    <3> TAKE d \in New'
    <3>1. d - n + 1 \in 1 .. q /\ n + (d - n + 1) - 1 = d
      BY <1>3, <1>12, <1>13
    <3> HIDE DEF asked, share, r
    <3> QED
      BY <1>14, <3>1
  <2>8. ASSUME NEW k \in DOMAIN asked
        PROVE  asked[k].size - Share(new_disks'[asked[k].pid], Total') \in
                 0 .. Cardinality(Old' \cup New') - 1
    <3> DEFINE d == n + k - 1
    <3>1. /\ k \in 1 .. q /\ asked[k].pid = d
          /\ asked[k].size = share[d] + (IF k = q THEN r ELSE 0)
      BY <1>14
    <3>2. d \in Added
      BY <1>3, <1>12, <3>1
    <3> HIDE DEF d, asked
    <3>3. d \in All /\ c[d] = added[d] /\ share[d] = Share(added[d], total)
      BY <1>3, <1>5, <1>8, <3>2
    <3>4. share[d] \in Nat /\ r \in 0 .. m - 1
      BY <1>8, <1>11, <3>3
    <3>5. Cardinality(Old' \cup New') = m /\ new_disks' = added /\ Total' = total
      <4>1. Old' \cup New' = All
        BY <1>3, <1>13
      <4> HIDE DEF All
      <4> QED
        BY <1>3, <1>13, <4>1
    <3> HIDE DEF share, c, total, r
    <3>6. asked[k].size - share[d] \in 0 .. m - 1
      BY <1>3, <3>1, <3>4
    <3> QED
      BY <3>1, <3>3, <3>5, <3>6
  <2> HIDE DEF asked, share, lost, r, list, total, All, Added
  <2>9. \E a \in 1 .. MaxDisks, b \in 1 .. MaxDisks :
          a < b /\ Old' = 0 .. a - 1 /\ New' = a .. b - 1
    BY <1>2, <2>1
  <2> QED
    BY <2>2, <2>3, <2>4, <2>5, <2>6, <2>7, <2>8, <2>9 DEF Requests, Share, asked
<1>19. KeepsShare'
  <2>1. \A d : Kept(d)' = BlocksOf(d)
    BY <1>13 DEF Kept, BlocksOf, IsFree, Block
  <2>2. \A d \in Old : Cardinality(BlocksOf(d)) = partitions[d]
    BY <1>1 DEF TableMatchesTree, Old
  <2>3. ASSUME NEW d \in Old
        PROVE  /\ partitions'[d] + old_partitions'[d] = partitions[d]
    <3>1. partitions'[d] = share[d] /\ old_partitions'[d] = lost[d]
      BY <1>13
    <3>2. /\ share[d] \in Nat /\ lost[d] = partitions[d] - share[d]
          /\ partitions[d] \in Int
      BY <1>3, <1>4, <1>8, <1>9
    <3> HIDE DEF share, lost
    <3> QED
      BY <3>1, <3>2
  <2> HIDE DEF share, lost
  <2> QED
    BY <1>13, <2>1, <2>2, <2>3 DEF KeepsShare
<1>20. Intervals(free_space)'
  BY <1>13 DEF Intervals
<1>21. Collecting'
  <2>1. \A x \in Block : owner'[x] \in Old'
    BY <1>1, <1>13 DEF TableMatchesTree, Old
  <2>2. \A d \in Old : old_partitions'[d] <= Cardinality(Rest(d)')
    <3>1. \A d : Rest(d)' = BlocksOf(d)
      BY <1>13 DEF Rest, BlocksOf, Block
    <3>2. \A d \in Old : Cardinality(BlocksOf(d)) = partitions[d]
      BY <1>1 DEF TableMatchesTree, Old
    <3>3. \A d \in Old : old_partitions'[d] <= partitions[d]
      BY <1>9, <1>13
    <3> QED
      BY <3>1, <3>2, <3>3
  <2>3. Sizes(free_space') = 0
    <3>1. \A S : <<>> \in Seq(S)
      OBVIOUS
    <3>2. Sizes(<<>>) = 0
      <4> DEFINE e == <<>>
      <4>1. e \in Seq(Interval) /\ DOMAIN e = {}
        BY <3>1
      <4> HIDE DEF e
      <4>2. Sizes(e) = 0
        BY <4>1, SizesOfEmpty
      <4> QED
        BY <4>2 DEF e
    <3> QED
      BY <1>13, <3>2
  <2>4. SumFunction(old_partitions') =
          SumFunction([k \in DOMAIN asked |-> asked[k].size])
    <3> DEFINE S == 1 .. q
               f == [j \in S |-> asked[j].size]
               g == [j \in S |-> share[n + j - 1]]
               p == [j \in S |-> n + j - 1]
    <3>1. /\ q \in S /\ IsFiniteSet(S)
          /\ \A j \in S : j \in Int
      BY <1>12, FS_Interval
    <3>2. /\ \A j \in S : p[j] \in Added /\ p[j] \in All /\ g[j] = share[p[j]]
          /\ \A i, j \in S : p[i] = p[j] => i = j
          /\ \A d \in Added : \E j \in S : p[j] = d
      <4>1. \A d \in Added : d - n + 1 \in S /\ p[d - n + 1] = d
        BY <1>3, <1>12
      <4>2. \A j \in S : p[j] \in Added /\ p[j] \in All /\ g[j] = share[p[j]]
        BY <1>3, <1>12
      <4>3. \A i, j \in S : p[i] = p[j] => i = j
        BY <1>3, <1>12
      <4> HIDE DEF share, Added, All, S, p, g
      <4> QED
        BY <4>1, <4>2, <4>3
    <3>3. p \in Bijection(S, Added)
      <4>1. p = [j \in S |-> p[j]]
        OBVIOUS
      <4> HIDE DEF S, Added, p
      <4> QED
        BY <3>2, <4>1 DEF Bijection, Injection, Surjection, IsInjective
    <3>4. \A j \in S : /\ g[j] \in Int /\ f[j] \in Int
                       /\ j # q => g[j] = f[j]
      <4> TAKE j \in S
      <4>1. /\ p[j] \in All /\ g[j] = share[p[j]] /\ share[p[j]] \in Nat /\ r \in Nat
            /\ j \in 1 .. q
        BY <1>3, <1>8, <1>11, <3>2
      <4>2. f[j] = share[p[j]] + (IF j = q THEN r ELSE 0)
        BY <1>14, <4>1
      <4> HIDE DEF f, g, p, S, share, r, All
      <4> QED
        BY <4>1, <4>2
    <3>5. f[q] = g[q] + r
      <4>1. q \in 1 .. q
        BY <3>1
      <4> HIDE DEF asked, share, r
      <4> QED
        BY <1>14, <3>1, <4>1
    <3> HIDE DEF f, g, p, S, asked, Added
    <3>6. SumFunctionOnSet(f, S) = SumFunctionOnSet(g, S) - g[q] + f[q]
      <4> HIDE DEF q
      <4> QED
        BY <3>1, <3>4, SumChange
    <3>7. SumFunctionOnSet(g, S) = SumFunctionOnSet(share, Added)
      <4> HIDE DEF share, q, All
      <4> QED
        BY <1>3, <3>1, <3>2, <3>3, <3>4, SumRenamed
    <3>8. SumFunctionOnSet(f, S) = SumFunctionOnSet(share, Added) + r
      <4>1. g[q] \in Int
        BY <3>1, <3>4
      <4>2. r \in Int
        BY <1>3, <1>11
      <4> HIDE DEF q, r, share
      <4> QED
        BY <1>11, <3>5, <3>6, <3>7, <4>1, <4>2
    <3>9. SumFunction([k \in DOMAIN asked |-> asked[k].size]) = SumFunctionOnSet(f, S)
      <4>1. DOMAIN asked = S
        BY <1>14 DEF S
      <4>2. DOMAIN f = S
        BY DEF f
      <4> QED
        BY <4>1, <4>2 DEF SumFunction, f
    <3> QED
      BY <1>11, <1>13, <3>8, <3>9
  <2>5. SumFunction(old_partitions') \in Int
    <3>1. r \in Int
      BY <1>3, <1>11
    <3> HIDE DEF r, lost
    <3> QED
      BY <1>11, <1>13, <3>1
  <2>6. Sizes(free_space)' = Sizes(free_space')
    BY DEF Sizes
  <2> QED
    BY <1>13, <2>1, <2>2, <2>3, <2>4, <2>5, <2>6 DEF Collecting, Block
<1> QED
  BY <1>16, <1>17, <1>18, <1>19, <1>20, <1>21 DEF IInv

\* A call that cuts the space
LEMMA CreatePartitionsKeeps ==
  ASSUME IInv, NEW added \in NewDisks, CreatePartitions(added)
  PROVE  IInv'
<1> DEFINE D == DOMAIN added
           total == SumFunction(added)
           share == [i \in DOMAIN added |-> Share(added[i], total)]
           start(d) == SumFunctionOnSet([i \in DOMAIN added |-> Share(added[i], total)],
                                        {i \in DOMAIN added : i < d})
           end(d) == IF d + 1 \in DOMAIN added THEN start(d + 1) ELSE VSPACE_MAX
<1>1. disks = <<>> /\ pc = "idle" /\ Members /\ TypeOK /\ Done /\ Intervals(free_space)
  BY DEF CreatePartitions, IInv
<1>2. PICK m \in 1 .. MaxDisks : D = 0 .. m - 1 /\ added \in [0 .. m - 1 -> 1 .. MaxCapacity]
  <2>1. PICK n \in Nat, m \in 1 .. MaxDisks :
          /\ n < m /\ DOMAIN added = n .. m - 1 /\ added \in [n .. m - 1 -> 1 .. MaxCapacity]
          /\ n = 0
    BY <1>1, NewDisksAre
  <2> QED
    BY <2>1
<1>3. /\ m \in Nat /\ m >= 1 /\ m <= MaxDisks /\ MaxDisks \in Nat /\ VSPACE_MAX \in Nat
      /\ IsFiniteSet(D) /\ Cardinality(D) = m
      /\ \A d : d \in D <=> d \in Nat /\ d < m
  <2>1. m \in Nat /\ m >= 1 /\ m <= MaxDisks /\ MaxDisks \in Nat /\ VSPACE_MAX \in Nat
    BY SpaceAssumption, BoundAssumption
  <2>2. IsFiniteSet(D) /\ Cardinality(D) = m
    BY <1>2, <2>1, CountIs
  <2>3. \A d : d \in D <=> d \in Nat /\ d < m
    BY <1>2, <2>1
  <2> QED
    BY <2>1, <2>2, <2>3
<1>4. /\ total \in Nat \ {0} /\ total <= VSPACE_MAX
      /\ \A d \in D : added[d] \in Nat \ {0} /\ added[d] <= total
  BY <1>2, CapacityIs
<1>5. \A d \in D : /\ share[d] = Share(added[d], total) /\ share[d] \in Nat
                   /\ share[d] >= 1 /\ share[d] <= VSPACE_MAX
  <2>1. \A a \in Nat \ {0}, t \in Nat \ {0} :
          a <= t /\ t <= VSPACE_MAX =>
            Share(a, t) \in Nat /\ Share(a, t) >= 1 /\ Share(a, t) <= VSPACE_MAX
    BY ShareIs, ShareBounds
  <2> HIDE DEF total
  <2> QED
    BY <1>4, <2>1
<1>6. /\ SumFunctionOnSet(share, D) \in Int
      /\ VSPACE_MAX - SumFunctionOnSet(share, D) \in 0 .. m - 1
  <2>1. total = SumFunctionOnSet(added, D)
    BY DEF SumFunction
  <2> HIDE DEF D, total, share
  <2> QED
    BY <1>3, <1>4, <1>5, <2>1, SumOfShares
<1> DEFINE Below(d) == {i \in D : i < d}
           r == VSPACE_MAX - SumFunctionOnSet(share, D)
<1>7. \A d : start(d) = SumFunctionOnSet(share, Below(d))
  OBVIOUS
<1>8. /\ start(0) = 0 /\ start(m) = VSPACE_MAX - r /\ r \in 0 .. m - 1
      /\ \A d \in 0 .. m : start(d) \in Nat
      /\ \A d \in D : start(d + 1) = start(d) + share[d]
      /\ \A d, e \in 0 .. m : d <= e => start(d) <= start(e)
  <2>1. \A d : Below(d) \subseteq D /\ IsFiniteSet(Below(d))
    <3>1. \A d : Below(d) \subseteq D
      OBVIOUS
    <3> HIDE DEF Below, D
    <3> QED
      BY <1>3, <3>1, FS_Subset
  <2>2. /\ Below(0) = {} /\ Below(m) = D
        /\ \A d \in D : Below(d + 1) = Below(d) \cup {d} /\ d \notin Below(d)
        /\ \A d, e \in 0 .. m : d <= e => Below(d) \in SUBSET Below(e)
    <3>1. Below(0) = {} /\ Below(m) = D
      BY <1>3
    <3>2. \A d \in D : Below(d + 1) = Below(d) \cup {d} /\ d \notin Below(d)
      BY <1>3
    <3>3. \A d, e \in 0 .. m : d <= e => Below(d) \in SUBSET Below(e)
      BY <1>3
    <3> QED
      BY <3>1, <3>2, <3>3
  <2>3. \A T : T \subseteq D => \A i \in T : share[i] \in Nat /\ share[i] <= VSPACE_MAX
    BY <1>5
  <2> HIDE DEF share, Below, D, start
  <2>4. \A d : start(d) \in Nat
    <3> SUFFICES ASSUME NEW d PROVE start(d) \in Nat
      OBVIOUS
    <3> DEFINE B == Below(d)
    <3>1. IsFiniteSet(B) /\ \A i \in B : share[i] \in Nat /\ share[i] <= VSPACE_MAX
      BY <2>1, <2>3
    <3>2. start(d) = SumFunctionOnSet(share, B)
      BY <1>7
    <3> HIDE DEF B
    <3> QED
      BY <1>3, <3>1, <3>2, SumBounded
  <2>5. start(0) = 0 /\ start(m) = VSPACE_MAX - r
    <3>1. IsFiniteSet({}) /\ \A i \in {} : share[i] \in Int
      BY FS_EmptySet
    <3>2. SumFunctionOnSet(share, {}) = 0
      BY <3>1, SumIs
    <3>3. start(m) = SumFunctionOnSet(share, D)
      BY <1>7, <2>2
    <3>4. start(0) = 0
      BY <1>7, <2>2, <3>2
    <3> DEFINE u == SumFunctionOnSet(share, D)
    <3>5. u \in Int /\ r = VSPACE_MAX - u
      BY <1>6
    <3> HIDE DEF u, r
    <3>6. u = VSPACE_MAX - r
      BY <1>3, <3>5
    <3> QED
      BY <3>3, <3>4, <3>6 DEF u
  <2>6. ASSUME NEW d \in D PROVE start(d + 1) = start(d) + share[d]
    <3> DEFINE B == Below(d)
    <3>1. /\ IsFiniteSet(B) /\ d \notin B /\ share[d] \in Int
          /\ \A i \in B : share[i] \in Int
      BY <1>5, <2>1, <2>2, <2>3
    <3>2. start(d + 1) = SumFunctionOnSet(share, B \cup {d})
      BY <1>7, <2>2
    <3>3. start(d) = SumFunctionOnSet(share, B)
      BY <1>7
    <3> HIDE DEF B
    <3>4. start(d + 1) = share[d] + start(d)
      BY <3>1, <3>2, <3>3, SumAdd
    <3> QED
      BY <2>4, <3>1, <3>4
  <2>7. ASSUME NEW d \in 0 .. m, NEW e \in 0 .. m, d <= e PROVE start(d) <= start(e)
    <3> DEFINE A == Below(d)
               B == Below(e)
    <3>1. /\ IsFiniteSet(B) /\ A \in SUBSET B /\ IsFiniteSet(B \ A)
          /\ \A i \in B : share[i] \in Nat /\ share[i] <= VSPACE_MAX
      BY <2>1, <2>2, <2>3, <2>7, FS_Subset
    <3>2. start(d) = SumFunctionOnSet(share, A) /\ start(e) = SumFunctionOnSet(share, B)
      BY <1>7
    <3> HIDE DEF A, B
    <3>3. /\ \A i \in B : share[i] \in Int
          /\ \A i \in B \ A : share[i] \in Nat /\ share[i] <= VSPACE_MAX
      BY <3>1
    <3>4. start(e) = start(d) + SumFunctionOnSet(share, B \ A)
      BY <3>1, <3>2, <3>3, SumSplit
    <3>5. SumFunctionOnSet(share, B \ A) \in Nat
      BY <1>3, <3>1, <3>3, SumBounded
    <3> QED
      BY <2>4, <3>4, <3>5
  <2> QED
    BY <1>6, <2>4, <2>5, <2>6, <2>7
<1> HIDE DEF start, share, total, D, Below, r
<1>9. \A d \in D : /\ d + 1 \in D <=> d + 1 # m
                   /\ start(d + 1) <= end(d) /\ end(d) <= VSPACE_MAX
                   /\ end(d) - start(d) = share[d] + (IF d + 1 = m THEN r ELSE 0)
                   /\ start(d) < end(d)
  <2> TAKE d \in D
  <2>1. /\ d \in Nat /\ d < m /\ d + 1 \in 0 .. m /\ d \in 0 .. m
        /\ d + 1 \in D <=> d + 1 # m
    BY <1>3
  <2>2. /\ end(d) = IF d + 1 \in D THEN start(d + 1) ELSE VSPACE_MAX
        /\ start(d) \in Nat /\ start(d + 1) \in Nat /\ start(d + 1) = start(d) + share[d]
        /\ share[d] \in Nat /\ share[d] >= 1
    BY <1>5, <1>8, <2>1 DEF D
  <2>3. start(d + 1) <= VSPACE_MAX - r /\ VSPACE_MAX - r <= VSPACE_MAX /\ r \in Nat
    <3>1. m \in 0 .. m /\ d + 1 <= m
      BY <1>3, <2>1
    <3> QED
      BY <1>3, <1>8, <2>1, <3>1
  <2>4. d + 1 = m => start(d + 1) = VSPACE_MAX - r
    BY <1>8
  <2> HIDE DEF end
  <2> QED
    BY <1>3, <2>1, <2>2, <2>3, <2>4
<1>10. \A d, e \in D : d < e => end(d) <= start(e)
  <2> TAKE d, e \in D
  <2> HAVE d < e
  <2>1. d + 1 \in D /\ d + 1 \in 0 .. m /\ e \in 0 .. m /\ d + 1 <= e
    BY <1>3
  <2>2. end(d) = start(d + 1)
    BY <2>1 DEF D
  <2> QED
    BY <1>8, <2>1, <2>2
<1>11. /\ pc' = pc /\ disks' = added /\ capacity' = total /\ new_disks' = added
       /\ partitions' = [d \in D |-> end(d) - start(d)]
       /\ \A x \in Block : owner'[x] = CHOOSE d \in D : start(d) <= x /\ x < end(d)
       /\ owner' = [x \in Block |-> owner'[x]]
       /\ even_odd' = even_odd /\ sort_free' = sort_free
       /\ old_partitions' = old_partitions /\ last_low' = last_low
       /\ even' = even /\ last_complete' = last_complete
       /\ new_partitions' = new_partitions /\ free_space' = free_space
       /\ part' = part /\ free' = free /\ psize' = psize
  <2>1. /\ pc' = pc /\ disks' = added /\ capacity' = total /\ new_disks' = added
        /\ even_odd' = even_odd /\ sort_free' = sort_free
        /\ old_partitions' = old_partitions /\ last_low' = last_low
        /\ even' = even /\ last_complete' = last_complete
        /\ new_partitions' = new_partitions /\ free_space' = free_space
        /\ part' = part /\ free' = free /\ psize' = psize
    BY DEF CreatePartitions, collection, assimilation, total
  <2>2. partitions' = [d \in D |-> end(d) - start(d)]
    BY DEF CreatePartitions, D, start, total
  <2>3. owner' = [x \in Block |-> CHOOSE d \in D : start(d) <= x /\ x < end(d)]
    BY Zenon DEF CreatePartitions, D, start, total
  <2> HIDE DEF end
  <2>4. \A x \in Block : owner'[x] = CHOOSE d \in D : start(d) <= x /\ x < end(d)
    BY <2>3, Zenon
  <2>5. owner' = [x \in Block |-> owner'[x]]
    BY <2>3
  <2> QED
    BY <2>1, <2>2, <2>4, <2>5, Zenon
<1>12. ASSUME NEW x \in Block
       PROVE  /\ owner'[x] \in D
              /\ \A d \in D : owner'[x] = d <=> start(d) <= x /\ x < end(d)
  <2>1. x \in Nat /\ x < VSPACE_MAX
    BY <1>3 DEF Block
  <2>2. PICK d \in D : start(d) <= x /\ x < end(d)
    <3> DEFINE S == {e \in D : start(e) <= x}
    <3>1. S \subseteq 0 .. m /\ 0 \in S
      BY <1>3, <1>8, <2>1
    <3> HIDE DEF S
    <3>2. PICK d \in S : \A e \in S : e <= d
      BY <1>3, <3>1, GreatestElement
    <3>3. d \in D /\ start(d) <= x /\ d \in Nat
      BY <1>3, <3>2 DEF S
    <3>4. x < end(d)
      <4>1. CASE d + 1 \in D
        <5>1. d + 1 \notin S
          BY <3>2, <3>3, <4>1
        <5>2. ~(start(d + 1) <= x)
          BY <4>1, <5>1 DEF S
        <5>3. start(d + 1) \in Nat /\ end(d) = start(d + 1)
          BY <1>3, <1>8, <4>1 DEF D
        <5> QED
          BY <2>1, <5>2, <5>3
      <4>2. CASE d + 1 \notin D
        BY <2>1, <4>2 DEF D
      <4> QED
        BY <4>1, <4>2
    <3> QED
      BY <3>3, <3>4
  <2>3. \A e \in D : start(e) <= x /\ x < end(e) => e = d
    <3> TAKE e \in D
    <3> HAVE start(e) <= x /\ x < end(e)
    <3>1. /\ d \in Nat /\ e \in Nat
          /\ start(d) \in Nat /\ start(e) \in Nat /\ end(d) \in Int /\ end(e) \in Int
      BY <1>3, <1>8 DEF D
    <3>2. d < e => end(d) <= start(e)
      BY <1>10
    <3>3. e < d => end(e) <= start(d)
      BY <1>10
    <3> HIDE DEF end
    <3> QED
      BY <2>1, <2>2, <3>1, <3>2, <3>3
  <2>4. owner'[x] = CHOOSE e \in D : start(e) <= x /\ x < end(e)
    BY <1>11
  <2> HIDE DEF end
  <2>5. owner'[x] = d
    BY <2>2, <2>3, <2>4
  <2> QED
    BY <2>2, <2>3, <2>5
<1>13. ASSUME NEW d \in D
       PROVE  /\ partitions'[d] = Cardinality({x \in Block : owner'[x] = d})
              /\ partitions'[d] \in 0 .. VSPACE_MAX /\ partitions'[d] > 0
              /\ partitions'[d] - Share(added[d], total) \in 0 .. m - 1
  <2> DEFINE a == start(d)
             b == end(d)
  <2>1. /\ a \in Nat /\ b \in Nat /\ a < b /\ b <= VSPACE_MAX
        /\ b - a = share[d] + (IF d + 1 = m THEN r ELSE 0)
        /\ share[d] = Share(added[d], total) /\ share[d] \in Nat /\ r \in 0 .. m - 1
    <3>1. d \in 0 .. m /\ start(d) \in Nat
      BY <1>3, <1>8
    <3>2. end(d) \in Int
      BY <1>3, <1>8 DEF D
    <3>3. /\ start(d) < end(d) /\ end(d) <= VSPACE_MAX
          /\ end(d) - start(d) = share[d] + (IF d + 1 = m THEN r ELSE 0)
      BY <1>9
    <3> HIDE DEF end
    <3> QED
      BY <1>3, <1>5, <1>8, <3>1, <3>2, <3>3
  <2>2. {x \in Block : owner'[x] = d} = a .. b - 1
    <3>1. \A x \in Block : owner'[x] = d <=> a <= x /\ x < b
      BY <1>12
    <3> HIDE DEF a, b
    <3>2. \A x : x \in a .. b - 1 <=> x \in Block /\ a <= x /\ x < b
      BY <1>3, <2>1 DEF Block
    <3> QED
      BY <3>1, <3>2
  <2>3. partitions'[d] = b - a
    BY <1>11
  <2> HIDE DEF a, b
  <2>4. Cardinality(a .. b - 1) = b - a
    <3>1. Cardinality(a .. b - 1) = IF a > b - 1 THEN 0 ELSE (b - 1) - a + 1
      BY <2>1, FS_Interval
    <3> QED
      BY <2>1, <3>1
  <2>5. b - a \in 0 .. VSPACE_MAX /\ b - a > 0
    BY <1>3, <2>1
  <2>6. (b - a) - Share(added[d], total) \in 0 .. m - 1
    BY <1>3, <2>1
  <2> QED
    BY <2>2, <2>3, <2>4, <2>5, <2>6
<1> HIDE DEF end
<1>14. /\ disks' \in [D -> 1 .. MaxCapacity] /\ DOMAIN disks' = D
       /\ partitions' \in [D -> 0 .. VSPACE_MAX]
       /\ owner' \in [Block -> Id]
       /\ capacity' = SumFunction(disks') /\ capacity' \in 0 .. VSPACE_MAX
       /\ D \in {0 .. n - 1 : n \in 0 .. MaxDisks}
  <2>1. disks' \in [D -> 1 .. MaxCapacity] /\ DOMAIN disks' = D
    BY <1>2, <1>11
  <2>2. partitions' \in [D -> 0 .. VSPACE_MAX]
    BY <1>11, <1>13
  <2>3. owner' \in [Block -> Id]
    <3>1. \A d \in D : d \in Id
      BY <1>3 DEF Id
    <3> QED
      BY <1>11, <1>12, <3>1
  <2>4. capacity' = SumFunction(disks') /\ capacity' \in 0 .. VSPACE_MAX
    BY <1>3, <1>4, <1>11 DEF total
  <2>5. D \in {0 .. n - 1 : n \in 0 .. MaxDisks}
    BY <1>2, <1>3
  <2> QED
    BY <2>1, <2>2, <2>3, <2>4, <2>5
<1>15. TypeOK'
  <2>1. TypeOK
    BY <1>1
  <2> QED
    BY <1>11, <1>14, <2>1 DEF TypeOK, Block
<1>16. Members'
  <2>1. Old' = D
    BY <1>14 DEF Old
  <2>2. \E n \in 0 .. MaxDisks : D = 0 .. n - 1
    BY <1>14
  <2> QED
    BY <1>14, <2>1, <2>2 DEF Members
<1>17. TableMatchesTree'
  <2>1. \A d \in D : partitions'[d] = Cardinality(BlocksOf(d)') /\ partitions'[d] > 0
    BY <1>13 DEF BlocksOf, Block
  <2> QED
    BY <1>12, <1>14, <2>1 DEF TableMatchesTree, Block
<1>18. FairShares'
  BY <1>3, <1>11, <1>13, <1>14 DEF FairShares, Share
<1>19. /\ Requests' /\ KeepsShare' /\ Collecting' /\ Reusing' /\ FreeSpaceMeetsDemand'
  BY <1>1, <1>11 DEF Requests, KeepsShare, Collecting, Reusing, FreeSpaceMeetsDemand
<1>20. Done' /\ Intervals(free_space)'
  BY <1>1, <1>11 DEF Done, Intervals
<1> QED
  BY <1>15, <1>16, <1>17, <1>18, <1>19, <1>20 DEF IInv

--------------------------------------------------------------------------------
(* The theorems.                                                           *)

\* The constructor has no disks and owes nothing.
LEMMA InitKeeps ==
  ASSUME Init
  PROVE  IInv
<1>1. /\ pc = "idle" /\ disks = <<>> /\ partitions = <<>> /\ capacity = 0
      /\ owner = [x \in Block |-> 0] /\ old_partitions = <<>> /\ new_partitions = <<>>
      /\ last_low = 0 /\ free_space = <<>> /\ even = FALSE /\ last_complete = FALSE
      /\ part = 1 /\ free = 1 /\ psize = 0 /\ even_odd \in BOOLEAN /\ sort_free \in BOOLEAN
  BY DEF Init
<1>2. VSPACE_MAX \in Nat /\ MaxDisks \in Nat /\ MaxDisks >= 1
  BY SpaceAssumption, BoundAssumption
<1>3. /\ DOMAIN <<>> = {} /\ \A S : <<>> \in [{} -> S] /\ <<>> \in Seq(S)
  OBVIOUS
<1>4. 0 .. 0 - 1 = {} /\ 0 \in 0 .. MaxDisks /\ 0 \in 0 .. VSPACE_MAX /\ 0 \in Id
  BY <1>2 DEF Id
<1>5. SumFunction(<<>>) = 0
  <2>1. IsFiniteSet({}) /\ \A i \in {} : <<>>[i] \in Int
    BY FS_EmptySet
  <2> DEFINE e == <<>>
  <2> HIDE DEF e
  <2>2. (\A i \in {} : e[i] \in Int) => SumFunctionOnSet(e, {}) = 0
    BY <2>1, SumIs
  <2> QED
    BY <1>3, <2>2 DEF SumFunction, e
<1>6. TypeOK
  BY <1>1, <1>2, <1>3, <1>4 DEF TypeOK
<1>7. Members
  BY <1>1, <1>3, <1>4, <1>5 DEF Members, Old
<1>8. TableMatchesTree /\ FairShares
  BY <1>1, <1>3 DEF TableMatchesTree, FairShares
<1>9. /\ Requests /\ KeepsShare /\ Intervals(free_space) /\ Collecting /\ Reusing
      /\ FreeSpaceMeetsDemand /\ Done
  BY <1>1, <1>3
     DEF Requests, KeepsShare, Intervals, Collecting, Reusing, FreeSpaceMeetsDemand, Done
<1> QED
  BY <1>6, <1>7, <1>8, <1>9 DEF IInv

\* A step that changes nothing
LEMMA StutterKeeps ==
  ASSUME IInv, UNCHANGED vars
  PROVE  IInv'
<1>1. /\ pc' = pc /\ disks' = disks /\ partitions' = partitions /\ capacity' = capacity
      /\ owner' = owner /\ even_odd' = even_odd /\ sort_free' = sort_free
      /\ new_disks' = new_disks /\ old_partitions' = old_partitions
      /\ last_low' = last_low /\ even' = even /\ last_complete' = last_complete
      /\ new_partitions' = new_partitions /\ free_space' = free_space
      /\ part' = part /\ free' = free /\ psize' = psize
  BY DEF vars, members, arguments, collection, assimilation
<1>2. TypeOK' /\ Members' /\ TableMatchesTree' /\ FairShares' /\ Requests'
  <2>1. TypeOK'
    BY <1>1 DEF IInv, TypeOK, Block
  <2>2. Members' /\ FairShares'
    BY <1>1 DEF IInv, Members, FairShares, Old, Share
  <2>3. TableMatchesTree'
    BY <1>1 DEF IInv, TableMatchesTree, BlocksOf, Block
  <2>4. Requests'
    BY <1>1 DEF IInv, Requests, Old, New, Total, Share
  <2> QED
    BY <2>1, <2>2, <2>3, <2>4
<1>3. KeepsShare' /\ Intervals(free_space)' /\ Done'
  BY <1>1 DEF IInv, KeepsShare, Intervals, Done, Kept, Block, IsFree, Old
<1>4. Collecting' /\ Reusing' /\ FreeSpaceMeetsDemand'
  BY <1>1
     DEF IInv, Collecting, Reusing, FreeSpaceMeetsDemand, Block, BlocksOf, Rest, IsFree, Old,
         New, Sizes
<1> QED
  BY <1>2, <1>3, <1>4 DEF IInv

\* The inductive invariant holds.
THEOREM Invariance == Spec => []IInv
<1>1. Init => IInv
  BY InitKeeps
<1>2. IInv /\ [Next]_vars => IInv'
  <2> SUFFICES ASSUME IInv, [Next]_vars PROVE IInv'
    OBVIOUS
  <2>1. ASSUME NEW added \in NewDisks, CreatePartitions(added) PROVE IInv'
    BY <2>1, CreatePartitionsKeeps
  <2>2. ASSUME NEW added \in NewDisks, AddPartitions(added) PROVE IInv'
    BY <2>2, AddPartitionsKeeps
  <2>3. CASE SkipInterval
    BY <2>3, SkipIntervalKeeps
  <2>4. CASE TakeInterval
    BY <2>4, TakeIntervalKeeps
  <2>5. CASE CutInterval
    BY <2>5, CutIntervalKeeps
  <2>6. CASE StartReuse
    BY <2>6, StartReuseKeeps
  <2>7. CASE SkipUsed
    BY <2>7, SkipUsedKeeps
  <2>8. CASE AssimilatePartially
    BY <2>8, AssimilatePartiallyKeeps
  <2>9. CASE AssimilateCompletely
    BY <2>9, AssimilateCompletelyKeeps
  <2>10. CASE NextPartition
    BY <2>10, NextPartitionKeeps
  <2>11. CASE UpdateMembers
    BY <2>11, UpdateMembersKeeps
  <2>12. CASE UNCHANGED vars
    BY <2>12, StutterKeeps
  <2> QED
    BY <2>1, <2>2, <2>3, <2>4, <2>5, <2>6, <2>7, <2>8, <2>9, <2>10, <2>11, <2>12
       DEF Next, Collect, Reuse
<1> QED
  BY <1>1, <1>2, PTL DEF Spec

\* No count of blocks, which the code keeps unsigned, is ever negative, and no list or
\* table is read outside of its bounds.
THEOREM TypeCorrect == Spec => []TypeOK
<1>1. IInv => TypeOK
  BY DEF IInv
<1> QED
  BY <1>1, Invariance, PTL

\* Between two calls of setDisks every disk owns as many blocks as its entry in the table
\* of partitions says, at least one, and every block is owned by a disk.
THEOREM TableMatches == Spec => []TableMatchesTree
<1>1. IInv => TableMatchesTree
  BY DEF IInv
<1> QED
  BY <1>1, Invariance, PTL

\* Every disk has its share of the blocks, and the rounding errors of all the calls never
\* pile up to as much as one block for each disk.
THEOREM SharesAreFair == Spec => []FairShares
<1>1. IInv => FairShares
  BY DEF IInv
<1> QED
  BY <1>1, Invariance, PTL

\* What is left of the free space is what the partitions still to fill need.
THEOREM DemandIsMet == Spec => []FreeSpaceMeetsDemand
<1>1. IInv => FreeSpaceMeetsDemand
  BY DEF IInv
<1> QED
  BY <1>1, Invariance, PTL

\* No two free intervals overlap, and none of them holds a block handed out.
THEOREM FreeIsOld == Spec => []FreeSpaceIsOld
<1>1. IInv => FreeSpaceIsOld
  <2> SUFFICES ASSUME IInv PROVE FreeSpaceIsOld
    OBVIOUS
  <2>1. Intervals(free_space) /\ TypeOK
    BY DEF IInv
  <2>2. ASSUME NEW m \in DOMAIN free_space,
               NEW x \in free_space[m].first .. free_space[m].second - 1
        PROVE  owner[x] \in Old
    <3>1. /\ free_space[m].first \in Nat /\ free_space[m].second \in Nat
          /\ free_space[m].second <= VSPACE_MAX /\ VSPACE_MAX \in Nat
      <4>1. free_space \in Seq(Interval) /\ VSPACE_MAX \in Nat
        BY <2>1, SpaceAssumption DEF TypeOK, Interval
      <4>2. free_space[m].first \in 0 .. VSPACE_MAX /\ free_space[m].second \in 0 .. VSPACE_MAX
        BY <4>1, SizesIs
      <4> QED
        BY <4>1, <4>2
    <3>2. x \in Block /\ free_space[m].first <= x /\ x < free_space[m].second
      BY <3>1 DEF Block
    <3>3. IsFree(x)
      BY <3>2 DEF IsFree
    <3>4. CASE pc = "collect"
      BY <3>2, <3>4 DEF IInv, Collecting
    <3>5. CASE pc = "reuse"
      BY <3>2, <3>3, <3>5 DEF IInv, Reusing
    <3>6. pc # "idle"
      BY <3>1, <3>2 DEF IInv, Done
    <3> QED
      BY <2>1, <3>4, <3>5, <3>6 DEF TypeOK
  <2> QED
    BY <2>1, <2>2 DEF FreeSpaceIsOld, Intervals, Old
<1> QED
  BY <1>1, Invariance, PTL

\* The blocks handed out in a step were an old disk's, and go to a new one.
LEMMA GivenAreOld ==
  ASSUME IInv, Assimilating, NEW low, low = free_space[free].first,
         NEW high \in Int, high <= free_space[free].second,
         owner' = [x \in Block |-> IF low <= x /\ x < high THEN new_partitions[part].pid
                                                            ELSE owner[x]],
         NEW x \in Block, owner'[x] # owner[x]
  PROVE  owner[x] \in Old /\ owner'[x] \notin Old
<1>1. low <= x /\ x < high /\ owner'[x] = new_partitions[part].pid
  OBVIOUS
<1>2. pc = "reuse" /\ free <= Len(free_space)
  BY DEF Assimilating
<1>3. /\ free \in DOMAIN free_space /\ part \in DOMAIN new_partitions
      /\ free_space[free].second \in Nat /\ Old \cap New = {}
  BY <1>2, ReuseFacts
<1>4. x \in Int
  BY DEF Block
<1>5. IsFree(x)
  BY <1>1, <1>3, <1>4 DEF IsFree
<1>6. owner[x] \in Old /\ new_partitions[part].pid \in New
  BY <1>2, <1>3, <1>5 DEF IInv, Reusing, Requests
<1> QED
  BY <1>1, <1>3, <1>6

\* No step takes a block from a new disk, or gives one to an old disk: adding disks moves
\* no data between the disks that were there, and none twice.
THEOREM MovesOnly == Spec => MovesOnlyToNewDisks
<1> DEFINE Moves == \A x \in Block : \/ owner'[x] = owner[x]
                                     \/ disks = <<>>
                                     \/ owner[x] \in Old /\ owner'[x] \notin Old
<1>1. IInv /\ [Next]_vars => [Moves]_vars
  <2> SUFFICES ASSUME IInv, Next PROVE Moves
    OBVIOUS
  <2>1. ASSUME NEW added \in NewDisks, CreatePartitions(added) PROVE Moves
    BY <2>1 DEF CreatePartitions
  <2>2. ASSUME NEW added \in NewDisks, AddPartitions(added) PROVE Moves
    BY <2>2 DEF AddPartitions
  <2>3. CASE Collect
    BY <2>3 DEF Collect, SkipInterval, TakeInterval, CutInterval, StartReuse
  <2>4. CASE SkipUsed \/ NextPartition \/ UpdateMembers
    BY <2>4 DEF SkipUsed, NextPartition, UpdateMembers
  <2>5. CASE AssimilatePartially
    <3> DEFINE low == free_space[free].first
               second == free_space[free].second
    <3>1. Assimilating /\ pc = "reuse" /\ free <= Len(free_space) /\ second - low > psize
      BY <2>5 DEF AssimilatePartially, Assimilating, isize
    <3>2. low \in Nat /\ second \in Nat /\ psize \in Nat
      BY <3>1, ReuseFacts
    <3>3. owner' = [x \in Block |-> IF low <= x /\ x < low + psize THEN new_partitions[part].pid
                                                                 ELSE owner[x]]
      <4>1. Tree!Insert(low, low + psize, new_partitions[part].pid)
        BY <2>5 DEF AssimilatePartially
      <4> HIDE DEF low
      <4> QED
        BY <4>1 DEF Tree!Insert, Tree!Span, Block
    <3> DEFINE high == low + psize
    <3>4. high \in Int /\ high <= second
      BY <3>1, <3>2
    <3> HIDE DEF high
    <3> QED
      BY <3>1, <3>3, <3>4, GivenAreOld DEF high
  <2>6. CASE AssimilateCompletely
    <3> DEFINE low == free_space[free].first
               high == free_space[free].second
    <3>1. Assimilating /\ pc = "reuse" /\ free <= Len(free_space)
      BY <2>6 DEF AssimilateCompletely, Assimilating
    <3>2. high \in Int /\ high <= high
      BY <3>1, ReuseFacts
    <3>3. owner' = [x \in Block |-> IF low <= x /\ x < high THEN new_partitions[part].pid
                                                          ELSE owner[x]]
      BY <2>6 DEF AssimilateCompletely, Tree!Insert, Tree!Span, Block
    <3> QED
      BY <3>1, <3>2, <3>3, GivenAreOld
  <2> QED
    BY <2>1, <2>2, <2>3, <2>4, <2>5, <2>6 DEF Next, Reuse
<1> QED
  BY <1>1, Invariance, PTL DEF Spec, MovesOnlyToNewDisks, Old

===============================================================================
