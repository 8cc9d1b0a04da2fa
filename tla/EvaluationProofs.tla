--------------------------- MODULE EvaluationProofs ---------------------------
(***************************************************************************)
(* For every number of threads, every list of distributors and every       *)
(* number of extents, the tables of all threads add up to what all extents *)
(* say, and where copies and disks correspond no strategy changes more     *)
(* than it moves.  IInv says that the tables of every thread hold the      *)
(* extents it has placed, and that the shares of the threads divide the    *)
(* extents.                                                                *)
(***************************************************************************)
EXTENDS Evaluation, NumberFacts

--------------------------------------------------------------------------------
(* What is counted, and the inductive invariant.                           *)

\* The copies counted, and those moved, in a set of extents
UsedIn(id, d, S) == SumFunction([i \in S |-> Counted(id, d, i)])
MovesIn(id, byOrder, S) == SumFunction([i \in S |-> MovesTo(id, i, byOrder)])

States == {"new", "running", "ended", "failed"}

\* A thread stays in the extents it was given, in their order, and ends behind the last.
Position(t) ==
  /\ thread[t].last = First(t) + Share(t)
  /\ thread[t].next \in First(t) .. First(t) + Share(t)
  /\ thread[t].state = "new" => thread[t].next = First(t)
  /\ thread[t].state = "ended" => thread[t].next = First(t) + Share(t)
  /\ thread[t].state = "failed" => program = "fileDistTester" /\ threads > 1

\* The extents each thread has placed, and the tables of threads that placed those of P
Placed == [t \in Threads |-> First(t) .. thread[t].next - 1]

UsedFor(P) ==
  [t \in Threads |-> [id \in AllIds |-> [d \in Disks(id) |-> UsedIn(id, d, P[t])]]]
MovedFor(P) ==
  [t \in Threads |-> [id \in AllIds |->
    [with |-> MovesIn(id, TRUE, P[t]), without |-> MovesIn(id, FALSE, P[t])]]]

\* A thread's tables are those of the extents it has placed.
TablesAreOfPlaced == used = UsedFor(Placed) /\ moved = MovedFor(Placed)

\* Main starts all threads in turn, and then waits for them in turn.
Turns ==
  /\ pc = "starting" =>
       /\ turn \in Threads
       /\ \A t \in Threads : t >= turn => thread[t].state = "new"
  /\ pc = "joining" =>
       /\ turn \in Threads
       /\ \A t \in Threads : t < turn => thread[t].state \in {"ended", "failed"}
  /\ pc = "done" =>
       /\ threads > 0
       /\ \A t \in Threads : thread[t].state \in {"ended", "failed"}

\* What the caller chose
Parameters ==
  /\ list \in Lists /\ (program # "compare" => Len(list) = 1)
  /\ threads \in Nat /\ extents \in 1 .. MaxExtents

IInv ==
  /\ Parameters
  /\ pc = "start" => turn = 0
  /\ pc # "start" =>
       /\ thread \in [Threads -> [state : States, next : Nat, last : Nat]]
       /\ \A t \in Threads : Position(t)
       /\ TablesAreOfPlaced
  /\ Turns

--------------------------------------------------------------------------------
(* The split of the extents.                                               *)

\* A sum over the extents of a set, with the function given for them or for more
LEMMA SumOverIs ==
  ASSUME NEW f, NEW S, DOMAIN f = S
  PROVE  SumFunction(f) = SumFunctionOnSet(f, S)
BY DEF SumFunction

\* Extents of the threads before thread n
Before(n) == SumFunction([u \in 0 .. n - 1 |-> Share(u)])

\* The sums follow each other.
LEMMA BeforeIs ==
  ASSUME threads \in Nat \ {0}, extents \in Nat
  PROVE  /\ Before(0) = 0
         /\ \A n \in Nat : Share(n) \in Nat /\ Before(n) \in Nat
                             /\ Before(n + 1) = Before(n) + Share(n)
<1>1. extents \div threads \in Nat /\ extents % threads \in Nat
  BY Division
<1>2. \A n \in Nat : Share(n) \in Nat
  <2> DEFINE q == extents \div threads
             r == extents % threads
  <2> HIDE DEF q, r
  <2>1. q \in Nat /\ r \in Nat
    BY <1>1 DEF q, r
  <2>2. \A n \in Nat : Share(n) = q + (IF n < r THEN 1 ELSE 0)
    BY DEF Share, q, r
  <2> QED
    BY <2>1, <2>2
<1> DEFINE f(n) == [u \in 0 .. n - 1 |-> Share(u)]
<1>3. ASSUME NEW n \in Nat
      PROVE  /\ Before(n) = SumFunctionOnSet(f(n), 0 .. n - 1)
             /\ IsFiniteSet(0 .. n - 1)
             /\ \A u \in 0 .. n - 1 : f(n)[u] \in Nat /\ f(n)[u] = Share(u)
  <2>1. Before(n) = SumFunctionOnSet(f(n), 0 .. n - 1)
    BY SumOverIs DEF Before
  <2>2. IsFiniteSet(0 .. n - 1)
    <3>1. n - 1 \in Int
      OBVIOUS
    <3> QED
      BY <3>1, FS_Interval
  <2> QED
    BY <1>2, <2>1, <2>2
<1>4. Before(0) = 0
  <2>1. 0 .. 0 - 1 = {}
    OBVIOUS
  <2> HIDE DEF f
  <2> QED
    BY <1>3, <2>1, SumIs
<1>5. ASSUME NEW n \in Nat PROVE Before(n) \in Nat
  <2> HIDE DEF f
  <2> QED
    BY <1>3, SumOfNaturals
<1>6. ASSUME NEW n \in Nat PROVE Before(n + 1) = Before(n) + Share(n)
  <2> DEFINE S == 0 .. (n + 1) - 1
             g == f(n + 1)
             h == f(n)
  <2>1. Before(n + 1) = SumFunctionOnSet(g, S) /\ IsFiniteSet(S)
    BY <1>3
  <2>2. S \ {n} = 0 .. n - 1 /\ n \in S
    OBVIOUS
  <2>3. \A u \in S : g[u] \in Int /\ g[u] = Share(u)
    BY <1>2
  <2>4. \A u \in S \ {n} : h[u] = g[u] /\ h[u] \in Int
    BY <1>2
  <2>5. Before(n) = SumFunctionOnSet(h, S \ {n}) /\ IsFiniteSet(S \ {n})
    BY <1>3, <2>2
  <2>6. Before(n) \in Nat /\ Share(n) \in Nat
    BY <1>2, <1>5
  <2> HIDE DEF S, g, h
  <2>7. SumFunctionOnSet(g, S) = g[n] + SumFunctionOnSet(g, S \ {n})
    BY <2>1, <2>2, <2>3, SumIs
  <2>8. SumFunctionOnSet(h, S \ {n}) = SumFunctionOnSet(g, S \ {n})
    BY <2>4, <2>5, SumSame
  <2> QED
    BY <2>1, <2>2, <2>3, <2>5, <2>6, <2>7, <2>8
<1> QED
  BY <1>2, <1>4, <1>5, <1>6

\* All threads together get all extents.
LEMMA SharesAreAll ==
  ASSUME threads \in Nat \ {0}, extents \in Nat
  PROVE  /\ Before(threads) = extents
         /\ \A n \in 0 .. threads : Before(n) <= extents
<1> DEFINE q == extents \div threads
           r == extents % threads
           Up(n) == IF n < r THEN n ELSE r
           Good == {n \in Nat : Before(n) = n * q + Up(n)}
<1>1. q \in Nat /\ r \in 0 .. threads - 1 /\ extents = threads * q + r
  <2>1. extents \in Int /\ extents \div threads \in Nat
    BY Division
  <2>2. extents % threads \in 0 .. threads - 1
    BY <2>1, Division
  <2>3. extents = threads * (extents \div threads) + (extents % threads)
    BY <2>1, Division
  <2> QED
    BY <2>1, <2>2, <2>3
<1>2. \A n \in Nat : Share(n) = q + (IF n < r THEN 1 ELSE 0)
  BY DEF Share
<1> HIDE DEF q, r
<1>3. 0 \in Good
  BY <1>1, BeforeIs
<1>4. ASSUME NEW n \in Good PROVE n + 1 \in Good
  <2>1. n \in Nat /\ Before(n) = n * q + Up(n)
    OBVIOUS
  <2>2. Before(n + 1) = Before(n) + Share(n)
    BY <2>1, BeforeIs
  <2>3. (n + 1) * q = n * q + q /\ n * q \in Nat
    BY <1>1, <2>1
  <2> DEFINE m == n * q
  <2> HIDE DEF m
  <2>4. Before(n + 1) = m + q + Up(n) + (IF n < r THEN 1 ELSE 0) /\ m \in Nat
    BY <1>1, <1>2, <2>1, <2>2, <2>3 DEF m
  <2>5. Before(n + 1) = m + q + Up(n + 1)
    BY <1>1, <2>1, <2>4
  <2>6. Before(n + 1) = (n + 1) * q + Up(n + 1)
    BY <2>3, <2>5 DEF m
  <2> HIDE DEF Up
  <2> QED
    BY <2>1, <2>6
<1>5. Good = Nat
  <2>1. Good \in SUBSET Nat
    OBVIOUS
  <2> HIDE DEF Good
  <2> QED
    BY <1>3, <1>4, <2>1, InductionSet
<1>6. Before(threads) = threads * q + Up(threads)
  BY <1>5
<1>7. Up(threads) = r
  BY <1>1
<1>8. Before(threads) = extents
  BY <1>1, <1>6, <1>7
<1>9. ASSUME NEW n \in 0 .. threads PROVE Before(n) <= extents
  <2> DEFINE More == {m \in Nat : Before(n) <= Before(n + m)}
  <2>1. 0 \in More
    BY BeforeIs
  <2>2. ASSUME NEW m \in More PROVE m + 1 \in More
    <3>1. Before((n + m) + 1) = Before(n + m) + Share(n + m)
      BY BeforeIs
    <3>2. Share(n + m) \in Nat /\ Before(n + m) \in Nat /\ Before(n) \in Nat
      BY BeforeIs
    <3>3. Before((n + m) + 1) = Before(n + (m + 1))
      OBVIOUS
    <3> QED
      BY <3>1, <3>2, <3>3
  <2>3. More = Nat
    <3>1. More \in SUBSET Nat
      OBVIOUS
    <3> HIDE DEF More
    <3> QED
      BY <2>1, <2>2, <3>1, InductionSet
  <2>4. threads - n \in More
    <3>1. threads - n \in Nat
      OBVIOUS
    <3> HIDE DEF More
    <3> QED
      BY <2>3, <3>1
  <2>5. n + (threads - n) = threads
    OBVIOUS
  <2> QED
    BY <1>8, <2>4, <2>5
<1> QED
  BY <1>8, <1>9

\* The sums over the parts add up to the sum over all extents.
LEMMA SumOfParts ==
  ASSUME threads \in Nat \ {0}, extents \in Nat, NEW f, \A j \in 0 .. extents - 1 : f[j] \in Nat,
         NEW g, \A t \in Threads :
                  g[t] = SumFunctionOnSet(f, Before(t) .. Before(t) + Share(t) - 1)
  PROVE  /\ SumFunctionOnSet(g, Threads) = SumFunctionOnSet(f, 0 .. extents - 1)
         /\ \A t \in Threads : Before(t) + Share(t) <= extents /\ g[t] \in Nat
<1> DEFINE F(S) == SumFunctionOnSet(f, S)
           G(n) == SumFunctionOnSet(g, 0 .. n - 1)
           Upto(n) == 0 .. Before(n) - 1
           Part(t) == Before(t) .. Before(t) + Share(t) - 1
           Good == {n \in Nat : n <= threads => G(n) = F(Upto(n))}
<1>1. \A n \in Nat : Before(n) \in Nat /\ Share(n) \in Nat
                       /\ Before(n + 1) = Before(n) + Share(n)
  BY BeforeIs
<1>2. \A n \in 0 .. threads : Before(n) <= extents
  BY SharesAreAll
<1>3. ASSUME NEW m \in Int, NEW n \in Int, m >= 0, n <= extents - 1
      PROVE  /\ IsFiniteSet(m .. n)
             /\ \A j \in m .. n : f[j] \in Nat
  <2>1. IsFiniteSet(m .. n)
    BY FS_Interval
  <2>2. ASSUME NEW j \in m .. n PROVE j \in 0 .. extents - 1
    <3>1. j \in Int /\ m <= j /\ j <= n
      OBVIOUS
    <3> QED
      BY <1>3, <3>1
  <2> QED
    BY <2>1, <2>2
<1>4. ASSUME NEW t \in Threads
      PROVE  /\ t \in Nat /\ t + 1 \in 0 .. threads
             /\ Before(t) + Share(t) <= extents /\ g[t] = F(Part(t)) /\ g[t] \in Nat
  <2>1. t \in Nat /\ t + 1 \in 0 .. threads
    BY DEF Threads
  <2>2. Before(t) + Share(t) <= extents
    BY <1>1, <1>2, <2>1
  <2>3. g[t] = F(Part(t))
    OBVIOUS
  <2>4. IsFiniteSet(Part(t)) /\ \A j \in Part(t) : f[j] \in Nat
    <3> DEFINE m == Before(t)
               n == Before(t) + Share(t) - 1
    <3>1. m \in Int /\ n \in Int /\ m >= 0 /\ n <= extents - 1
      <4>1. Before(t) \in Nat /\ Share(t) \in Nat
        BY <1>1, <2>1
      <4> QED
        BY <2>2, <4>1
    <3> HIDE DEF m, n
    <3>2. IsFiniteSet(m .. n) /\ \A j \in m .. n : f[j] \in Nat
      BY <1>3, <3>1
    <3> QED
      BY <3>2 DEF m, n
  <2>5. F(Part(t)) \in Nat
    <3> HIDE DEF Part
    <3> QED
      BY <2>4, SumOfNaturals
  <2> QED
    BY <2>1, <2>2, <2>3, <2>5
<1>5. 0 \in Good
  <2>1. 0 .. 0 - 1 = {} /\ Upto(0) = {}
    BY BeforeIs
  <2>2. SumFunctionOnSet(g, {}) = 0 /\ SumFunctionOnSet(f, {}) = 0
    BY FS_EmptySet, SumIs
  <2> QED
    BY <2>1, <2>2
<1>6. ASSUME NEW n \in Good PROVE n + 1 \in Good
  <2> SUFFICES ASSUME n + 1 <= threads PROVE G(n + 1) = F(Upto(n + 1))
    OBVIOUS
  <2>1. n \in Nat /\ n \in Threads /\ G(n) = F(Upto(n))
    BY DEF Threads
  <2>2. G(n + 1) = g[n] + G(n)
    <3> DEFINE S == 0 .. (n + 1) - 1
    <3>1. S \ {n} = 0 .. n - 1 /\ n \in S /\ \A t \in S : t \in Threads
      BY <2>1 DEF Threads
    <3>2. IsFiniteSet(S)
      <4>1. (n + 1) - 1 \in Int
        BY <2>1
      <4> QED
        BY <4>1, FS_Interval
    <3>3. \A t \in S : g[t] \in Int
      <4> HIDE DEF S
      <4> QED
        BY <1>4, <3>1
    <3>4. SumFunctionOnSet(g, S) = g[n] + SumFunctionOnSet(g, S \ {n})
      <4> HIDE DEF S
      <4> QED
        BY <3>1, <3>2, <3>3, SumIs
    <3> QED
      BY <3>1, <3>4
  <2>3. F(Upto(n + 1)) = F(Upto(n)) + F(Part(n))
    <3> DEFINE S == Upto(n + 1)
               T == Upto(n)
    <3>1. T \in SUBSET S /\ S \ T = Part(n)
      <4> DEFINE a == Before(n)
                 b == Share(n)
      <4>1. a \in Nat /\ b \in Nat /\ Before(n + 1) = a + b
        BY <1>1, <2>1
      <4> HIDE DEF a, b
      <4>2. 0 .. a - 1 \in SUBSET (0 .. (a + b) - 1)
        BY <4>1
      <4>3. (0 .. (a + b) - 1) \ (0 .. a - 1) = a .. a + b - 1
        BY <4>1
      <4> QED
        BY <4>1, <4>2, <4>3 DEF a, b
    <3>2. IsFiniteSet(S) /\ \A j \in S : f[j] \in Int
      <4>1. Before(n + 1) - 1 \in Int /\ Before(n + 1) - 1 <= extents - 1
        <5>1. n + 1 \in 0 .. threads /\ n + 1 \in Nat
          BY <2>1
        <5>2. Before(n + 1) \in Nat /\ Before(n + 1) <= extents
          BY <1>1, <1>2, <5>1
        <5> QED
          BY <5>2
      <4> DEFINE b == Before(n + 1) - 1
      <4> HIDE DEF b
      <4>2. IsFiniteSet(0 .. b) /\ \A j \in 0 .. b : f[j] \in Nat
        BY <1>3, <4>1 DEF b
      <4> QED
        BY <4>2 DEF b
    <3> HIDE DEF S, T, Part
    <3>3. SumFunctionOnSet(f, S) = SumFunctionOnSet(f, T) + SumFunctionOnSet(f, S \ T)
      BY <3>1, <3>2, SumSplit
    <3> QED
      BY <3>1, <3>3 DEF S, T
  <2>4. G(n) \in Int /\ g[n] \in Int
    <3>1. F(Upto(n)) \in Int
      <4>1. Before(n) - 1 \in Int /\ Before(n) - 1 <= extents - 1
        <5>1. n \in 0 .. threads
          BY <2>1
        <5>2. Before(n) \in Nat /\ Before(n) <= extents
          BY <1>1, <1>2, <5>1
        <5> QED
          BY <5>2
      <4> DEFINE b == Before(n) - 1
      <4> HIDE DEF b
      <4>2. IsFiniteSet(0 .. b) /\ \A j \in 0 .. b : f[j] \in Int
        BY <1>3, <4>1 DEF b
      <4>3. SumFunctionOnSet(f, 0 .. b) \in Int
        BY <4>2, SumIs
      <4> QED
        BY <4>3 DEF b
    <3> QED
      BY <1>4, <2>1, <3>1
  <2>5. g[n] = F(Part(n))
    BY <1>4, <2>1
  <2> HIDE DEF F, G, Upto, Part
  <2> QED
    BY <2>1, <2>2, <2>3, <2>4, <2>5
<1>7. Good = Nat
  <2>1. Good \in SUBSET Nat
    OBVIOUS
  <2> HIDE DEF Good
  <2> QED
    BY <1>5, <1>6, <2>1, InductionSet
<1>8. G(threads) = F(Upto(threads)) /\ Before(threads) = extents
  BY <1>7, SharesAreAll
<1> QED
  BY <1>4, <1>8 DEF Threads

--------------------------------------------------------------------------------
(* The distributors of the list, and what is counted for an extent.        *)

\* The greatest number of a finite set
LEMMA FiniteMax ==
  ASSUME NEW S \in SUBSET Int, IsFiniteSet(S), S # {}
  PROVE  Max(S) \in S /\ \A y \in S : y <= Max(S)
<1> DEFINE Good == {T \in SUBSET S : T # {} => \E x \in T : \A y \in T : y <= x}
<1>1. ASSUME NEW T \in SUBSET S, \A x \in T : T \ {x} \in Good PROVE T \in Good
  <2> SUFFICES ASSUME T # {} PROVE \E x \in T : \A y \in T : y <= x
    OBVIOUS
  <2>1. PICK a \in T : TRUE
    OBVIOUS
  <2>2. CASE T \ {a} = {}
    BY <2>1, <2>2
  <2>3. CASE T \ {a} # {}
    <3>1. PICK x \in T \ {a} : \A y \in T \ {a} : y <= x
      BY <1>1, <2>1, <2>3
    <3>2. x \in Int /\ a \in Int
      BY <2>1
    <3>3. CASE a <= x
      BY <3>1, <3>3
    <3>4. CASE x < a
      BY <2>1, <3>1, <3>2, <3>4
    <3> QED
      BY <3>2, <3>3, <3>4
  <2> QED
    BY <2>2, <2>3
<1>2. Good = SUBSET S
  <2>1. Good \in SUBSET (SUBSET S)
    OBVIOUS
  <2> HIDE DEF Good
  <2>2. \A T \in SUBSET S : (\A x \in T : T \ {x} \in Good) => T \in Good
    BY <1>1
  <2> QED
    BY <2>1, <2>2, SubsetInduction
<1>3. \E x \in S : \A y \in S : y <= x
  BY <1>2
<1>4. PICK x \in S : \A y \in S : y <= x
  BY <1>3
<1> QED
  BY <1>4, MaxUnique

\* The values of a function on a finite set
LEMMA FiniteImage ==
  ASSUME NEW S, IsFiniteSet(S), NEW f, NEW T, T = {f[x] : x \in S}
  PROVE  /\ IsFiniteSet(T) /\ Cardinality(T) <= Cardinality(S)
         /\ Cardinality(T) = Cardinality(S) => \A x, y \in S : f[x] = f[y] => x = y
<1> DEFINE g == [x \in S |-> f[x]]
<1>1. g \in Surjection(S, T)
  BY DEF Surjection
<1>2. \A x \in S : g[x] = f[x]
  OBVIOUS
<1> HIDE DEF g
<1>3. /\ IsFiniteSet(T) /\ Cardinality(T) <= Cardinality(S)
      /\ Cardinality(T) = Cardinality(S) <=> g \in Injection(S, T)
  BY <1>1, FS_Surjection
<1> QED
  BY <1>2, <1>3 DEF Injection, IsInjective

\* What the caller's list is
LEMMA Distributors ==
  ASSUME Parameters
  PROVE  /\ list \in Seq(ToSet(list)) /\ Len(list) \in Nat \ {0}
         /\ DOMAIN list = 1 .. Len(list) /\ IsFiniteSet(DOMAIN list)
         /\ \A k \in DOMAIN list :
              /\ IsFiniteSet(DOMAIN list[k].capacity)
              /\ list[k].at \in [0 .. MaxExtents - 1 -> Seq(DOMAIN list[k].capacity)]
<1>1. /\ list \in Seq(ToSet(list)) /\ Len(list) > 0
      /\ \A k \in DOMAIN list :
           /\ IsFiniteSet(DOMAIN list[k].capacity)
           /\ list[k].at \in [0 .. MaxExtents - 1 -> Seq(DOMAIN list[k].capacity)]
  BY ListsAssumption DEF Parameters
<1>2. Len(list) \in Nat \ {0} /\ DOMAIN list = 1 .. Len(list)
  <2> DEFINE S == ToSet(list)
  <2> HIDE DEF S
  <2>1. list \in Seq(S) /\ Len(list) > 0
    BY <1>1 DEF S
  <2> QED
    BY <2>1
<1>3. IsFiniteSet(1 .. Len(list))
  BY <1>2, FS_Interval
<1> QED
  BY <1>1, <1>2, <1>3

\* A number stands for one of the distributors that have it.
LEMMA LoadedIs ==
  ASSUME Parameters
  PROVE  /\ \A k \in DOMAIN list : Id(k) \in AllIds
         /\ \A id \in AllIds : Loaded(id) \in DOMAIN list /\ Id(Loaded(id)) = id
<1>1. ASSUME NEW id \in AllIds PROVE Loaded(id) \in DOMAIN list /\ Id(Loaded(id)) = id
  <2> DEFINE S == {k \in DOMAIN list : Id(k) = id}
  <2>1. S # {} /\ S \in SUBSET (DOMAIN list) /\ S \in SUBSET Int
    BY Distributors DEF AllIds
  <2>2. IsFiniteSet(S)
    BY <2>1, Distributors, FS_Subset
  <2>3. Loaded(id) = Max(S)
    BY DEF Loaded
  <2>4. \A k \in S : k \in DOMAIN list /\ Id(k) = id
    OBVIOUS
  <2> HIDE DEF S
  <2>5. Max(S) \in S
    BY <2>1, <2>2, FiniteMax
  <2> QED
    BY <2>3, <2>4, <2>5
<1> QED
  BY <1>1 DEF AllIds

\* The distributor that stands for the k-th places every extent on disks of its own.
LEMMA ChosenIs ==
  ASSUME Parameters, NEW j \in 0 .. extents - 1, NEW k \in DOMAIN list
  PROVE  /\ Chosen(k, j) \in Seq(Disks(Id(k))) /\ IsFiniteSet(Disks(Id(k)))
         /\ Len(Chosen(k, j)) \in Nat /\ DOMAIN Chosen(k, j) = 1 .. Len(Chosen(k, j))
         /\ \A c \in DOMAIN Chosen(k, j) : Chosen(k, j)[c] \in Disks(Id(k))
<1> DEFINE m == Loaded(Id(k))
           D == DOMAIN list[m].capacity
<1>1. m \in DOMAIN list
  BY LoadedIs
<1>2. IsFiniteSet(D) /\ list[m].at \in [0 .. MaxExtents - 1 -> Seq(D)]
  <2> HIDE DEF m
  <2> QED
    BY <1>1, Distributors
<1>3. j \in 0 .. MaxExtents - 1
  BY BoundsAssumption DEF Parameters
<1>4. list[m].at[j] \in Seq(D)
  <2> HIDE DEF m, D
  <2> QED
    BY <1>2, <1>3
<1>5. Chosen(k, j) = list[m].at[j] /\ Disks(Id(k)) = D
  BY DEF Chosen, Disks
<1> HIDE DEF m, D
<1> QED
  BY <1>2, <1>4, <1>5

\* The copies of an extent: finitely many, and all places of all lists.
LEMMA CopiesAre ==
  ASSUME Parameters, NEW j \in 0 .. extents - 1
  PROVE  /\ IsFiniteSet(Copies(j))
         /\ \A k \in DOMAIN list : \A c \in DOMAIN Chosen(k, j) : <<k, c>> \in Copies(j)
         /\ \A kc \in Copies(j) :
              kc[1] \in DOMAIN list /\ kc[2] \in Nat /\ kc = <<kc[1], kc[2]>>
<1> DEFINE L == {Len(Chosen(k, j)) : k \in DOMAIN list}
           n == Max(L)
<1>1. IsFiniteSet(L)
  <2> DEFINE D == DOMAIN list
             f == [k \in D |-> Len(Chosen(k, j))]
  <2>1. L = {f[k] : k \in D} /\ IsFiniteSet(D)
    BY Distributors
  <2> HIDE DEF L, D, f
  <2> QED
    BY <2>1, FiniteImage
<1>2. L # {} /\ L \in SUBSET Int
  <2>1. DOMAIN list # {}
    BY Distributors
  <2>2. \A k \in DOMAIN list : Len(Chosen(k, j)) \in Int
    BY ChosenIs
  <2> QED
    BY <2>1, <2>2
<1>3. n \in L /\ \A l \in L : l <= n
  <2> HIDE DEF L
  <2> QED
    BY <1>1, <1>2, FiniteMax
<1>4. n \in Int
  BY <1>2, <1>3
<1>5. Copies(j) = (DOMAIN list) \X (1 .. n)
  <2>1. Copies(j) = {<<k, c>> : k \in DOMAIN list, c \in 1 .. n}
    BY DEF Copies
  <2> HIDE DEF n
  <2> QED
    BY <2>1
<1>6. IsFiniteSet(1 .. n)
  <2> HIDE DEF n
  <2> QED
    BY <1>4, FS_Interval
<1>7. \A k \in DOMAIN list : Len(Chosen(k, j)) <= n /\ Len(Chosen(k, j)) \in Nat
                               /\ DOMAIN Chosen(k, j) = 1 .. Len(Chosen(k, j))
  BY <1>3, ChosenIs
<1> HIDE DEF n, L
<1>8. IsFiniteSet(Copies(j))
  <2> DEFINE D == DOMAIN list
             N == 1 .. n
  <2>1. IsFiniteSet(D) /\ IsFiniteSet(N) /\ Copies(j) = D \X N
    BY <1>5, <1>6, Distributors
  <2> HIDE DEF D, N
  <2> QED
    BY <2>1, FS_Product
<1>9. ASSUME NEW k \in DOMAIN list, NEW c \in DOMAIN Chosen(k, j) PROVE <<k, c>> \in Copies(j)
  BY <1>4, <1>5, <1>7
<1> QED
  BY <1>4, <1>5, <1>8, <1>9

\* What is counted for an extent is a number; a move without regard to order is one with.
LEMMA CountsAreNumbers ==
  ASSUME Parameters, NEW j \in 0 .. extents - 1, NEW id, NEW d
  PROVE  /\ Counted(id, d, j) \in Nat
         /\ MovesTo(id, j, FALSE) \in Nat /\ MovesTo(id, j, TRUE) \in Nat
         /\ MovesTo(id, j, FALSE) <= MovesTo(id, j, TRUE)
<1>1. IsFiniteSet(Copies(j))
  BY CopiesAre
<1>2. Uses(id, d, j) \in Nat
  <2> DEFINE U == {kc \in Copies(j) : /\ Id(kc[1]) = id
                     /\ kc[2] \in DOMAIN Chosen(kc[1], j) /\ Chosen(kc[1], j)[kc[2]] = d}
  <2>1. U \in SUBSET Copies(j) /\ Uses(id, d, j) = Cardinality(U)
    BY DEF Uses
  <2> HIDE DEF U
  <2> QED
    BY <1>1, <2>1, FS_Subset, FS_CardinalityType
<1>3. BlocksOn(d, j) \in Nat
  <2> DEFINE B == {b \in 0 .. Blocks - 1 : Chosen(1, j)[(b % Len(Chosen(1, j))) + 1] = d}
             I == 0 .. Blocks - 1
  <2>1. B \in SUBSET I /\ BlocksOn(d, j) = Cardinality(B)
    BY DEF BlocksOn
  <2>2. IsFiniteSet(I)
    <3>1. Blocks - 1 \in Int
      BY BoundsAssumption
    <3> QED
      BY <3>1, FS_Interval
  <2> HIDE DEF B, I
  <2> QED
    BY <2>1, <2>2, FS_Subset, FS_CardinalityType
<1> DEFINE M(byOrder) == {kc \in Copies(j) :
             /\ kc[1] > 1 /\ Id(kc[1]) = id
             /\ LET before == Chosen(kc[1] - 1, j)
                    after  == Chosen(kc[1], j)
                IN  /\ kc[2] \in DOMAIN after
                    /\ \/ after[kc[2]] \notin ToSet(before)
                       \/ byOrder /\ Place(before, after[kc[2]]) # kc[2]}
<1>4. M(FALSE) \in SUBSET M(TRUE) /\ M(TRUE) \in SUBSET Copies(j)
  OBVIOUS
<1>5. MovesTo(id, j, FALSE) = Cardinality(M(FALSE)) /\ MovesTo(id, j, TRUE) = Cardinality(M(TRUE))
  BY DEF MovesTo
<1> HIDE DEF M
<1>6. IsFiniteSet(M(TRUE))
  BY <1>1, <1>4, FS_Subset
<1>7. /\ IsFiniteSet(M(FALSE)) /\ Cardinality(M(FALSE)) <= Cardinality(M(TRUE))
      /\ Cardinality(M(FALSE)) \in Nat /\ Cardinality(M(TRUE)) \in Nat
  BY <1>4, <1>6, FS_Subset, FS_CardinalityType
<1> QED
  BY <1>2, <1>3, <1>5, <1>7 DEF Counted

--------------------------------------------------------------------------------
(* The invariant, action by action.                                        *)

\* The first extent of a thread, and one more than its last, are extents or their number.
LEMMA FirstIs ==
  ASSUME Parameters, NEW t \in Threads
  PROVE  /\ First(t) \in Nat /\ Share(t) \in Nat /\ First(t) + Share(t) <= extents
         /\ (program = "fileDistTester" => threads = 1) => First(t) = Before(t)
<1>1. threads \in Nat \ {0} /\ t \in Nat /\ t + 1 \in 0 .. threads /\ extents \in Nat
  BY DEF Parameters, Threads
<1>2. /\ Before(t) \in Nat /\ Share(t) \in Nat /\ Before(t + 1) = Before(t) + Share(t)
      /\ Before(0) = 0
  BY <1>1, BeforeIs
<1>3. Before(t) + Share(t) <= extents
  BY <1>1, <1>2, SharesAreAll
<1>4. threads = 1 => t = 0
  BY <1>1
<1>5. First(t) = IF program = "fileDistTester" THEN 0 ELSE Before(t)
  BY DEF First, Before
<1> QED
  BY <1>1, <1>2, <1>3, <1>4, <1>5

\* No action changes what the caller chose.
LEMMA ParametersKept ==
  ASSUME UNCHANGED <<program, list, threads, extents>>
  PROVE  /\ Parameters => Parameters'
         /\ Threads' = Threads /\ AllIds' = AllIds
         /\ \A t : First(t)' = First(t) /\ Share(t)' = Share(t)
         /\ \A P : UsedFor(P)' = UsedFor(P) /\ MovedFor(P)' = MovedFor(P)
<1>1. Parameters => Parameters'
  BY DEF Parameters
<1>2. Threads' = Threads /\ AllIds' = AllIds
  BY DEF Threads, AllIds, Id
<1>3. \A t : Share(t)' = Share(t)
  BY DEF Share
<1>4. \A t : First(t)' = First(t)
  BY DEF First, Share
<1>5. \A id : Disks(id)' = Disks(id)
  BY DEF Disks, Loaded, Id
<1>6. \A id, d, S : UsedIn(id, d, S)' = UsedIn(id, d, S)
  BY DEF UsedIn, Counted, Uses, BlocksOn, Copies, Chosen, Loaded, Id
<1>7. \A id, byOrder, S : MovesIn(id, byOrder, S)' = MovesIn(id, byOrder, S)
  BY DEF MovesIn, MovesTo, Copies, Chosen, Loaded, Id
<1>8. \A P : UsedFor(P)' = UsedFor(P)
  BY <1>2, <1>5, <1>6 DEF UsedFor
<1>9. \A P : MovedFor(P)' = MovedFor(P)
  BY <1>2, <1>7 DEF MovedFor
<1> QED
  BY <1>1, <1>2, <1>3, <1>4, <1>8, <1>9

\* Nothing is counted in no extents.
LEMMA NoneYet ==
  ASSUME NEW id, NEW d, NEW byOrder
  PROVE  UsedIn(id, d, {}) = 0 /\ MovesIn(id, byOrder, {}) = 0
<1>1. ASSUME NEW f, DOMAIN f = {} PROVE SumFunction(f) = 0
  BY <1>1, SumOverIs, SumIs, FS_EmptySet
<1>2. UsedIn(id, d, {}) = 0
  <2> DEFINE f == [i \in {} |-> Counted(id, d, i)]
  <2>1. DOMAIN f = {}
    OBVIOUS
  <2>2. UsedIn(id, d, {}) = SumFunction(f)
    BY DEF UsedIn
  <2> HIDE DEF f
  <2> QED
    BY <1>1, <2>1, <2>2
<1>3. MovesIn(id, byOrder, {}) = 0
  <2> DEFINE f == [i \in {} |-> MovesTo(id, i, byOrder)]
  <2>1. DOMAIN f = {}
    OBVIOUS
  <2>2. MovesIn(id, byOrder, {}) = SumFunction(f)
    BY DEF MovesIn
  <2> HIDE DEF f
  <2> QED
    BY <1>1, <2>1, <2>2
<1> QED
  BY <1>2, <1>3

\* One more extent adds what is counted for it.
LEMMA OneMore ==
  ASSUME Parameters, NEW id, NEW d, NEW byOrder \in BOOLEAN,
         NEW a \in Nat, NEW b \in Nat, a <= b, b < extents
  PROVE  /\ UsedIn(id, d, a .. (b + 1) - 1) = UsedIn(id, d, a .. b - 1) + Counted(id, d, b)
         /\ MovesIn(id, byOrder, a .. (b + 1) - 1) =
              MovesIn(id, byOrder, a .. b - 1) + MovesTo(id, b, byOrder)
<1> DEFINE S == a .. b - 1
           T == a .. (b + 1) - 1
<1>1. b \notin S /\ T = S \cup {b}
  OBVIOUS
<1>2. IsFiniteSet(S)
  <2>1. b - 1 \in Int
    OBVIOUS
  <2> QED
    BY <2>1, FS_Interval
<1>3. \A j \in T : j \in 0 .. extents - 1
  <2>1. extents \in Nat
    BY DEF Parameters
  <2> QED
    BY <2>1
<1> HIDE DEF S, T
<1>4. ASSUME NEW f, NEW g, DOMAIN f = T, DOMAIN g = S, \A j \in T : f[j] \in Int,
             \A j \in S : g[j] = f[j]
      PROVE  SumFunction(f) = SumFunction(g) + f[b]
  <2>1. \A j \in S : f[j] \in Int /\ g[j] \in Int /\ g[j] = f[j]
    BY <1>1, <1>4
  <2>2. SumFunctionOnSet(f, S) = SumFunctionOnSet(g, S) /\ SumFunctionOnSet(f, S) \in Int
    BY <1>2, <2>1, SumSame, SumIs
  <2>3. SumFunctionOnSet(f, T) = f[b] + SumFunctionOnSet(f, S)
    BY <1>1, <1>2, <1>4, <2>1, SumAdd
  <2>4. f[b] \in Int
    BY <1>1, <1>4
  <2> QED
    BY <1>4, <2>2, <2>3, <2>4, SumOverIs
<1>5. UsedIn(id, d, T) = UsedIn(id, d, S) + Counted(id, d, b)
  <2> DEFINE f == [i \in T |-> Counted(id, d, i)]
             g == [i \in S |-> Counted(id, d, i)]
  <2>1. DOMAIN f = T /\ DOMAIN g = S
    OBVIOUS
  <2>2. ASSUME NEW j \in T PROVE f[j] = Counted(id, d, j) /\ f[j] \in Int
    <3>1. Counted(id, d, j) \in Nat
      BY <1>3, CountsAreNumbers
    <3> QED
      BY <3>1
  <2>3. \A j \in S : g[j] = f[j]
    BY <1>1
  <2>4. UsedIn(id, d, T) = SumFunction(f) /\ UsedIn(id, d, S) = SumFunction(g)
    BY DEF UsedIn
  <2>5. f[b] = Counted(id, d, b)
    BY <1>1
  <2> HIDE DEF f, g
  <2> QED
    BY <1>4, <2>1, <2>2, <2>3, <2>4, <2>5
<1>6. MovesIn(id, byOrder, T) = MovesIn(id, byOrder, S) + MovesTo(id, b, byOrder)
  <2> DEFINE f == [i \in T |-> MovesTo(id, i, byOrder)]
             g == [i \in S |-> MovesTo(id, i, byOrder)]
  <2>1. DOMAIN f = T /\ DOMAIN g = S
    OBVIOUS
  <2>2. ASSUME NEW j \in T PROVE f[j] = MovesTo(id, j, byOrder) /\ f[j] \in Int
    <3>1. MovesTo(id, j, FALSE) \in Nat /\ MovesTo(id, j, TRUE) \in Nat
      BY <1>3, CountsAreNumbers
    <3>2. MovesTo(id, j, byOrder) \in Nat
      BY <3>1
    <3> QED
      BY <3>2
  <2>3. \A j \in S : g[j] = f[j]
    BY <1>1
  <2>4. MovesIn(id, byOrder, T) = SumFunction(f) /\ MovesIn(id, byOrder, S) = SumFunction(g)
    BY DEF MovesIn
  <2>5. f[b] = MovesTo(id, b, byOrder)
    BY <1>1
  <2> HIDE DEF f, g
  <2> QED
    BY <1>4, <2>1, <2>2, <2>3, <2>4, <2>5
<1> QED
  BY <1>5, <1>6 DEF S, T

\* Main's turn goes to the next thread, or back to the first when all had theirs.
LEMMA TurnIs ==
  ASSUME threads \in Nat, turn \in Threads, NEW next, Turn(next)
  PROVE  /\ turn' \in Threads
         /\ \/ turn = threads - 1 /\ turn' = 0 /\ pc' = next
            \/ turn' = turn + 1 /\ pc' = pc
<1>1. turn \in Nat /\ threads \in Nat \ {0} /\ turn + 1 \in 1 .. threads
  BY DEF Threads
<1>2. turn' = (turn + 1) % threads /\ pc' = IF turn' = 0 THEN next ELSE pc
  BY DEF Turn
<1>3. turn + 1 < threads => (turn + 1) % threads = turn + 1
  BY <1>1
<1>4. turn + 1 = threads => (turn + 1) % threads = 0
  BY <1>1
<1> QED
  BY <1>1, <1>2, <1>3, <1>4 DEF Threads

\* The threads get their extents and empty tables.
LEMMA RunThreadsStep ==
  ASSUME IInv, RunThreads
  PROVE  IInv'
<1>1. Parameters /\ turn = 0 /\ UNCHANGED <<program, list, threads, extents>> /\ turn' = turn
  BY DEF IInv, RunThreads
<1>2. /\ pc' = IF threads = 0 THEN "crashed" ELSE "starting"
      /\ thread' = [t \in Threads |-> Given(t)]
      /\ used' = [t \in Threads |-> [id \in AllIds |-> [d \in Disks(id) |-> 0]]]
      /\ moved' = [t \in Threads |-> [id \in AllIds |-> [with |-> 0, without |-> 0]]]
  BY DEF RunThreads
<1>3. ASSUME NEW t \in Threads
      PROVE  /\ First(t) \in Nat /\ First(t) + Share(t) \in Nat
             /\ First(t) \in First(t) .. First(t) + Share(t)
             /\ thread'[t] = [state |-> "new", next |-> First(t), last |-> First(t) + Share(t)]
             /\ thread'[t].state = "new" /\ thread'[t].next = First(t)
             /\ thread'[t].last = First(t) + Share(t)
  <2>1. First(t) \in Nat /\ Share(t) \in Nat
    BY <1>1, FirstIs
  <2> DEFINE a == First(t)
             b == First(t) + Share(t)
  <2>2. b \in Nat /\ a \in a .. b /\ a \in Nat
    BY <2>1
  <2>3. thread'[t] = [state |-> "new", next |-> a, last |-> b]
    BY <1>2 DEF Given
  <2> HIDE DEF a, b
  <2>4. thread'[t].state = "new" /\ thread'[t].next = a /\ thread'[t].last = b
    BY <2>3
  <2> QED
    BY <2>2, <2>3, <2>4 DEF a, b
<1>4. thread' \in [Threads -> [state : States, next : Nat, last : Nat]]
  BY <1>2, <1>3 DEF States
<1>5. ASSUME NEW t \in Threads PROVE Position(t)'
  BY <1>1, <1>3, ParametersKept DEF Position
<1>6. TablesAreOfPlaced'
  <2> DEFINE P == [t \in Threads |-> First(t) .. First(t) - 1]
  <2>1. Placed' = P
    BY <1>1, <1>3, ParametersKept DEF Placed
  <2>2. \A id, d : UsedIn(id, d, {}) = 0
    BY NoneYet
  <2>3. \A id : MovesIn(id, TRUE, {}) = 0 /\ MovesIn(id, FALSE, {}) = 0
    BY NoneYet
  <2>7. \A t \in Threads : P[t] = {}
    <3>1. \A a \in Nat : a .. a - 1 = {}
      OBVIOUS
    <3> QED
      BY <1>3, <3>1
  <2>4. used' = UsedFor(P)
    <3>1. ASSUME NEW t \in Threads, NEW id, NEW d PROVE UsedIn(id, d, P[t]) = 0
      BY <2>2, <2>7
    <3> HIDE DEF P
    <3> QED
      BY <1>2, <3>1 DEF UsedFor
  <2>5. moved' = MovedFor(P)
    <3>1. ASSUME NEW t \in Threads, NEW id
          PROVE  MovesIn(id, TRUE, P[t]) = 0 /\ MovesIn(id, FALSE, P[t]) = 0
      BY <2>3, <2>7
    <3> HIDE DEF P
    <3> QED
      BY <1>2, <3>1 DEF MovedFor
  <2> HIDE DEF P
  <2> QED
    BY <1>1, <2>1, <2>4, <2>5, ParametersKept DEF TablesAreOfPlaced
<1>7. Turns'
  <2>1. CASE threads = 0
    BY <1>2, <2>1 DEF Turns
  <2>2. CASE threads # 0
    <3>1. 0 \in Threads
      BY <1>1, <2>2 DEF Parameters, Threads
    <3>2. pc' = "starting" /\ turn' \in Threads' /\ \A t \in Threads' : thread'[t].state = "new"
      BY <1>1, <1>2, <1>3, <2>2, <3>1, ParametersKept
    <3> QED
      BY <3>2 DEF Turns
  <2> QED
    BY <2>1, <2>2
<1>8. pc' # "start"
  BY <1>2
<1>9. Parameters' /\ Threads' = Threads
  BY <1>1, ParametersKept
<1> QED
  BY <1>4, <1>5, <1>6, <1>7, <1>8, <1>9 DEF IInv

\* Main may take its turns as long as the threads stay where they are.
LEMMA KeptStep ==
  ASSUME IInv, pc # "start", pc' # "start", Turns',
         UNCHANGED <<program, list, threads, extents, thread, used, moved>>
  PROVE  IInv'
<1>1. Parameters' /\ Threads' = Threads
  BY ParametersKept DEF IInv
<1>2. \A t \in Threads : Position(t)'
  BY ParametersKept DEF IInv, Position
<1>3. Placed' = Placed
  BY ParametersKept DEF Placed
<1>4. TablesAreOfPlaced'
  BY <1>3, ParametersKept DEF IInv, TablesAreOfPlaced
<1> QED
  BY <1>1, <1>2, <1>4 DEF IInv

\* The state of a thread may change at the right place.
LEMMA StateStep ==
  ASSUME IInv, pc # "start", pc' # "start", Turns',
         UNCHANGED <<program, list, threads, extents, used, moved>>,
         NEW t \in Threads, NEW c \in States \ {"new"}, thread' = [thread EXCEPT ![t].state = c],
         c = "ended" => thread[t].next = First(t) + Share(t),
         c = "failed" => program = "fileDistTester" /\ threads > 1
  PROVE  IInv'
<1>1. Parameters' /\ Threads' = Threads
  BY ParametersKept DEF IInv
<1>2. /\ thread' \in [Threads -> [state : States, next : Nat, last : Nat]]
      /\ \A u \in Threads : /\ thread'[u].next = thread[u].next
                             /\ thread'[u].last = thread[u].last
                            /\ thread'[u].state = IF u = t THEN c ELSE thread[u].state
  BY DEF IInv
<1>3. \A u \in Threads : Position(u)'
  <2>1. ASSUME NEW u \in Threads PROVE Position(u)'
    <3>1. Position(u)
      BY DEF IInv
    <3>2. First(u)' = First(u) /\ Share(u)' = Share(u)
      BY ParametersKept
    <3>3. /\ thread'[u].next = thread[u].next /\ thread'[u].last = thread[u].last
          /\ thread'[u].state = IF u = t THEN c ELSE thread[u].state
      BY <1>2
    <3> QED
      BY <3>1, <3>2, <3>3 DEF Position
  <2> QED
    BY <2>1
<1>4. Placed' = Placed
  BY <1>2, ParametersKept DEF Placed
<1>5. TablesAreOfPlaced'
  BY <1>4, ParametersKept DEF IInv, TablesAreOfPlaced
<1> QED
  BY <1>1, <1>2, <1>3, <1>5 DEF IInv

\* Main starts the threads one by one.
LEMMA StartStep ==
  ASSUME IInv, StartThread \/ StartFails
  PROVE  IInv'
<1>1. pc = "starting" /\ turn \in Threads /\ threads \in Nat
  BY DEF IInv, Turns, Parameters, StartThread, StartFails
<1>2. \A t \in Threads : t >= turn => thread[t].state = "new"
  BY <1>1 DEF IInv, Turns
<1>3. thread \in [Threads -> [state : States, next : Nat, last : Nat]]
  BY <1>1 DEF IInv
<1>4. ASSUME NEW c \in {"running", "failed"}, thread' = [thread EXCEPT ![turn].state = c],
             Turn("joining"), UNCHANGED <<program, list, threads, extents, used, moved>>,
             c = "failed" => program = "fileDistTester" /\ threads > 1
      PROVE  IInv'
  <2>1. /\ turn' \in Threads
        /\ \/ turn = threads - 1 /\ turn' = 0 /\ pc' = "joining"
           \/ turn' = turn + 1 /\ pc' = pc
    <3> HIDE DEF Threads
    <3> QED
      BY <1>1, <1>4, TurnIs
  <2>2. Threads' = Threads /\ \A t \in Threads : t \in Nat
    BY <1>4 DEF Threads
  <2>3. \A t \in Threads : t # turn => thread'[t].state = thread[t].state
    BY <1>3, <1>4
  <2>4. Turns'
    <3>1. CASE turn = threads - 1 /\ turn' = 0 /\ pc' = "joining"
      <4>1. \A t \in Threads' : ~(t < turn')
        BY <2>2, <3>1
      <4> QED
        BY <2>1, <2>2, <3>1, <4>1 DEF Turns
    <3>2. CASE turn' = turn + 1 /\ pc' = pc
      <4>1. \A t \in Threads : t >= turn' => t >= turn /\ t # turn
        BY <1>1, <2>2, <3>2
      <4> QED
        BY <1>1, <1>2, <2>1, <2>2, <2>3, <3>2, <4>1 DEF Turns
    <3> QED
      BY <2>1, <3>1, <3>2
  <2>5. pc' # "start" /\ pc # "start"
    BY <1>1, <2>1
  <2>6. c \in States \ {"new"}
    BY DEF States
  <2> QED
    BY <1>1, <1>4, <2>4, <2>5, <2>6, StateStep
<1>5. CASE StartThread
  BY <1>4, <1>5 DEF StartThread
<1>6. CASE StartFails
  <2>1. CASE program = "fileDistTester"
    BY <1>4, <1>6, <2>1 DEF StartFails
  <2>2. CASE program # "fileDistTester"
    <3>1. /\ pc' = "aborted"
          /\ UNCHANGED <<program, list, threads, extents, turn, thread, used, moved>>
      BY <1>6, <2>2 DEF StartFails
    <3>2. Turns'
      BY <3>1 DEF Turns
    <3> QED
      BY <1>1, <3>1, <3>2, KeptStep
  <2> QED
    BY <2>1, <2>2
<1> QED
  BY <1>5, <1>6

\* Main waits for the threads one by one.
LEMMA JoinStep ==
  ASSUME IInv, Join \/ JoinGarbage
  PROVE  IInv'
<1>1. /\ pc = "joining" /\ turn \in Threads /\ threads \in Nat
      /\ UNCHANGED <<program, list, threads, extents, thread, used, moved>>
  BY DEF IInv, Turns, Parameters, Join, JoinGarbage
<1>2. CASE JoinGarbage
  <2>1. pc' = "crashed"
    BY <1>2 DEF JoinGarbage
  <2>2. Turns'
    BY <2>1 DEF Turns
  <2> QED
    BY <1>1, <2>1, <2>2, KeptStep
<1>3. CASE Join
  <2>1. /\ turn' \in Threads
        /\ \/ turn = threads - 1 /\ turn' = 0 /\ pc' = "done"
           \/ turn' = turn + 1 /\ pc' = pc
    <3>1. Turn("done")
      BY <1>3 DEF Join
    <3> QED
      BY <1>1, <3>1, TurnIs
  <2>2. /\ thread[turn].state \in {"ended", "failed"}
        /\ \A t \in Threads : t < turn => thread[t].state \in {"ended", "failed"}
    BY <1>1, <1>3 DEF IInv, Turns, Join, MayJoin
  <2>3. Threads' = Threads /\ \A t \in Threads : t \in Nat /\ t <= threads - 1
    BY <1>1 DEF Threads
  <2>4. \A t \in Threads : t <= turn => thread'[t].state \in {"ended", "failed"}
    BY <1>1, <2>2, <2>3
  <2>5. Turns'
    <3>1. CASE turn = threads - 1 /\ turn' = 0 /\ pc' = "done"
      <4>1. threads' > 0
        BY <1>1 DEF Threads
      <4> QED
        BY <1>1, <2>3, <2>4, <3>1, <4>1 DEF Turns
    <3>2. CASE turn' = turn + 1 /\ pc' = pc
      <4>1. \A t \in Threads : t < turn' => t <= turn
        BY <1>1, <2>3, <3>2
      <4> QED
        BY <1>1, <2>1, <2>3, <2>4, <3>2, <4>1 DEF Turns
    <3> QED
      BY <2>1, <3>1, <3>2
  <2>6. pc' # "start"
    BY <1>1, <2>1
  <2> QED
    BY <1>1, <2>5, <2>6, KeptStep
<1> QED
  BY <1>2, <1>3

\* A thread places an extent, or ends.
LEMMA ThreadStep ==
  ASSUME IInv, NEW t \in Threads, PlaceExtent(t) \/ EndThread(t)
  PROVE  IInv'
<1>1. /\ pc \in {"starting", "joining"} /\ thread[t].state = "running" /\ pc' = pc /\ turn' = turn
      /\ UNCHANGED <<program, list, threads, extents>>
  BY DEF PlaceExtent, EndThread, Running
<1>2. /\ Parameters /\ thread \in [Threads -> [state : States, next : Nat, last : Nat]]
      /\ \A u \in Threads : Position(u)
      /\ used = UsedFor(Placed) /\ moved = MovedFor(Placed)
  BY <1>1 DEF IInv, TablesAreOfPlaced
<1>3. /\ First(t) \in Nat /\ Share(t) \in Nat /\ First(t) + Share(t) <= extents
      /\ thread[t].last = First(t) + Share(t)
      /\ thread[t].next \in First(t) .. First(t) + Share(t)
  BY <1>2, FirstIs DEF Position
<1>4. ASSUME \A u \in Threads \ {t} : thread'[u] = thread[u], thread'[t].state # "new"
      PROVE  Turns'
  BY <1>1, <1>4, ParametersKept DEF IInv, Turns
<1>5. CASE EndThread(t)
  <2>1. thread' = [thread EXCEPT ![t].state = "ended"] /\ UNCHANGED <<used, moved>>
        /\ thread[t].next >= thread[t].last
    BY <1>5 DEF EndThread
  <2>2. thread[t].next = First(t) + Share(t)
    <3> DEFINE a == First(t)
               b == Share(t)
               n == thread[t].next
    <3>1. a \in Nat /\ b \in Nat /\ n \in a .. a + b /\ n >= a + b
      BY <1>3, <2>1
    <3> HIDE DEF a, b, n
    <3>2. n = a + b
      BY <3>1
    <3> QED
      BY <3>2 DEF a, b, n
  <2>3. Turns'
    <3>1. (\A u \in Threads \ {t} : thread'[u] = thread[u]) /\ thread'[t].state = "ended"
      BY <1>2, <2>1
    <3> QED
      BY <1>4, <3>1
  <2>4. "ended" \in States \ {"new"} /\ pc # "start" /\ pc' # "start"
    BY <1>1 DEF States
  <2> QED
    BY <1>1, <2>1, <2>2, <2>3, <2>4, StateStep
<1>6. CASE PlaceExtent(t)
  <2> DEFINE n == thread[t].next
  <2>1. /\ thread' = [thread EXCEPT ![t].next = n + 1]
        /\ used' = [used EXCEPT ![t] =
              [id \in AllIds |-> [d \in Disks(id) |-> @[id][d] + Counted(id, d, n)]]]
        /\ moved' = [moved EXCEPT ![t] =
              [id \in AllIds |-> [with    |-> @[id].with + MovesTo(id, n, TRUE),
                                  without |-> @[id].without + MovesTo(id, n, FALSE)]]]
        /\ n < thread[t].last
    BY <1>6 DEF PlaceExtent
  <2>2. /\ thread' \in [Threads -> [state : States, next : Nat, last : Nat]]
        /\ \A u \in Threads \ {t} : thread'[u] = thread[u]
        /\ thread'[t].state = "running" /\ thread'[t].last = thread[t].last
        /\ thread'[t].next = n + 1
    BY <1>1, <1>2, <2>1
  <2>3. /\ n \in Nat /\ First(t) <= n /\ n < extents
        /\ n + 1 \in First(t) .. First(t) + Share(t)
    <3> DEFINE a == First(t)
               b == Share(t)
    <3>1. a \in Nat /\ b \in Nat /\ n \in a .. a + b /\ n < a + b /\ a + b <= extents
      BY <1>3, <2>1
    <3>2. extents \in Nat
      BY <1>2 DEF Parameters
    <3> HIDE DEF a, b, n
    <3>3. n \in Nat /\ a <= n /\ n < extents /\ n + 1 \in a .. a + b
      BY <3>1, <3>2
    <3> QED
      BY <3>3 DEF a, b
  <2>4. Turns'
    BY <1>4, <2>2
  <2>5. \A u \in Threads : Position(u)'
    <3>1. ASSUME NEW u \in Threads PROVE Position(u)'
      <4>1. First(u)' = First(u) /\ Share(u)' = Share(u)
        BY <1>1, ParametersKept
      <4>2. CASE u = t
        BY <1>3, <2>2, <2>3, <4>1, <4>2 DEF Position
      <4>3. CASE u # t
        BY <1>1, <1>2, <2>2, <4>1, <4>3 DEF Position
      <4> QED
        BY <4>2, <4>3
    <3> QED
      BY <3>1
  <2> DEFINE P == [Placed EXCEPT ![t] = First(t) .. (n + 1) - 1]
  <2>6. Placed' = P
    <3>1. Placed' = [u \in Threads |-> First(u) .. thread'[u].next - 1]
      BY <1>1, ParametersKept DEF Placed
    <3>2. ASSUME NEW u \in Threads
          PROVE  First(u) .. thread'[u].next - 1 =
                   IF u = t THEN First(t) .. (n + 1) - 1 ELSE First(u) .. thread[u].next - 1
      BY <2>2
    <3>3. P = [u \in Threads |->
                 IF u = t THEN First(t) .. (n + 1) - 1 ELSE First(u) .. thread[u].next - 1]
      <4> HIDE DEF n
      <4> QED
        BY DEF Placed
    <3> HIDE DEF P, n
    <3> QED
      BY <3>1, <3>2, <3>3
  <2>7. DOMAIN Placed = Threads /\ Placed[t] = First(t) .. n - 1
    BY DEF Placed
  <2>8. used' = UsedFor(P)
    <3>1. ASSUME NEW id, NEW d
          PROVE  UsedIn(id, d, P[t]) = UsedIn(id, d, Placed[t]) + Counted(id, d, n)
      <4>1. P[t] = First(t) .. (n + 1) - 1
        BY <2>7
      <4> DEFINE a == First(t)
      <4>2. a \in Nat /\ n \in Nat /\ a <= n /\ n < extents
        BY <1>3, <2>3
      <4> HIDE DEF P, n, a
      <4>3. UsedIn(id, d, a .. (n + 1) - 1) = UsedIn(id, d, a .. n - 1) + Counted(id, d, n)
        <5>1. TRUE \in BOOLEAN
          OBVIOUS
        <5>2. Parameters
          BY <1>2
        <5> QED
          BY <4>2, <5>1, <5>2, OneMore
      <4> QED
        BY <2>7, <4>1, <4>3 DEF a
    <3>2. \A u \in Threads \ {t} : P[u] = Placed[u]
      BY <2>7
    <3>3. used'[t] = [id \in AllIds |-> [d \in Disks(id) |-> UsedIn(id, d, P[t])]]
      <4>1. \A id \in AllIds : \A d \in Disks(id) : used[t][id][d] = UsedIn(id, d, Placed[t])
        BY <1>2 DEF UsedFor
      <4>2. used'[t] = [id \in AllIds |-> [d \in Disks(id) |->
                          used[t][id][d] + Counted(id, d, n)]]
        <5>1. t \in DOMAIN used
          BY <1>2 DEF UsedFor
        <5> HIDE DEF n
        <5> QED
          BY <2>1, <5>1
      <4> HIDE DEF P, n
      <4> QED
        BY <3>1, <4>1, <4>2
    <3>4. DOMAIN used' = Threads /\ \A u \in Threads \ {t} : used'[u] = used[u]
      <4>1. DOMAIN used = Threads
        BY <1>2 DEF UsedFor
      <4> QED
        BY <2>1, <4>1
    <3>5. \A u \in Threads \ {t} :
            used[u] = [id \in AllIds |-> [d \in Disks(id) |-> UsedIn(id, d, P[u])]]
      <4> HIDE DEF P
      <4> QED
        BY <1>2, <3>2 DEF UsedFor
    <3>6. \A u \in Threads :
            used'[u] = [id \in AllIds |-> [d \in Disks(id) |-> UsedIn(id, d, P[u])]]
      <4> HIDE DEF P
      <4> QED
        BY <3>3, <3>4, <3>5
    <3>7. used' = [u \in Threads |-> used'[u]]
      <4>1. used' = [used EXCEPT ![t] = used'[t]]
        <5>1. t \in DOMAIN used
          BY <1>2 DEF UsedFor
        <5> QED
          BY <2>1, <5>1
      <4>2. used = [u \in Threads |-> used[u]]
        BY <1>2 DEF UsedFor
      <4> QED
        BY <3>4, <4>1, <4>2
    <3> HIDE DEF P
    <3> QED
      BY <3>6, <3>7 DEF UsedFor
  <2>9. moved' = MovedFor(P)
    <3>1. ASSUME NEW id, NEW byOrder \in BOOLEAN
          PROVE  MovesIn(id, byOrder, P[t]) =
                   MovesIn(id, byOrder, Placed[t]) + MovesTo(id, n, byOrder)
      <4>1. P[t] = First(t) .. (n + 1) - 1
        BY <2>7
      <4> DEFINE a == First(t)
      <4>2. a \in Nat /\ n \in Nat /\ a <= n /\ n < extents
        BY <1>3, <2>3
      <4> HIDE DEF P, n, a
      <4>3. MovesIn(id, byOrder, a .. (n + 1) - 1) =
              MovesIn(id, byOrder, a .. n - 1) + MovesTo(id, n, byOrder)
        BY <1>2, <4>2, OneMore
      <4> QED
        BY <2>7, <4>1, <4>3 DEF a
    <3>2. \A u \in Threads \ {t} : P[u] = Placed[u]
      BY <2>7
    <3> HIDE DEF P, n
    <3>3. \A u \in Threads : moved[u] =
            [id \in AllIds |-> [with |-> MovesIn(id, TRUE, Placed[u]),
                               without |-> MovesIn(id, FALSE, Placed[u])]]
      BY <1>2 DEF MovedFor
    <3> DEFINE new(u) == [id \in AllIds |-> [with |-> MovesIn(id, TRUE, P[u]),
                                            without |-> MovesIn(id, FALSE, P[u])]]
    <3>4. moved = [u \in Threads |-> moved[u]]
      BY <1>2 DEF MovedFor
    <3>5. moved'[t] = new(t)
      <4>1. \A id \in AllIds :
              /\ moved[t][id].with = MovesIn(id, TRUE, Placed[t])
              /\ moved[t][id].without = MovesIn(id, FALSE, Placed[t])
        <5> TAKE id \in AllIds
        <5> DEFINE with == MovesIn(id, TRUE, Placed[t])
                   without == MovesIn(id, FALSE, Placed[t])
        <5>1. moved[t][id] = [with |-> with, without |-> without]
          BY ONLY <3>3, t \in Threads, id \in AllIds
        <5> HIDE DEF with, without
        <5>2. moved[t][id].with = with /\ moved[t][id].without = without
          BY ONLY <5>1
        <5> QED
          BY ONLY <5>2 DEF with, without
      <4>2. moved'[t] = [id \in AllIds |->
                           [with    |-> moved[t][id].with + MovesTo(id, n, TRUE),
                            without |-> moved[t][id].without + MovesTo(id, n, FALSE)]]
        BY <2>1, <3>4
      <4>3. \A id : /\ MovesIn(id, TRUE, P[t])
                         = MovesIn(id, TRUE, Placed[t]) + MovesTo(id, n, TRUE)
                    /\ MovesIn(id, FALSE, P[t])
                         = MovesIn(id, FALSE, Placed[t]) + MovesTo(id, n, FALSE)
        BY <3>1
      <4> DEFINE g(id) == moved[t][id].with + MovesTo(id, n, TRUE)
                 h(id) == moved[t][id].without + MovesTo(id, n, FALSE)
                 k(id) == MovesIn(id, TRUE, P[t])
                 l(id) == MovesIn(id, FALSE, P[t])
      <4>4. \A id \in AllIds : g(id) = k(id) /\ h(id) = l(id)
        BY ONLY <4>1, <4>3, Zenon
      <4>5. moved'[t] = [id \in AllIds |-> [with |-> g(id), without |-> h(id)]]
        BY ONLY <4>2, Zenon
      <4> HIDE DEF g, h, k, l
      <4>6. moved'[t] = [id \in AllIds |-> [with |-> k(id), without |-> l(id)]]
        BY ONLY <4>4, <4>5
      <4> QED
        BY ONLY <4>6, Zenon DEF k, l
    <3>6. \A u \in Threads \ {t} : moved'[u] = new(u)
      <4> TAKE u \in Threads \ {t}
      <4>1. moved'[u] = moved[u]
        BY <2>1, <3>4
      <4> QED
        BY <3>2, <3>3, <4>1
    <3>7. moved' = [u \in Threads |-> moved'[u]]
      BY <2>1, <3>4
    <3>8. \A u \in Threads : moved'[u] = new(u)
      BY <3>5, <3>6
    <3> QED
      BY ONLY <3>7, <3>8 DEF MovedFor
  <2>10. TablesAreOfPlaced'
    <3> HIDE DEF P, n
    <3> QED
      BY <1>1, <2>6, <2>8, <2>9, ParametersKept DEF TablesAreOfPlaced
  <2>11. Parameters' /\ Threads' = Threads /\ pc' # "start"
    BY <1>1, <1>2, ParametersKept
  <2> QED
    BY <2>2, <2>4, <2>5, <2>10, <2>11 DEF IInv
<1> QED
  BY <1>5, <1>6

\* The numbers of the caller, the split of the extents and the tables agree, always.
THEOREM Invariance == Spec => []IInv
<1>1. Init => IInv
  <2> SUFFICES ASSUME Init PROVE IInv
    OBVIOUS
  <2>1. Parameters
    BY BoundsAssumption DEF Init, Parameters
  <2> QED
    BY <2>1 DEF Init, IInv, Turns
<1>2. IInv /\ [Next]_vars => IInv'
  <2> SUFFICES ASSUME IInv, [Next]_vars PROVE IInv'
    OBVIOUS
  <2>1. CASE Next
    <3>1. CASE Ended
      <4>1. UNCHANGED <<program, list, threads, extents, pc, thread, turn, used, moved>>
        BY <3>1 DEF Ended, vars
      <4>2. Turns'
        BY <4>1, ParametersKept DEF IInv, Turns
      <4>3. pc # "start"
        BY <3>1 DEF Ended
      <4> QED
        BY <4>1, <4>2, <4>3, KeptStep
    <3> QED
      BY <2>1, <3>1, RunThreadsStep, StartStep, JoinStep, ThreadStep DEF Next
  <2>2. CASE UNCHANGED vars
    <3>1. UNCHANGED <<program, list, threads, extents, pc, thread, turn, used, moved>>
      BY <2>2 DEF vars
    <3>2. Turns'
      BY <3>1, ParametersKept DEF IInv, Turns
    <3>3. CASE pc # "start"
      BY <3>1, <3>2, <3>3, KeptStep
    <3>4. CASE pc = "start"
      BY <3>1, <3>2, <3>4, ParametersKept DEF IInv
    <3> QED
      BY <3>3, <3>4
  <2> QED
    BY <2>1, <2>2
<1> QED
  BY <1>1, <1>2, PTL DEF Spec

--------------------------------------------------------------------------------
(* The results.                                                            *)

\* When main is done, all extents are in the sums of the threads' tables.
LEMMA SumsAreOfAllExtents ==
  ASSUME IInv, pc = "done", program = "fileDistTester" => threads = 1, NEW id \in AllIds
  PROVE  /\ \A d \in Disks(id) : Used(id, d) = UsedIn(id, d, 0 .. extents - 1)
         /\ MovedWithOrder(id) = MovesIn(id, TRUE, 0 .. extents - 1)
         /\ MovedWithoutOrder(id) = MovesIn(id, FALSE, 0 .. extents - 1)
<1> DEFINE E == 0 .. extents - 1
<1>1. /\ Parameters /\ threads \in Nat \ {0} /\ extents \in Nat
      /\ used = UsedFor(Placed) /\ moved = MovedFor(Placed)
  BY DEF IInv, Turns, Parameters, TablesAreOfPlaced
<1>2. ASSUME NEW t \in Threads
      PROVE  /\ Placed[t] = Before(t) .. Before(t) + Share(t) - 1
             /\ \A j \in Placed[t] : j \in E
  <2>1. /\ First(t) = Before(t) /\ First(t) \in Nat
        /\ Share(t) \in Nat /\ First(t) + Share(t) <= extents
    BY <1>1, FirstIs
  <2>2. Position(t) /\ thread[t].state \in {"ended", "failed"}
    BY DEF IInv, Turns
  <2>3. thread[t].state = "ended"
    BY <1>1, <2>2 DEF Position
  <2>4. thread[t].next = First(t) + Share(t)
    BY <2>2, <2>3 DEF Position
  <2>5. Placed[t] = First(t) .. First(t) + Share(t) - 1
    <3> DEFINE n == thread[t].next
               m == First(t) + Share(t)
    <3>1. Placed[t] = First(t) .. n - 1
      BY DEF Placed
    <3>2. n = m
      BY <2>4
    <3>3. m - 1 = First(t) + Share(t) - 1
      BY <2>1
    <3> HIDE DEF n, m
    <3>4. Placed[t] = First(t) .. m - 1
      BY <3>1, <3>2
    <3> QED
      BY <3>3, <3>4, Zenon
  <2> DEFINE a == First(t)
             b == Share(t)
  <2>6. a \in Nat /\ b \in Nat /\ a + b <= extents
    BY <2>1
  <2> HIDE DEF a, b
  <2>7. \A j \in a .. a + b - 1 : j \in E
    BY <1>1, <2>6
  <2> QED
    BY <2>1, <2>5, <2>7 DEF a, b
<1>3. ASSUME NEW f, NEW g, DOMAIN f = E, \A j \in E : f[j] \in Nat, DOMAIN g = Threads,
             \A t \in Threads : g[t] = SumFunction([j \in Placed[t] |-> f[j]])
      PROVE  SumFunction(g) = SumFunction(f)
  <2>1. ASSUME NEW t \in Threads
        PROVE  g[t] = SumFunctionOnSet(f, Before(t) .. Before(t) + Share(t) - 1)
    <3> DEFINE P == Placed[t]
               h == [j \in P |-> f[j]]
    <3>1. /\ g[t] = SumFunction(h) /\ DOMAIN h = P
          /\ \A j \in P : h[j] = f[j] /\ h[j] \in Int
      BY <1>2, <1>3
    <3>2. IsFiniteSet(P)
      <4>1. \A a \in Nat : \A b \in Nat : a \in Int /\ a + b - 1 \in Int
        OBVIOUS
      <4>2. Before(t) \in Nat /\ Share(t) \in Nat
        BY <1>1, FirstIs
      <4> DEFINE m == Before(t)
                 n == Before(t) + Share(t) - 1
      <4>3. m \in Int /\ n \in Int
        BY <4>1, <4>2
      <4> HIDE DEF m, n
      <4>4. IsFiniteSet(m .. n)
        BY <4>3, FS_Interval
      <4> QED
        BY <1>2, <4>4 DEF m, n
    <3> HIDE DEF P, h
    <3>3. SumFunction(h) = SumFunctionOnSet(f, P)
      BY <3>1, <3>2, SumOverIs, SumSame
    <3> QED
      BY <1>2, <3>1, <3>3 DEF P
  <2>2. SumFunctionOnSet(g, Threads) = SumFunctionOnSet(f, 0 .. extents - 1)
    BY <1>1, <1>3, <2>1, SumOfParts
  <2> HIDE DEF E
  <2>3. SumFunction(g) = SumFunctionOnSet(g, Threads) /\ SumFunction(f) = SumFunctionOnSet(f, E)
    BY <1>3, SumOverIs
  <2> QED
    BY <2>2, <2>3 DEF E
<1>4. ASSUME NEW d \in Disks(id) PROVE Used(id, d) = UsedIn(id, d, E)
  <2> DEFINE f == [j \in E |-> Counted(id, d, j)]
             g == [t \in Threads |-> used[t][id][d]]
  <2>1. DOMAIN f = E /\ \A j \in E : f[j] \in Nat
    BY <1>1, CountsAreNumbers
  <2>2. ASSUME NEW t \in Threads PROVE g[t] = SumFunction([j \in Placed[t] |-> f[j]])
    <3> DEFINE P == Placed[t]
    <3>1. g[t] = SumFunction([j \in P |-> Counted(id, d, j)])
      BY <1>1 DEF UsedFor, UsedIn
    <3>2. \A j \in P : f[j] = Counted(id, d, j)
      BY <1>2
    <3> HIDE DEF P, f
    <3>3. [j \in P |-> f[j]] = [j \in P |-> Counted(id, d, j)]
      BY <3>2
    <3> QED
      BY <3>1, <3>3 DEF P
  <2>3. DOMAIN g = Threads
    OBVIOUS
  <2>4. Used(id, d) = SumFunction(g) /\ UsedIn(id, d, E) = SumFunction(f)
    BY DEF Used, UsedIn
  <2> HIDE DEF f, g, E
  <2> QED
    BY <1>3, <2>1, <2>2, <2>3, <2>4
<1>5. MovedWithOrder(id) = MovesIn(id, TRUE, E)
  <2> DEFINE f == [j \in E |-> MovesTo(id, j, TRUE)]
             g == [t \in Threads |-> moved[t][id].with]
  <2>1. DOMAIN f = E /\ \A j \in E : f[j] \in Nat
    BY <1>1, CountsAreNumbers
  <2>2. ASSUME NEW t \in Threads PROVE g[t] = SumFunction([j \in Placed[t] |-> f[j]])
    <3> DEFINE P == Placed[t]
    <3>1. g[t] = SumFunction([j \in P |-> MovesTo(id, j, TRUE)])
      BY <1>1 DEF MovedFor, MovesIn
    <3>2. \A j \in P : f[j] = MovesTo(id, j, TRUE)
      BY <1>2
    <3> HIDE DEF P, f
    <3>3. [j \in P |-> f[j]] = [j \in P |-> MovesTo(id, j, TRUE)]
      BY <3>2
    <3> QED
      BY <3>1, <3>3 DEF P
  <2>3. DOMAIN g = Threads
    OBVIOUS
  <2>4. MovedWithOrder(id) = SumFunction(g) /\ MovesIn(id, TRUE, E) = SumFunction(f)
    BY DEF MovedWithOrder, MovesIn
  <2> HIDE DEF f, g, E
  <2> QED
    BY <1>3, <2>1, <2>2, <2>3, <2>4
<1>6. MovedWithoutOrder(id) = MovesIn(id, FALSE, E)
  <2> DEFINE f == [j \in E |-> MovesTo(id, j, FALSE)]
             g == [t \in Threads |-> moved[t][id].without]
  <2>1. DOMAIN f = E /\ \A j \in E : f[j] \in Nat
    BY <1>1, CountsAreNumbers
  <2>2. ASSUME NEW t \in Threads PROVE g[t] = SumFunction([j \in Placed[t] |-> f[j]])
    <3> DEFINE P == Placed[t]
    <3>1. g[t] = SumFunction([j \in P |-> MovesTo(id, j, FALSE)])
      BY <1>1 DEF MovedFor, MovesIn
    <3>2. \A j \in P : f[j] = MovesTo(id, j, FALSE)
      BY <1>2
    <3> HIDE DEF P, f
    <3>3. [j \in P |-> f[j]] = [j \in P |-> MovesTo(id, j, FALSE)]
      BY <3>2
    <3> QED
      BY <3>1, <3>3 DEF P
  <2>3. DOMAIN g = Threads
    OBVIOUS
  <2>4. MovedWithoutOrder(id) = SumFunction(g) /\ MovesIn(id, FALSE, E) = SumFunction(f)
    BY DEF MovedWithoutOrder, MovesIn
  <2> HIDE DEF f, g, E
  <2> QED
    BY <1>3, <2>1, <2>2, <2>3, <2>4
<1> QED
  BY <1>4, <1>5, <1>6

\* Distinct numbers tell all distributors of the list apart.
Distinct == Cardinality(AllIds) = Len(list)

LEMMA DistinctIs ==
  ASSUME Parameters, Distinct, NEW k \in DOMAIN list
  PROVE  /\ Loaded(Id(k)) = k /\ Disks(Id(k)) = DOMAIN list[k].capacity
         /\ \A j : Chosen(k, j) = list[k].at[j]
         /\ \A n \in DOMAIN list : Id(n) = Id(k) => n = k
<1>1. ASSUME NEW n \in DOMAIN list, Id(n) = Id(k) PROVE n = k
  <2> DEFINE D == DOMAIN list
             f == [m \in D |-> Id(m)]
  <2>1. IsFiniteSet(D) /\ Cardinality(D) = Len(list)
    <3>1. D = 1 .. Len(list) /\ Len(list) \in Nat /\ 1 \in Int /\ 1 <= Len(list)
      BY Distributors
    <3>2. Cardinality(1 .. Len(list)) = Len(list) - 1 + 1 /\ IsFiniteSet(1 .. Len(list))
      BY <3>1, FS_Interval
    <3> HIDE DEF D
    <3> QED
      BY <3>1, <3>2
  <2>2. AllIds = {f[m] : m \in D}
    BY DEF AllIds
  <2>3. f[n] = f[k] /\ n \in D /\ k \in D
    BY <1>1
  <2> HIDE DEF D, f
  <2>4. \A x, y \in D : f[x] = f[y] => x = y
    BY <2>1, <2>2, FiniteImage DEF Distinct
  <2> QED
    BY <2>3, <2>4
<1>2. Loaded(Id(k)) = k
  BY <1>1, LoadedIs
<1> QED
  BY <1>1, <1>2 DEF Disks, Chosen

\* The copies that a distributor of its own number places
LEMMA CopiesOf ==
  ASSUME Parameters, Distinct, NEW j \in 0 .. extents - 1, NEW k \in DOMAIN list,
         NEW C, C \subseteq DOMAIN Chosen(k, j),
         NEW M, M = {kc \in Copies(j) : Id(kc[1]) = Id(k) /\ kc[2] \in C}
  PROVE  IsFiniteSet(C) /\ Cardinality(M) = Cardinality(C)
<1>1. M = {<<k, c>> : c \in C}
  BY CopiesAre, DistinctIs
<1>2. IsFiniteSet(C)
  <2>1. IsFiniteSet(1 .. Len(Chosen(k, j)))
    <3>1. Len(Chosen(k, j)) \in Nat
      BY ChosenIs
    <3> QED
      BY <3>1, FS_Interval
  <2>2. C \subseteq 1 .. Len(Chosen(k, j))
    BY ChosenIs
  <2> DEFINE N == 1 .. Len(Chosen(k, j))
  <2> HIDE DEF N
  <2>3. IsFiniteSet(N) /\ C \subseteq N
    BY <2>1, <2>2 DEF N
  <2> QED
    BY <2>3, FS_Subset
<1> DEFINE f == [c \in C |-> <<k, c>>]
<1>3. f \in Bijection(C, M)
  BY <1>1 DEF Bijection, Injection, Surjection, IsInjective
<1> HIDE DEF f
<1>4. Cardinality(M) = Cardinality(C)
  BY <1>2, <1>3, FS_Bijection DEF ExistsBijection
<1> QED
  BY <1>2, <1>4

\* crunchData's columns are those of the extents, whatever number of threads counted.
LEMMA ResultsAre ==
  ASSUME IInv
  PROVE  ResultsAreOfAllExtents
<1> SUFFICES ASSUME pc = "done", program = "fileDistTester" => threads = 1,
                    NEW k \in DOMAIN list, Distinct, NEW d \in DOMAIN list[k].capacity
             PROVE  Used(Id(k), d) =
                      SumFunction([i \in 0 .. extents - 1 |->
                        IF program = "fileDistTester" THEN BlocksOn(d, i)
                        ELSE Cardinality({c \in DOMAIN list[k].at[i] : list[k].at[i][c] = d})])
  BY DEF ResultsAreOfAllExtents, Distinct
<1>1. Parameters /\ Id(k) \in AllIds /\ d \in Disks(Id(k))
  BY LoadedIs, DistinctIs DEF IInv
<1>2. Used(Id(k), d) = UsedIn(Id(k), d, 0 .. extents - 1)
  BY <1>1, SumsAreOfAllExtents
<1>3. ASSUME NEW j \in 0 .. extents - 1
      PROVE  Counted(Id(k), d, j) =
               IF program = "fileDistTester" THEN BlocksOn(d, j)
               ELSE Cardinality({c \in DOMAIN list[k].at[j] : list[k].at[j][c] = d})
  <2> DEFINE C == {c \in DOMAIN Chosen(k, j) : Chosen(k, j)[c] = d}
             U == {kc \in Copies(j) : /\ Id(kc[1]) = Id(k)
                     /\ kc[2] \in DOMAIN Chosen(kc[1], j) /\ Chosen(kc[1], j)[kc[2]] = d}
             M == {kc \in Copies(j) : Id(kc[1]) = Id(k) /\ kc[2] \in C}
  <2>1. U = M
    <3>1. ASSUME NEW kc \in Copies(j), Id(kc[1]) = Id(k) PROVE kc[1] = k
      BY <1>1, <3>1, CopiesAre, DistinctIs
    <3> QED
      BY <3>1
  <2>2. Uses(Id(k), d, j) = Cardinality(U)
    BY DEF Uses
  <2>3. C \subseteq DOMAIN Chosen(k, j) /\ C = {c \in DOMAIN list[k].at[j] : list[k].at[j][c] = d}
    BY <1>1, DistinctIs
  <2>4. Cardinality(M) = Cardinality(C)
    <3>1. M = {kc \in Copies(j) : Id(kc[1]) = Id(k) /\ kc[2] \in C}
      OBVIOUS
    <3> HIDE DEF M, C
    <3> QED
      BY <1>1, <2>3, <3>1, CopiesOf
  <2> HIDE DEF C, U, M
  <2> QED
    BY <2>1, <2>2, <2>3, <2>4 DEF Counted
<1> DEFINE E == 0 .. extents - 1
           f == [i \in E |-> Counted(Id(k), d, i)]
           g == [i \in E |->
                   IF program = "fileDistTester" THEN BlocksOn(d, i)
                   ELSE Cardinality({c \in DOMAIN list[k].at[i] : list[k].at[i][c] = d})]
<1>4. f = g
  BY <1>3
<1>5. UsedIn(Id(k), d, E) = SumFunction(f)
  BY DEF UsedIn
<1> QED
  BY <1>2, <1>4, <1>5

\* Every extent is counted once, however many threads share them.
THEOREM AllExtentsCounted == Spec => []ResultsAreOfAllExtents
BY Invariance, ResultsAre, PTL

--------------------------------------------------------------------------------
(* The moves.                                                              *)

\* As many places of one injective list are not in the other as the other way round.
LEMMA EquallyManyNew ==
  ASSUME NEW N, IsFiniteSet(N), NEW a, NEW b, DOMAIN a = N, DOMAIN b = N,
         IsInjective(a), IsInjective(b)
  PROVE  Cardinality({c \in N : a[c] \notin ToSet(b)}) =
           Cardinality({c \in N : b[c] \notin ToSet(a)})
<1> DEFINE X == {c \in N : a[c] \in ToSet(b)}
           Y == {c \in N : b[c] \in ToSet(a)}
           f == [c \in X |-> CHOOSE e \in N : b[e] = a[c]]
<1>1. ASSUME NEW c \in X PROVE f[c] \in N /\ b[f[c]] = a[c] /\ f[c] \in Y
  <2>1. \E e \in N : b[e] = a[c]
    BY DEF ToSet
  <2>2. f[c] \in N /\ b[f[c]] = a[c]
    BY <2>1
  <2> QED
    BY <2>2 DEF ToSet
<1>2. ASSUME NEW e \in Y PROVE \E c \in X : f[c] = e
  <2>1. PICK c \in N : a[c] = b[e]
    BY DEF ToSet
  <2>2. c \in X
    BY <2>1 DEF ToSet
  <2>3. f[c] \in N /\ b[f[c]] = b[e]
    BY <1>1, <2>1, <2>2
  <2>4. f[c] = e
    BY <2>3 DEF IsInjective
  <2> QED
    BY <2>2, <2>4
<1>3. ASSUME NEW c \in X, NEW e \in X, f[c] = f[e] PROVE c = e
  <2>1. a[c] = a[e]
    BY <1>1, <1>3
  <2> QED
    BY <2>1 DEF IsInjective
<1>4. DOMAIN f = X /\ X \in SUBSET N /\ Y \in SUBSET N
  OBVIOUS
<1>5. {c \in N : a[c] \notin ToSet(b)} = N \ X /\ {c \in N : b[c] \notin ToSet(a)} = N \ Y
  OBVIOUS
<1>6. f = [c \in X |-> f[c]]
  OBVIOUS
<1> HIDE DEF X, Y, f
<1>7. f \in Bijection(X, Y)
  BY <1>1, <1>2, <1>3, <1>4, <1>6 DEF Bijection, Injection, Surjection, IsInjective
<1>8. IsFiniteSet(X) /\ IsFiniteSet(Y) /\ Cardinality(X) = Cardinality(Y)
  BY <1>4, <1>7, FS_Subset, FS_Bijection DEF ExistsBijection
<1>9. N \cap X = X /\ N \cap Y = Y
  BY <1>4
<1>10. Cardinality(N \ X) = Cardinality(N) - Cardinality(X)
  BY <1>8, <1>9, FS_Difference
<1>11. Cardinality(N \ Y) = Cardinality(N) - Cardinality(Y)
  BY <1>8, <1>9, FS_Difference
<1> QED
  BY <1>5, <1>8, <1>10, <1>11

\* With distinct numbers, compare counts the places of a disk in a distributor's list.
LEMMA UsesAre ==
  ASSUME Parameters, Distinct, program = "compare",
         NEW j \in 0 .. extents - 1, NEW k \in DOMAIN list, NEW d
  PROVE  Counted(Id(k), d, j) =
           Cardinality({c \in DOMAIN Chosen(k, j) : Chosen(k, j)[c] = d})
<1> DEFINE C == {c \in DOMAIN Chosen(k, j) : Chosen(k, j)[c] = d}
           U == {kc \in Copies(j) : /\ Id(kc[1]) = Id(k)
                   /\ kc[2] \in DOMAIN Chosen(kc[1], j) /\ Chosen(kc[1], j)[kc[2]] = d}
           M == {kc \in Copies(j) : Id(kc[1]) = Id(k) /\ kc[2] \in C}
<1>1. ASSUME NEW kc \in Copies(j), Id(kc[1]) = Id(k) PROVE kc[1] = k
  BY <1>1, CopiesAre, DistinctIs
<1>2. U = M
  BY <1>1
<1>3. Uses(Id(k), d, j) = Cardinality(U)
  BY DEF Uses
<1>4. C \subseteq DOMAIN Chosen(k, j) /\ M = {kc \in Copies(j) : Id(kc[1]) = Id(k) /\ kc[2] \in C}
  OBVIOUS
<1>5. Counted(Id(k), d, j) = Uses(Id(k), d, j)
  BY DEF Counted
<1> HIDE DEF C, U, M
<1>6. Cardinality(M) = Cardinality(C)
  BY <1>4, CopiesOf
<1> QED
  BY <1>2, <1>3, <1>5, <1>6 DEF C

\* ... and the moves to it are its places of disks that the one before did not choose.
LEMMA MovesAre ==
  ASSUME Parameters, Distinct,
         NEW j \in 0 .. extents - 1, NEW k \in DOMAIN list, k > 1
  PROVE  MovesTo(Id(k), j, FALSE) =
           Cardinality({c \in DOMAIN Chosen(k, j) :
                          Chosen(k, j)[c] \notin ToSet(Chosen(k - 1, j))})
<1> DEFINE C == {c \in DOMAIN Chosen(k, j) : Chosen(k, j)[c] \notin ToSet(Chosen(k - 1, j))}
           U == {kc \in Copies(j) :
                   /\ kc[1] > 1 /\ Id(kc[1]) = Id(k)
                   /\ LET before == Chosen(kc[1] - 1, j)
                          after  == Chosen(kc[1], j)
                      IN  /\ kc[2] \in DOMAIN after
                          /\ \/ after[kc[2]] \notin ToSet(before)
                             \/ FALSE /\ Place(before, after[kc[2]]) # kc[2]}
           M == {kc \in Copies(j) : Id(kc[1]) = Id(k) /\ kc[2] \in C}
<1>1. ASSUME NEW kc \in Copies(j), Id(kc[1]) = Id(k) PROVE kc[1] = k
  BY <1>1, CopiesAre, DistinctIs
<1>2. U = M
  BY <1>1
<1>3. MovesTo(Id(k), j, FALSE) = Cardinality(U)
  BY DEF MovesTo
<1>4. C \subseteq DOMAIN Chosen(k, j) /\ M = {kc \in Copies(j) : Id(kc[1]) = Id(k) /\ kc[2] \in C}
  OBVIOUS
<1> HIDE DEF C, U, M
<1>5. Cardinality(M) = Cardinality(C)
  BY <1>4, CopiesOf
<1> QED
  BY <1>2, <1>3, <1>5 DEF C

\* Copies that are counted with a move of their own for each extent are at most the moves.
LEMMA CountedAtMostMoved ==
  ASSUME Parameters, NEW x, NEW y, NEW D, IsFiniteSet(D),
         \A j \in 0 .. extents - 1 :
           SumFunction([d \in D |-> Counted(x, d, j)]) <= MovesTo(y, j, FALSE)
  PROVE  SumFunction([d \in D |-> UsedIn(x, d, 0 .. extents - 1)])
           <= MovesIn(y, FALSE, 0 .. extents - 1)
<1> DEFINE U(n) == [d \in D |-> UsedIn(x, d, 0 .. n - 1)]
           V(n) == MovesIn(y, FALSE, 0 .. n - 1)
           W(n) == [d \in D |-> Counted(x, d, n)]
           Fits(n) == /\ \A d \in D : U(n)[d] \in Int
                      /\ SumFunction(U(n)) <= V(n) /\ V(n) \in Int
           Good == {n \in Nat : n <= extents => Fits(n)}
<1>1. extents \in Nat
  BY DEF Parameters
<1>2. 0 \in Good
  <2>1. 0 .. 0 - 1 = {}
    OBVIOUS
  <2>2. \A d \in D : U(0)[d] = 0
    BY <2>1, NoneYet
  <2>3. V(0) = 0
    BY <2>1, NoneYet
  <2>4. DOMAIN U(0) = D
    OBVIOUS
  <2> DEFINE zero == [d \in D |-> 0]
             u == U(0)
  <2>5. \A d \in D : u[d] \in Int /\ zero[d] \in Int /\ u[d] = zero[d]
                      /\ u[d] = 0 * zero[d]
    BY <2>2
  <2> HIDE DEF U, V, zero, u
  <2>6. /\ SumFunctionOnSet(zero, D) \in Int
        /\ SumFunctionOnSet(u, D) = 0 * SumFunctionOnSet(zero, D)
    BY <2>5, SumIs, SumScaled
  <2>7. SumFunctionOnSet(u, D) = 0
    BY <2>6
  <2>8. SumFunction(U(0)) = 0
    BY <2>4, <2>7, SumOverIs DEF u
  <2> QED
    BY <2>2, <2>3, <2>8
<1>3. ASSUME NEW n \in Good PROVE n + 1 \in Good
  <2> SUFFICES ASSUME n + 1 <= extents PROVE Fits(n + 1)
    <3> HIDE DEF Fits
    <3> QED
      OBVIOUS
  <2>1. n \in Nat /\ n < extents /\ 0 <= n /\ n \in 0 .. extents - 1
    BY <1>1
  <2>2. /\ \A d \in D : U(n)[d] \in Int
        /\ SumFunction(U(n)) <= V(n) /\ V(n) \in Int
    <3>1. Fits(n)
      <4> HIDE DEF Fits
      <4> QED
        BY <1>1, <2>1
    <3> QED
      BY <3>1
  <2>3. ASSUME NEW d \in D
        PROVE  U(n + 1)[d] = U(n)[d] + W(n)[d] /\ W(n)[d] \in Int
    <3>1. UsedIn(x, d, 0 .. (n + 1) - 1) = UsedIn(x, d, 0 .. n - 1) + Counted(x, d, n)
      <4>1. 0 \in Nat /\ FALSE \in BOOLEAN
        OBVIOUS
      <4> QED
        BY <2>1, <4>1, OneMore
    <3>2. Counted(x, d, n) \in Nat
      BY <2>1, CountsAreNumbers
    <3> QED
      BY <3>1, <3>2
  <2>4. V(n + 1) = V(n) + MovesTo(y, n, FALSE)
    <3>1. 0 \in Nat /\ FALSE \in BOOLEAN
      OBVIOUS
    <3> QED
      BY <2>1, <3>1, OneMore
  <2>5. MovesTo(y, n, FALSE) \in Nat
    BY <2>1, CountsAreNumbers
  <2>6. SumFunction(W(n)) <= MovesTo(y, n, FALSE)
    BY <2>1
  <2>7. DOMAIN U(n) = D /\ DOMAIN U(n + 1) = D /\ DOMAIN W(n) = D
    OBVIOUS
  <2> DEFINE f == U(n)
             g == W(n)
             h == U(n + 1)
  <2> HIDE DEF U, V, W
  <2>8. \A d \in D : f[d] \in Int /\ g[d] \in Int /\ h[d] = f[d] + g[d]
    BY <2>2, <2>3
  <2>9. SumFunction(f) = SumFunctionOnSet(f, D) /\ SumFunction(g) = SumFunctionOnSet(g, D)
          /\ SumFunction(h) = SumFunctionOnSet(h, D)
    BY <2>7, SumOverIs
  <2> HIDE DEF f, g, h
  <2>10. SumFunctionOnSet(h, D) = SumFunctionOnSet(f, D) + SumFunctionOnSet(g, D)
    BY <2>8, SumPlus
  <2>11. SumFunctionOnSet(f, D) \in Int /\ SumFunctionOnSet(g, D) \in Int
    BY <2>8, SumIs
  <2>12. \A d \in D : h[d] \in Int
    BY <2>8
  <2>13. SumFunction(f) <= V(n) /\ V(n) \in Int /\ SumFunction(g) <= MovesTo(y, n, FALSE)
    BY <2>2, <2>6 DEF f, g
  <2>14. SumFunction(h) <= V(n + 1) /\ V(n + 1) \in Int
    <3> DEFINE p == SumFunctionOnSet(f, D)
               q == SumFunctionOnSet(g, D)
               v == V(n)
               m == MovesTo(y, n, FALSE)
    <3>1. p \in Int /\ q \in Int /\ v \in Int /\ m \in Int /\ p <= v /\ q <= m
      <4>1. p \in Int /\ q \in Int
        BY <2>11
      <4>2. p = SumFunction(f) /\ q = SumFunction(g)
        BY <2>9
      <4>3. p <= v /\ q <= m /\ v \in Int
        BY <2>13, <4>2
      <4>4. m \in Int
        <5>1. m \in Nat
          BY <2>5
        <5> HIDE DEF m
        <5> QED
          BY <5>1
      <4> QED
        BY <4>1, <4>3, <4>4
    <3>2. SumFunction(h) = p + q /\ V(n + 1) = v + m
      BY <2>4, <2>9, <2>10
    <3> HIDE DEF p, q, v, m
    <3> QED
      BY <3>1, <3>2
  <2> QED
    BY <2>12, <2>14 DEF h
<1>4. Good = Nat
  <2>1. Good \in SUBSET Nat
    OBVIOUS
  <2> HIDE DEF Good
  <2> QED
    BY <1>2, <1>3, <2>1, InductionSet
<1>5. Fits(extents)
  <2> HIDE DEF Fits
  <2> QED
    BY <1>1, <1>4
<1> QED
  BY <1>5

\* What is counted for a set of disks in an extent: the places that have one of them
LEMMA UsesOfDisks ==
  ASSUME Parameters, Distinct, program = "compare",
         NEW j \in 0 .. extents - 1, NEW k \in DOMAIN list, NEW D, IsFiniteSet(D)
  PROVE  SumFunction([d \in D |-> Counted(Id(k), d, j)]) =
           Cardinality({c \in DOMAIN Chosen(k, j) : Chosen(k, j)[c] \in D})
<1> DEFINE f == [d \in D |-> Counted(Id(k), d, j)]
           N == DOMAIN Chosen(k, j)
           class == Chosen(k, j)
<1>1. \A d \in D : f[d] = Cardinality({c \in N : class[c] = d})
  BY UsesAre
<1>2. IsFiniteSet(N)
  BY CopiesOf
<1>3. DOMAIN f = D
  OBVIOUS
<1> HIDE DEF f, N, class
<1>4. SumFunctionOnSet(f, D) = Cardinality({c \in N : class[c] \in D})
  <2>1. \A d \in D : f[d] = Cardinality(InClasses(N, class, {d}))
    <3>1. \A d \in D : InClasses(N, class, {d}) = {c \in N : class[c] = d}
      BY DEF InClasses
    <3> QED
      BY <1>1, <3>1
  <2>2. SumFunctionOnSet(f, D) = Cardinality(InClasses(N, class, D))
    BY <1>2, <2>1, CountedClasses
  <2> QED
    BY <2>2 DEF InClasses
<1> QED
  BY <1>3, <1>4, SumOverIs DEF f, N, class

\* Every copy on an added disk has moved, and with distinct disks every one on a removed disk.
LEMMA ChangesMove ==
  ASSUME Parameters, Distinct, program = "compare",
         NEW j \in 0 .. extents - 1, NEW k \in DOMAIN list, k > 1
  PROVE  /\ SumFunction([d \in Added(k) |-> Counted(Id(k), d, j)]) <= MovesTo(Id(k), j, FALSE)
         /\ /\ IsInjective(Chosen(k, j)) /\ IsInjective(Chosen(k - 1, j))
            /\ Len(Chosen(k, j)) = Len(Chosen(k - 1, j))
            => SumFunction([d \in Removed(k) |-> Counted(Id(k - 1), d, j)])
                 <= MovesTo(Id(k), j, FALSE)
<1> DEFINE after == Chosen(k, j)
           before == Chosen(k - 1, j)
           A == Added(k)
           R == Removed(k)
           New == {c \in DOMAIN after : after[c] \notin ToSet(before)}
           Gone == {c \in DOMAIN before : before[c] \notin ToSet(after)}
<1>1. k - 1 \in DOMAIN list
  BY Distributors
<1>2. /\ IsFiniteSet(Disks(Id(k))) /\ IsFiniteSet(Disks(Id(k - 1)))
      /\ \A c \in DOMAIN after : after[c] \in Disks(Id(k))
      /\ \A c \in DOMAIN before : before[c] \in Disks(Id(k - 1))
      /\ Len(after) \in Nat /\ DOMAIN after = 1 .. Len(after)
      /\ Len(before) \in Nat /\ DOMAIN before = 1 .. Len(before)
  <2>1. ASSUME NEW l \in DOMAIN list
        PROVE  /\ IsFiniteSet(Disks(Id(l)))
               /\ \A c \in DOMAIN Chosen(l, j) : Chosen(l, j)[c] \in Disks(Id(l))
               /\ Len(Chosen(l, j)) \in Nat /\ DOMAIN Chosen(l, j) = 1 .. Len(Chosen(l, j))
    BY ChosenIs
  <2> QED
    BY <1>1, <2>1
<1>3. IsFiniteSet(A) /\ IsFiniteSet(R)
  <2> DEFINE P == Disks(Id(k))
             Q == Disks(Id(k - 1))
  <2>1. A \in SUBSET P /\ R \in SUBSET Q /\ IsFiniteSet(P) /\ IsFiniteSet(Q)
    BY <1>2 DEF Added, Removed
  <2> HIDE DEF A, R, P, Q
  <2> QED
    BY <2>1, FS_Subset
<1>4. IsFiniteSet(DOMAIN after) /\ IsFiniteSet(DOMAIN before)
  <2> DEFINE n == Len(after)
             m == Len(before)
  <2>1. n \in Int /\ m \in Int /\ 1 \in Int
    BY <1>2
  <2> HIDE DEF n, m
  <2>2. IsFiniteSet(1 .. n) /\ IsFiniteSet(1 .. m)
    BY <2>1, FS_Interval
  <2> QED
    BY <1>2, <2>2 DEF n, m
<1>5. MovesTo(Id(k), j, FALSE) = Cardinality(New)
  BY MovesAre
<1>6. SumFunction([d \in A |-> Counted(Id(k), d, j)]) =
        Cardinality({c \in DOMAIN after : after[c] \in A})
  <2> HIDE DEF A
  <2> QED
    BY <1>3, UsesOfDisks
<1>7. SumFunction([d \in R |-> Counted(Id(k - 1), d, j)]) =
        Cardinality({c \in DOMAIN before : before[c] \in R})
  <2> DEFINE l == k - 1
  <2>1. l \in DOMAIN list
    BY <1>1
  <2> HIDE DEF R, l
  <2>2. SumFunction([d \in R |-> Counted(Id(l), d, j)]) =
          Cardinality({c \in DOMAIN Chosen(l, j) : Chosen(l, j)[c] \in R})
    BY <1>3, <2>1, UsesOfDisks
  <2> QED
    BY <2>2 DEF l
<1>8. {c \in DOMAIN after : after[c] \in A} \in SUBSET New
  BY <1>2 DEF Added, ToSet
<1>9. {c \in DOMAIN before : before[c] \in R} \in SUBSET Gone
  BY <1>2 DEF Removed, ToSet
<1>10. New \in SUBSET DOMAIN after /\ Gone \in SUBSET DOMAIN before
  OBVIOUS
<1>11. ASSUME IsInjective(after), IsInjective(before), Len(after) = Len(before)
       PROVE  Cardinality(Gone) = Cardinality(New)
  <2> DEFINE N == DOMAIN after
  <2>1. DOMAIN before = N /\ DOMAIN after = N
    BY <1>2, <1>11
  <2> HIDE DEF N, after, before
  <2> QED
    BY <1>4, <1>11, <2>1, EquallyManyNew
<1> DEFINE OnAdded == {c \in DOMAIN after : after[c] \in A}
           OnRemoved == {c \in DOMAIN before : before[c] \in R}
<1>12. Cardinality(OnAdded) <= Cardinality(New)
  <2>1. IsFiniteSet(New) /\ OnAdded \in SUBSET New
    <3>1. New \in SUBSET DOMAIN after
      OBVIOUS
    <3> DEFINE N == DOMAIN after
    <3> HIDE DEF New, after
    <3> QED
      BY <1>4, <1>8, <3>1, FS_Subset
  <2> HIDE DEF New, OnAdded
  <2> QED
    BY <2>1, FS_Subset
<1>13. Cardinality(OnRemoved) <= Cardinality(Gone)
  <2>1. IsFiniteSet(Gone) /\ OnRemoved \in SUBSET Gone
    <3>1. Gone \in SUBSET DOMAIN before
      OBVIOUS
    <3> HIDE DEF Gone, before
    <3> QED
      BY <1>4, <1>9, <3>1, FS_Subset
  <2> HIDE DEF Gone, OnRemoved
  <2> QED
    BY <2>1, FS_Subset
<1>14. SumFunction([d \in A |-> Counted(Id(k), d, j)]) <= MovesTo(Id(k), j, FALSE)
  BY <1>5, <1>6, <1>12
<1>15. ASSUME IsInjective(after), IsInjective(before), Len(after) = Len(before)
       PROVE  SumFunction([d \in R |-> Counted(Id(k - 1), d, j)]) <= MovesTo(Id(k), j, FALSE)
  BY <1>5, <1>7, <1>11, <1>13, <1>15
<1> QED
  BY <1>14, <1>15

\* All moves are moves with regard to order, too.
LEMMA MovesAreInOrder ==
  ASSUME Parameters, NEW id
  PROVE  MovesIn(id, FALSE, 0 .. extents - 1) <= MovesIn(id, TRUE, 0 .. extents - 1)
<1> DEFINE E == 0 .. extents - 1
           f == [j \in E |-> MovesTo(id, j, FALSE)]
           g == [j \in E |-> MovesTo(id, j, TRUE)]
<1>1. IsFiniteSet(E)
  <2>1. extents - 1 \in Int /\ 0 \in Int
    BY DEF Parameters
  <2> QED
    BY <2>1, FS_Interval
<1>2. \A j \in E : f[j] \in Int /\ g[j] \in Int /\ f[j] <= g[j]
  <2>1. ASSUME NEW j \in E
        PROVE  /\ MovesTo(id, j, FALSE) \in Nat /\ MovesTo(id, j, TRUE) \in Nat
               /\ MovesTo(id, j, FALSE) <= MovesTo(id, j, TRUE)
    BY CountsAreNumbers
  <2>2. \A j \in E : f[j] = MovesTo(id, j, FALSE) /\ g[j] = MovesTo(id, j, TRUE)
    OBVIOUS
  <2> HIDE DEF E, f, g
  <2>3. ASSUME NEW j \in E PROVE f[j] \in Nat /\ g[j] \in Nat /\ f[j] <= g[j]
    BY <2>1, <2>2
  <2> QED
    BY <2>3
<1>3. MovesIn(id, FALSE, E) = SumFunction(f) /\ MovesIn(id, TRUE, E) = SumFunction(g)
  BY DEF MovesIn
<1>4. DOMAIN f = E /\ DOMAIN g = E
  OBVIOUS
<1> HIDE DEF E, f, g
<1>5. SumFunction(f) <= SumFunction(g)
  BY <1>1, <1>2, <1>4, SumOverIs, SumCompare
<1> QED
  BY <1>3, <1>5 DEF E

\* crunchData's and writeCompare's columns fit together.
LEMMA ColumnsFit ==
  ASSUME IInv
  PROVE  MovesCoverChanges
<1> DEFINE E == 0 .. extents - 1
           Comparable(k) == \A i \in E :
                /\ IsInjective(Chosen(k, i)) /\ IsInjective(Chosen(k - 1, i))
                /\ Len(Chosen(k, i)) = Len(Chosen(k - 1, i))
<1> SUFFICES ASSUME pc = "done", program = "compare", Distinct, NEW k \in 2 .. Len(list)
             PROVE  /\ UsedOf(Id(k), Added(k)) <= MovedWithoutOrder(Id(k))
                    /\ Comparable(k) =>
                         UsedOf(Id(k - 1), Removed(k)) <= MovedWithoutOrder(Id(k))
                    /\ MovedWithoutOrder(Id(k)) <= MovedWithOrder(Id(k))
  BY DEF MovesCoverChanges, Distinct
<1>1. Parameters
  BY DEF IInv
<1>2. k \in DOMAIN list /\ k - 1 \in DOMAIN list /\ k > 1
  BY <1>1, Distributors
<1>3. Id(k) \in AllIds /\ Id(k - 1) \in AllIds
  <2>1. \A l \in DOMAIN list : Id(l) \in AllIds
    BY <1>1, LoadedIs
  <2> QED
    BY <1>2, <2>1
<1>4. ASSUME NEW id \in AllIds
      PROVE  /\ \A d \in Disks(id) : Used(id, d) = UsedIn(id, d, E)
             /\ MovedWithOrder(id) = MovesIn(id, TRUE, E)
             /\ MovedWithoutOrder(id) = MovesIn(id, FALSE, E)
  <2>1. program = "fileDistTester" => threads = 1
    OBVIOUS
  <2> QED
    BY <2>1, SumsAreOfAllExtents
<1>5. ASSUME NEW l \in DOMAIN list, NEW D, D \in SUBSET Disks(Id(l)), Id(l) \in AllIds,
             \A j \in E : SumFunction([d \in D |-> Counted(Id(l), d, j)])
                            <= MovesTo(Id(k), j, FALSE)
      PROVE  UsedOf(Id(l), D) <= MovedWithoutOrder(Id(k))
  <2>1. IsFiniteSet(D)
    <3>1. IsFiniteSet(Disks(Id(l)))
      BY <1>1, <1>2, DistinctIs, Distributors
    <3> QED
      BY <1>5, <3>1, FS_Subset
  <2>2. SumFunction([d \in D |-> UsedIn(Id(l), d, E)]) <= MovesIn(Id(k), FALSE, E)
    BY <1>1, <1>5, <2>1, CountedAtMostMoved
  <2>3. [d \in D |-> Used(Id(l), d)] = [d \in D |-> UsedIn(Id(l), d, E)]
    BY <1>4, <1>5
  <2> QED
    BY <1>3, <1>4, <2>2, <2>3 DEF UsedOf
<1>6. UsedOf(Id(k), Added(k)) <= MovedWithoutOrder(Id(k))
  <2>1. \A j \in E : SumFunction([d \in Added(k) |-> Counted(Id(k), d, j)])
                       <= MovesTo(Id(k), j, FALSE)
    BY <1>1, <1>2, ChangesMove
  <2>2. Added(k) \in SUBSET Disks(Id(k))
    BY DEF Added
  <2> QED
    BY <1>2, <1>3, <1>5, <2>1, <2>2
<1>7. ASSUME Comparable(k) PROVE UsedOf(Id(k - 1), Removed(k)) <= MovedWithoutOrder(Id(k))
  <2>1. \A j \in E : SumFunction([d \in Removed(k) |-> Counted(Id(k - 1), d, j)])
                       <= MovesTo(Id(k), j, FALSE)
    BY <1>1, <1>2, <1>7, ChangesMove
  <2>2. Removed(k) \in SUBSET Disks(Id(k - 1))
    BY DEF Removed
  <2> QED
    BY <1>2, <1>3, <1>5, <2>1, <2>2
<1>8. MovedWithoutOrder(Id(k)) <= MovedWithOrder(Id(k))
  BY <1>1, <1>3, <1>4, MovesAreInOrder
<1> QED
  BY <1>6, <1>7, <1>8

\* Whatever the threads do, writeCompare's columns of used and moved copies fit together.
THEOREM MovesCover == Spec => []MovesCoverChanges
BY Invariance, ColumnsFit, PTL
================================================================================
