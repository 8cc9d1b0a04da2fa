------------------------------ MODULE CrushProofs ------------------------------
(***************************************************************************)
(* The permutation of a bucket, and the choice of the failure domains.     *)
(*                                                                         *)
(* For every number of threads, every size of the bucket and every hash    *)
(* function: the threads never disturb each other's use of the cached      *)
(* permutation, and a call returns the element it would have computed      *)
(* without a cache.                                                        *)
(*                                                                         *)
(* For every list of disks, every number of copies, every type of bucket   *)
(* and everything the draws may give: the copies of an extent are in       *)
(* different domains, no assertion fails while there are two layers, and   *)
(* no copy is given up while a domain that the search asks for is free.    *)
(***************************************************************************)
EXTENDS CrushPerm, CrushRule, NumberFacts

--------------------------------------------------------------------------------
(* CrushPerm: the inductive invariant.                                     *)

\* The hash values, reduced as the code does, stay in the bucket.
HashInRange == \A v \in X, n \in Position : n + hash[v][n] < size

\* One thread at a time is inside of do_rule.
Mutex ==
  /\ \A t \in Thread : pc[t] # "out" <=> t \in holder
  /\ \A t, u \in holder : t = u

\* What the cache holds between two calls: the elements that are counted.
Cached ==
  /\ perm_n = Magic => perm[0] = Shuffled(perm_x)[1][0]
  /\ perm_n # Magic /\ perm_n # 0 => perm = Shuffled(perm_x)[perm_n]

\* From the test on the thread works on the permutation of its own x.
Own(t) ==
  pc[t] \in {"first", "mark", "identity", "reset", "clean", "count", "extend", "swap", "next"} =>
    perm_x = x[t]

\* Starting a permutation
Starting(t) ==
  /\ pc[t] \in {"first", "mark"} => pr[t] = 0
  /\ pc[t] = "mark" => s[t] = hash[x[t]][0] /\ perm[0] = hash[x[t]][0]
  /\ pc[t] = "identity" => i[t] < size /\ \A n \in 0 .. i[t] - 1 : perm[n] = n
  /\ pc[t] = "reset" => perm = Shuffled(x[t])[0]

\* Completing the permutation of which the first element is there
Cleaning(t) ==
  /\ pc[t] = "clean" =>
       /\ perm_n = Magic /\ i[t] >= 1
       /\ perm[0] = hash[x[t]][0] /\ \A n \in 1 .. i[t] - 1 : perm[n] = n
  /\ pc[t] = "count" => perm = Shuffled(x[t])[1]

\* Extending it
Extending(t) ==
  /\ pc[t] = "extend" => perm_n # Magic /\ perm = Shuffled(x[t])[perm_n]
  /\ pc[t] = "swap" =>
       p[t] = perm_n /\ perm_n <= pr[t] /\ perm = Shuffled(x[t])[perm_n]
  /\ pc[t] = "next" =>
       p[t] = perm_n /\ perm_n <= pr[t] /\ perm = Shuffled(x[t])[perm_n + 1]

\* Where the cache may be seen by the next call
CachedAt(t) == pc[t] \in {"idle", "test", "done"} => Cached

Progress(t) == Own(t) /\ Starting(t) /\ Cleaning(t) /\ Extending(t) /\ CachedAt(t)

PermInv ==
  /\ TypeOK /\ HashInRange /\ Mutex
  /\ holder = {} => Cached
  /\ \A t \in Thread : Progress(t)
  /\ ReturnsPermutation

--------------------------------------------------------------------------------
(* The permutation of a value of x.                                        *)

\* The function that Shuffled defines recursively exists: its first element and the
\* step from one to the next.
LEMMA ShuffledIs ==
  ASSUME size \in Nat \ {0}, hash \in [X -> [Position -> Position]], HashInRange, NEW v \in X
  PROVE  /\ Shuffled(v) \in [0 .. size -> [Position -> Position]]
         /\ Shuffled(v)[0] = [j \in Position |-> j]
         /\ \A n \in Position :
              LET before == Shuffled(v)[n]
                  other == n + hash[v][n]
              IN  Shuffled(v)[n + 1] = [before EXCEPT ![n] = before[other], ![other] = before[n]]
<1> DEFINE Perms == [Position -> Position]
           identity == [j \in Position |-> j]
           Swapped(n, u) ==
             [u EXCEPT ![n] = u[n + hash[v][n]], ![n + hash[v][n]] = u[n]]
           G == [n \in Nat |-> [u \in Perms |-> IF n < size THEN Swapped(n, u) ELSE u]]
<1>1. identity \in Perms
  OBVIOUS
<1>2. \A n \in Position : n + hash[v][n] \in Position
  BY DEF Position, HashInRange
<1>3. ASSUME NEW n \in Position, NEW u \in Perms PROVE Swapped(n, u) \in Perms
  BY <1>2
<1>4. \A n \in Nat : n < size => n \in Position
  BY DEF Position
<1>5. G \in [Nat -> [Perms -> Perms]]
  <2> HIDE DEF Perms, Swapped
  <2> QED
    BY <1>3, <1>4
<1>6. PICK f \in [Nat -> Perms] : f[0] = identity /\ \A n \in Nat : f[n + 1] = G[n][f[n]]
  <2>1. RecursiveSequences(Perms, identity, G) # {}
    <3> HIDE DEF Perms, identity, G
    <3> QED
      BY <1>1, <1>5, RecursiveSequence
  <2> QED
    BY <2>1 DEF RecursiveSequences
<1>7. ASSUME NEW n \in Position PROVE f[n + 1] = Swapped(n, f[n])
  <2>1. n \in Nat /\ n < size
    BY DEF Position
  <2> HIDE DEF Perms, Swapped
  <2> QED
    BY <1>6, <2>1
<1> DEFINE F == [n \in 0 .. size |-> f[n]]
           Unroll(g) == [n \in 0 .. size |->
             IF n = 0 THEN identity
             ELSE LET before == g[n - 1]
                      other == n - 1 + hash[v][n - 1]
                  IN  [before EXCEPT ![n - 1] = before[other], ![other] = before[n - 1]]]
<1>8. F = Unroll(F)
  <2>1. ASSUME NEW n \in 0 .. size PROVE F[n] = Unroll(F)[n]
    <3>1. CASE n = 0
      BY <1>6, <3>1
    <3>2. CASE n # 0
      <4>1. n - 1 \in Position /\ n - 1 \in 0 .. size /\ (n - 1) + 1 = n
        BY <3>2 DEF Position
      <4>2. f[n] = Swapped(n - 1, f[n - 1])
        BY <1>7, <4>1
      <4>3. F[n - 1] = f[n - 1]
        BY <4>1
      <4>4. Unroll(F)[n] = Swapped(n - 1, F[n - 1])
        BY <3>2
      <4> QED
        BY <4>2, <4>3, <4>4
    <3> QED
      BY <3>1, <3>2
  <2> QED
    BY <2>1
<1>9. Shuffled(v) = CHOOSE g : g = Unroll(g)
  BY DEF Shuffled
<1>10. Shuffled(v) = Unroll(Shuffled(v))
  <2> HIDE DEF F, Unroll
  <2> QED
    BY <1>8, <1>9
<1> DEFINE g == Shuffled(v)
<1>11. \A n \in 0 .. size : g[n] = Unroll(g)[n]
  BY <1>10
<1>12. g[0] = identity /\ DOMAIN g = 0 .. size
  BY <1>10
<1>13. ASSUME NEW n \in Position PROVE g[n + 1] = Swapped(n, g[n])
  <2>1. n + 1 \in 0 .. size /\ n + 1 # 0 /\ (n + 1) - 1 = n
    BY DEF Position
  <2>2. g[n + 1] = Unroll(g)[n + 1]
    BY <1>11, <2>1
  <2> HIDE DEF g
  <2> QED
    BY <2>1, <2>2
<1>14. \A n \in 0 .. size : g[n] \in Perms
  <2> DEFINE Sound == {n \in Nat : n <= size => g[n] \in Perms}
  <2> HIDE DEF g
  <2>1. 0 \in Sound
    BY <1>1, <1>12
  <2>2. ASSUME NEW n \in Sound PROVE n + 1 \in Sound
    <3> SUFFICES ASSUME n + 1 <= size PROVE g[n + 1] \in Perms
      OBVIOUS
    <3> HIDE DEF Perms, Swapped
    <3>1. n \in Nat /\ n < size
      OBVIOUS
    <3>2. n \in Position
      BY <3>1 DEF Position
    <3>3. g[n] \in Perms
      BY <3>1
    <3> QED
      BY <1>3, <1>13, <3>2, <3>3
  <2>3. Sound = Nat
    <3>1. Sound \in SUBSET Nat
      OBVIOUS
    <3> HIDE DEF Sound
    <3> QED
      BY <2>1, <2>2, <3>1, InductionSet
  <2> QED
    BY <2>3
<1>15. g \in [0 .. size -> Perms]
  <2> HIDE DEF Perms
  <2>1. g = [n \in 0 .. size |-> g[n]]
    BY <1>10
  <2> HIDE DEF g
  <2> QED
    BY <1>14, <2>1
<1> HIDE DEF g
<1> QED
  BY <1>12, <1>13, <1>15 DEF g

\* Step n and those behind it leave the elements before the n-th alone.
LEMMA ShuffledStable ==
  ASSUME size \in Nat \ {0}, hash \in [X -> [Position -> Position]], HashInRange, NEW v \in X,
         NEW n \in 0 .. size, NEW m \in n .. size, NEW j \in Position, j < n
  PROVE  Shuffled(v)[m][j] = Shuffled(v)[n][j]
<1> DEFINE g == Shuffled(v)
           Stable == {k \in Nat : n + k <= size => g[n + k][j] = g[n][j]}
<1> HIDE DEF g
<1>1. /\ g \in [0 .. size -> [Position -> Position]]
      /\ \A k \in Position :
           g[k + 1] = [g[k] EXCEPT ![k] = g[k][k + hash[v][k]], ![k + hash[v][k]] = g[k][k]]
  BY ShuffledIs DEF g
<1>2. 0 \in Stable
  OBVIOUS
<1>3. ASSUME NEW k \in Stable PROVE k + 1 \in Stable
  <2> SUFFICES ASSUME n + (k + 1) <= size PROVE g[n + (k + 1)][j] = g[n][j]
    OBVIOUS
  <2>1. n + k \in Position /\ n + k \in 0 .. size /\ n + (k + 1) = (n + k) + 1
    BY DEF Position
  <2>2. j # n + k /\ j # n + k + hash[v][n + k] /\ hash[v][n + k] \in Position
    BY <2>1, SMTT(30) DEF Position
  <2>3. g[n + k][j] = g[n][j]
    BY <2>1
  <2>4. g[(n + k) + 1][j] = g[n + k][j]
    <3> DEFINE l == n + k
               o == l + hash[v][l]
    <3>1. l \in Position /\ g[l] \in [Position -> Position] /\ j # l /\ j # o
      BY <1>1, <2>1, <2>2
    <3>2. g[l + 1] = [g[l] EXCEPT ![l] = g[l][o], ![o] = g[l][l]]
      BY <1>1, <2>1
    <3> HIDE DEF l, o
    <3>3. g[l + 1][j] = g[l][j]
      BY <3>1, <3>2
    <3> QED
      BY <3>3 DEF l
  <2> QED
    BY <2>1, <2>3, <2>4
<1>4. Stable = Nat
  <2>1. Stable \in SUBSET Nat
    OBVIOUS
  <2> HIDE DEF Stable
  <2> QED
    BY <1>2, <1>3, <2>1, InductionSet
<1>5. m - n \in Stable /\ n + (m - n) = m
  <2>1. m - n \in Nat /\ n + (m - n) = m
    OBVIOUS
  <2> HIDE DEF Stable
  <2> QED
    BY <1>4, <2>1
<1>6. g[m][j] = g[n][j]
  BY <1>5
<1> QED
  BY <1>6 DEF g

\* The first element, and the last, which no swap changes.
LEMMA ShuffledEnds ==
  ASSUME size \in Nat \ {0}, hash \in [X -> [Position -> Position]], HashInRange, NEW v \in X
  PROVE  /\ Shuffled(v)[1][0] = hash[v][0]
         /\ Shuffled(v)[1] = [[j \in Position |-> j] EXCEPT ![0] = hash[v][0], ![hash[v][0]] = 0]
         /\ Shuffled(v)[size] = Shuffled(v)[size - 1]
<1> DEFINE g == Shuffled(v)
<1> HIDE DEF g
<1>1. /\ g \in [0 .. size -> [Position -> Position]]
      /\ g[0] = [j \in Position |-> j]
      /\ \A k \in Position :
           g[k + 1] = [g[k] EXCEPT ![k] = g[k][k + hash[v][k]], ![k + hash[v][k]] = g[k][k]]
  BY ShuffledIs DEF g
<1>2. 0 \in Position /\ size - 1 \in Position /\ (size - 1) + 1 = size /\ hash[v][0] \in Position
  BY DEF Position
<1>3. hash[v][size - 1] = 0
  <2>1. hash[v][size - 1] \in Position /\ (size - 1) + hash[v][size - 1] < size
    BY <1>2 DEF HashInRange
  <2> QED
    BY <2>1 DEF Position
<1>4. g[1] = [[j \in Position |-> j] EXCEPT ![0] = hash[v][0], ![hash[v][0]] = 0]
  <2>1. g[0 + 1] = [g[0] EXCEPT ![0] = g[0][0 + hash[v][0]], ![0 + hash[v][0]] = g[0][0]]
    BY <1>1, <1>2
  <2>2. 0 + hash[v][0] = hash[v][0] /\ 0 + 1 = 1
    BY <1>2 DEF Position
  <2>3. g[0][hash[v][0]] = hash[v][0] /\ g[0][0] = 0
    BY <1>1, <1>2
  <2> QED
    BY <1>1, <2>1, <2>2, <2>3
<1>5. g[1][0] = hash[v][0]
  BY <1>2, <1>4
<1>6. g[size] = g[size - 1]
  <2> DEFINE l == size - 1
  <2>1. g[l + 1] = [g[l] EXCEPT ![l] = g[l][l + hash[v][l]], ![l + hash[v][l]] = g[l][l]]
    BY <1>1, <1>2
  <2>2. l + hash[v][l] = l
    BY <1>2, <1>3
  <2>3. g[l + 1] = [g[l] EXCEPT ![l] = g[l][l], ![l] = g[l][l]]
    BY <2>1, <2>2
  <2>4. g[l] \in [Position -> Position] /\ l \in Position
    <3>1. l \in Position /\ l \in 0 .. size
      BY <1>2 DEF Position
    <3> QED
      BY <1>1, <3>1
  <2>5. \A u \in [Position -> Position] : [u EXCEPT ![l] = u[l], ![l] = u[l]] = u
    BY <2>4
  <2>6. g[l + 1] = g[l]
    <3> HIDE DEF l
    <3> QED
      BY <2>3, <2>4, <2>5
  <2> QED
    BY <1>2, <2>6
<1> QED
  BY <1>4, <1>5, <1>6 DEF g

\* Every step exchanges two elements, so no element comes twice.
LEMMA ShuffledInjective ==
  ASSUME size \in Nat \ {0}, hash \in [X -> [Position -> Position]], HashInRange, NEW v \in X,
         NEW n \in 0 .. size, NEW j \in Position, NEW k \in Position,
         Shuffled(v)[n][j] = Shuffled(v)[n][k]
  PROVE  j = k
<1> DEFINE g == Shuffled(v)
           Injective(u) == \A a, b \in Position : u[a] = u[b] => a = b
           Sound == {m \in Nat : m <= size => Injective(g[m])}
<1> HIDE DEF g
<1>1. /\ g \in [0 .. size -> [Position -> Position]]
      /\ g[0] = [a \in Position |-> a]
      /\ \A a \in Position :
           g[a + 1] = [g[a] EXCEPT ![a] = g[a][a + hash[v][a]], ![a + hash[v][a]] = g[a][a]]
  BY ShuffledIs DEF g
<1>2. 0 \in Sound
  BY <1>1
<1>3. ASSUME NEW m \in Sound PROVE m + 1 \in Sound
  <2> SUFFICES ASSUME m + 1 <= size PROVE Injective(g[m + 1])
    OBVIOUS
  <2> DEFINE o == m + hash[v][m]
  <2>1. m \in Position /\ m \in 0 .. size
    BY DEF Position
  <2>2. o \in Position
    <3>1. hash[v][m] \in Position /\ m + hash[v][m] < size
      BY <2>1 DEF HashInRange
    <3>2. m \in Nat /\ hash[v][m] \in Nat
      BY <2>1, <3>1 DEF Position
    <3>3. \A a, b \in Nat : a + b < size => a + b \in 0 .. size - 1
      OBVIOUS
    <3> QED
      BY <3>1, <3>2, <3>3 DEF Position
  <2>3. g[m] \in [Position -> Position] /\ Injective(g[m])
    BY <1>1, <2>1
  <2>4. g[m + 1] = [g[m] EXCEPT ![m] = g[m][o], ![o] = g[m][m]]
    BY <1>1, <2>1
  <2> HIDE DEF o
  <2> QED
    BY <2>1, <2>2, <2>3, <2>4
<1>4. Sound = Nat
  <2>1. Sound \in SUBSET Nat
    OBVIOUS
  <2> HIDE DEF Sound
  <2> QED
    BY <1>2, <1>3, <2>1, InductionSet
<1>5. Injective(g[n])
  <2>1. n \in Nat /\ n <= size
    <3> HIDE DEF Sound, Injective
    <3> QED
      OBVIOUS
  <2>2. n \in Sound
    <3> HIDE DEF Sound
    <3> QED
      BY <1>4, <2>1
  <2> QED
    BY <2>1, <2>2
<1> QED
  BY <1>5 DEF g

\* A permutation does not change with the rest of the state.
LEMMA ShuffledUnchanged ==
  ASSUME UNCHANGED bucket, NEW t
  PROVE  /\ x'[t] = x[t] => Shuffled(x[t])' = Shuffled(x[t])
         /\ perm_x' = perm_x => Shuffled(perm_x)' = Shuffled(perm_x)
<1>1. size' = size /\ hash' = hash /\ Position' = Position
  BY DEF bucket, Position
<1>2. ASSUME x'[t] = x[t] PROVE Shuffled(x[t])' = Shuffled(x[t])
  BY <1>1, <1>2 DEF Shuffled
<1>3. ASSUME perm_x' = perm_x PROVE Shuffled(perm_x)' = Shuffled(perm_x)
  BY <1>1, <1>3 DEF Shuffled
<1> QED
  BY <1>2, <1>3

--------------------------------------------------------------------------------
(* The steps of the thread that holds the mutex.                           *)

\* What the type invariant says of the numbers
LEMMA Numbers ==
  ASSUME PermInv
  PROVE  /\ size \in Nat \ {0} /\ size < Magic /\ Magic \in Nat
         /\ Position = 0 .. size - 1 /\ 0 \in Position
         /\ 0 \in 0 .. size /\ 1 \in 0 .. size
         /\ hash \in [X -> [Position -> Position]]
         /\ UNCHANGED bucket => Position' = Position
<1>1. MaxSize \in Nat /\ MaxSize < Magic /\ Magic \in Nat
  <2>1. MaxSize \in 1 .. Magic - 1
    BY ONLY InputAssumption
  <2>2. Magic \in Nat
    BY ONLY DEF Magic
  <2> QED
    BY ONLY <2>1, <2>2
<1>2. size \in 1 .. MaxSize /\ hash \in [X -> [Position -> Position]]
  BY DEF PermInv, TypeOK
<1>3. size \in Nat \ {0} /\ size < Magic
  BY <1>1, <1>2
<1>4. 0 \in 0 .. size /\ 1 \in 0 .. size
  BY <1>3
<1>5. UNCHANGED bucket => Position' = Position
  BY DEF bucket, Position
<1> QED
  BY <1>1, <1>2, <1>3, <1>4, <1>5 DEF Position

\* A step of the holder that keeps the mutex disturbs no other thread: they are all out.
LEMMA Inside ==
  ASSUME PermInv, NEW t \in Thread, pc[t] # "out",
         NEW c, c # "out", pc' = [pc EXCEPT ![t] = c], UNCHANGED <<bucket, holder>>,
         TypeOK', Progress(t)', c = "done" => (s[t] = Permutation(x[t])[pr[t]])'
  PROVE  PermInv'
<1>1. HashInRange'
  BY DEF PermInv, HashInRange, bucket, Position
<1>2. DOMAIN pc = Thread /\ pc'[t] = c /\ \A u \in Thread \ {t} : pc'[u] = pc[u]
  BY DEF PermInv, TypeOK
<1>3. t \in holder /\ holder' = holder
  BY DEF PermInv, Mutex
<1>4. Mutex'
  BY <1>2, <1>3 DEF PermInv, Mutex
<1>5. \A u \in Thread \ {t} : pc'[u] = "out"
  BY <1>2, <1>3, <1>4 DEF Mutex
<1>6. \A u \in Thread : Progress(u)'
  <2>1. ASSUME NEW u \in Thread \ {t} PROVE Progress(u)'
    BY <1>5, <2>1 DEF Progress, Own, Starting, Cleaning, Extending, CachedAt
  <2> QED
    BY <2>1
<1>7. ReturnsPermutation'
  BY <1>2, <1>5 DEF ReturnsPermutation
<1> QED
  BY <1>1, <1>3, <1>4, <1>6, <1>7 DEF PermInv

\* The mutex is taken and given back; only then the cache is seen by others.
LEMMA LockStep ==
  ASSUME PermInv, NEW t \in Thread, Lock(t) \/ Unlock(t)
  PROVE  PermInv'
<1> USE DEF bucket, arguments
<1>1. TypeOK' /\ HashInRange'
  <2>1. TypeOK'
    BY DEF PermInv, TypeOK, Lock, Unlock, Position
  <2>2. HashInRange'
    BY DEF PermInv, HashInRange, Lock, Unlock, Position
  <2> QED
    BY <2>1, <2>2
<1>2. DOMAIN pc = Thread /\ \A u \in Thread \ {t} : pc'[u] = pc[u]
  BY DEF PermInv, TypeOK, Lock, Unlock
<1>3. Cached'
  <2>1. Cached
    BY DEF PermInv, Progress, CachedAt, Lock, Unlock
  <2> QED
    BY <2>1, ShuffledUnchanged DEF Cached, Lock, Unlock
<1>4. holder \subseteq {t} /\ pc'[t] \in {"idle", "out"}
  BY <1>2 DEF PermInv, Mutex, Lock, Unlock
<1>5. Mutex'
  BY <1>2, <1>4 DEF PermInv, Mutex, Lock, Unlock
<1>6. \A u \in Thread \ {t} : pc'[u] = "out"
  BY <1>2, <1>4 DEF PermInv, Mutex
<1>7. \A u \in Thread : Progress(u)'
  <2>1. ASSUME NEW u \in Thread PROVE Progress(u)'
    BY <1>3, <1>4, <1>6 DEF Progress, Own, Starting, Cleaning, Extending, CachedAt
  <2> QED
    BY <2>1
<1>8. ReturnsPermutation'
  BY <1>4, <1>6 DEF ReturnsPermutation
<1> QED
  BY <1>1, <1>3, <1>5, <1>7, <1>8 DEF PermInv

\* A call begins, and its test leads to the part of the code its cache needs.
LEMMA TestStep ==
  ASSUME PermInv, NEW t \in Thread,
         \/ \E v \in X, r \in 0 .. MaxSize : CallChoose(t, v, r)
         \/ TestFresh(t) \/ TestMagic(t) \/ TestCached(t)
  PROVE  PermInv'
<1> USE DEF bucket, arguments, Steps
<1>1. CASE \E v \in X, r \in 0 .. MaxSize : CallChoose(t, v, r)
  <2>1. PICK v \in X, r \in 0 .. MaxSize : CallChoose(t, v, r)
    BY <1>1
  <2>2. r % size \in Position
    BY Numbers, InputAssumption
  <2>3. TypeOK'
    BY <2>1, <2>2 DEF PermInv, TypeOK, CallChoose, Position
  <2>4. Cached'
    <3>1. Cached
      BY <2>1 DEF PermInv, Progress, CachedAt, CallChoose
    <3> QED
      BY <2>1, <3>1, ShuffledUnchanged DEF Cached, CallChoose
  <2>5. pc' = [pc EXCEPT ![t] = "test"] /\ pc'[t] = "test" /\ pc[t] = "idle"
    BY <2>1 DEF CallChoose, PermInv, TypeOK
  <2>6. Progress(t)'
    BY <2>4, <2>5 DEF Progress, Own, Starting, Cleaning, Extending, CachedAt
  <2> QED
    BY <2>1, <2>3, <2>5, <2>6, Inside DEF CallChoose
<1>2. CASE TestFresh(t)
  <2>1. TypeOK' /\ pc'[t] = "start"
    BY <1>2 DEF PermInv, TypeOK, TestFresh, Position
  <2>2. Progress(t)'
    BY <2>1 DEF Progress, Own, Starting, Cleaning, Extending, CachedAt
  <2> QED
    BY <1>2, <2>1, <2>2, Inside DEF TestFresh
<1>3. CASE TestMagic(t)
  <2>1. TypeOK' /\ pc'[t] = "clean" /\ i'[t] = 1
    <3>1. 1 \in 0 .. size
      BY Numbers
    <3> QED
      BY <1>3, <3>1 DEF PermInv, TypeOK, TestMagic, Position
  <2>2. perm_x = x[t] /\ x[t] \in X /\ Cached
    BY <1>3 DEF PermInv, TypeOK, Progress, CachedAt, TestMagic, Fresh
  <2>3. perm[0] = hash[x[t]][0]
    <3>1. Shuffled(x[t])[1][0] = hash[x[t]][0]
      BY <2>2, Numbers, ShuffledEnds DEF PermInv
    <3> QED
      BY <1>3, <2>2, <3>1 DEF Cached, TestMagic
  <2>4. Progress(t)'
    BY <1>3, <2>1, <2>2, <2>3
       DEF Progress, Own, Starting, Cleaning, Extending, CachedAt, TestMagic
  <2> QED
    BY <1>3, <2>1, <2>4, Inside DEF TestMagic
<1>4. CASE TestCached(t)
  <2>1. TypeOK' /\ pc'[t] = "extend"
    BY <1>4 DEF PermInv, TypeOK, TestCached, Position
  <2>2. perm_x = x[t] /\ Cached /\ perm_n # Magic /\ perm_n # 0
    BY <1>4 DEF PermInv, Progress, CachedAt, TestCached, Fresh
  <2>3. perm' = Shuffled(x[t])[perm_n]
    BY <1>4, <2>2 DEF Cached, TestCached
  <2>4. Progress(t)'
    BY <1>4, <2>1, <2>2, <2>3, ShuffledUnchanged
       DEF Progress, Own, Starting, Cleaning, Extending, CachedAt, TestCached
  <2> QED
    BY <1>4, <2>1, <2>4, Inside DEF TestCached
<1> QED
  BY <1>1, <1>2, <1>3, <1>4

\* A permutation is started: with its first element alone, or with the identity.
LEMMA StartStep ==
  ASSUME PermInv, NEW t \in Thread,
         \/ StartX(t) \/ ChooseFirst(t) \/ MarkFirst(t)
         \/ FillIdentity(t) \/ ResetCount(t)
  PROVE  PermInv'
<1> USE DEF bucket, arguments, Steps
<1> DEFINE h == hash[x[t]][0]
<1>1. x[t] \in X /\ pr[t] \in Position /\ h \in Position
  BY Numbers DEF PermInv, TypeOK
<1>2. CASE StartX(t)
  <2>1. TypeOK'
    BY <1>2, Numbers DEF PermInv, TypeOK, StartX
  <2>2. /\ pc'[t] = IF pr[t] = 0 THEN "first" ELSE "identity"
        /\ perm_x' = x'[t] /\ pr' = pr /\ i'[t] = 0
    BY <1>2 DEF PermInv, TypeOK, StartX
  <2>3. i'[t] < size' /\ \A n \in 0 .. i'[t] - 1 : perm'[n] = n
    BY <1>2, <2>2, Numbers DEF StartX
  <2>4. Progress(t)'
    BY <2>2, <2>3 DEF Progress, Own, Starting, Cleaning, Extending, CachedAt
  <2> QED
    BY <1>2, <2>1, <2>2, <2>4, Inside DEF StartX
<1>3. CASE ChooseFirst(t)
  <2>1. TypeOK'
    BY <1>1, <1>3 DEF PermInv, TypeOK, ChooseFirst, Position
  <2>2. /\ pc'[t] = "mark" /\ perm_x' = x'[t] /\ pr'[t] = 0
        /\ s'[t] = h /\ perm'[0] = h /\ x' = x /\ hash' = hash
    BY <1>3, Numbers DEF PermInv, TypeOK, Progress, Own, Starting, ChooseFirst
  <2>3. Progress(t)'
    BY <2>2 DEF Progress, Own, Starting, Cleaning, Extending, CachedAt
  <2> QED
    BY <1>3, <2>1, <2>2, <2>3, Inside DEF ChooseFirst
<1>4. CASE MarkFirst(t)
  <2>1. TypeOK'
    BY <1>4 DEF PermInv, TypeOK, MarkFirst, Position
  <2>2. perm_x = x[t] /\ pr[t] = 0 /\ s[t] = h /\ perm[0] = h
    BY <1>4 DEF PermInv, Progress, Own, Starting, MarkFirst
  <2>3. pc'[t] = "done" /\ perm_n' = Magic /\ UNCHANGED <<perm_x, perm, x, pr, s>>
    BY <1>4 DEF PermInv, TypeOK, MarkFirst
  <2>4. Shuffled(x[t])[1][0] = h /\ Permutation(x[t])[0] = h
    <3>1. 1 \in 0 .. size /\ size \in 1 .. size
      BY Numbers
    <3>2. Shuffled(x[t])[1][0] = h
      BY <1>1, Numbers, ShuffledEnds DEF PermInv
    <3>3. Shuffled(x[t])[size][0] = Shuffled(x[t])[1][0]
      BY <1>1, <3>1, Numbers, ShuffledStable DEF PermInv
    <3> QED
      BY <3>2, <3>3 DEF Permutation
  <2>5. Cached'
    BY <2>2, <2>3, <2>4, <1>4, ShuffledUnchanged DEF Cached, MarkFirst
  <2>6. Progress(t)'
    BY <2>3, <2>5 DEF Progress, Own, Starting, Cleaning, Extending, CachedAt
  <2>7. (s[t] = Permutation(x[t])[pr[t]])'
    BY <1>4, <2>2, <2>3, <2>4, ShuffledUnchanged DEF Permutation, MarkFirst
  <2> QED
    BY <1>4, <2>1, <2>3, <2>6, <2>7, Inside DEF MarkFirst
<1>5. CASE FillIdentity(t)
  <2>1. i[t] \in Position /\ \A n \in 0 .. i[t] - 1 : perm[n] = n
    BY <1>5, Numbers DEF PermInv, TypeOK, Progress, Starting, FillIdentity
  <2>2. TypeOK'
    <3>1. i[t] + 1 \in 0 .. size
      BY <2>1, Numbers
    <3> QED
      BY <1>5, <2>1, <3>1, Numbers DEF PermInv, TypeOK, FillIdentity
  <2>3. /\ pc'[t] = IF i[t] + 1 < size THEN "identity" ELSE "reset"
        /\ i'[t] = i[t] + 1 /\ perm_x' = x'[t] /\ size' = size
    BY <1>5 DEF PermInv, TypeOK, Progress, Own, FillIdentity
  <2>4. \A n \in 0 .. i[t] : perm'[n] = n
    BY <1>5, <2>1, Numbers DEF PermInv, TypeOK, FillIdentity
  <2>5. i[t] + 1 >= size => perm' = Shuffled(x[t])[0]
    <3> SUFFICES ASSUME i[t] + 1 >= size PROVE perm' = Shuffled(x[t])[0]
      OBVIOUS
    <3>1. \A n \in Position : perm'[n] = n
      BY <2>1, <2>4, Numbers
    <3>2. perm' = [n \in Position |-> perm'[n]]
      BY <1>5 DEF PermInv, TypeOK, FillIdentity
    <3>3. Shuffled(x[t])[0] = [n \in Position |-> n]
      BY <1>1, Numbers, ShuffledIs DEF PermInv
    <3> QED
      BY <3>1, <3>2, <3>3
  <2>6. (i[t] + 1) - 1 = i[t]
    BY <2>1, Numbers
  <2>7. Progress(t)'
    <3>1. CASE i[t] + 1 < size
      BY <2>3, <2>4, <2>6, <3>1
         DEF Progress, Own, Starting, Cleaning, Extending, CachedAt
    <3>2. CASE ~(i[t] + 1 < size)
      <4>1. pc'[t] = "reset" /\ perm' = Shuffled(x[t])'[0]
        BY <1>5, <2>1, <2>3, <2>5, <3>2, Numbers, ShuffledUnchanged DEF FillIdentity
      <4> QED
        BY <2>3, <4>1 DEF Progress, Own, Starting, Cleaning, Extending, CachedAt
    <3> QED
      BY <3>1, <3>2
  <2> QED
    BY <1>5, <2>2, <2>3, <2>7, Inside DEF FillIdentity
<1>6. CASE ResetCount(t)
  <2>1. TypeOK'
    BY <1>6, Numbers DEF PermInv, TypeOK, ResetCount
  <2>2. pc'[t] = "extend" /\ perm_n' = 0 /\ perm_x = x[t] /\ perm = Shuffled(x[t])[0]
    BY <1>6 DEF PermInv, TypeOK, Progress, Own, Starting, ResetCount
  <2>3. Progress(t)'
    BY <1>6, <2>2, Numbers, ShuffledUnchanged
       DEF Progress, Own, Starting, Cleaning, Extending, CachedAt, ResetCount, Magic
  <2> QED
    BY <1>6, <2>1, <2>2, <2>3, Inside DEF ResetCount
<1> QED
  BY <1>2, <1>3, <1>4, <1>5, <1>6

\* The permutation of which only the first element is there is completed.
LEMMA CleanStep ==
  ASSUME PermInv, NEW t \in Thread, CleanElement(t) \/ SwapFirst(t) \/ CountFirst(t)
  PROVE  PermInv'
<1> USE DEF bucket, arguments, Steps
<1> DEFINE h == hash[x[t]][0]
<1>1. x[t] \in X /\ h \in Position /\ i[t] \in 0 .. size
  BY Numbers DEF PermInv, TypeOK
<1>2. CASE CleanElement(t)
  <2>1. /\ i[t] \in Position /\ i[t] >= 1 /\ perm_n = Magic /\ perm_x = x[t]
        /\ perm[0] = h /\ \A n \in 1 .. i[t] - 1 : perm[n] = n
    BY <1>1, <1>2, Numbers DEF PermInv, Progress, Own, Cleaning, CleanElement
  <2>2. TypeOK'
    <3>1. i[t] + 1 \in 0 .. size
      BY <2>1, Numbers
    <3> QED
      BY <1>2, <2>1, <3>1, Numbers DEF PermInv, TypeOK, CleanElement
  <2>3. pc'[t] = "clean" /\ i'[t] = i[t] + 1 /\ UNCHANGED <<x, hash, perm_n, perm_x>>
    BY <1>2 DEF PermInv, TypeOK, CleanElement
  <2>4. perm'[0] = h /\ \A n \in 1 .. i[t] : perm'[n] = n
    BY <1>2, <2>1, Numbers DEF PermInv, TypeOK, CleanElement
  <2>5. i[t] + 1 >= 1 /\ (i[t] + 1) - 1 = i[t]
    BY <2>1, Numbers
  <2>6. Progress(t)'
    BY <2>1, <2>3, <2>4, <2>5 DEF Progress, Own, Starting, Cleaning, Extending, CachedAt
  <2> QED
    BY <1>2, <2>2, <2>3, <2>6, Inside DEF CleanElement
<1>3. CASE SwapFirst(t)
  <2>1. perm_x = x[t] /\ perm[0] = h /\ \A n \in Position : n # 0 => perm[n] = n
    <3>1. i[t] = size
      BY <1>1, <1>3, Numbers DEF SwapFirst
    <3> QED
      BY <1>3, <3>1, Numbers DEF PermInv, Progress, Own, Cleaning, SwapFirst
  <2>2. TypeOK'
    BY <1>1, <1>3, <2>1, Numbers DEF PermInv, TypeOK, SwapFirst
  <2>3. pc'[t] = "count" /\ perm' = [perm EXCEPT ![h] = 0] /\ UNCHANGED <<x, perm_x>>
    BY <1>3, <2>1 DEF PermInv, TypeOK, SwapFirst
  <2>4. perm = [[j \in Position |-> j] EXCEPT ![0] = h]
    BY <2>1, Numbers DEF PermInv, TypeOK
  <2>5. perm' = Shuffled(x[t])[1]
    <3>1. Shuffled(x[t])[1] = [[j \in Position |-> j] EXCEPT ![0] = h, ![h] = 0]
      BY <1>1, Numbers, ShuffledEnds DEF PermInv
    <3> QED
      BY <2>3, <2>4, <3>1
  <2>6. Progress(t)'
    BY <1>3, <2>1, <2>3, <2>5, ShuffledUnchanged
       DEF Progress, Own, Starting, Cleaning, Extending, CachedAt, SwapFirst
  <2> QED
    BY <1>3, <2>2, <2>3, <2>6, Inside DEF SwapFirst
<1>4. CASE CountFirst(t)
  <2>1. TypeOK'
    BY <1>4, Numbers DEF PermInv, TypeOK, CountFirst
  <2>2. pc'[t] = "extend" /\ perm_n' = 1 /\ perm_x = x[t] /\ perm = Shuffled(x[t])[1]
    BY <1>4 DEF PermInv, TypeOK, Progress, Own, Cleaning, CountFirst
  <2>3. Progress(t)'
    BY <1>4, <2>2, ShuffledUnchanged
       DEF Progress, Own, Starting, Cleaning, Extending, CachedAt, CountFirst, Magic
  <2> QED
    BY <1>4, <2>1, <2>2, <2>3, Inside DEF CountFirst
<1> QED
  BY <1>2, <1>3, <1>4

\* The permutation is extended by one element, as long as it is needed, and read.
LEMMA ExtendStep ==
  ASSUME PermInv, NEW t \in Thread,
         \/ Extend(t) \/ Swap(t) \/ CountElement(t) \/ ReadElement(t) \/ Return(t)
  PROVE  PermInv'
<1> USE DEF bucket, arguments, Steps
<1> DEFINE g == Shuffled(x[t])
<1> HIDE DEF g
<1>1. x[t] \in X /\ pr[t] \in Position /\ perm_n \in 0 .. size \cup {Magic}
  BY DEF PermInv, TypeOK
<1>2. /\ g \in [0 .. size -> [Position -> Position]]
      /\ \A n \in Position :
           g[n + 1] = [g[n] EXCEPT ![n] = g[n][n + hash[x[t]][n]],
                                   ![n + hash[x[t]][n]] = g[n][n]]
      /\ g[size] = g[size - 1]
  BY <1>1, Numbers, ShuffledIs, ShuffledEnds DEF PermInv, g
<1>3. CASE Extend(t)
  <2>1. perm_n \in Position
    BY <1>1, <1>3, Numbers DEF Extend
  <2>2. TypeOK'
    BY <1>3, <2>1, Numbers DEF PermInv, TypeOK, Extend
  <2>3. pc'[t] = "swap" /\ p'[t] = perm_n /\ UNCHANGED <<perm_n, perm, perm_x, x, pr>>
    BY <1>3 DEF PermInv, TypeOK, Extend
  <2>4. perm_x = x[t] /\ perm_n <= pr[t] /\ perm = g[perm_n]
    BY <1>3 DEF PermInv, Progress, Own, Extending, Extend, g
  <2>5. Progress(t)'
    BY <1>3, <2>3, <2>4, ShuffledUnchanged
       DEF Progress, Own, Starting, Cleaning, Extending, CachedAt, Extend, g
  <2> QED
    BY <1>3, <2>2, <2>3, <2>5, Inside DEF Extend
<1>4. CASE Swap(t)
  <2> DEFINE n == p[t]
             other == n + hash[x[t]][n]
  <2>1. perm_x = x[t] /\ p[t] = perm_n /\ perm_n <= pr[t] /\ perm = g[perm_n]
    BY <1>4 DEF PermInv, Progress, Own, Extending, Swap, g
  <2>2. n \in Position /\ hash[x[t]][n] \in Position /\ other < size
    BY <1>1, <1>4, <2>1, Numbers DEF PermInv, TypeOK, HashInRange
  <2>3. other \in Position
    BY <2>2, Numbers
  <2>4. perm' = g[perm_n + 1]
    <3>1. CASE n < size - 1
      <4>1. perm' = [perm EXCEPT ![n] = perm[other], ![other] = perm[n]]
        BY <1>4, <3>1 DEF Swap
      <4> QED
        BY <1>2, <2>1, <2>2, <4>1
    <3>2. CASE ~(n < size - 1)
      <4>1. n = size - 1 /\ n + 1 = size
        BY <2>2, <3>2, Numbers
      <4>2. perm' = perm
        BY <1>4, <3>2 DEF Swap
      <4> QED
        BY <1>2, <2>1, <4>1, <4>2
    <3> QED
      BY <3>1, <3>2
  <2>5. perm' \in [Position -> Position]
    <3>1. perm_n + 1 \in 0 .. size
      BY <2>1, <2>2, Numbers
    <3> QED
      BY <1>2, <2>4, <3>1
  <2>6. TypeOK'
    BY <1>4, <2>5, Numbers DEF PermInv, TypeOK, Swap
  <2>7. pc'[t] = "next" /\ UNCHANGED <<p, perm_n, perm_x, x, pr>>
    BY <1>4 DEF PermInv, TypeOK, Swap
  <2>8. Progress(t)'
    BY <1>4, <2>1, <2>4, <2>7, ShuffledUnchanged
       DEF Progress, Own, Starting, Cleaning, Extending, CachedAt, Swap, g
  <2> QED
    BY <1>4, <2>6, <2>7, <2>8, Inside DEF Swap
<1>5. CASE CountElement(t)
  <2>1. perm_x = x[t] /\ perm_n <= pr[t] /\ perm = g[perm_n + 1]
    BY <1>5 DEF PermInv, Progress, Own, Extending, CountElement, g
  <2>2. perm_n + 1 \in 0 .. size /\ perm_n + 1 # Magic
    BY <1>1, <2>1, Numbers
  <2>3. TypeOK'
    BY <1>5, <2>2, Numbers DEF PermInv, TypeOK, CountElement
  <2>4. pc'[t] = "extend" /\ perm_n' = perm_n + 1 /\ UNCHANGED <<perm, perm_x, x>>
    BY <1>5 DEF PermInv, TypeOK, CountElement
  <2>5. Progress(t)'
    <3>1. Magic' = Magic
      BY DEF Magic
    <3> QED
      BY <1>5, <2>1, <2>2, <2>4, <3>1, ShuffledUnchanged
         DEF Progress, Own, Starting, Cleaning, Extending, CachedAt, CountElement, g
  <2> QED
    BY <1>5, <2>3, <2>4, <2>5, Inside DEF CountElement
<1>6. CASE ReadElement(t)
  <2>1. perm_x = x[t] /\ perm_n # Magic /\ perm = g[perm_n] /\ perm_n > pr[t]
    BY <1>6 DEF PermInv, Progress, Own, Extending, ReadElement, g
  <2>2. perm_n \in 0 .. size /\ size \in perm_n .. size
    BY <1>1, <2>1, Numbers
  <2>3. perm[pr[t]] = Permutation(x[t])[pr[t]] /\ perm[pr[t]] \in Position
    <3>1. g[size][pr[t]] = g[perm_n][pr[t]]
      BY <1>1, <2>1, <2>2, Numbers, ShuffledStable DEF PermInv, g
    <3> QED
      BY <1>1, <1>2, <2>1, <2>2, <3>1 DEF Permutation, g
  <2>4. TypeOK'
    BY <1>6, <2>3, Numbers DEF PermInv, TypeOK, ReadElement
  <2>5. /\ pc'[t] = "done" /\ s'[t] = perm[pr[t]]
        /\ UNCHANGED <<size, perm, perm_n, perm_x, x, pr>>
    BY <1>6 DEF PermInv, TypeOK, ReadElement
  <2>6. Cached'
    <3>1. Magic' = Magic
      BY DEF Magic
    <3> QED
      BY <1>6, <2>1, <2>5, <3>1, ShuffledUnchanged DEF Cached, ReadElement, g
  <2>7. Progress(t)'
    BY <2>5, <2>6 DEF Progress, Own, Starting, Cleaning, Extending, CachedAt
  <2>8. (s[t] = Permutation(x[t])[pr[t]])'
    BY <1>6, <2>3, <2>5, ShuffledUnchanged DEF Permutation, ReadElement
  <2> QED
    BY <1>6, <2>4, <2>5, <2>7, <2>8, Inside DEF ReadElement
<1>7. CASE Return(t)
  <2>1. TypeOK'
    BY <1>7, Numbers, InputAssumption DEF PermInv, TypeOK, Return
  <2>2. pc'[t] = "idle" /\ UNCHANGED <<perm, perm_n, perm_x>>
    BY <1>7 DEF PermInv, TypeOK, Return
  <2>3. Cached'
    <3>1. Cached /\ Magic' = Magic
      BY <1>7 DEF PermInv, Progress, CachedAt, Return, Magic
    <3> QED
      BY <1>7, <2>2, <3>1, ShuffledUnchanged DEF Cached, Return
  <2>4. Progress(t)'
    BY <2>2, <2>3 DEF Progress, Own, Starting, Cleaning, Extending, CachedAt
  <2> QED
    BY <1>7, <2>1, <2>2, <2>4, Inside DEF Return
<1> QED
  BY <1>3, <1>4, <1>5, <1>6, <1>7

--------------------------------------------------------------------------------

\* PermInv is an invariant, whatever the threads ask of the bucket.
THEOREM PermInvariance == PermSpec => []PermInv
<1>1. PermInit => PermInv
  <2> SUFFICES ASSUME PermInit PROVE PermInv
    OBVIOUS
  <2>1. size \in Nat \ {0} /\ Position = 0 .. size - 1 /\ 0 \in Position /\ 0 # Magic
    <3>1. size \in 1 .. MaxSize /\ MaxSize \in Nat /\ 0 # Magic
      <4>1. size \in 1 .. MaxSize
        BY DEF PermInit
      <4>2. MaxSize \in Nat /\ 0 # Magic
        <5>1. MaxSize \in 1 .. Magic - 1
          BY ONLY InputAssumption
        <5>2. Magic \in Nat
          BY ONLY DEF Magic
        <5> QED
          BY ONLY <5>1, <5>2
      <4> QED
        BY <4>1, <4>2
    <3>2. size \in Nat \ {0}
      BY <3>1
    <3> QED
      BY <3>1, <3>2 DEF Position
  <2>2. TypeOK
    <3>1. 0 \in 0 .. size /\ 0 \in X /\ size \in 1 .. MaxSize
      BY <2>1, InputAssumption DEF PermInit
    <3>2. hash \in [X -> [Position -> Position]]
      BY DEF PermInit
    <3> QED
      BY <2>1, <3>1, <3>2 DEF PermInit, TypeOK
  <2>3. HashInRange
    BY DEF PermInit, HashInRange
  <2>4. Cached
    BY <2>1 DEF PermInit, Cached
  <2>5. Mutex
    BY DEF PermInit, Mutex
  <2>6. \A t \in Thread : Progress(t)
    BY DEF PermInit, Progress, Own, Starting, Cleaning, Extending, CachedAt
  <2>7. ReturnsPermutation
    BY DEF PermInit, ReturnsPermutation
  <2> QED
    BY <2>2, <2>3, <2>4, <2>5, <2>6, <2>7 DEF PermInv
<1>2. PermInv /\ [PermNext]_permVars => PermInv'
  <2> SUFFICES ASSUME PermInv, [PermNext]_permVars PROVE PermInv'
    OBVIOUS
  <2>1. CASE PermNext
    BY <2>1, LockStep, TestStep, StartStep, CleanStep, ExtendStep DEF PermNext, Choose
  <2>2. CASE UNCHANGED permVars
    <3>1. TypeOK' /\ HashInRange' /\ Mutex'
      <4>1. TypeOK'
        BY <2>2 DEF PermInv, TypeOK, Position, permVars, bucket, arguments
      <4>2. HashInRange'
        BY <2>2 DEF PermInv, HashInRange, Position, permVars, bucket
      <4>3. Mutex'
        BY <2>2 DEF PermInv, Mutex, permVars
      <4> QED
        BY <4>1, <4>2, <4>3
    <3>2. UNCHANGED bucket
      BY <2>2 DEF permVars
    <3>3. Cached' = Cached
      BY <2>2, <3>2, ShuffledUnchanged DEF Cached, permVars, Magic
    <3>4. ASSUME NEW t \in Thread PROVE Progress(t)'
      BY <2>2, <3>2, <3>3, ShuffledUnchanged
         DEF PermInv, Progress, Own, Starting, Cleaning, Extending, CachedAt, permVars, bucket,
             arguments, Magic
    <3>5. ReturnsPermutation'
      BY <2>2, <3>2, ShuffledUnchanged
         DEF PermInv, ReturnsPermutation, Permutation, permVars, bucket, arguments
    <3> QED
      BY <2>2, <3>1, <3>3, <3>4, <3>5 DEF PermInv, permVars
  <2> QED
    BY <2>1, <2>2
<1> QED
  BY <1>1, <1>2, PTL DEF PermSpec

\* Every variable keeps its type: no more elements are counted than the bucket has, and
\* no undefined element of the cache is ever returned.
THEOREM TypeCorrect == PermSpec => []TypeOK
<1>1. PermInv => TypeOK
  BY DEF PermInv
<1> QED
  BY <1>1, PermInvariance, PTL

\* A call returns what the permutation of its own x has at r, with any number of threads
\* and whatever the calls before it left in the cache.
THEOREM ReturnsOwnPermutation == PermSpec => []ReturnsPermutation
<1>1. PermInv => ReturnsPermutation
  BY DEF PermInv
<1> QED
  BY <1>1, PermInvariance, PTL

\* Between two uses of the bucket the counted elements are those of the permutation of
\* perm_x.
THEOREM CacheIsOfX == PermSpec => []PermIsDefinedForX
<1>1. PermInv => PermIsDefinedForX
  <2> SUFFICES ASSUME PermInv, holder = {},
                      NEW n \in 0 .. (IF perm_n = Magic THEN 1 ELSE perm_n) - 1
               PROVE  perm[n] = Permutation(perm_x)[n]
    BY DEF PermIsDefinedForX
  <2>1. Cached /\ perm_x \in X /\ perm_n \in 0 .. size \cup {Magic}
    BY DEF PermInv, TypeOK
  <2>2. CASE perm_n = Magic
    <3>1. n = 0 /\ 1 \in 0 .. size /\ size \in 1 .. size
      BY <2>2, Numbers
    <3>2. Shuffled(perm_x)[size][0] = Shuffled(perm_x)[1][0]
      BY <2>1, <3>1, Numbers, ShuffledStable DEF PermInv
    <3> QED
      BY <2>1, <2>2, <3>1, <3>2 DEF Cached, Permutation
  <2>3. CASE perm_n # Magic
    <3>1. perm_n \in 0 .. size /\ n < perm_n /\ n \in Position /\ size \in perm_n .. size
      BY <2>1, <2>3, Numbers
    <3>2. Shuffled(perm_x)[size][n] = Shuffled(perm_x)[perm_n][n]
      BY <2>1, <3>1, Numbers, ShuffledStable DEF PermInv
    <3> QED
      BY <2>1, <2>3, <3>1, <3>2 DEF Cached, Permutation
  <2> QED
    BY <2>2, <2>3
<1> QED
  BY <1>1, PermInvariance, PTL

\* The items that calls with one x return for different r are different: what
\* crush_choose counts on when it asks for the next r after a collision.
DistinctItems ==
  \A v \in X : \A j, k \in Position : Permutation(v)[j] = Permutation(v)[k] => j = k

THEOREM ItemsAreDistinct == PermSpec => []DistinctItems
<1>1. PermInv => DistinctItems
  <2> SUFFICES ASSUME PermInv, NEW v \in X, NEW j \in Position, NEW k \in Position,
                      Permutation(v)[j] = Permutation(v)[k]
               PROVE  j = k
    BY DEF DistinctItems
  <2>1. size \in 0 .. size
    BY Numbers
  <2> QED
    BY <2>1, Numbers, ShuffledInjective DEF PermInv, Permutation
<1> QED
  BY <1>1, PermInvariance, PTL

--------------------------------------------------------------------------------
(* The inductive invariant of crush_choose.                                *)

\* What a call of crush_choose has, and its counts of tries
Fields ==
  {"order", "isout", "mode", "rep", "out", "leaves", "tries", "item", "leaftries",
   "leaf"}
Counts == [total : Nat, local : Nat]

Items(n) == Range(Map[n].items)

\* Every bucket has items, each with a weight, and is searched in an order of them.
Good(b) ==
  /\ b.alg \in {"uniform", "list", "tree", "straw"}
  /\ b.items \in Seq(Int) /\ Len(b.items) > 0
  /\ b.weights \in Seq(Nat \ {0}) /\ Len(b.weights) = Len(b.items)

\* The items of the root are buckets below it, unless there is but one layer.
GoodMap(map, k) ==
  /\ Len(map) \in Nat \ {0} /\ DOMAIN map = 1 .. Len(map)
  /\ \A n \in DOMAIN map : Good(map[n])
  /\ IF Len(k.layers) > 1
       THEN \A item \in Range(map[Len(map)].items) : -item \in 1 .. Len(map) - 1
       ELSE Range(map[Len(map)].items) \subseteq Nat

\* Of two layers, the lower one has disks of the list, each in one domain; the items of the
\* root are the domains.
DomainsApart(map, l) ==
  LET width == Len(map) - 1
  IN  /\ width > 0 /\ map[Len(map)].items = [m \in 1 .. width |-> -m]
      /\ \A g \in 1 .. width : map[g].type = DomainType /\ Range(map[g].items) \subseteq Ids(l)
      /\ \A g, h \in 1 .. width : g # h => Range(map[g].items) \cap Range(map[h].items) = {}

\* The map is the one built of the last list of disks, and a setDisks that failed ended
\* the program.
MapIsBuilt ==
  /\ kind \in Kinds
  /\ status \in {"new", "ready", "placing", "crashed"}
  /\ copies \in Nat
  /\ status # "new" => disks \in Lists[kind] /\ Map = BuildCrushMap(kind, disks)
  /\ status \in {"ready", "placing"} => ~BuildFails(Map)

\* The copies so far: leaves of different domains.
OutIsGood(L) ==
  /\ L.out \in Seq(Int) /\ L.leaves \in Seq(Int \cup {None})
  /\ Len(L.out) = Len(L.leaves) /\ Len(L.out) <= L.rep
  /\ TwoLayers =>
       /\ \A n \in 1 .. Len(L.out) : /\ L.out[n] \in Items(Root)
                                     /\ L.leaves[n] \in Items(-L.out[n])
       /\ IsInjective(L.out)

\* The local variables of crush_choose between two of its steps
LocalIsGood(L) ==
  /\ DOMAIN L = Fields
  /\ L.mode \in {"choose", "leaf", "judge"} /\ L.rep \in 0 .. copies
  /\ L.mode # "choose" => L.rep < copies
  /\ \A n \in DOMAIN Map : L.order[n] \in Orders(Map[n])
  /\ L.tries \in Counts /\ L.leaftries \in Counts
  /\ L.mode # "choose" => L.item \in Items(Root) /\ TypeOf(L.item) = DomainType
                           /\ L.item < 0
  /\ L.mode = "judge" => L.leaf = None \/ L.leaf \in Items(-L.item)
  /\ OutIsGood(L)

CallIsGood == LocalIsGood(local)

\* The inductive invariant
RuleInv ==
  /\ MapIsBuilt
  /\ status = "placing" => CallIsGood
  /\ CopiesInDistinctDomains

\* What the random order of the root has for a try of a copy
At(L, t) ==
  Map[Root].items[L.order[Root][((L.rep + t) % Len(Map[Root].items)) + 1]]

\* The number of domains that the searches ask for
Sure == Cardinality(Asked(Map[Root]))

\* The searches of the tries so far met only domains that were taken; a domain that is
\* free is taken when it is met, so all that the rounds ask for are.
SearchIsGood(L) ==
  /\ L.isout = {}
  /\ L.tries.total <= LastTry(Map[Root])
  /\ L.tries.local = L.tries.total % Round(Map[Root])
  /\ \A t \in 0 .. L.tries.total - 1 : Searched(Map[Root], t) => At(L, t) \in Range(L.out)
  /\ L.mode # "choose" /\ Searched(Map[Root], L.tries.total) =>
       L.item = At(L, L.tries.total)
  /\ L.mode = "judge" /\ L.leaf = None => L.item \in Range(L.out)
  /\ Sure <= Len(L.out) \/ L.rep <= Len(L.out)

Search == SearchIsGood(local)

\* The inductive invariant of the search, while no disk is rejected for its weight
SearchInv == RuleInv /\ (status = "placing" /\ TwoLayers /\ NothingIsOut => Search)

--------------------------------------------------------------------------------
(* What is chosen from a bucket.                                           *)

\* The only item of a sum
LEMMA TotalOfOne ==
  ASSUME NEW w, DOMAIN w = 1 .. 1, w[1] \in Int
  PROVE  Total(w) = w[1]
<1>1. 1 .. 1 = {1}
  OBVIOUS
<1>2. SumFunctionOnSet(w, {1}) = w[1] + SumFunctionOnSet(w, {1} \ {1})
  BY FS_Singleton, SumIs
<1>3. SumFunctionOnSet(w, {}) = 0
  BY FS_EmptySet, SumIs
<1>4. Total(w) = SumFunctionOnSet(w, {1})
  BY <1>1 DEF Total, SumFunction
<1>5. {1} \ {1} = {}
  OBVIOUS
<1> DEFINE a == SumFunctionOnSet(w, {1})
           e == SumFunctionOnSet(w, {})
<1>6. a = w[1] + e /\ e = 0
  BY <1>2, <1>3, <1>5
<1> HIDE DEF a, e
<1>7. a = w[1]
  BY <1>6
<1> QED
  BY <1>4, <1>7 DEF a

\* A draw of sixteen bits, scaled to a weight, stays below it.
LEMMA ScaledIsBelow ==
  ASSUME NEW w \in Nat \ {0}
  PROVE  ~((65535 * w) \div 65536 >= w)
<1> DEFINE m == 65536
           a == 65535 * w
           q == a \div m
<1>1. /\ a \in Nat /\ a \in Int /\ m \in Nat \ {0} /\ m \in Int /\ m > 0
      /\ a < m * w /\ w \in Int
  OBVIOUS
<1> HIDE DEF a, m
<1>2. q \in Int /\ a % m \in 0 .. m - 1 /\ a = m * q + (a % m)
  BY <1>1, Division
<1>3. m * w \in Int /\ m * q \in Int /\ a % m \in Int /\ a % m >= 0
  BY <1>1, <1>2
<1> DEFINE u == m * w
           v == m * q
           r == a % m
<1>4. u \in Int /\ v \in Int /\ r \in Int /\ r >= 0 /\ a < u /\ a = v + r /\ a \in Int
  BY <1>1, <1>2, <1>3
<1>5. v < u
  <2> HIDE DEF u, v, r
  <2> QED
    BY <1>4
<1> HIDE DEF q
<1>6. m * q < m * w => q < w
  <2>1. m \in Nat
    BY <1>1
  <2> QED
    BY <1>1, <1>2, <2>1, ProductOrder
<1>7. q < w
  BY <1>5, <1>6
<1>8. ~(q >= w)
  BY <1>1, <1>2, <1>7
<1> QED
  BY <1>8 DEF q, a, m

\* A list comes to its first item at the latest, and takes it.
LEMMA ListDrawsAre ==
  ASSUME NEW b, Good(b)
  PROVE  ListDraws(b) \subseteq Range(b.items)
<1> DEFINE sum(n) == Total(SubSeq(b.weights, 1, n))
           passed(n) == (65535 * sum(n)) \div 65536 >= b.weights[n]
           reached(n) == \A m \in n + 1 .. Len(b.items) : passed(m)
<1>1. sum(1) = b.weights[1] /\ b.weights[1] \in Nat \ {0}
  <2> DEFINE w == SubSeq(b.weights, 1, 1)
             v == b.weights
  <2>1. v \in Seq(Nat \ {0}) /\ Len(v) > 0 /\ Len(v) \in Nat
    BY DEF Good
  <2>2. w = SubSeq(v, 1, 1)
    OBVIOUS
  <2> HIDE DEF v, w
  <2>3. DOMAIN w = 1 .. 1 /\ w[1] = v[1] /\ v[1] \in Nat \ {0}
    BY <2>1, <2>2
  <2>4. Total(w) = w[1]
    BY <2>3, TotalOfOne
  <2> QED
    BY <2>3, <2>4 DEF v, w
<1>2. ~passed(1)
  <2> DEFINE u == b.weights[1]
  <2>1. u \in Nat \ {0}
    BY <1>1
  <2> HIDE DEF u
  <2>2. ~((65535 * u) \div 65536 >= u)
    BY <2>1, ScaledIsBelow
  <2> QED
    BY <1>1, <2>2 DEF u
<1>3. ListDraws(b) = {b.items[n] : n \in {m \in DOMAIN b.items : reached(m) /\ b.weights[m] > 0}}
                       \cup {None : n \in {m \in {1} : reached(m) /\ passed(m)}}
  BY DEF ListDraws
<1> HIDE DEF sum, passed, reached
<1> QED
  BY <1>2, <1>3 DEF Range

\* A straw bucket draws one of its items.
LEMMA StrawDrawsAre ==
  ASSUME NEW b
  PROVE  StrawDraws(b) \subseteq Range(b.items)
BY DEF StrawDraws, Range

--------------------------------------------------------------------------------
(* Powers of two.                                                          *)

Power(n) == 2^n

\* A set with one element more has twice as many subsets.
LEMMA TwiceAsMany ==
  ASSUME NEW S, IsFiniteSet(S), NEW y, y \notin S
  PROVE  Cardinality(SUBSET (S \cup {y})) = 2 * Cardinality(SUBSET S)
<1> DEFINE A == SUBSET S
           B == {T \cup {y} : T \in A}
           f == [T \in A |-> T \cup {y}]
<1>1. SUBSET (S \cup {y}) = A \cup B
  <2>1. ASSUME NEW T \in SUBSET (S \cup {y}) PROVE T \in A \cup B
    <3>1. CASE y \in T
      <4>1. T \ {y} \in A /\ T = (T \ {y}) \cup {y}
        BY <3>1
      <4> QED
        BY <4>1
    <3>2. CASE y \notin T
      BY <3>2
    <3> QED
      BY <3>1, <3>2
  <2> QED
    BY <2>1
<1>2. A \cap B = {}
  OBVIOUS
<1>3. IsFiniteSet(A) /\ Cardinality(A) \in Nat
  BY FS_SUBSET, FS_CardinalityType
<1>4. f \in Bijection(A, B)
  <2>1. f \in [A -> B] /\ \A T \in B : \E U \in A : f[U] = T
    OBVIOUS
  <2>2. ASSUME NEW T \in A, NEW U \in A, f[T] = f[U] PROVE T = U
    BY <2>2
  <2> HIDE DEF f, A, B
  <2> QED
    BY <2>1, <2>2 DEF Bijection, Injection, Surjection, IsInjective
<1>5. IsFiniteSet(B) /\ Cardinality(B) = Cardinality(A)
  <2>1. ExistsBijection(A, B)
    BY <1>4 DEF ExistsBijection
  <2> HIDE DEF A, B
  <2> QED
    BY <1>3, <2>1, FS_Bijection
<1> HIDE DEF A, B
<1>6. Cardinality(A \cup B) = Cardinality(A) + Cardinality(B) - Cardinality({})
  BY <1>2, <1>3, <1>5, FS_Union
<1>7. Cardinality({}) = 0
  BY FS_EmptySet
<1>8. Cardinality(A \cup B) = 2 * Cardinality(A)
  BY <1>3, <1>5, <1>6, <1>7
<1> QED
  BY <1>1, <1>8 DEF A

\* Each power is twice the one before.
LEMMA PowerIs ==
  ASSUME NEW n \in Nat
  PROVE  /\ Power(n) \in Nat \ {0}
         /\ Power(n + 1) = 2 * Power(n)
<1> DEFINE S == 1 .. n
           c == Cardinality(SUBSET S)
<1>1. IsFiniteSet(S) /\ Cardinality(S) = n
  <2>1. n \in Int /\ 1 \in Int /\ (1 > n => n = 0)
    OBVIOUS
  <2>2. IsFiniteSet(1 .. n) /\ Cardinality(1 .. n) = IF 1 > n THEN 0 ELSE n - 1 + 1
    BY <2>1, FS_Interval
  <2> QED
    BY <2>1, <2>2
<1>2. 1 .. n + 1 = S \cup {n + 1} /\ n + 1 \notin S
  OBVIOUS
<1>3. IsFiniteSet(1 .. n + 1) /\ Cardinality(1 .. n + 1) = n + 1
  <2> DEFINE y == n + 1
  <2>1. y \notin S /\ 1 .. n + 1 = S \cup {y}
    BY <1>2
  <2> HIDE DEF S, y
  <2>2. IsFiniteSet(S \cup {y}) /\ Cardinality(S \cup {y}) = Cardinality(S) + 1
    BY <1>1, <2>1, FS_AddElement
  <2> QED
    BY <1>1, <2>1, <2>2
<1>4. IsFiniteSet(SUBSET S) /\ c = 2^n
  BY <1>1, FS_SUBSET
<1>5. Cardinality(SUBSET (1 .. n + 1)) = 2^(n + 1)
  BY <1>3, FS_SUBSET
<1>6. Cardinality(SUBSET (1 .. n + 1)) = 2 * c
  <2> HIDE DEF S
  <2> QED
    BY <1>1, <1>2, TwiceAsMany
<1>7. c \in Nat \ {0}
  <2>1. {} \in SUBSET S
    OBVIOUS
  <2> DEFINE P == SUBSET S
  <2>2. IsFiniteSet(P) /\ P # {}
    BY <1>4, <2>1
  <2> HIDE DEF P
  <2>3. Cardinality(P) \in Nat /\ Cardinality(P) # 0
    BY <2>2, FS_CardinalityType, FS_EmptySet
  <2> QED
    BY <2>3 DEF P
<1> HIDE DEF c
<1> QED
  BY <1>4, <1>5, <1>6, <1>7 DEF Power

LEMMA SmallPowers ==
  /\ Power(0) = 1 /\ Power(1) = 2 /\ Power(2) = 4 /\ Power(3) = 8 /\ Power(4) = 16
  /\ Power(5) = 32 /\ Power(6) = 64 /\ Power(7) = 128 /\ Power(8) = 256
<1>1. Power(0) = 1
  BY DEF Power
<1>2. ASSUME NEW n \in Nat PROVE Power(n + 1) = 2 * Power(n)
  BY PowerIs
<1>3. Power(0 + 1) = 2 * Power(0) /\ Power(1 + 1) = 2 * Power(1) /\ Power(2 + 1) = 2 * Power(2)
  BY <1>2
<1>4. Power(3 + 1) = 2 * Power(3) /\ Power(4 + 1) = 2 * Power(4) /\ Power(5 + 1) = 2 * Power(5)
  BY <1>2
<1>5. Power(6 + 1) = 2 * Power(6) /\ Power(7 + 1) = 2 * Power(7)
  BY <1>2
<1> QED
  BY <1>1, <1>3, <1>4, <1>5

\* Exponents add up.
LEMMA PowerSum ==
  ASSUME NEW a \in Nat, NEW b \in Nat
  PROVE  Power(a + b) = Power(a) * Power(b)
<1> DEFINE Sound == {n \in Nat : Power(a + n) = Power(a) * Power(n)}
<1>1. 0 \in Sound
  <2>1. a + 0 = a /\ Power(a) \in Nat /\ Power(0) = 1
    BY PowerIs, SmallPowers
  <2>2. Power(a) * 1 = Power(a)
    BY <2>1
  <2> QED
    BY <2>1, <2>2
<1>2. ASSUME NEW n \in Sound PROVE n + 1 \in Sound
  <2>1. n \in Nat /\ Power(a + n) = Power(a) * Power(n) /\ a + n \in Nat
    OBVIOUS
  <2>2. Power((a + n) + 1) = 2 * Power(a + n) /\ Power(n + 1) = 2 * Power(n)
    BY <2>1, PowerIs
  <2>3. Power(a) \in Nat /\ Power(n) \in Nat
    BY <2>1, PowerIs
  <2> DEFINE u == Power(a)
             v == Power(n)
  <2>4. u * (2 * v) = 2 * (u * v)
    <3>1. u \in Nat /\ v \in Nat
      BY <2>3
    <3> HIDE DEF u, v
    <3> QED
      BY <3>1
  <2>5. (a + n) + 1 = a + (n + 1) /\ n + 1 \in Nat
    BY <2>1
  <2> HIDE DEF Sound
  <2>6. Power(a + (n + 1)) = Power(a) * Power(n + 1)
    BY <2>1, <2>2, <2>4, <2>5
  <2> QED
    BY <2>5, <2>6 DEF Sound
<1>3. Sound = Nat
  <2>1. Sound \in SUBSET Nat
    OBVIOUS
  <2> HIDE DEF Sound
  <2> QED
    BY <1>1, <1>2, <2>1, InductionSet
<1> QED
  BY <1>3

LEMMA PowerGrows ==
  ASSUME NEW n \in Nat
  PROVE  n < Power(n)
<1> DEFINE Sound == {m \in Nat : m < Power(m)}
<1>1. 0 \in Sound
  BY SmallPowers
<1>2. ASSUME NEW m \in Sound PROVE m + 1 \in Sound
  <2>1. m \in Nat /\ m < Power(m) /\ Power(m) \in Nat /\ Power(m + 1) = 2 * Power(m)
    BY PowerIs
  <2> QED
    BY <2>1
<1>3. Sound = Nat
  <2>1. Sound \in SUBSET Nat
    OBVIOUS
  <2> HIDE DEF Sound
  <2> QED
    BY <1>1, <1>2, <2>1, InductionSet
<1> QED
  BY <1>3

\* A higher power is a multiple of a lower one, and at least as great.
LEMMA PowerOrder ==
  ASSUME NEW a \in Nat, NEW b \in Nat, a <= b
  PROVE  /\ b - a \in Nat /\ Power(b) = Power(a) * Power(b - a) /\ Power(a) <= Power(b)
         /\ a < b => 2 * Power(a) <= Power(b)
<1> DEFINE d == b - a
           u == Power(a)
           v == Power(d)
<1>1. d \in Nat /\ b = a + d /\ (a < b => d # 0)
  OBVIOUS
<1> HIDE DEF d
<1>2. u \in Nat \ {0} /\ v \in Nat \ {0} /\ Power(a + d) = u * v /\ d < v
  BY <1>1, PowerIs, PowerSum, PowerGrows
<1>3. v >= 1 /\ (a < b => v >= 2)
  BY <1>1, <1>2
<1> HIDE DEF u, v
<1>4. u * 1 <= u * v /\ (v >= 2 => u * 2 <= u * v)
  BY <1>2, <1>3, ProductOrder
<1>5. Power(b) = u * v /\ u * 1 = u /\ u * 2 = 2 * u
  BY <1>1, <1>2
<1>6. u <= Power(b) /\ (a < b => 2 * u <= Power(b))
  BY <1>3, <1>4, <1>5
<1> QED
  BY <1>1, <1>5, <1>6 DEF d, u, v

--------------------------------------------------------------------------------
(* The nodes of a tree bucket.                                             *)

\* Division with a known rest
LEMMA RestIs ==
  ASSUME NEW n \in Nat \ {0}, NEW q \in Int, NEW r \in 0 .. n - 1, NEW a, a = n * q + r
  PROVE  a \div n = q /\ a % n = r
<1> DEFINE pow == a \div n
           sub == a % n
<1>1. n * q \in Int /\ a \in Int
  OBVIOUS
<1>2. pow \in Int /\ sub \in 0 .. n - 1 /\ a = n * pow + sub
  BY <1>1, Division
<1> HIDE DEF pow, sub
<1>3. n * (q - pow) = n * q - n * pow
  BY <1>2
<1> DEFINE u == n * q
           v == n * pow
           w == n * (q - pow)
<1>4. u \in Int /\ v \in Int /\ w = u - v /\ a = u + r /\ a = v + sub
  BY <1>1, <1>2, <1>3
<1>5. w < n /\ w > -n
  <2> HIDE DEF u, v, w
  <2> QED
    BY <1>2, <1>4
<1>6. q - pow = 0
  <2> DEFINE d == q - pow
  <2>1. d \in Int /\ n * d < n /\ n * d > -n
    BY <1>2, <1>5
  <2> HIDE DEF d
  <2>2. d = 0
    BY <2>1, SmallMultiple
  <2> QED
    BY <2>2 DEF d
<1>7. q = pow
  BY <1>2, <1>6
<1> HIDE DEF w
<1>8. r = sub
  BY <1>2, <1>4, <1>7
<1> QED
  BY <1>7, <1>8 DEF pow, sub

\* What leaves no rest is a multiple.
LEMMA MultipleIs ==
  ASSUME NEW n \in Nat \ {0}, NEW a \in Int
  PROVE  a % n = 0 <=> \E q \in Int : a = n * q
<1>1. ASSUME a % n = 0 PROVE \E q \in Int : a = n * q
  <2> DEFINE q == a \div n
  <2>1. q \in Int /\ a = n * q + (a % n)
    BY Division
  <2>2. n * q \in Int
    BY <2>1
  <2>3. a = n * q
    BY <1>1, <2>1, <2>2
  <2> HIDE DEF q
  <2> QED
    BY <2>1, <2>3
<1>2. ASSUME NEW q \in Int, a = n * q PROVE a % n = 0
  <2>1. 0 \in 0 .. n - 1 /\ n * q \in Int
    OBVIOUS
  <2>2. a = n * q + 0
    BY <1>2, <2>1
  <2> QED
    BY <2>1, <2>2, RestIs
<1> QED
  BY <1>1, <1>2

\* The j-th node, from 0, of height h
Node(h, j) == Power(h) * (2 * j + 1)

LEMMA NodeIs ==
  ASSUME NEW h \in Nat, NEW j \in Nat
  PROVE  /\ Node(h, j) \in Nat \ {0}
         /\ Power(h) <= Node(h, j)
         /\ Node(h, j) = Power(h + 1) * j + Power(h)
<1> DEFINE pow == Power(h)
<1>1. pow \in Nat \ {0} /\ Power(h + 1) = 2 * pow
  BY PowerIs
<1> HIDE DEF pow
<1>2. pow * (2 * j + 1) = (2 * pow) * j + pow
  BY <1>1
<1>3. (2 * pow) * j \in Nat
  BY <1>1
<1> DEFINE u == (2 * pow) * j
<1>4. u \in Nat /\ Node(h, j) = u + pow
  BY <1>2, <1>3 DEF Node, pow
<1> HIDE DEF u
<1>5. Node(h, j) \in Nat \ {0} /\ pow <= Node(h, j)
  BY <1>1, <1>4
<1> QED
  BY <1>1, <1>4, <1>5 DEF pow, u

LEMMA HeightIs ==
  ASSUME NEW h \in Nat, NEW j \in Nat
  PROVE  Height(Node(h, j)) = h
<1> DEFINE n == Node(h, j)
           Is(e) == n % Power(e) = 0 /\ n % Power(e + 1) # 0
<1>1. n \in Nat \ {0} /\ Power(h) <= n /\ n = Power(h + 1) * j + Power(h)
  BY NodeIs
<1>2. ASSUME NEW e \in Nat
      PROVE  Power(e) \in Nat \ {0} /\ Power(e + 1) = 2 * Power(e) /\ e < Power(e)
  BY PowerIs, PowerGrows
<1>3. h \in 0 .. n
  <2> DEFINE pow == Power(h)
  <2>1. pow \in Nat /\ h < pow /\ pow <= n
    BY <1>1, <1>2
  <2> HIDE DEF n, pow
  <2> QED
    BY <1>1, <2>1
<1>4. n % Power(h) = 0
  <2> DEFINE pow == Power(h)
             q == 2 * j + 1
  <2>1. q \in Int /\ n = pow * q /\ pow \in Nat \ {0} /\ n \in Int
    BY <1>1, <1>2 DEF Node
  <2> HIDE DEF n, pow, q
  <2>2. n % pow = 0
    BY <2>1, MultipleIs
  <2> QED
    BY <2>2 DEF pow
<1>5. n % Power(h + 1) = Power(h)
  <2> DEFINE pow == Power(h)
             m == Power(h + 1)
  <2>1. pow \in Nat \ {0} /\ m = 2 * pow /\ n = m * j + pow /\ n \in Int
    BY <1>1, <1>2
  <2> HIDE DEF n, pow, m
  <2>2. pow \in 0 .. m - 1 /\ m \in Nat \ {0} /\ j \in Int
    BY <2>1
  <2>3. n = m * j + pow
    BY <2>1
  <2>4. n % m = pow
    BY <2>2, <2>3, RestIs
  <2> QED
    BY <2>4 DEF pow, m
<1>6. Is(h)
  BY <1>2, <1>4, <1>5
<1>7. ASSUME NEW e \in Nat, NEW f \in Nat, e <= f, n % Power(f) = 0 PROVE n % Power(e) = 0
  <2> DEFINE pow == Power(e)
             c == Power(f - e)
  <2>1. f - e \in Nat /\ Power(f) = pow * c /\ c \in Nat /\ pow \in Nat \ {0}
    BY <1>7, PowerOrder, PowerIs
  <2> DEFINE m == Power(f)
  <2>2. m \in Nat \ {0} /\ n \in Int /\ n % m = 0
    BY <1>1, <1>7, PowerIs
  <2> HIDE DEF n, pow, c, m
  <2>3. PICK q \in Int : n = m * q
    BY <2>2, MultipleIs
  <2>4. m = pow * c
    BY <2>1 DEF m
  <2>5. c * q \in Int /\ m * q = pow * (c * q)
    BY <2>1, <2>3, <2>4
  <2>6. n % pow = 0
    BY <2>1, <2>2, <2>3, <2>5, MultipleIs
  <2> QED
    BY <2>6 DEF pow
<1> HIDE DEF n
<1>8. ASSUME NEW e \in 0 .. n, Is(e) PROVE e = h
  <2>1. e \in Nat /\ e + 1 \in Nat /\ h + 1 \in Nat
    BY <1>1
  <2>2. ~(e + 1 <= h)
    BY <1>4, <1>7, <1>8, <2>1
  <2>3. ~(h + 1 <= e)
    BY <1>6, <1>7, <1>8, <2>1
  <2> QED
    BY <2>1, <2>2, <2>3
<1> HIDE DEF Is
<1>9. (CHOOSE e \in 0 .. n : Is(e)) = h
  BY <1>3, <1>6, <1>8
<1> QED
  BY <1>9 DEF Height, Power, n, Is

LEMMA ParentIs ==
  ASSUME NEW h \in Nat, NEW j \in Nat
  PROVE  Parent(Node(h, j)) = Node(h + 1, j \div 2)
<1> DEFINE n == Node(h, j)
           pow == Power(h)
           m == Power(h + 1)
           d == j \div 2
<1>1. pow \in Nat \ {0} /\ m = 2 * pow /\ n = m * j + pow /\ n \in Nat
  BY PowerIs, NodeIs
<1>2. d \in Nat /\ j % 2 \in 0 .. 1 /\ j = 2 * d + (j % 2)
  <2>1. j \in Int /\ 2 \in Nat \ {0} /\ 2 - 1 = 1
    OBVIOUS
  <2>2. d \in Nat /\ j % 2 \in 0 .. 2 - 1 /\ j = 2 * d + (j % 2)
    BY <2>1, Division
  <2> QED
    BY <2>1, <2>2
<1>3. Node(h + 1, d) = m * (2 * d + 1)
  BY DEF Node
<1>4. Parent(n) = IF (n \div m) % 2 = 1 THEN n - pow ELSE n + pow
  BY HeightIs DEF Parent, Power
<1> HIDE DEF n, m, pow
<1>5. n \div m = j
  <2>1. pow \in 0 .. m - 1 /\ m \in Nat \ {0} /\ j \in Int
    BY <1>1
  <2> QED
    BY <1>1, <2>1, RestIs
<1>6. CASE j % 2 = 1
  <2>1. m * j = m * (2 * d + 1)
    BY <1>2, <1>6
  <2>2. Parent(n) = n - pow
    BY <1>4, <1>5, <1>6
  <2> DEFINE u == m * j
  <2>3. u \in Int /\ n = u + pow
    BY <1>1
  <2>4. n - pow = u
    <3> HIDE DEF u
    <3> QED
      BY <1>1, <2>3
  <2> QED
    BY <1>3, <2>1, <2>2, <2>4 DEF n, m
<1>7. CASE j % 2 # 1
  <2>1. j = 2 * d
    BY <1>2, <1>7
  <2>2. m * (j + 1) = m * j + 2 * pow /\ m * j \in Int
    BY <1>1
  <2>3. Parent(n) = n + pow
    BY <1>4, <1>5, <1>7
  <2> DEFINE u == m * j
             v == m * (j + 1)
  <2>4. u \in Int /\ n = u + pow /\ v = u + 2 * pow
    BY <1>1, <2>2
  <2>5. n + pow = v
    <3> HIDE DEF u, v
    <3> QED
      BY <1>1, <2>4
  <2>6. v = m * (2 * d + 1)
    BY <2>1
  <2> QED
    BY <1>3, <2>3, <2>5, <2>6 DEF n, m
<1> QED
  BY <1>6, <1>7

LEMMA ChildrenAre ==
  ASSUME NEW h \in Nat, NEW j \in Nat
  PROVE  /\ LeftOf(Node(h + 1, j)) = Node(h, 2 * j)
         /\ RightOf(Node(h + 1, j)) = Node(h, 2 * j + 1)
<1> DEFINE n == Node(h + 1, j)
           pow == Power(h)
<1>1. h + 1 \in Nat /\ (h + 1) - 1 = h /\ pow \in Nat \ {0} /\ Power(h + 1) = 2 * pow
  BY PowerIs
<1>2. LeftOf(n) = n - pow /\ RightOf(n) = n + pow
  <2>1. Height(n) - 1 = h
    BY <1>1, HeightIs
  <2> QED
    BY <2>1 DEF LeftOf, RightOf, Power
<1>3. n = (2 * pow) * (2 * j + 1)
  BY <1>1 DEF Node
<1>4. /\ Node(h, 2 * j) = pow * (2 * (2 * j) + 1)
      /\ Node(h, 2 * j + 1) = pow * (2 * (2 * j + 1) + 1)
  BY DEF Node
<1> HIDE DEF n, pow
<1> DEFINE u == pow * j
<1>5. /\ (2 * pow) * (2 * j + 1) = 4 * u + 2 * pow
      /\ pow * (2 * (2 * j) + 1) = 4 * u + pow
      /\ pow * (2 * (2 * j + 1) + 1) = 4 * u + 3 * pow
      /\ u \in Int
  BY <1>1
<1> HIDE DEF u
<1>6. n - pow = 4 * u + pow /\ n + pow = 4 * u + 3 * pow
  BY <1>1, <1>3, <1>5
<1> QED
  BY <1>2, <1>4, <1>5, <1>6 DEF n

--------------------------------------------------------------------------------
(* The nodes above a leaf.                                                 *)

\* Halving a quotient doubles the divisor.
LEMMA HalfQuotient ==
  ASSUME NEW y \in Nat, NEW h \in Nat
  PROVE  y \div Power(h) \in Nat /\ (y \div Power(h)) \div 2 = y \div Power(h + 1)
<1> DEFINE pow == Power(h)
           m == Power(h + 1)
           q == y \div pow
           r == y % pow
           d == q \div 2
           w == q % 2
<1>1. pow \in Nat \ {0} /\ m = 2 * pow
  BY PowerIs
<1> HIDE DEF pow, m
<1>2. q \in Nat /\ r \in 0 .. pow - 1 /\ y = pow * q + r
  <2>1. y \in Int /\ pow \in Nat \ {0}
    BY <1>1
  <2> QED
    BY <2>1, Division
<1> HIDE DEF q, r
<1>3. d \in Nat /\ w \in 0 .. 1 /\ q = 2 * d + w
  BY <1>2, Division
<1> HIDE DEF d, w
<1> DEFINE t == pow * w + r
<1>4. pow * q = m * d + pow * w
  <2>1. pow * (2 * d + w) = (2 * pow) * d + pow * w
    BY <1>1, <1>3
  <2> QED
    BY <1>1, <1>3, <2>1
<1>5. pow * w \in 0 .. pow
  BY <1>1, <1>3
<1>6. t \in 0 .. m - 1 /\ m \in Nat \ {0} /\ d \in Int
  <2> DEFINE a == pow * w
  <2>1. a \in 0 .. pow /\ t = a + r
    BY <1>5
  <2> HIDE DEF a, t
  <2> QED
    BY <1>1, <1>2, <1>3, <2>1
<1>7. y = m * d + t
  <2> DEFINE a == pow * w
             c == m * d
             e == pow * q
  <2>1. a \in Int /\ c \in Int /\ e = c + a /\ y = e + r /\ t = a + r
    BY <1>1, <1>2, <1>3, <1>4, <1>5
  <2> HIDE DEF a, c, e, t
  <2>2. y = c + t
    BY <1>2, <2>1
  <2> QED
    BY <2>2 DEF c
<1> HIDE DEF t
<1>8. y \div m = d
  BY <1>6, <1>7, RestIs
<1> QED
  BY <1>2, <1>8 DEF pow, m, q, d

\* The path from a leaf up
LEMMA PathIs ==
  ASSUME NEW k \in Nat \ {0}, NEW depth \in Nat
  PROVE  Path(k, depth) = [d \in 1 .. depth |-> Node(d - 1, (k - 1) \div Power(d - 1))]
<1> DEFINE F == [d \in 1 .. depth |-> Node(d - 1, (k - 1) \div Power(d - 1))]
           Unroll(g) == [d \in 1 .. depth |-> IF d = 1 THEN 2 * k - 1 ELSE Parent(g[d - 1])]
<1>0. k - 1 \in Nat
  OBVIOUS
<1>1. Node(0, (k - 1) \div Power(0)) = 2 * k - 1
  <2>1. k - 1 \in Int /\ 1 \in Nat \ {0} /\ 0 \in 0 .. 1 - 1 /\ k - 1 = 1 * (k - 1) + 0
    OBVIOUS
  <2>2. (k - 1) \div 1 = k - 1
    BY <2>1, RestIs
  <2>3. 1 * (2 * (k - 1) + 1) = 2 * k - 1
    OBVIOUS
  <2> QED
    BY <2>2, <2>3, SmallPowers DEF Node
<1>2. ASSUME NEW h \in Nat
      PROVE  Parent(Node(h, (k - 1) \div Power(h))) = Node(h + 1, (k - 1) \div Power(h + 1))
  <2> DEFINE y == k - 1
             q == y \div Power(h)
  <2>1. q \in Nat /\ q \div 2 = y \div Power(h + 1)
    <3> HIDE DEF y
    <3>1. y \in Nat
      BY <1>0 DEF y
    <3> QED
      BY <3>1, HalfQuotient
  <2> HIDE DEF q
  <2>2. Parent(Node(h, q)) = Node(h + 1, q \div 2)
    BY <2>1, ParentIs
  <2> QED
    BY <2>1, <2>2 DEF q
<1>3. ASSUME NEW d \in 1 .. depth, d # 1
      PROVE  d - 1 \in 1 .. depth /\ Parent(F[d - 1]) = F[d]
  <2> DEFINE h == d - 2
  <2>1. h \in Nat /\ d - 1 \in 1 .. depth /\ h + 1 = d - 1 /\ (d - 1) - 1 = h
    BY <1>3
  <2>2. F[d - 1] = Node(h, (k - 1) \div Power(h)) /\ F[d] = Node(h + 1, (k - 1) \div Power(h + 1))
    BY <2>1
  <2> HIDE DEF h, F
  <2> QED
    BY <1>2, <2>1, <2>2
<1>4. F = Unroll(F)
  <2>1. ASSUME NEW d \in 1 .. depth PROVE F[d] = Unroll(F)[d]
    <3>1. CASE d = 1
      <4>1. F[d] = Node(0, (k - 1) \div Power(0)) /\ Unroll(F)[d] = 2 * k - 1
        BY <3>1
      <4> QED
        BY <1>1, <4>1
    <3>2. CASE d # 1
      <4>1. Parent(F[d - 1]) = F[d]
        BY <1>3, <3>2
      <4>2. Unroll(F)[d] = Parent(F[d - 1])
        <5> HIDE DEF F
        <5> QED
          BY <3>2
      <4> QED
        BY <4>1, <4>2
    <3> QED
      BY <3>1, <3>2
  <2>2. F = [d \in 1 .. depth |-> F[d]] /\ Unroll(F) = [d \in 1 .. depth |-> Unroll(F)[d]]
    OBVIOUS
  <2> HIDE DEF F, Unroll
  <2> QED
    BY <2>1, <2>2
<1>5. Path(k, depth) = CHOOSE g : g = Unroll(g)
  BY DEF Path
<1> DEFINE pow == Path(k, depth)
<1>6. pow = Unroll(pow)
  <2> HIDE DEF F, Unroll
  <2> QED
    BY <1>4, <1>5
<1> HIDE DEF pow
<1>7. /\ \A d \in 1 .. depth : pow[d] = IF d = 1 THEN 2 * k - 1 ELSE Parent(pow[d - 1])
      /\ pow = [d \in 1 .. depth |-> pow[d]]
  BY <1>6
<1>8. \A d \in 1 .. depth : F[d] = IF d = 1 THEN 2 * k - 1 ELSE Parent(F[d - 1])
  <2> HIDE DEF F
  <2> QED
    BY <1>4
<1> DEFINE Sound == {n \in Nat : n + 1 \in 1 .. depth => pow[n + 1] = F[n + 1]}
<1> HIDE DEF F
<1>9. 0 \in Sound
  <2>1. ASSUME 1 \in 1 .. depth PROVE pow[1] = F[1]
    <3>1. pow[1] = 2 * k - 1 /\ F[1] = 2 * k - 1
      BY <1>7, <1>8, <2>1
    <3> QED
      BY <3>1
  <2>2. 0 + 1 = 1 /\ 0 \in Nat
    OBVIOUS
  <2> QED
    BY <2>1, <2>2
<1>10. ASSUME NEW n \in Sound PROVE n + 1 \in Sound
  <2> SUFFICES ASSUME (n + 1) + 1 \in 1 .. depth PROVE pow[(n + 1) + 1] = F[(n + 1) + 1]
    OBVIOUS
  <2> DEFINE d == (n + 1) + 1
  <2>1. d - 1 = n + 1 /\ n + 1 \in 1 .. depth /\ d # 1 /\ d \in 1 .. depth
    OBVIOUS
  <2>2. pow[n + 1] = F[n + 1]
    BY <2>1
  <2> HIDE DEF d
  <2>3. pow[d] = Parent(pow[d - 1])
    BY <1>7, <2>1
  <2>4. F[d] = Parent(F[d - 1])
    BY <1>8, <2>1
  <2>5. pow[d - 1] = F[d - 1]
    BY <2>1, <2>2
  <2>6. pow[d] = F[d]
    BY <2>3, <2>4, <2>5
  <2> QED
    BY <2>6 DEF d
<1>11. Sound = Nat
  <2>1. Sound \in SUBSET Nat
    OBVIOUS
  <2> HIDE DEF Sound
  <2> QED
    BY <1>9, <1>10, <2>1, InductionSet
<1>12. ASSUME NEW d \in 1 .. depth PROVE pow[d] = F[d]
  <2>1. d - 1 \in Nat /\ (d - 1) + 1 = d
    OBVIOUS
  <2>2. d - 1 \in Sound
    BY <1>11, <2>1
  <2> QED
    BY <2>1, <2>2
<1>13. F = [d \in 1 .. depth |-> F[d]]
  BY DEF F
<1>14. pow = F
  BY <1>7, <1>12, <1>13
<1> QED
  BY <1>14 DEF pow, F

--------------------------------------------------------------------------------
(* The depth of a tree.                                                    *)

\* A tree has room for the items.
LEMMA DepthIs ==
  ASSUME NEW width \in Nat \ {0}
  PROVE  Depth(width) \in Nat \ {0} /\ width <= Power(Depth(width) - 1)
<1> DEFINE Fits(d) == 2^(d - 1) >= width /\ (d > 1 => 2^(d - 2) < width)
           E == {e \in Nat : Power(e) >= width}
<1>1. ASSUME NEW e \in Nat PROVE Power(e) \in Nat /\ e < Power(e)
  BY PowerIs, PowerGrows
<1>2. width \in E /\ E \in SUBSET Nat
  BY <1>1
<1>3. PICK e \in E : \A f \in E : e <= f
  <2> HIDE DEF E
  <2> QED
    BY <1>2, LeastElement
<1>4. e \in Nat /\ Power(e) >= width /\ e <= width
  BY <1>2, <1>3
<1>5. e + 1 \in 1 .. width + 1 /\ (e + 1) - 1 = e /\ (e + 1) - 2 = e - 1
  BY <1>4
<1>6. e + 1 > 1 => Power(e - 1) < width
  <2> SUFFICES ASSUME e + 1 > 1 PROVE Power(e - 1) < width
    OBVIOUS
  <2>1. e - 1 \in Nat /\ ~(e <= e - 1)
    BY <1>4
  <2>2. e - 1 \notin E
    BY <1>3, <2>1
  <2> QED
    BY <1>1, <2>1, <2>2
<1>7. Fits(e + 1)
  BY <1>4, <1>5, <1>6 DEF Power
<1> HIDE DEF Fits
<1>8. \E d \in 1 .. width + 1 : Fits(d)
  BY <1>5, <1>7
<1>9. Depth(width) = CHOOSE d \in 1 .. width + 1 : Fits(d)
  BY DEF Depth, Fits
<1>10. Depth(width) \in 1 .. width + 1 /\ Fits(Depth(width))
  BY <1>8, <1>9
<1>11. Depth(width) \in Nat \ {0}
  BY <1>10
<1> QED
  <2>1. 2^(Depth(width) - 1) >= width
    BY <1>10 DEF Fits
  <2>2. Depth(width) - 1 \in Nat
    BY <1>11
  <2>3. Power(Depth(width) - 1) \in Nat
    BY <1>1, <2>2
  <2> QED
    BY <1>11, <2>1, <2>3 DEF Power

\* Where the number of nodes fits in its eight bits, the root is the middle node.
LEMMA RootNodeIs ==
  ASSUME NEW width \in Nat \ {0}, NumNodes(width) # 0
  PROVE  NumNodes(width) \div 2 = Power(Depth(width) - 1)
<1> DEFINE d == Depth(width)
<1>1. d \in Nat \ {0}
  BY DepthIs
<1>2. NumNodes(width) = Power(d) % 256
  BY DEF NumNodes, Power
<1> HIDE DEF d
<1>3. d < 8
  <2> SUFFICES ASSUME d >= 8 PROVE FALSE
    BY <1>1
  <2> DEFINE c == Power(d - 8)
  <2>1. 8 <= d /\ 8 \in Nat /\ d \in Nat /\ d - 8 \in Nat
    BY <1>1
  <2>2. Power(d) = Power(8) * c
    BY <2>1, PowerOrder
  <2>3. c \in Nat /\ Power(8) = 256
    BY <2>1, PowerIs, SmallPowers
  <2> HIDE DEF c
  <2>4. Power(d) \in Int /\ c \in Int /\ 256 \in Nat \ {0} /\ Power(d) = 256 * c
    BY <2>2, <2>3
  <2>5. Power(d) % 256 = 0
    BY <2>4, MultipleIs
  <2> QED
    BY <1>2, <2>5
<1> DEFINE c == Power(d - 1)
<1>4. c \in Nat /\ Power(d) = 2 * c
  <2>1. d - 1 \in Nat /\ (d - 1) + 1 = d
    BY <1>1
  <2>2. Power((d - 1) + 1) = 2 * Power(d - 1) /\ Power(d - 1) \in Nat
    BY <2>1, PowerIs
  <2> QED
    BY <2>1, <2>2
<1>5. Power(d) <= 128
  <2>1. d \in Nat /\ 7 \in Nat /\ d <= 7
    BY <1>1, <1>3
  <2>2. Power(d) <= Power(7)
    BY <2>1, PowerOrder
  <2> QED
    BY <2>2, SmallPowers
<1> HIDE DEF c
<1>6. Power(d) % 256 = Power(d)
  <2> DEFINE m == Power(d)
  <2>1. m \in 0 .. 255
    BY <1>4, <1>5
  <2> HIDE DEF m
  <2>2. m % 256 = m
    BY <2>1
  <2> QED
    BY <2>2 DEF m
<1>7. (2 * c) \div 2 = c
  BY <1>4, QuotientOfMultiple
<1> QED
  BY <1>2, <1>4, <1>6, <1>7 DEF c, d

--------------------------------------------------------------------------------
(* The walk down a tree.                                                   *)

\* A node with an item below it is a node of the tree.
LEMMA NodeFits ==
  ASSUME NEW width \in Nat \ {0}, NEW h \in Nat, h < Depth(width), NEW j \in Nat,
         Power(h) * j < width
  PROVE  Node(h, j) \in 1 .. 2^Depth(width) - 1
<1> DEFINE d == Depth(width)
           e == d - 1
           pow == Power(h)
           c == Power(e - h)
           m == Power(e)
           n == Node(h, j)
<1>1. d \in Nat \ {0} /\ width <= Power(d - 1)
  BY DepthIs
<1>2. e \in Nat /\ h <= e /\ e + 1 = d /\ e - h \in Nat
  BY <1>1
<1>3. m = pow * c
  BY <1>2, PowerOrder
<1>4. pow \in Nat \ {0} /\ c \in Nat \ {0} /\ Power(d) = 2 * m /\ m \in Nat
  BY <1>1, <1>2, PowerIs
<1>5. n \in Nat \ {0} /\ n = pow * (2 * j + 1)
  BY NodeIs DEF Node
<1>6. pow * j < m
  <2> DEFINE u == pow * j
  <2>1. u \in Int /\ u < width /\ width <= m
    BY <1>1, <1>4
  <2> HIDE DEF u, m
  <2> QED
    BY <1>4, <2>1 DEF u
<1> HIDE DEF d, e, pow, c, m, n
<1>7. j < c
  BY <1>3, <1>4, <1>6, ProductOrder
<1>8. pow * (2 * j + 1) <= pow * (2 * c - 1)
  <2>1. 2 * j + 1 \in Int /\ 2 * c - 1 \in Int /\ 2 * j + 1 <= 2 * c - 1 /\ pow \in Nat
    BY <1>4, <1>7
  <2> QED
    BY <2>1, ProductOrder
<1>9. pow * (2 * c - 1) = 2 * m - pow
  BY <1>3, <1>4
<1>10. n <= Power(d) - 1
  <2>1. n <= 2 * m - pow
    BY <1>5, <1>8, <1>9
  <2> QED
    BY <1>4, <1>5, <2>1
<1>11. n \in 1 .. Power(d) - 1
  BY <1>4, <1>5, <1>10
<1> QED
  BY <1>11 DEF n, d, Power

\* An item lies under the node of a height whose number is its quotient.
LEMMA UnderIs ==
  ASSUME NEW k \in Nat \ {0}, NEW depth \in Nat, NEW h \in Nat, h < depth, NEW j \in Nat
  PROVE  Node(h, j) \in Range(Path(k, depth)) <=> (k - 1) \div Power(h) = j
<1> DEFINE q(e) == (k - 1) \div Power(e)
           pow == Path(k, depth)
<1>1. ASSUME NEW e \in Nat PROVE q(e) \in Nat
  <2> DEFINE y == k - 1
  <2>1. y \in Nat
    OBVIOUS
  <2> HIDE DEF y
  <2>2. y \div Power(e) \in Nat
    BY <2>1, HalfQuotient
  <2> QED
    BY <2>2 DEF y
<1>2. pow = [d \in 1 .. depth |-> Node(d - 1, q(d - 1))]
  BY PathIs
<1> HIDE DEF q, pow
<1>3. ASSUME q(h) = j PROVE Node(h, j) \in Range(pow)
  <2>1. h + 1 \in 1 .. depth /\ (h + 1) - 1 = h
    OBVIOUS
  <2>2. pow[h + 1] = Node(h, j) /\ h + 1 \in DOMAIN pow
    BY <1>2, <1>3, <2>1
  <2> QED
    BY <2>2 DEF Range
<1>4. ASSUME Node(h, j) \in Range(pow) PROVE q(h) = j
  <2>1. PICK d \in 1 .. depth : Node(h, j) = Node(d - 1, q(d - 1))
    <3>1. PICK d \in DOMAIN pow : Node(h, j) = pow[d]
      BY <1>4 DEF Range
    <3>2. d \in 1 .. depth /\ pow[d] = Node(d - 1, q(d - 1))
      BY <1>2
    <3> QED
      BY <3>1, <3>2
  <2> DEFINE e == d - 1
  <2>2. e \in Nat /\ Node(h, j) = Node(e, q(e))
    BY <2>1
  <2> HIDE DEF e
  <2>3. Height(Node(h, j)) = h /\ Height(Node(e, q(e))) = e
    BY <1>1, <2>2, HeightIs
  <2>4. e = h
    BY <2>2, <2>3
  <2> DEFINE at == q(h)
             m == Power(h)
  <2>5. m * (2 * j + 1) = m * (2 * at + 1) /\ m \in Nat \ {0} /\ at \in Nat
    BY <1>1, <2>2, <2>4, PowerIs DEF Node
  <2> HIDE DEF at, m
  <2> DEFINE a == 2 * j + 1
             b == 2 * at + 1
  <2>6. a \in Int /\ b \in Int /\ m * a = m * b /\ m \in Nat /\ m > 0
    BY <2>5
  <2> HIDE DEF a, b
  <2>7. a = b
    BY <2>6, ProductOrder
  <2>8. at = j
    BY <2>5, <2>7 DEF a, b
  <2> QED
    BY <2>8 DEF at
<1> QED
  BY <1>3, <1>4 DEF q, pow

\* The weights of a node: those of the items under it.
Under(b, h, j) ==
  [k \in 1 .. Len(b.items) |-> IF (k - 1) \div Power(h) = j THEN b.weights[k] ELSE 0]

LEMMA NodeWeightIs ==
  ASSUME NEW b, Good(b), NEW h \in Nat, h < Depth(Len(b.items)), NEW j \in Nat,
         Power(h) * j < Len(b.items)
  PROVE  /\ NodeWeights(b)[Node(h, j)] = SumFunctionOnSet(Under(b, h, j), 1 .. Len(b.items))
         /\ \A k \in 1 .. Len(b.items) : Under(b, h, j)[k] \in Nat
<1> DEFINE width == Len(b.items)
           depth == Depth(width)
           n == Node(h, j)
           f == [k \in 1 .. width |-> IF n \in Range(Path(k, depth)) THEN b.weights[k] ELSE 0]
<1>1. width \in Nat \ {0} /\ \A k \in 1 .. width : b.weights[k] \in Nat
  <2> DEFINE w == b.weights
             sub == b.items
  <2>1. /\ w \in Seq(Nat \ {0}) /\ Len(w) = width
        /\ sub \in Seq(Int) /\ width = Len(sub) /\ width > 0
    BY DEF Good
  <2> HIDE DEF w, sub, width
  <2>2. width \in Nat \ {0}
    BY <2>1
  <2>3. \A k \in 1 .. width : w[k] \in Nat
    BY <2>1, <2>2
  <2> QED
    BY <2>2, <2>3 DEF w
<1>2. n \in 1 .. 2^depth - 1
  <2> HIDE DEF width
  <2> QED
    BY <1>1, NodeFits DEF width
<1>3. NodeWeights(b)[n] = Total(f)
  <2> HIDE DEF n
  <2> QED
    BY <1>2 DEF NodeWeights
<1>4. ASSUME NEW k \in 1 .. width
      PROVE  n \in Range(Path(k, depth)) <=> (k - 1) \div Power(h) = j
  <2>1. k \in Nat \ {0} /\ depth \in Nat
    BY <1>1, DepthIs
  <2> HIDE DEF width, depth
  <2>2. h < depth
    BY DEF width, depth
  <2> QED
    BY <2>1, <2>2, UnderIs
<1>5. f = Under(b, h, j)
  <2> HIDE DEF n, depth
  <2> QED
    BY <1>4 DEF Under
<1>6. Total(f) = SumFunctionOnSet(f, 1 .. width)
  <2>1. DOMAIN f = 1 .. width
    OBVIOUS
  <2> HIDE DEF f, width
  <2> QED
    BY <2>1 DEF Total, SumFunction
<1>7. \A k \in 1 .. width : Under(b, h, j)[k] \in Nat
  BY <1>1 DEF Under
<1> QED
  BY <1>3, <1>5, <1>6, <1>7

\* A node with no item below its right child weighs no more than its left child.
LEMMA RightIsEmpty ==
  ASSUME NEW b, Good(b), NEW h \in Nat, h + 1 < Depth(Len(b.items)), NEW j \in Nat,
         Power(h + 1) * j < Len(b.items), ~(Power(h) * (2 * j + 1) < Len(b.items))
  PROVE  ~(NodeWeights(b)[Node(h + 1, j)] > NodeWeights(b)[Node(h, 2 * j)])
<1> DEFINE width == Len(b.items)
           f == Under(b, h + 1, j)
           g == Under(b, h, 2 * j)
<1>1. Power(h) \in Nat \ {0} /\ Power(h + 1) = 2 * Power(h)
  BY PowerIs
<1>2. Power(h) * (2 * j) < width
  <2> DEFINE pow == Power(h)
  <2>1. pow \in Nat /\ (2 * pow) * j < width
    BY <1>1
  <2> HIDE DEF pow, width
  <2>2. pow * (2 * j) = (2 * pow) * j
    BY <2>1
  <2>3. pow * (2 * j) < width
    BY <2>1, <2>2
  <2> QED
    BY <2>3 DEF pow
<1>3. /\ NodeWeights(b)[Node(h + 1, j)] = SumFunctionOnSet(f, 1 .. width)
      /\ \A k \in 1 .. width : f[k] \in Nat
  <2>1. h + 1 \in Nat
    OBVIOUS
  <2> QED
    BY <2>1, NodeWeightIs
<1>4. /\ NodeWeights(b)[Node(h, 2 * j)] = SumFunctionOnSet(g, 1 .. width)
      /\ \A k \in 1 .. width : g[k] \in Nat
  <2> DEFINE at == 2 * j
  <2>1. at \in Nat /\ h < Depth(width) /\ Power(h) * at < width
    <3>1. Depth(width) \in Nat
      <4>1. width \in Nat \ {0}
        <5> DEFINE w == b.items
        <5>1. w \in Seq(Int) /\ Len(w) > 0
          BY DEF Good
        <5> HIDE DEF w
        <5>2. Len(w) \in Nat \ {0}
          BY <5>1
        <5> QED
          BY <5>2 DEF w
      <4> HIDE DEF width
      <4> QED
        BY <4>1, DepthIs
    <3> DEFINE d == Depth(width)
    <3>2. d \in Nat /\ h + 1 < d
      BY <3>1
    <3> HIDE DEF d
    <3>3. h < d
      BY <3>2
    <3> QED
      BY <1>2, <3>3 DEF d
  <2> HIDE DEF at
  <2>2. /\ NodeWeights(b)[Node(h, at)] = SumFunctionOnSet(Under(b, h, at), 1 .. width)
        /\ \A k \in 1 .. width : Under(b, h, at)[k] \in Nat
    BY <2>1, NodeWeightIs
  <2> QED
    BY <2>2 DEF at
<1>5. ASSUME NEW k \in 1 .. width PROVE f[k] <= g[k]
  <2> DEFINE y == k - 1
             q == y \div Power(h)
  <2>1. width \in Nat
    BY DEF Good
  <2>2. y \in Nat /\ y < width
    BY <2>1
  <2>3. f[k] = IF y \div Power(h + 1) = j THEN b.weights[k] ELSE 0
    BY DEF Under
  <2>4. g[k] = IF q = 2 * j THEN b.weights[k] ELSE 0
    BY DEF Under
  <2>5. f[k] \in Nat /\ g[k] \in Nat
    BY <1>3, <1>4
  <2> HIDE DEF y, f, g, width
  <2>6. q \in Nat /\ q \div 2 = y \div Power(h + 1)
    BY <2>2, HalfQuotient
  <2>7. Power(h) * q <= y
    BY <1>1, <2>2, QuotientIs
  <2> HIDE DEF q
  <2>8. CASE y \div Power(h + 1) = j
    <3>1. q = 2 * j \/ q = 2 * j + 1
      <4>1. q \div 2 = j /\ q \in Int
        BY <2>6, <2>8
      <4> QED
        BY <4>1
    <3>2. q # 2 * j + 1
      <4> SUFFICES ASSUME q = 2 * j + 1 PROVE FALSE
        OBVIOUS
      <4> DEFINE u == Power(h) * q
      <4>1. u <= y /\ u \in Int /\ ~(u < width)
        BY <1>1, <2>6, <2>7 DEF width
      <4> HIDE DEF u
      <4> QED
        BY <2>1, <2>2, <4>1
    <3> QED
      BY <2>3, <2>4, <2>5, <2>8, <3>1, <3>2
  <2>9. CASE y \div Power(h + 1) # j
    <3>1. f[k] = 0
      BY <2>3, <2>9
    <3> QED
      BY <2>5, <3>1
  <2> QED
    BY <2>8, <2>9
<1>6. ~(SumFunctionOnSet(f, 1 .. width) > SumFunctionOnSet(g, 1 .. width))
  <2> DEFINE D == 1 .. width
  <2>1. IsFiniteSet(D)
    <3>1. 1 \in Int /\ width \in Int
      BY DEF Good
    <3> HIDE DEF width
    <3> QED
      BY <3>1, FS_Interval
  <2>2. \A k \in D : f[k] \in Int /\ g[k] \in Int /\ f[k] <= g[k]
    <3> HIDE DEF f, g, width
    <3> QED
      BY <1>3, <1>4, <1>5
  <2> HIDE DEF D, f, g
  <2>3. SumFunctionOnSet(f, D) <= SumFunctionOnSet(g, D)
    BY <2>1, <2>2, SumCompare
  <2>4. SumFunctionOnSet(f, D) \in Int /\ SumFunctionOnSet(g, D) \in Int
    BY <2>1, <2>2, SumIs
  <2> DEFINE w == SumFunctionOnSet(f, D)
             r == SumFunctionOnSet(g, D)
  <2> HIDE DEF w, r
  <2>5. ~(w > r)
    BY <2>3, <2>4 DEF w, r
  <2> QED
    BY <2>5 DEF D, w, r
<1> QED
  BY <1>3, <1>4, <1>6

\* The nodes of a height with an item below them, and what a walk comes to from some nodes
Fit(b, h) == {Node(h, j) : j \in {at \in Nat : Power(h) * at < Len(b.items)}}
BelowAll(b, w) == UNION {Below(NodeWeights(b), n) : n \in w}

\* A node with an item is left only for a child with an item.
LEMMA BelowFits ==
  ASSUME NEW b, Good(b), NEW h \in Nat, h + 1 < Depth(Len(b.items)),
         NEW w, w \subseteq Fit(b, h + 1)
  PROVE  BelowAll(b, w) \subseteq Fit(b, h)
<1> SUFFICES ASSUME NEW n \in w, NEW m \in Below(NodeWeights(b), n) PROVE m \in Fit(b, h)
  BY DEF BelowAll
<1>1. PICK j \in Nat : n = Node(h + 1, j) /\ Power(h + 1) * j < Len(b.items)
  BY DEF Fit
<1> DEFINE pow == Power(h)
           width == Len(b.items)
<1>2. pow \in Nat \ {0} /\ Power(h + 1) = 2 * pow
  BY PowerIs
<1>3. LeftOf(n) = Node(h, 2 * j) /\ RightOf(n) = Node(h, 2 * j + 1)
  BY <1>1, ChildrenAre
<1>4. pow * (2 * j) < width
  <2>1. (2 * pow) * j < width
    BY <1>1, <1>2
  <2> HIDE DEF pow, width
  <2>2. pow * (2 * j) = (2 * pow) * j
    BY <1>2
  <2> QED
    BY <2>1, <2>2
<1>5. CASE m = LeftOf(n)
  <2> DEFINE at == 2 * j
  <2>1. at \in Nat /\ Power(h) * at < Len(b.items) /\ m = Node(h, at)
    BY <1>3, <1>4, <1>5
  <2> HIDE DEF at
  <2> QED
    BY <2>1 DEF Fit
<1>6. CASE m = RightOf(n) /\ NodeWeights(b)[n] > NodeWeights(b)[LeftOf(n)]
  <2> DEFINE at == 2 * j + 1
  <2>1. Power(h) * (2 * j + 1) < Len(b.items)
    BY <1>1, <1>3, <1>6, RightIsEmpty
  <2>2. at \in Nat /\ Power(h) * at < Len(b.items) /\ m = Node(h, at)
    BY <1>3, <1>6, <2>1
  <2> HIDE DEF at
  <2> QED
    BY <2>2 DEF Fit
<1> QED
  BY <1>5, <1>6 DEF Below

\* What each level of a walk from the root holds
LEMMA LevelsFit ==
  ASSUME NEW b, Good(b), NEW N \in Nat, N + 1 = Depth(Len(b.items)), NEW g,
         g[0] = {Power(N)},
         \A j \in 0 .. N - 1 : g[j + 1] \subseteq BelowAll(b, g[j])
  PROVE  \A j \in 0 .. N : g[j] \subseteq Fit(b, N - j)
<1> DEFINE Holds == {j \in Nat : j <= N => g[j] \subseteq Fit(b, N - j)}
<1>1. 0 \in Holds
  <2>1. Node(N, 0) = Power(N) /\ Power(N) * 0 = 0
    <3> DEFINE pow == Power(N)
    <3>1. pow \in Nat
      BY PowerIs
    <3> HIDE DEF pow
    <3>2. pow * (2 * 0 + 1) = pow /\ pow * 0 = 0
      BY <3>1
    <3> QED
      BY <3>2 DEF Node, pow
  <2>2. Len(b.items) > 0
    BY DEF Good
  <2>3. Power(N) \in Fit(b, N)
    BY <2>1, <2>2 DEF Fit
  <2>4. N - 0 = N
    OBVIOUS
  <2> QED
    BY <2>3, <2>4
<1>2. ASSUME NEW j \in Holds PROVE j + 1 \in Holds
  <2> SUFFICES ASSUME j + 1 <= N PROVE g[j + 1] \subseteq Fit(b, N - (j + 1))
    OBVIOUS
  <2> DEFINE h == N - (j + 1)
             w == g[j]
  <2>1. h \in Nat /\ h + 1 = N - j /\ j \in 0 .. N - 1 /\ h + 1 < Depth(Len(b.items))
    OBVIOUS
  <2>2. w \subseteq Fit(b, h + 1)
    BY <2>1
  <2>3. g[j + 1] \subseteq BelowAll(b, w)
    BY <2>1
  <2> HIDE DEF h, w
  <2>4. BelowAll(b, w) \subseteq Fit(b, h)
    BY <2>1, <2>2, BelowFits
  <2> QED
    BY <2>3, <2>4 DEF h
<1>3. Holds = Nat
  <2>1. Holds \in SUBSET Nat
    OBVIOUS
  <2> HIDE DEF Holds
  <2> QED
    BY <1>1, <1>2, <2>1, InductionSet
<1>4. ASSUME NEW j \in 0 .. N PROVE g[j] \subseteq Fit(b, N - j)
  <2>1. j \in Holds /\ j <= N
    BY <1>3
  <2> QED
    BY <2>1
<1> QED
  BY <1>4

\* A tree whose number of nodes is right draws items only.
LEMMA TreeDrawsAre ==
  ASSUME NEW b, Good(b), NumNodes(Len(b.items)) # 0
  PROVE  TreeDraws(b) \subseteq Range(b.items)
<1> DEFINE width == Len(b.items)
           depth == Depth(width)
           N == depth - 1
           root == NumNodes(width) \div 2
           w == NodeWeights(b)
           Unroll(g) == [d \in 1 .. depth |->
                         IF d = 1 THEN {root} ELSE UNION {Below(w, n) : n \in g[d - 1]}]
<1>1. width \in Nat \ {0}
  <2> DEFINE sub == b.items
  <2>1. sub \in Seq(Int) /\ Len(sub) > 0
    BY DEF Good
  <2> HIDE DEF sub
  <2>2. Len(sub) \in Nat \ {0}
    BY <2>1
  <2> QED
    BY <2>2 DEF sub
<1>2. depth \in Nat \ {0} /\ N \in Nat /\ N + 1 = depth /\ root = Power(N)
  <2>1. depth \in Nat \ {0}
    <3> HIDE DEF width
    <3> QED
      BY <1>1, DepthIs
  <2>2. root = Power(N)
    <3> HIDE DEF width
    <3> QED
      BY <1>1, RootNodeIs DEF width
  <2> HIDE DEF depth
  <2> QED
    BY <2>1, <2>2
<1>3. \E F : F = Unroll(F)
  <2> DEFINE S == SUBSET Int
             G == [at \in 0 .. N - 1 |-> [sub \in S |-> BelowAll(b, sub) \cap Int]]
             a == {Power(N)}
  <2>1. a \in S
    <3>1. Power(N) \in Int
      BY <1>2, PowerIs
    <3> QED
      BY <3>1
  <2>2. G \in [0 .. N - 1 -> [S -> S]]
    OBVIOUS
  <2>3. PICK f \in [0 .. N -> S] : f[0] = a /\ \A at \in 0 .. N - 1 : f[at + 1] = G[at][f[at]]
    <3>1. N \in Nat
      BY <1>2
    <3> HIDE DEF S, G, N, a
    <3>2. UpSequences(N, S, a, G) # {}
      BY <2>1, <2>2, <3>1, UpSequence
    <3> QED
      BY <3>2 DEF UpSequences
  <2>4. ASSUME NEW at \in 0 .. N - 1
        PROVE  f[at + 1] = BelowAll(b, f[at]) \cap Int
    <3>1. at \in 0 .. N
      BY <1>2
    <3>2. f[at] \in S
      BY <3>1
    <3> DEFINE sub == f[at]
    <3>3. f[at + 1] = G[at][sub] /\ sub \in S
      BY <2>3, <3>2
    <3> HIDE DEF sub, S
    <3>4. G[at][sub] = BelowAll(b, sub) \cap Int
      BY <3>3
    <3> QED
      BY <3>3, <3>4 DEF sub
  <2>5. \A at \in 0 .. N : f[at] \subseteq Fit(b, N - at)
    <3>1. f[0] = {Power(N)} /\ \A at \in 0 .. N - 1 : f[at + 1] \subseteq BelowAll(b, f[at])
      BY <2>3, <2>4
    <3> HIDE DEF N, depth, width
    <3>2. N \in Nat /\ N + 1 = Depth(Len(b.items))
      BY <1>2 DEF depth, width
    <3> QED
      BY <3>1, <3>2, LevelsFit
  <2>6. ASSUME NEW at \in 0 .. N - 1 PROVE f[at + 1] = BelowAll(b, f[at])
    <3> DEFINE h == N - (at + 1)
               sub == f[at]
    <3>1. h \in Nat /\ h + 1 = N - at /\ at \in 0 .. N /\ h + 1 < depth
      BY <1>2
    <3>2. sub \subseteq Fit(b, h + 1)
      BY <2>5, <3>1
    <3>3. f[at + 1] = BelowAll(b, sub) \cap Int
      BY <2>4
    <3> HIDE DEF h, sub, N
    <3>4. BelowAll(b, sub) \subseteq Fit(b, h)
      BY <3>1, <3>2, BelowFits
    <3>5. Fit(b, h) \subseteq Int
      BY <3>1, NodeIs DEF Fit
    <3>6. BelowAll(b, sub) \cap Int = BelowAll(b, sub)
      BY <3>4, <3>5
    <3> QED
      BY <3>3, <3>6 DEF sub
  <2> DEFINE F == [d \in 1 .. depth |-> f[d - 1]]
  <2>7. ASSUME NEW d \in 1 .. depth PROVE F[d] = Unroll(F)[d]
    <3>1. CASE d = 1
      BY <1>2, <2>3, <3>1
    <3>2. CASE d # 1
      <4> DEFINE at == d - 2
      <4>1. at \in 0 .. N - 1 /\ at + 1 = d - 1 /\ d - 1 \in 1 .. depth /\ (d - 1) - 1 = at
        BY <1>2, <3>2
      <4>2. F[d] = f[at + 1] /\ F[d - 1] = f[at]
        BY <4>1
      <4>3. Unroll(F)[d] = UNION {Below(w, n) : n \in F[d - 1]}
        <5> HIDE DEF F, w
        <5> QED
          BY <3>2
      <4> HIDE DEF F, Unroll, at, w
      <4>4. f[at + 1] = UNION {Below(w, n) : n \in f[at]}
        BY <2>6, <4>1 DEF BelowAll, w
      <4> QED
        BY <4>2, <4>3, <4>4
    <3> QED
      BY <3>1, <3>2
  <2>8. F = [d \in 1 .. depth |-> F[d]] /\ Unroll(F) = [d \in 1 .. depth |-> Unroll(F)[d]]
    OBVIOUS
  <2> HIDE DEF F, Unroll
  <2>9. F = Unroll(F)
    BY <2>7, <2>8
  <2> QED
    BY <2>9
<1> DEFINE level == CHOOSE g : g = Unroll(g)
<1>4. level = Unroll(level)
  <2> HIDE DEF Unroll
  <2> QED
    BY <1>3
<1>5. TreeDraws(b) = {b.items[n \div 2 + 1] : n \in level[depth]}
  BY DEF TreeDraws
<1> HIDE DEF level
<1>6. /\ level[1] = {Power(N)}
      /\ \A d \in 1 .. depth : d # 1 => level[d] = BelowAll(b, level[d - 1])
  <2>1. \A d \in 1 .. depth : level[d] = Unroll(level)[d]
    BY <1>4
  <2>2. 1 \in 1 .. depth
    BY <1>2
  <2>3. level[1] = {root}
    BY <2>1, <2>2
  <2>4. ASSUME NEW d \in 1 .. depth, d # 1 PROVE level[d] = BelowAll(b, level[d - 1])
    <3>1. level[d] = UNION {Below(w, n) : n \in level[d - 1]}
      BY <2>1, <2>4
    <3> QED
      BY <3>1 DEF BelowAll
  <2> QED
    BY <1>2, <2>3, <2>4
<1> DEFINE g == [at \in 0 .. N |-> level[at + 1]]
<1>7. g[0] = {Power(N)} /\ \A at \in 0 .. N - 1 : g[at + 1] \subseteq BelowAll(b, g[at])
  <2>1. g[0] = level[1]
    BY <1>2
  <2>2. ASSUME NEW at \in 0 .. N - 1 PROVE g[at + 1] = BelowAll(b, g[at])
    <3> DEFINE d == at + 2
    <3>1. d \in 1 .. depth /\ d # 1 /\ d - 1 = at + 1 /\ at \in 0 .. N /\ at + 1 \in 0 .. N
          /\ (at + 1) + 1 = d
      BY <1>2
    <3>2. g[at + 1] = level[d] /\ g[at] = level[d - 1]
      BY <3>1
    <3> HIDE DEF d, g, N, depth
    <3>3. level[d] = BelowAll(b, level[d - 1])
      BY <1>6, <3>1
    <3> QED
      BY <3>2, <3>3
  <2> HIDE DEF g, N
  <2> QED
    BY <1>6, <2>1, <2>2
<1>8. level[depth] \subseteq Fit(b, 0)
  <2>1. g[N] = level[depth] /\ N \in 0 .. N /\ N - N = 0
    BY <1>2
  <2> HIDE DEF g, N, depth, width
  <2>2. N \in Nat /\ N + 1 = Depth(Len(b.items))
    BY <1>2 DEF depth, width
  <2>3. \A at \in 0 .. N : g[at] \subseteq Fit(b, N - at)
    BY <1>7, <2>2, LevelsFit
  <2> QED
    BY <2>1, <2>3
<1>9. ASSUME NEW n \in Fit(b, 0) PROVE b.items[n \div 2 + 1] \in Range(b.items)
  <2>1. PICK j \in Nat : n = Node(0, j) /\ Power(0) * j < width
    BY DEF Fit
  <2>2. n = 2 * j + 1 /\ j < width
    BY <2>1, SmallPowers DEF Node
  <2>3. n \div 2 = j
    <3>1. 2 \in Nat \ {0} /\ j \in Int /\ 1 \in 0 .. 2 - 1
      OBVIOUS
    <3> QED
      BY <2>2, <3>1, RestIs
  <2>4. j + 1 \in 1 .. width
    BY <1>1, <2>2
  <2>5. b.items \in Seq(Int)
    BY DEF Good
  <2>6. DOMAIN b.items = 1 .. width
    BY <2>5
  <2> QED
    BY <2>3, <2>4, <2>6 DEF Range
<1> QED
  BY <1>5, <1>8, <1>9

--------------------------------------------------------------------------------
(* The choice from a bucket.                                               *)

\* What is drawn from a bucket is one of its items.
LEMMA DrawsAre ==
  ASSUME NEW b, Good(b), b.alg # "uniform", b.alg = "tree" => NumNodes(Len(b.items)) # 0
  PROVE  Draws(b) \subseteq Range(b.items)
<1>1. CASE b.alg = "list"
  BY <1>1, ListDrawsAre DEF Draws
<1>2. CASE b.alg = "tree"
  BY <1>2, TreeDrawsAre DEF Draws
<1>3. CASE b.alg = "straw"
  BY <1>3, StrawDrawsAre DEF Draws
<1> QED
  BY <1>1, <1>2, <1>3 DEF Good

\* The place in the order is one of the bucket's.
LEMMA PlaceIs ==
  ASSUME NEW b, Good(b), NEW o \in Orders(b), NEW r \in Int
  PROVE  /\ (r % Len(b.items)) + 1 \in DOMAIN b.items
         /\ o[(r % Len(b.items)) + 1] \in DOMAIN b.items
<1> DEFINE l == b.items
           len == Len(l)
           n == (r % len) + 1
<1>1. l \in Seq(Int) /\ len > 0
  BY DEF Good
<1>2. o \in [DOMAIN l -> DOMAIN l]
  BY DEF Orders
<1> HIDE DEF l
<1>3. len \in Nat \ {0} /\ DOMAIN l = 1 .. len
  BY <1>1
<1> HIDE DEF len
<1>4. r % len \in 0 .. len - 1
  BY <1>3, Division
<1>5. n \in 1 .. len
  BY <1>3, <1>4
<1> QED
  BY <1>2, <1>3, <1>5 DEF l, len

\* Whether it is searched or draws, a bucket gives one of its items.
LEMMA PicksAre ==
  ASSUME NEW n \in DOMAIN Map, Good(Map[n]), ~BuildFails(Map), local.order[n] \in Orders(Map[n]),
         NEW r \in Int, NEW tries
  PROVE  Picks(n, r, tries) \subseteq Items(n)
<1> DEFINE b == Map[n]
           searched == tries.local >= Len(b.items) \div 2 /\ tries.local > OrigTries
           m == local.order[n][(r % Len(b.items)) + 1]
<1>1. Picks(n, r, tries) =
        IF searched \/ b.alg = "uniform" THEN {b.items[m]} ELSE Draws(b)
  BY DEF Picks
<1>2. b.items[m] \in Range(b.items)
  <2>1. m \in DOMAIN b.items
    BY PlaceIs
  <2> HIDE DEF m, b
  <2> QED
    BY <2>1 DEF Range
<1>3. b.alg = "tree" => NumNodes(Len(b.items)) # 0
  BY DEF BuildFails
<1>4. b.alg # "uniform" => Draws(b) \subseteq Range(b.items)
  BY <1>3, DrawsAre
<1> HIDE DEF searched, m, b
<1> QED
  BY <1>1, <1>2, <1>4 DEF Items, b

--------------------------------------------------------------------------------
(* The map.                                                                *)

\* What is built: buckets of which every one is good
Buckets ==
  [alg : {"uniform", "list", "tree", "straw"}, type : Nat, items : Seq(Int),
   weights : Seq(Nat \ {0})]
Maps == {m \in Seq(Buckets) : Len(m) > 0 /\ \A n \in 1 .. Len(m) : Good(m[n])}

\* Buckets of numbered items, at least one, each with a weight
LEMMA BucketIsGood ==
  ASSUME NEW alg \in {"uniform", "list", "tree", "straw"}, NEW type \in Nat, NEW c \in Nat \ {0},
         NEW items, items \in [1 .. c -> Int], NEW weights, weights \in [1 .. c -> Nat \ {0}]
  PROVE  /\ Good(Bucket(alg, type, items, weights)) /\ DOMAIN items = 1 .. c
         /\ Bucket(alg, type, items, weights) \in Buckets
<1>1. items \in Seq(Int) /\ Len(items) = c /\ c > 0 /\ DOMAIN items = 1 .. c
  OBVIOUS
<1>2. weights \in Seq(Nat \ {0}) /\ Len(weights) = c
  OBVIOUS
<1> QED
  BY <1>1, <1>2 DEF Bucket, Good, Buckets

\* The weight of a bucket
LEMMA BucketHasWeight ==
  ASSUME NEW b, Good(b)
  PROVE  Total(b.weights) \in Nat \ {0}
<1> DEFINE w == b.weights
           len == Len(b.items)
           D == 1 .. len
<1>1. w \in Seq(Nat \ {0}) /\ Len(w) = len /\ b.items \in Seq(Int) /\ len > 0
  BY DEF Good
<1> HIDE DEF w
<1>2. len \in Nat \ {0} /\ DOMAIN w = D
  BY <1>1
<1> HIDE DEF len
<1>3. \A k \in D : w[k] \in Nat \ {0}
  BY <1>1, <1>2
<1>4. IsFiniteSet(D) /\ 1 \in D
  <2>1. 1 \in Int /\ len \in Int
    BY <1>2
  <2> QED
    BY <1>2, <2>1, FS_Interval
<1> HIDE DEF D
<1> DEFINE t == SumFunctionOnSet(w, D)
<1>5. t \in Nat /\ w[1] <= t
  BY <1>3, <1>4, SumOfNaturals
<1>6. w[1] \in Nat \ {0}
  BY <1>3, <1>4
<1> HIDE DEF t
<1>7. t \in Nat \ {0}
  BY <1>5, <1>6
<1>8. Total(w) = t
  BY <1>2 DEF Total, SumFunction, t
<1> QED
  BY <1>7, <1>8 DEF w

\* A part of a sequence has the elements from its first place on.
LEMMA PartIs ==
  ASSUME NEW S, NEW l \in Seq(S), NEW u \in Nat, NEW v \in 1 .. Len(l), u < v
  PROVE  /\ DOMAIN SubSeq(l, u + 1, v) = 1 .. v - u
         /\ \A n \in 1 .. v - u : SubSeq(l, u + 1, v)[n] = l[u + n]
<1>1. Len(l) \in Nat
  OBVIOUS
<1>2. /\ v - u \in Nat \ {0} /\ u + 1 \in 1 .. Len(l) /\ v - (u + 1) + 1 = v - u
      /\ \A n \in 1 .. v - u : (u + 1) + n - 1 = u + n
  BY <1>1
<1>3. DOMAIN SubSeq(l, u + 1, v) = 1 .. v - u
  BY <1>1, <1>2
<1>4. ASSUME NEW n \in 1 .. v - u PROVE SubSeq(l, u + 1, v)[n] = l[u + n]
  BY <1>1, <1>2
<1> QED
  BY <1>3, <1>4

\* The failure domains: runs of the list, one after the other.
LEMMA LowestLayerIs ==
  ASSUME NEW k \in Kinds, NEW l \in Lists[k]
  PROVE  LET low == LowestLayer(k, l)
         IN  /\ Len(low) \in Nat \ {0} /\ DOMAIN low = 1 .. Len(low) /\ low \in Maps
             /\ \A g \in 1 .. Len(low) : /\ Good(low[g]) /\ low[g].type = 1
                                         /\ Range(low[g].items) \subseteq Ids(l)
             /\ \A g, h \in 1 .. Len(low) :
                  g # h => Range(low[g].items) \cap Range(low[h].items) = {}
<1> DEFINE nper == (Len(l) - 1) \div Domains(k) + 1
           count == (Len(l) - 1) \div nper + 1
           last(g) == IF g * nper < Len(l) THEN g * nper ELSE Len(l)
           run(g) == SubSeq(l, (g - 1) * nper + 1, last(g))
           low == LowestLayer(k, l)
<1>1. /\ l \in Seq([id : Int, capacity : Nat \ {0}]) /\ Len(l) \in Nat \ {0}
      /\ DOMAIN l = 1 .. Len(l)
      /\ \A m, n \in DOMAIN l : l[m].id = l[n].id => m = n
  <2>1. l \in AllLists
    BY DEF AllLists
  <2>2. /\ l \in Seq([id : Int, capacity : Nat \ {0}]) /\ Len(l) > 0
        /\ \A m, n \in DOMAIN l : l[m].id = l[n].id => m = n
    BY <2>1, ListsAssumption
  <2> QED
    BY <2>2
<1>2. k.layers[1] \in {"uniform", "list", "tree", "straw"} /\ Domains(k) \in Nat \ {0}
  BY LayersAssumption DEF Domains
<1>3. nper \in Nat \ {0} /\ count \in Nat \ {0}
  <2> DEFINE a == Len(l) - 1
             d == Domains(k)
  <2>1. a \in Nat /\ d \in Nat \ {0}
    BY <1>1, <1>2
  <2> HIDE DEF a, d
  <2>2. a \div d \in Nat
    BY <2>1, Division
  <2>3. (a \div d) + 1 \in Nat \ {0}
    BY <2>2
  <2> DEFINE e == (a \div d) + 1
  <2>4. e \in Nat \ {0}
    BY <2>3
  <2> HIDE DEF e
  <2>5. a \div e \in Nat
    BY <2>1, <2>4, Division
  <2>6. (a \div e) + 1 \in Nat \ {0}
    BY <2>5
  <2> QED
    BY <2>4, <2>6 DEF a, d, e
<1>4. low = [g \in 1 .. count |->
        Bucket(k.layers[1], 1, [n \in DOMAIN run(g) |-> run(g)[n].id],
                               [n \in DOMAIN run(g) |-> run(g)[n].capacity])]
  BY DEF LowestLayer
<1>5. (Len(l) - 1) \div nper = count - 1
  <2> DEFINE e == (Len(l) - 1) \div nper
  <2>1. e \in Int
    <3>1. Len(l) - 1 \in Int
      BY <1>1
    <3> HIDE DEF nper
    <3> QED
      BY <1>3, <3>1, Division
  <2> HIDE DEF e
  <2> QED
    BY <2>1 DEF e
<1> HIDE DEF nper, low
<1>6. nper * (count - 1) <= Len(l) - 1
  <2>1. Len(l) - 1 \in Nat
    BY <1>1
  <2> DEFINE a == Len(l) - 1
  <2> HIDE DEF a
  <2>2. nper * (a \div nper) <= a
    BY <1>3, <2>1, QuotientIs DEF a
  <2> QED
    BY <1>5, <2>2 DEF a
<1> HIDE DEF count
\* The places of a run
<1>7. ASSUME NEW g \in 1 .. count
      PROVE  /\ (g - 1) * nper \in Nat /\ last(g) \in 1 .. Len(l)
             /\ (g - 1) * nper < last(g) /\ last(g) <= g * nper
  <2>1. (g - 1) * nper \in Nat /\ g * nper = (g - 1) * nper + nper
    BY <1>3
  <2>2. (g - 1) * nper < Len(l)
    <3>1. g - 1 \in Int /\ count - 1 \in Int /\ g - 1 <= count - 1 /\ nper \in Nat
      BY <1>3
    <3>2. nper * (g - 1) <= nper * (count - 1)
      BY <3>1, ProductOrder
    <3> DEFINE u == nper * (g - 1)
               v == nper * (count - 1)
    <3>3. u = (g - 1) * nper /\ u \in Int /\ v \in Int
      BY <1>3
    <3> HIDE DEF u, v
    <3> QED
      BY <1>1, <1>6, <3>2, <3>3 DEF u, v
  <2> DEFINE u == (g - 1) * nper
             v == g * nper
             z == last(g)
  <2>3. u \in Nat /\ v = u + nper /\ u < Len(l)
    BY <2>1, <2>2
  <2>4. z = IF v < Len(l) THEN v ELSE Len(l)
    BY Zenon
  <2> HIDE DEF last, u, v, z
  <2> DEFINE len == Len(l)
  <2>5. len \in Nat \ {0} /\ nper \in Nat \ {0} /\ u < len /\ z = IF v < len THEN v ELSE len
    BY <1>1, <1>3, <2>3, <2>4
  <2> HIDE DEF len
  <2>6. u \in Nat /\ z \in 1 .. len /\ u < z /\ z <= v
    BY <2>3, <2>5
  <2>7. u \in Nat /\ z \in 1 .. Len(l) /\ u < z /\ z <= v
    BY <2>6 DEF len
  <2> QED
    BY <2>7 DEF u, v, z
<1> DEFINE from(g) == (g - 1) * nper
           size1(g) == last(g) - from(g)
<1>8. ASSUME NEW g \in 1 .. count
      PROVE  /\ size1(g) \in Nat \ {0} /\ DOMAIN run(g) = 1 .. size1(g)
             /\ \A n \in 1 .. size1(g) : from(g) + n \in DOMAIN l /\ run(g)[n] = l[from(g) + n]
  <2> DEFINE u == from(g)
             v == last(g)
  <2>1. u \in Nat /\ v \in 1 .. Len(l) /\ u < v
    BY <1>7
  <2>2. run(g) = SubSeq(l, u + 1, v)
    OBVIOUS
  <2> HIDE DEF u, v, run
  <2>3. v - u \in Nat \ {0} /\ \A n \in 1 .. v - u : u + n \in 1 .. Len(l)
    BY <1>1, <2>1
  <2>4. DOMAIN run(g) = 1 .. v - u /\ \A n \in 1 .. v - u : run(g)[n] = l[u + n]
    BY <1>1, <2>1, <2>2, PartIs
  <2> QED
    BY <1>1, <2>3, <2>4 DEF u, v
<1> HIDE DEF last, run, from
<1> DEFINE items(g) == [n \in DOMAIN run(g) |-> run(g)[n].id]
           weights(g) == [n \in DOMAIN run(g) |-> run(g)[n].capacity]
<1>9. ASSUME NEW n \in DOMAIN l PROVE l[n].id \in Int /\ l[n].capacity \in Nat \ {0}
  <2> DEFINE Disk == [id : Int, capacity : Nat \ {0}]
  <2>1. l \in Seq(Disk)
    BY <1>1
  <2> HIDE DEF Disk
  <2>2. l[n] \in Disk
    BY <2>1
  <2> QED
    BY <2>2 DEF Disk
<1>10. ASSUME NEW g \in 1 .. count
       PROVE  /\ Good(low[g]) /\ low[g].type = 1 /\ low[g].items = items(g) /\ low[g] \in Buckets
              /\ DOMAIN items(g) = 1 .. size1(g)
              /\ \A n \in 1 .. size1(g) : items(g)[n] = l[from(g) + n].id
  <2>1. low[g] = Bucket(k.layers[1], 1, items(g), weights(g))
    BY <1>4
  <2> DEFINE c == size1(g)
  <2>2. /\ c \in Nat \ {0} /\ DOMAIN run(g) = 1 .. c
        /\ \A n \in 1 .. c : from(g) + n \in DOMAIN l /\ run(g)[n] = l[from(g) + n]
    BY <1>8
  <2> HIDE DEF c
  <2>3. items(g) \in [1 .. c -> Int] /\ \A n \in 1 .. c : items(g)[n] = l[from(g) + n].id
    BY <1>9, <2>2
  <2>4. weights(g) \in [1 .. c -> Nat \ {0}]
    BY <1>9, <2>2
  <2> DEFINE alg == k.layers[1]
             list == items(g)
             wlist == weights(g)
  <2> HIDE DEF items, weights
  <2>5. /\ alg \in {"uniform", "list", "tree", "straw"} /\ c \in Nat \ {0}
        /\ list \in [1 .. c -> Int] /\ wlist \in [1 .. c -> Nat \ {0}]
        /\ low[g] = Bucket(alg, 1, list, wlist)
    BY <1>2, <2>1, <2>2, <2>3, <2>4
  <2> HIDE DEF alg, list, wlist
  <2>6. Good(low[g]) /\ low[g].type = 1 /\ low[g].items = list /\ low[g] \in Buckets
    <3> DEFINE type == 1
               made == Bucket(alg, type, list, wlist)
    <3>1. low[g] = made
      BY <2>5
    <3>2. /\ type \in Nat /\ alg \in {"uniform", "list", "tree", "straw"} /\ c \in Nat \ {0}
          /\ list \in [1 .. c -> Int] /\ wlist \in [1 .. c -> Nat \ {0}]
      BY <2>5
    <3> HIDE DEF type
    <3>3. Good(Bucket(alg, type, list, wlist))
      BY <3>2, BucketIsGood
    <3>4. Bucket(alg, type, list, wlist) \in Buckets
      BY <3>2, BucketIsGood
    <3>5. made.items = list /\ made.type = type
      BY DEF Bucket
    <3> HIDE DEF made
    <3>6. Good(made) /\ made \in Buckets
      BY <3>3, <3>4 DEF made
    <3> QED
      BY <3>1, <3>5, <3>6 DEF type
  <2>7. /\ Good(low[g]) /\ low[g].type = 1 /\ low[g].items = items(g)
        /\ low[g] \in Buckets /\ DOMAIN items(g) = 1 .. c
    BY <2>3, <2>6 DEF list
  <2> QED
    BY <2>3, <2>7 DEF c
<1> HIDE DEF items, weights
<1>11. Len(low) = count /\ DOMAIN low = 1 .. count /\ low \in Seq(Buckets)
  <2>1. DOMAIN low = 1 .. count
    BY <1>4
  <2>2. low \in Seq(Buckets)
    BY <1>3, <1>4, <1>10, <2>1
  <2> QED
    BY <1>3, <2>1, <2>2
<1>12. ASSUME NEW g \in 1 .. count PROVE Range(low[g].items) \subseteq Ids(l)
  BY <1>8, <1>10 DEF Ids, Range
<1>13. ASSUME NEW g \in 1 .. count, NEW h \in 1 .. count, g < h
       PROVE  Range(items(g)) \cap Range(items(h)) = {}
  <2> SUFFICES ASSUME NEW id \in Range(items(g)), id \in Range(items(h)) PROVE FALSE
    OBVIOUS
  <2>1. PICK m \in 1 .. size1(g) : id = l[from(g) + m].id /\ from(g) + m \in DOMAIN l
    BY <1>8, <1>10 DEF Range
  <2>2. PICK n \in 1 .. size1(h) : id = l[from(h) + n].id /\ from(h) + n \in DOMAIN l
    BY <1>8, <1>10 DEF Range
  <2>3. from(g) + m = from(h) + n
    BY <1>1, <2>1, <2>2
  <2>4. last(g) <= g * nper /\ from(g) \in Int /\ from(h) \in Int /\ last(g) \in Int
    BY <1>1, <1>7 DEF from
  <2>5. g * nper <= from(h)
    <3>1. g \in Int /\ h - 1 \in Int /\ g <= h - 1 /\ nper \in Nat
      BY <1>3, <1>13
    <3>2. nper * g <= nper * (h - 1)
      BY <3>1, ProductOrder
    <3> QED
      BY <1>3, <3>2 DEF from
  <2>6. from(g) + m <= last(g) /\ m \in Int
    BY <2>4
  <2>7. from(h) + n > from(h) /\ n \in Int
    BY <2>4
  <2> DEFINE u == g * nper
  <2>8. u \in Int
    BY <1>3
  <2> HIDE DEF u
  <2>9. last(g) <= u /\ u <= from(h)
    BY <2>4, <2>5 DEF u
  <2> QED
    BY <2>3, <2>4, <2>6, <2>7, <2>8, <2>9
<1>14. ASSUME NEW g \in 1 .. count, NEW h \in 1 .. count, g # h
       PROVE  Range(low[g].items) \cap Range(low[h].items) = {}
  <2>1. low[g].items = items(g) /\ low[h].items = items(h) /\ (g < h \/ h < g)
    BY <1>10, <1>14
  <2> QED
    BY <1>13, <2>1
<1> HIDE DEF size1
<1>15. low \in Maps
  BY <1>3, <1>10, <1>11 DEF Maps
<1> QED
  BY <1>3, <1>10, <1>11, <1>12, <1>14, <1>15 DEF low

\* The layer above a map is one bucket more, of buckets of the map.
LEMMA NextLayerIs ==
  ASSUME NEW k \in Kinds, NEW n \in 2 .. Len(k.layers), NEW m \in Maps
  PROVE  LET next == NextLayer(k, n, m)
             root == next[Len(m) + 1]
         IN  /\ next \in Maps /\ Len(next) = Len(m) + 1
             /\ \A j \in 1 .. Len(m) : next[j] = m[j]
             /\ \A item \in Range(root.items) : -item \in 1 .. Len(m)
             /\ n = 2 => root.items = [j \in 1 .. Len(m) |-> -j]
<1> DEFINE first == IF n = 2 THEN 1 ELSE Len(m)
           item(j) == first + j - 1
           count == Len(m) - first + 1
           items == [j \in 1 .. count |-> -item(j)]
           weights == [j \in 1 .. count |-> Total(m[item(j)].weights)]
           alg == k.layers[n]
           made == Bucket(alg, n, items, weights)
           next == NextLayer(k, n, m)
<1>1. next = Append(m, made)
  BY DEF NextLayer
<1>2. m \in Seq(Buckets) /\ Len(m) \in Nat \ {0} /\ \A j \in 1 .. Len(m) : Good(m[j])
  BY DEF Maps
<1>3. alg \in {"uniform", "list", "tree", "straw"} /\ n \in Nat
  <2> DEFINE Algs == {"uniform", "list", "tree", "straw"}
  <2>1. k.layers \in Seq(Algs)
    BY LayersAssumption
  <2> HIDE DEF Algs
  <2>2. n \in DOMAIN k.layers /\ k.layers[n] \in Algs
    BY <2>1
  <2>3. Len(k.layers) \in Nat
    BY <2>1
  <2> QED
    BY <2>2, <2>3 DEF Algs
<1>4. first \in 1 .. Len(m) /\ count \in Nat \ {0}
  BY <1>2
<1>5. \A j \in 1 .. count : item(j) \in 1 .. Len(m)
  BY <1>2, <1>4
<1>6. n = 2 => count = Len(m) /\ \A j \in 1 .. count : item(j) = j
  BY <1>2
<1> HIDE DEF count, first, item, next
<1>7. items \in [1 .. count -> Int]
  BY <1>2, <1>5
<1>8. weights \in [1 .. count -> Nat \ {0}]
  <2>1. ASSUME NEW j \in 1 .. count PROVE Total(m[item(j)].weights) \in Nat \ {0}
    BY <1>2, <1>5, BucketHasWeight
  <2> QED
    BY <2>1
<1>9. \A j \in 1 .. count : items[j] = -item(j)
  OBVIOUS
<1>10. n = 2 => items = [j \in 1 .. Len(m) |-> -j]
  BY <1>6
<1> HIDE DEF items, weights, alg
<1>11. Good(made)
  BY <1>3, <1>4, <1>7, <1>8, BucketIsGood
<1>12. made \in Buckets
  BY <1>3, <1>4, <1>7, <1>8, BucketIsGood
<1>13. made.items = items
  BY DEF Bucket
<1> HIDE DEF made
<1>14. /\ next \in Seq(Buckets) /\ Len(next) = Len(m) + 1
       /\ \A j \in 1 .. Len(m) : next[j] = m[j]
       /\ next[Len(m) + 1] = made
  BY <1>1, <1>2, <1>12
<1>15. next \in Maps
  <2>1. \A j \in 1 .. Len(m) + 1 : Good(next[j])
    BY <1>2, <1>11, <1>14
  <2> QED
    BY <1>2, <1>14, <2>1 DEF Maps
<1>16. ASSUME NEW y \in Range(items) PROVE -y \in 1 .. Len(m)
  <2>1. PICK j \in 1 .. count : y = items[j]
    BY <1>7 DEF Range
  <2>2. y = -item(j) /\ item(j) \in 1 .. Len(m)
    BY <1>5, <1>9, <2>1
  <2> QED
    BY <1>2, <2>2
<1> QED
  BY <1>10, <1>13, <1>14, <1>15, <1>16 DEF next

\* The map of a list of disks, layer by layer
LEMMA LayersAre ==
  ASSUME NEW k \in Kinds, NEW l \in Lists[k]
  PROVE  \E map : /\ map[1] = LowestLayer(k, l) /\ BuildCrushMap(k, l) = map[Len(k.layers)]
                  /\ \A n \in 2 .. Len(k.layers) : map[n] = NextLayer(k, n, map[n - 1])
<1> DEFINE N == Len(k.layers) - 1
           D == DOMAIN k.layers
           low == LowestLayer(k, l)
           G == [j \in 0 .. N - 1 |-> [m \in Maps |-> NextLayer(k, j + 2, m)]]
           Unroll(g) == [n \in D |-> IF n = 1 THEN low ELSE NextLayer(k, n, g[n - 1])]
<1>1. N \in Nat /\ D = 1 .. N + 1 /\ Len(k.layers) = N + 1
  <2> DEFINE Algs == {"uniform", "list", "tree", "straw"}
  <2>1. k.layers \in Seq(Algs) /\ Len(k.layers) > 0
    BY LayersAssumption
  <2> HIDE DEF Algs
  <2> QED
    BY <2>1
<1>2. low \in Maps
  BY LowestLayerIs
<1>3. BuildCrushMap(k, l) = (CHOOSE g : g = Unroll(g))[Len(k.layers)]
  BY DEF BuildCrushMap
<1> HIDE DEF low, N, D
<1>4. ASSUME NEW j \in 0 .. N - 1, NEW m \in Maps PROVE NextLayer(k, j + 2, m) \in Maps
  <2> DEFINE n == j + 2
  <2>1. n \in 2 .. Len(k.layers)
    BY <1>1
  <2> HIDE DEF n
  <2>2. NextLayer(k, n, m) \in Maps
    BY <2>1, NextLayerIs
  <2> QED
    BY <2>2 DEF n
<1>5. G \in [0 .. N - 1 -> [Maps -> Maps]]
  BY <1>4
<1>6. \A j \in 0 .. N - 1, m \in Maps : G[j][m] = NextLayer(k, j + 2, m)
  OBVIOUS
<1> HIDE DEF G
<1>7. UpSequences(N, Maps, low, G) # {}
  BY <1>1, <1>2, <1>5, UpSequence
<1>8. PICK f \in [0 .. N -> Maps] : f[0] = low /\ \A j \in 0 .. N - 1 : f[j + 1] = G[j][f[j]]
  BY <1>7 DEF UpSequences
<1> DEFINE F == [n \in D |-> f[n - 1]]
<1>9. ASSUME NEW n \in D PROVE F[n] = Unroll(F)[n]
  <2>1. CASE n = 1
    <3>1. F[n] = f[0] /\ Unroll(F)[n] = low
      BY <2>1
    <3> QED
      BY <1>8, <3>1
  <2>2. CASE n # 1
    <3> DEFINE j == n - 2
    <3>1. /\ j \in 0 .. N - 1 /\ j + 1 = n - 1 /\ (n - 1) - 1 = j /\ n - 1 \in D /\ j + 2 = n
          /\ j \in 0 .. N
      BY <1>1, <2>2
    <3>2. F[n] = f[j + 1] /\ F[n - 1] = f[j]
      BY <3>1
    <3> HIDE DEF F, j
    <3>3. f[j + 1] = NextLayer(k, n, f[j])
      BY <1>6, <1>8, <3>1
    <3>4. Unroll(F)[n] = NextLayer(k, n, F[n - 1])
      BY <2>2
    <3> QED
      BY <3>2, <3>3, <3>4
  <2> QED
    BY <2>1, <2>2
<1>10. F = Unroll(F)
  <2>1. F = [n \in D |-> F[n]] /\ Unroll(F) = [n \in D |-> Unroll(F)[n]]
    OBVIOUS
  <2> HIDE DEF F, Unroll
  <2> QED
    BY <1>9, <2>1
<1> DEFINE map == CHOOSE g : g = Unroll(g)
<1>11. map = Unroll(map)
  <2> HIDE DEF F, Unroll
  <2> QED
    BY <1>10
<1>12. BuildCrushMap(k, l) = map[Len(k.layers)]
  BY <1>3
<1> HIDE DEF map
<1>13. \A n \in D : map[n] = IF n = 1 THEN low ELSE NextLayer(k, n, map[n - 1])
  BY <1>11
<1>14. map[1] = low
  <2>1. 1 \in D
    BY <1>1
  <2> QED
    BY <1>13, <2>1
<1>15. \A n \in 2 .. Len(k.layers) : map[n] = NextLayer(k, n, map[n - 1])
  <2>1. \A n \in 2 .. Len(k.layers) : n \in D /\ n # 1
    BY <1>1
  <2> QED
    BY <1>13, <2>1
<1> QED
  BY <1>12, <1>14, <1>15 DEF low

\* What GoodMap asks for
LEMMA GoodMapIs ==
  ASSUME NEW map, NEW k, Len(map) \in Nat \ {0}, DOMAIN map = 1 .. Len(map),
         \A n \in DOMAIN map : Good(map[n]),
         IF Len(k.layers) > 1
           THEN \A item \in Range(map[Len(map)].items) : -item \in 1 .. Len(map) - 1
           ELSE Range(map[Len(map)].items) \subseteq Nat
  PROVE  GoodMap(map, k)
BY DEF GoodMap

\* The map setDisks builds: every bucket has items, and the items of the root are buckets
\* below it.  Of two layers, the lower one is of failure domains, and the root has them all.
LEMMA MapIs ==
  ASSUME NEW k \in Kinds, NEW l \in Lists[k]
  PROVE  /\ GoodMap(BuildCrushMap(k, l), k)
         /\ Len(k.layers) = 2 => DomainsApart(BuildCrushMap(k, l), l)
<1>1. PICK map : /\ map[1] = LowestLayer(k, l) /\ BuildCrushMap(k, l) = map[Len(k.layers)]
                 /\ \A n \in 2 .. Len(k.layers) : map[n] = NextLayer(k, n, map[n - 1])
  BY LayersAre
<1> DEFINE N == Len(k.layers)
           low == LowestLayer(k, l)
<1>2. N \in Nat \ {0}
  <2> DEFINE Algs == {"uniform", "list", "tree", "straw"}
  <2>1. k.layers \in Seq(Algs) /\ Len(k.layers) > 0
    BY LayersAssumption
  <2> HIDE DEF Algs
  <2> QED
    BY <2>1
<1>3. /\ low \in Maps /\ Len(low) \in Nat \ {0} /\ DOMAIN low = 1 .. Len(low)
      /\ \A g \in 1 .. Len(low) : /\ Good(low[g]) /\ low[g].type = 1
                                  /\ Range(low[g].items) \subseteq Ids(l)
      /\ \A g, h \in 1 .. Len(low) : g # h => Range(low[g].items) \cap Range(low[h].items) = {}
  BY LowestLayerIs
<1> HIDE DEF low
<1> DEFINE Layer(n) == map[n] \in Maps
           Done == {n \in Nat : n + 1 \in 1 .. N => map[n + 1] \in Maps}
<1>4. Done = Nat
  <2>1. 0 \in Done
    BY <1>1, <1>3 DEF low
  <2>2. ASSUME NEW n \in Done PROVE n + 1 \in Done
    <3> SUFFICES ASSUME (n + 1) + 1 \in 1 .. N PROVE map[(n + 1) + 1] \in Maps
      OBVIOUS
    <3> DEFINE m == (n + 1) + 1
    <3>1. m \in 2 .. Len(k.layers) /\ m - 1 = n + 1 /\ n + 1 \in 1 .. N
      BY <1>2
    <3>2. map[m - 1] \in Maps
      BY <3>1
    <3> HIDE DEF m
    <3>3. map[m] = NextLayer(k, m, map[m - 1])
      BY <1>1, <3>1
    <3>4. NextLayer(k, m, map[m - 1]) \in Maps
      BY <3>1, <3>2, NextLayerIs
    <3>5. map[m] \in Maps
      BY <3>3, <3>4
    <3> QED
      BY <3>5 DEF m
  <2>3. Done \in SUBSET Nat
    OBVIOUS
  <2> HIDE DEF Done
  <2> QED
    BY <2>1, <2>2, <2>3, InductionSet
<1>5. \A n \in 1 .. N : map[n] \in Maps
  <2>1. ASSUME NEW n \in 1 .. N PROVE map[n] \in Maps
    <3>1. n - 1 \in Nat /\ (n - 1) + 1 = n
      BY <1>2
    <3> QED
      BY <1>4, <3>1
  <2> QED
    BY <2>1
<1> DEFINE built == BuildCrushMap(k, l)
<1>6. built = map[N] /\ built \in Maps
  BY <1>1, <1>2, <1>5
<1>7. built \in Seq(Buckets) /\ Len(built) > 0 /\ \A n \in 1 .. Len(built) : Good(built[n])
  BY <1>6 DEF Maps
<1> HIDE DEF built, N, Done
<1>8. Len(built) \in Nat \ {0} /\ DOMAIN built = 1 .. Len(built)
  BY <1>7
<1>9. ASSUME N > 1
      PROVE  /\ \A item \in Range(built[Len(built)].items) : -item \in 1 .. Len(built) - 1
             /\ N = 2 => DomainsApart(built, l)
  <2> DEFINE m == map[N - 1]
  <2>1. m \in Maps /\ N \in 2 .. Len(k.layers) /\ built = NextLayer(k, N, m)
    BY <1>1, <1>2, <1>5, <1>6, <1>9 DEF N
  <2>2. N = 2 => m = low
    BY <1>1, <1>9 DEF low
  <2> HIDE DEF m
  <2>3. Len(m) \in Nat
    BY <2>1 DEF Maps
  <2> DEFINE next == NextLayer(k, N, m)
             root == next[Len(m) + 1]
  <2>4. /\ Len(next) = Len(m) + 1
        /\ \A j \in 1 .. Len(m) : next[j] = m[j]
        /\ \A item \in Range(root.items) : -item \in 1 .. Len(m)
        /\ N = 2 => root.items = [j \in 1 .. Len(m) |-> -j]
    BY <2>1, NextLayerIs
  <2> HIDE DEF next
  <2>5. built = next
    BY <2>1 DEF next
  <2>6. Len(built) - 1 = Len(m) /\ built[Len(built)] = root
    BY <2>3, <2>4, <2>5
  <2> HIDE DEF root
  <2>7. \A item \in Range(built[Len(built)].items) : -item \in 1 .. Len(built) - 1
    BY <2>4, <2>6
  <2>8. ASSUME N = 2 PROVE DomainsApart(built, l)
    <3>1. m = low /\ root.items = [j \in 1 .. Len(low) |-> -j] /\ Len(built) - 1 = Len(low)
          /\ \A j \in 1 .. Len(low) : built[j] = low[j]
      BY <2>2, <2>4, <2>5, <2>6, <2>8
    <3>2. built[Len(built)].items = [j \in 1 .. Len(low) |-> -j]
      BY <2>6, <3>1
    <3> DEFINE width == Len(built) - 1
    <3>3. width = Len(low) /\ width > 0
      BY <1>3, <3>1
    <3> HIDE DEF width
    <3>4. /\ \A g \in 1 .. width : built[g].type = 1 /\ Range(built[g].items) \subseteq Ids(l)
          /\ \A g, h \in 1 .. width :
               g # h => Range(built[g].items) \cap Range(built[h].items) = {}
      BY <1>3, <3>1, <3>3
    <3>5. built[Len(built)].items = [j \in 1 .. width |-> -j]
      BY <3>2, <3>3
    <3> QED
      BY <3>3, <3>4, <3>5 DEF DomainsApart, width, DomainType
  <2> QED
    BY <2>7, <2>8
<1>10. ASSUME ~(N > 1) PROVE Range(built[Len(built)].items) \subseteq Nat
  <2>1. built = low
    BY <1>1, <1>2, <1>6, <1>10 DEF low, N
  <2>2. Range(built[Len(built)].items) \subseteq Ids(l)
    BY <1>3, <2>1
  <2>3. \A n \in DOMAIN l : l[n].id \in Nat
    BY LayersAssumption DEF AllLists
  <2> QED
    BY <2>2, <2>3 DEF Ids
<1>11. GoodMap(built, k)
  <2>1. N > 1 => \A item \in Range(built[Len(built)].items) : -item \in 1 .. Len(built) - 1
    BY <1>9
  <2>2. \A n \in DOMAIN built : Good(built[n])
    BY <1>7, <1>8
  <2>3. IF Len(k.layers) > 1
          THEN \A item \in Range(built[Len(built)].items) : -item \in 1 .. Len(built) - 1
          ELSE Range(built[Len(built)].items) \subseteq Nat
    BY <1>10, <2>1 DEF N
  <2> QED
    BY <1>8, <2>2, <2>3, GoodMapIs
<1>12. Len(k.layers) = 2 => DomainsApart(built, l)
  BY <1>9 DEF N
<1> QED
  BY <1>11, <1>12 DEF built

--------------------------------------------------------------------------------
(* The steps of a placeExtent.                                             *)

\* What the map of the last setDisks is like
LEMMA FactsHold ==
  ASSUME MapIsBuilt, status # "new"
  PROVE  GoodMap(Map, kind) /\ (TwoLayers => DomainsApart(Map, disks))
<1>1. kind \in Kinds /\ disks \in Lists[kind] /\ Map = BuildCrushMap(kind, disks)
  BY DEF MapIsBuilt
<1>2. GoodMap(BuildCrushMap(kind, disks), kind)
  BY <1>1, MapIs
<1>3. Len(kind.layers) = 2 => DomainsApart(BuildCrushMap(kind, disks), disks)
  BY <1>1, MapIs
<1> QED
  BY <1>1, <1>2, <1>3 DEF TwoLayers

\* A copy is begun with the result of the last.
LEMMA NextRepIs ==
  ASSUME DOMAIN local = Fields, NEW out, NEW leaves
  PROVE  LET next == NextRep(out, leaves)
         IN  /\ DOMAIN next = Fields /\ next.order = local.order /\ next.isout = local.isout
             /\ next.mode = "choose" /\ next.rep = local.rep + 1
             /\ next.out = out /\ next.leaves = leaves /\ next.tries = NoTries
             /\ next.item = None /\ next.leaftries = NoTries /\ next.leaf = None
BY DEF NextRep, Fields

\* The counts after a failed try
LEMMA AgainIs ==
  ASSUME NEW b, NEW c, NEW tries \in Counts
  PROVE  Again(b, c, tries) = None \/ Again(b, c, tries) \in Counts
BY DEF Again, Counts

\* A failed try of a bucket that is asked again gets counts: None is none.
LEMMA NoTriesAre == NoTries \in Counts
BY DEF NoTries, Counts

\* The buckets of the map, for a call under way
LEMMA CallFacts ==
  ASSUME MapIsBuilt, status = "placing", CallIsGood
  PROVE  /\ ~BuildFails(Map) /\ Root \in DOMAIN Map /\ Items(Root) \subseteq Int
         /\ DOMAIN Map = 1 .. Root /\ Root \in Nat \ {0}
         /\ \A n \in DOMAIN Map : /\ Good(Map[n]) /\ local.order[n] \in Orders(Map[n])
                                  /\ Items(n) \subseteq Int
         /\ \A item \in Items(Root) : item < 0 => -item \in DOMAIN Map
         /\ Len(kind.layers) # 1 => \A item \in Items(Root) : item < 0
         /\ TwoLayers => \A item \in Items(Root) : TypeOf(item) = DomainType
<1>1. GoodMap(Map, kind) /\ (TwoLayers => DomainsApart(Map, disks))
  BY FactsHold
<1>2. ~BuildFails(Map) /\ kind \in Kinds
  BY DEF MapIsBuilt
<1>3. Root \in Nat \ {0} /\ DOMAIN Map = 1 .. Root /\ \A n \in DOMAIN Map : Good(Map[n])
  BY <1>1 DEF GoodMap, Root
<1>4. \A n \in DOMAIN Map : local.order[n] \in Orders(Map[n])
  BY DEF CallIsGood, LocalIsGood
<1>5. ASSUME NEW n \in DOMAIN Map PROVE Items(n) \subseteq Int
  <2>1. Map[n].items \in Seq(Int)
    BY <1>3 DEF Good
  <2> DEFINE l == Map[n].items
  <2> HIDE DEF l
  <2>2. Range(l) \subseteq Int
    BY <2>1 DEF Range, l
  <2> QED
    BY <2>2 DEF Items, l
<1>6. Root \in DOMAIN Map
  BY <1>3
<1>7. IF Len(kind.layers) > 1 THEN \A item \in Items(Root) : -item \in 1 .. Root - 1
                              ELSE Items(Root) \subseteq Nat
  BY <1>1 DEF GoodMap, Items, Root
<1>8. Len(kind.layers) \in Nat \ {0}
  <2> DEFINE Algs == {"uniform", "list", "tree", "straw"}
  <2>1. kind.layers \in Seq(Algs) /\ Len(kind.layers) > 0
    BY <1>2, LayersAssumption
  <2> HIDE DEF Algs
  <2> QED
    BY <2>1
<1>9. ASSUME NEW item \in Items(Root)
      PROVE  /\ item < 0 => -item \in DOMAIN Map
             /\ Len(kind.layers) # 1 => item < 0
  <2>1. item \in Int
    BY <1>5, <1>6
  <2>2. CASE Len(kind.layers) > 1
    <3>1. -item \in 1 .. Root - 1
      BY <1>7, <2>2
    <3> QED
      BY <1>3, <2>1, <3>1
  <2>3. CASE ~(Len(kind.layers) > 1)
    <3> DEFINE len == Len(kind.layers)
    <3>1. len \in Nat \ {0} /\ ~(len > 1) /\ Items(Root) \subseteq Nat
      BY <1>7, <1>8, <2>3
    <3> HIDE DEF len
    <3>2. len = 1
      BY <3>1
    <3>3. item \in Nat /\ Len(kind.layers) = 1
      BY <3>1, <3>2 DEF len
    <3> QED
      BY <3>3
  <2> QED
    BY <2>2, <2>3
<1>10. ASSUME TwoLayers, NEW item \in Items(Root) PROVE TypeOf(item) = DomainType
  <2>1. Len(kind.layers) > 1 /\ Len(kind.layers) # 1
    BY <1>10 DEF TwoLayers
  <2>2. item < 0 /\ -item \in 1 .. Root - 1
    BY <1>7, <1>9, <2>1
  <2>3. Map[-item].type = DomainType
    BY <1>1, <1>10, <2>2 DEF DomainsApart, Root
  <2> QED
    BY <2>2, <2>3 DEF TypeOf
<1> QED
  BY <1>2, <1>3, <1>4, <1>5, <1>6, <1>9, <1>10

\* The locals of the next step are judged by the map the call was begun with.
LEMMA SameCall ==
  ASSUME UNCHANGED <<kind, disks, copies, table>>
  PROVE  /\ Map' = Map /\ TwoLayers' = TwoLayers
         /\ CallIsGood' <=> LocalIsGood(local')
<1>1. Map' = Map /\ Root' = Root /\ TwoLayers' = TwoLayers
  BY DEF Map, Root, TwoLayers
<1>2. \A n : Items(n)' = Items(n)
  BY <1>1 DEF Items
<1>3. \A n : TypeOf(n)' = TypeOf(n)
  BY <1>1 DEF TypeOf
<1>4. CallIsGood' <=> LocalIsGood(local')
  BY <1>1, <1>2, <1>3 DEF CallIsGood, LocalIsGood, OutIsGood
<1> QED
  BY <1>1, <1>4

\* A step within the call keeps the invariant if its locals are good.
LEMMA Advanced ==
  ASSUME RuleInv, NEW next, Advance(next), status = "placing", LocalIsGood(next)
  PROVE  RuleInv'
<1>1. /\ UNCHANGED <<kind, disks, copies, table>> /\ local' = next
      /\ status' = "placing"
  BY DEF Advance
<1>2. CallIsGood' /\ Map' = Map
  BY <1>1, SameCall
<1>3. MapIsBuilt'
  <2>1. MapIsBuilt
    BY DEF RuleInv
  <2> QED
    BY <1>1, <1>2, <2>1 DEF MapIsBuilt
<1>4. CopiesInDistinctDomains'
  BY <1>1 DEF CopiesInDistinctDomains
<1> QED
  BY <1>2, <1>3, <1>4 DEF RuleInv

\* An assertion fails only with one layer.
LEMMA Crashed ==
  ASSUME RuleInv, status = "placing", Crash, Len(kind.layers) = 1
  PROVE  RuleInv'
<1>1. UNCHANGED <<kind, disks, copies, table>> /\ status' = "crashed"
  BY DEF Crash
<1>2. Map' = Map
  BY <1>1 DEF Map
<1>3. MapIsBuilt'
  <2>1. MapIsBuilt
    BY DEF RuleInv
  <2> QED
    BY <1>1, <1>2, <2>1 DEF MapIsBuilt
<1>4. CopiesInDistinctDomains'
  BY <1>1 DEF CopiesInDistinctDomains
<1> QED
  BY <1>1, <1>3, <1>4 DEF RuleInv

\* One more different element
LEMMA OneMoreDifferent ==
  ASSUME NEW w \in Seq(Int), NEW y \in Int, IsInjective(w), y \notin Range(w)
  PROVE  IsInjective(Append(w, y))
<1> DEFINE len == Len(w)
<1>1. len \in Nat /\ DOMAIN w = 1 .. len /\ DOMAIN Append(w, y) = 1 .. len + 1
  OBVIOUS
<1>2. Append(w, y)[len + 1] = y /\ \A n \in 1 .. len : Append(w, y)[n] = w[n]
  OBVIOUS
<1> HIDE DEF len
<1> DEFINE t == Append(w, y)
<1> HIDE DEF t
<1>3. ASSUME NEW m \in 1 .. len + 1, NEW n \in 1 .. len + 1, t[m] = t[n] PROVE m = n
  <2>1. m \in 1 .. len \/ m = len + 1
    BY <1>1
  <2>2. n \in 1 .. len \/ n = len + 1
    BY <1>1
  <2>3. \A j \in 1 .. len : t[j] = w[j] /\ t[j] # y
    BY <1>1, <1>2 DEF Range, t
  <2>4. t[len + 1] = y
    BY <1>2 DEF t
  <2>5. \A at, j \in 1 .. len : w[at] = w[j] => at = j
    BY <1>1 DEF IsInjective
  <2> QED
    BY <1>3, <2>1, <2>2, <2>3, <2>4, <2>5
<1>4. DOMAIN t = 1 .. len + 1
  BY <1>1 DEF t
<1>5. IsInjective(t)
  BY <1>3, <1>4 DEF IsInjective
<1> QED
  BY <1>5 DEF t

\* The choice among the items of the root
LEMMA ChooseItemKeeps ==
  ASSUME RuleInv, NEW k \in Kinds, ChooseItem(k)
  PROVE  RuleInv'
<1>1. /\ MapIsBuilt /\ status = "placing" /\ CallIsGood
      /\ local.mode = "choose" /\ local.rep < copies
  BY DEF RuleInv, ChooseItem, Choosing, Placing
<1>2. LocalIsGood(local)
  BY <1>1 DEF CallIsGood
<1>3. /\ ~BuildFails(Map) /\ Root \in DOMAIN Map /\ Items(Root) \subseteq Int
      /\ Good(Map[Root]) /\ local.order[Root] \in Orders(Map[Root])
      /\ Len(kind.layers) # 1 => \A item \in Items(Root) : item < 0
      /\ TwoLayers => \A item \in Items(Root) : TypeOf(item) = DomainType
  BY <1>1, CallFacts
<1> DEFINE r == local.rep + local.tries.total
<1>4. r \in Int
  BY <1>2 DEF LocalIsGood, Counts, RuleInv, MapIsBuilt
<1>5. Picks(Root, r, local.tries) \subseteq Items(Root)
  <2> HIDE DEF r
  <2> QED
    BY <1>3, <1>4, PicksAre
<1>6. PICK item \in Picks(Root, r, local.tries) :
        \/ /\ item = None
           /\ Crash
        \/ /\ item # None /\ TypeOf(item) = DomainType
           /\ Advance([local EXCEPT !.mode = "leaf", !.item = item])
        \/ /\ item # None /\ TypeOf(item) # DomainType /\ item >= 0
           /\ Crash
        \/ /\ item # None /\ TypeOf(item) # DomainType /\ item < 0
           /\ Advance(NextRep(Append(local.out, item), Append(local.leaves, None)))
  BY DEF ChooseItem
<1>7. item \in Items(Root) /\ item \in Int /\ item # None
  BY <1>3, <1>5, <1>6, LayersAssumption
<1>8. CASE TypeOf(item) = DomainType /\ Advance([local EXCEPT !.mode = "leaf", !.item = item])
  <2> DEFINE next == [local EXCEPT !.mode = "leaf", !.item = item]
  <2>1. /\ DOMAIN next = Fields /\ next.order = local.order
        /\ next.mode = "leaf" /\ next.rep = local.rep /\ next.out = local.out
        /\ next.leaves = local.leaves /\ next.tries = local.tries
        /\ next.item = item /\ next.leaftries = local.leaftries
    BY <1>2 DEF LocalIsGood, Fields
  <2>2. Advance(next)
    BY <1>8
  <2> HIDE DEF next
  <2>3. OutIsGood(next)
    BY <1>2, <2>1 DEF LocalIsGood, OutIsGood
  <2>4. item < 0
    BY <1>7, <1>8 DEF TypeOf, DomainType
  <2>5. LocalIsGood(next)
    BY <1>1, <1>2, <1>7, <1>8, <2>1, <2>3, <2>4 DEF LocalIsGood
  <2> QED
    BY <1>1, <2>2, <2>5, Advanced
<1>9. CASE item >= 0 /\ Crash
  <2>1. Len(kind.layers) = 1
    BY <1>3, <1>7, <1>9
  <2> QED
    BY <1>1, <1>9, <2>1, Crashed
<1>10. CASE /\ TypeOf(item) # DomainType
            /\ Advance(NextRep(Append(local.out, item), Append(local.leaves, None)))
  <2> DEFINE out == Append(local.out, item)
             leaves == Append(local.leaves, None)
             next == NextRep(out, leaves)
  <2>1. /\ local.out \in Seq(Int) /\ local.leaves \in Seq(Int \cup {None})
        /\ local.rep \in 0 .. copies
        /\ Len(local.out) = Len(local.leaves) /\ Len(local.out) <= local.rep /\ copies \in Nat
    BY <1>1, <1>2 DEF LocalIsGood, OutIsGood, MapIsBuilt
  <2>2. /\ out \in Seq(Int) /\ leaves \in Seq(Int \cup {None}) /\ Len(out) = Len(leaves)
        /\ Len(out) <= local.rep + 1
    BY <1>7, <2>1
  <2> HIDE DEF out, leaves
  <2>3. DOMAIN local = Fields
    BY <1>2 DEF LocalIsGood
  <2>4. /\ DOMAIN next = Fields /\ next.order = local.order
        /\ next.mode = "choose" /\ next.rep = local.rep + 1 /\ next.out = out
        /\ next.leaves = leaves /\ next.tries = NoTries /\ next.leaftries = NoTries
    BY <2>3, NextRepIs
  <2>5. Advance(next)
    BY <1>10 DEF out, leaves
  <2> HIDE DEF next
  <2>6. OutIsGood(next)
    BY <1>3, <1>7, <1>10, <2>2, <2>4 DEF OutIsGood
  <2>7. local.rep + 1 \in 0 .. copies
    BY <1>1, <2>1
  <2>8. LocalIsGood(next)
    BY <1>2, <2>4, <2>6, <2>7, NoTriesAre DEF LocalIsGood
  <2> QED
    BY <1>1, <2>5, <2>8, Advanced
<1> QED
  BY <1>6, <1>7, <1>8, <1>9, <1>10

\* The recursive call for a disk under the item
LEMMA ChooseLeafKeeps ==
  ASSUME RuleInv, NEW k \in Kinds, ChooseLeaf(k)
  PROVE  RuleInv'
<1>1. MapIsBuilt /\ status = "placing" /\ CallIsGood /\ local.mode = "leaf"
  BY DEF RuleInv, ChooseLeaf, Choosing, Placing
<1>2. LocalIsGood(local)
  BY <1>1 DEF CallIsGood
<1> DEFINE n == -local.item
           b == Map[n]
           r == Len(local.out) + local.leaftries.total
<1>3. local.item \in Items(Root) /\ local.item < 0
  BY <1>1, <1>2 DEF LocalIsGood
<1>4. /\ n \in DOMAIN Map /\ Good(Map[n]) /\ local.order[n] \in Orders(Map[n])
      /\ Items(n) \subseteq Int /\ ~BuildFails(Map)
  BY <1>1, <1>3, CallFacts
<1>5. r \in Int
  <2>1. local.out \in Seq(Int) /\ local.leaftries \in Counts
    BY <1>2 DEF LocalIsGood, OutIsGood
  <2>2. Len(local.out) \in Int /\ local.leaftries.total \in Int
    BY <2>1 DEF Counts
  <2> QED
    BY <2>2
<1> HIDE DEF r, n
<1>6. Picks(n, r, local.leaftries) \subseteq Items(n)
  BY <1>4, <1>5, PicksAre
<1>7. PICK leaf \in Picks(n, r, local.leaftries) :
        LET collide == leaf \in Range(local.leaves)
            again == Again(b, collide, local.leaftries)
        IN  \/ /\ leaf = None
               /\ Crash
            \/ /\ leaf # None /\ ~collide /\ leaf \notin local.isout
               /\ Advance([local EXCEPT !.mode = "judge", !.leaf = leaf])
            \/ /\ leaf # None /\ (collide \/ leaf \in local.isout)
               /\ Advance(IF again = None
                            THEN [local EXCEPT !.mode = "judge", !.leaf = None]
                            ELSE [local EXCEPT !.leaftries = again])
  BY DEF ChooseLeaf, n, r
<1>8. leaf \in Items(n) /\ leaf # None
  BY <1>4, <1>6, <1>7, LayersAssumption
<1> DEFINE again == Again(b, leaf \in Range(local.leaves), local.leaftries)
<1>9. again = None \/ again \in Counts
  <2> HIDE DEF b
  <2> QED
    BY <1>2, AgainIs DEF LocalIsGood
<1> HIDE DEF again
<1>10. ASSUME NEW y, y = None \/ y \in Items(n),
              Advance([local EXCEPT !.mode = "judge", !.leaf = y])
       PROVE  RuleInv'
  <2> DEFINE next == [local EXCEPT !.mode = "judge", !.leaf = y]
  <2>1. /\ DOMAIN next = Fields /\ next.order = local.order
        /\ next.mode = "judge" /\ next.rep = local.rep /\ next.out = local.out
        /\ next.leaves = local.leaves /\ next.tries = local.tries
        /\ next.item = local.item /\ next.leaftries = local.leaftries /\ next.leaf = y
    BY <1>2 DEF LocalIsGood, Fields
  <2>2. Advance(next)
    BY <1>10
  <2> HIDE DEF next
  <2>3. OutIsGood(next)
    BY <1>2, <2>1 DEF LocalIsGood, OutIsGood
  <2>4. LocalIsGood(next)
    BY <1>1, <1>2, <1>10, <2>1, <2>3 DEF LocalIsGood, n
  <2> QED
    BY <1>1, <2>2, <2>4, Advanced
<1>11. ASSUME again \in Counts, Advance([local EXCEPT !.leaftries = again])
       PROVE  RuleInv'
  <2> DEFINE next == [local EXCEPT !.leaftries = again]
  <2>1. /\ DOMAIN next = Fields /\ next.order = local.order
        /\ next.mode = local.mode /\ next.rep = local.rep /\ next.out = local.out
        /\ next.leaves = local.leaves /\ next.tries = local.tries
        /\ next.item = local.item /\ next.leaftries = again /\ next.leaf = local.leaf
    BY <1>2 DEF LocalIsGood, Fields
  <2>2. Advance(next)
    BY <1>11
  <2> HIDE DEF next
  <2>3. OutIsGood(next)
    BY <1>2, <2>1 DEF LocalIsGood, OutIsGood
  <2>4. LocalIsGood(next)
    BY <1>1, <1>2, <1>11, <2>1, <2>3 DEF LocalIsGood
  <2> QED
    BY <1>1, <2>2, <2>4, Advanced
<1>12. \/ Advance([local EXCEPT !.mode = "judge", !.leaf = leaf])
       \/ Advance([local EXCEPT !.mode = "judge", !.leaf = None])
       \/ again # None /\ Advance([local EXCEPT !.leaftries = again])
  BY <1>7, <1>8 DEF again
<1> HIDE DEF b
<1> QED
  BY <1>8, <1>9, <1>10, <1>11, <1>12

\* An item is taken with the disk under it, or the copy is tried again or given up.
LEMMA JudgeItemKeeps ==
  ASSUME RuleInv, NEW k \in Kinds, JudgeItem(k)
  PROVE  RuleInv'
<1>1. MapIsBuilt /\ status = "placing" /\ CallIsGood /\ local.mode = "judge"
  BY DEF RuleInv, JudgeItem, Choosing, Placing
<1>2. LocalIsGood(local)
  BY <1>1 DEF CallIsGood
<1>3. Items(Root) \subseteq Int
  BY <1>1, CallFacts
<1>4. /\ local.item \in Items(Root) /\ local.item < 0 /\ local.rep \in 0 .. copies
      /\ local.rep < copies /\ DOMAIN local = Fields
      /\ local.leaf = None \/ local.leaf \in Items(-local.item)
  BY <1>1, <1>2 DEF LocalIsGood
<1>5. /\ local.out \in Seq(Int) /\ local.leaves \in Seq(Int \cup {None}) /\ copies \in Nat
      /\ Len(local.out) = Len(local.leaves) /\ Len(local.out) <= local.rep
      /\ TwoLayers =>
           /\ \A n \in 1 .. Len(local.out) : /\ local.out[n] \in Items(Root)
                                             /\ local.leaves[n] \in Items(-local.out[n])
           /\ IsInjective(local.out)
  BY <1>1, <1>2 DEF LocalIsGood, OutIsGood, MapIsBuilt
<1>6. local.rep + 1 \in 0 .. copies /\ Len(local.out) <= local.rep + 1
  BY <1>4, <1>5
<1> DEFINE collide == Collides(local.item, local.out)
           again == Again(Map[Root], collide, local.tries)
           next == IF ~collide /\ local.leaf # None
                     THEN NextRep(Append(local.out, local.item), Append(local.leaves, local.leaf))
                   ELSE IF again = None THEN NextRep(local.out, local.leaves)
                   ELSE [local EXCEPT !.mode = "choose", !.tries = again, !.item = None,
                                      !.leaftries = NoTries, !.leaf = None]
<1>7. Advance(next)
  BY DEF JudgeItem
<1>8. again = None \/ again \in Counts
  BY <1>2, AgainIs DEF LocalIsGood
<1>9. collide <=> local.item \in Range(local.out)
  BY DEF Collides
<1> HIDE DEF again, collide
<1>10. ASSUME NEW out, NEW leaves, OutIsGood(NextRep(out, leaves))
       PROVE  LocalIsGood(NextRep(out, leaves))
  <2> DEFINE to == NextRep(out, leaves)
  <2>1. /\ DOMAIN to = Fields /\ to.order = local.order
        /\ to.mode = "choose" /\ to.rep = local.rep + 1
        /\ to.tries = NoTries /\ to.leaftries = NoTries
    BY <1>4, NextRepIs
  <2>2. OutIsGood(to)
    BY <1>10
  <2> HIDE DEF to
  <2>3. LocalIsGood(to)
    BY <1>2, <1>6, <2>1, <2>2, NoTriesAre DEF LocalIsGood
  <2> QED
    BY <2>3 DEF to
<1>11. CASE ~collide /\ local.leaf # None
  <2> DEFINE out == Append(local.out, local.item)
             leaves == Append(local.leaves, local.leaf)
             to == NextRep(out, leaves)
             len == Len(local.out)
  <2>1. next = to
    BY <1>11
  <2>2. local.item \in Int /\ local.leaf \in Int \cup {None}
    <3>1. local.leaf = None \/ local.leaf \in Int
      <4>1. \A item \in Items(Root) : item < 0 => -item \in DOMAIN Map
        BY <1>1, CallFacts
      <4>2. \A n \in DOMAIN Map : Items(n) \subseteq Int
        BY <1>1, CallFacts
      <4> QED
        BY <1>4, <4>1, <4>2
    <3> QED
      BY <1>3, <1>4, <3>1
  <2>3. /\ out \in Seq(Int) /\ leaves \in Seq(Int \cup {None}) /\ len \in Nat
        /\ Len(out) = len + 1 /\ Len(leaves) = len + 1
        /\ out[len + 1] = local.item /\ leaves[len + 1] = local.leaf
        /\ \A n \in 1 .. len : out[n] = local.out[n] /\ leaves[n] = local.leaves[n]
    BY <1>5, <2>2
  <2>4. TwoLayers => IsInjective(out)
    BY <1>5, <1>9, <1>11, <2>2, OneMoreDifferent
  <2> HIDE DEF out, leaves
  <2>5. to.rep = local.rep + 1 /\ to.out = out /\ to.leaves = leaves
    BY <1>4, NextRepIs
  <2> HIDE DEF to, next
  <2>6. TwoLayers =>
          \A n \in 1 .. len + 1 : out[n] \in Items(Root) /\ leaves[n] \in Items(-out[n])
    <3> SUFFICES ASSUME TwoLayers, NEW n \in 1 .. len + 1
                 PROVE  out[n] \in Items(Root) /\ leaves[n] \in Items(-out[n])
      OBVIOUS
    <3>1. CASE n = len + 1
      BY <1>4, <1>11, <2>3, <3>1
    <3>2. CASE n # len + 1
      <4>1. n \in 1 .. len
        BY <2>3, <3>2
      <4> QED
        BY <1>5, <2>3, <4>1
    <3> QED
      BY <3>1, <3>2
  <2>7. len <= local.rep /\ len + 1 <= local.rep + 1
    <3>1. len \in Int /\ local.rep \in Int /\ len <= local.rep
      BY <1>4, <1>5, <2>3
    <3> HIDE DEF len
    <3> QED
      BY <3>1
  <2> HIDE DEF len
  <2>8. OutIsGood(to)
    BY <2>3, <2>4, <2>5, <2>6, <2>7 DEF OutIsGood
  <2>9. LocalIsGood(to)
    BY <1>10, <2>8 DEF to
  <2> QED
    BY <1>1, <1>7, <2>1, <2>9, Advanced
<1>12. CASE (collide \/ local.leaf = None) /\ again = None
  <2> DEFINE to == NextRep(local.out, local.leaves)
  <2>1. next = to
    BY <1>12
  <2>2. to.rep = local.rep + 1 /\ to.out = local.out /\ to.leaves = local.leaves
    BY <1>4, NextRepIs
  <2> HIDE DEF to, next
  <2>3. OutIsGood(to)
    BY <1>5, <1>6, <2>2 DEF OutIsGood
  <2>4. LocalIsGood(to)
    BY <1>10, <2>3 DEF to
  <2> QED
    BY <1>1, <1>7, <2>1, <2>4, Advanced
<1>13. CASE (collide \/ local.leaf = None) /\ again # None
  <2> DEFINE to == [local EXCEPT !.mode = "choose", !.tries = again, !.item = None,
                                 !.leaftries = NoTries, !.leaf = None]
  <2>1. next = to
    BY <1>13
  <2>2. /\ DOMAIN to = Fields /\ to.order = local.order
        /\ to.mode = "choose" /\ to.rep = local.rep /\ to.out = local.out
        /\ to.leaves = local.leaves /\ to.tries = again /\ to.leaftries = NoTries
    BY <1>4 DEF Fields
  <2> HIDE DEF to, next
  <2>3. OutIsGood(to)
    BY <1>5, <2>2 DEF OutIsGood
  <2>4. LocalIsGood(to)
    BY <1>2, <1>4, <1>8, <1>13, <2>2, <2>3, NoTriesAre DEF LocalIsGood
  <2> QED
    BY <1>1, <1>7, <2>1, <2>4, Advanced
<1> HIDE DEF next
<1> QED
  BY <1>11, <1>12, <1>13

\* The disks of a call that ends are in different domains.
LEMMA CrushReturnKeeps ==
  ASSUME RuleInv, NEW k \in Kinds, CrushReturn(k)
  PROVE  RuleInv'
<1>1. MapIsBuilt /\ status = "placing" /\ CallIsGood
  BY DEF RuleInv, CrushReturn, Chosen, Choosing, Placing
<1>2. /\ UNCHANGED <<kind, disks, copies, table>> /\ status' = "ready"
      /\ result' = local.leaves
  BY DEF CrushReturn
<1>3. LocalIsGood(local)
  BY <1>1 DEF CallIsGood
<1>4. Map' = Map /\ TwoLayers' = TwoLayers
  BY <1>2, SameCall
<1>5. MapIsBuilt'
  BY <1>1, <1>2, <1>4 DEF MapIsBuilt
<1>6. ASSUME TwoLayers
      PROVE  /\ Range(result') \subseteq Ids(disks)
             /\ \A n, m \in DOMAIN result', d \in DOMAIN Map :
                  n # m => ~({result'[n], result'[m]} \subseteq Range(Map[d].items))
  <2> DEFINE out == local.out
             leaves == local.leaves
             len == Len(out)
             width == Len(Map) - 1
  <2>1. /\ out \in Seq(Int) /\ leaves \in Seq(Int \cup {None}) /\ len = Len(leaves)
        /\ \A n \in 1 .. len : out[n] \in Items(Root) /\ leaves[n] \in Items(-out[n])
        /\ IsInjective(out)
    BY <1>3, <1>6 DEF LocalIsGood, OutIsGood
  <2>2. DomainsApart(Map, disks) /\ disks \in Lists[kind] /\ kind \in Kinds
    <3>1. status # "new"
      BY <1>1
    <3> QED
      BY <1>1, <1>6, <3>1, FactsHold DEF MapIsBuilt
  <2>3. /\ width > 0 /\ Map[Len(Map)].items = [m \in 1 .. width |-> -m]
        /\ \A g \in 1 .. width : Items(g) \subseteq Ids(disks)
        /\ \A g, h \in 1 .. width : g # h => Items(g) \cap Items(h) = {}
    BY <2>2 DEF DomainsApart, Items
  <2>4. Len(Map) \in Nat /\ DOMAIN Map = 1 .. Len(Map)
    BY <1>1, CallFacts DEF Root
  <2>5. \A item \in Items(Root) : -item \in 1 .. width /\ item \in Int
    <3>1. Items(Root) = Range([m \in 1 .. width |-> -m])
      BY <2>3 DEF Items, Root
    <3>2. width \in Int
      BY <2>4
    <3> HIDE DEF width
    <3>3. \A item \in Range([m \in 1 .. width |-> -m]) : \E m \in 1 .. width : item = -m
      BY DEF Range
    <3> QED
      BY <3>1, <3>2, <3>3
  <2>6. Ids(disks) \subseteq Nat
    <3>1. \A n \in DOMAIN disks : disks[n].id \in Nat
      BY <2>2, LayersAssumption DEF AllLists
    <3> QED
      BY <3>1 DEF Ids
  <2>7. DOMAIN leaves = 1 .. len /\ DOMAIN out = 1 .. len
    BY <2>1
  <2>8. Len(Map) = width + 1 /\ width \in Int
    BY <2>4
  <2> HIDE DEF out, leaves, len, width
  <2>9. ASSUME NEW n \in 1 .. len
        PROVE  -out[n] \in 1 .. width /\ out[n] \in Int /\ leaves[n] \in Items(-out[n])
    BY <2>1, <2>5
  <2>10. ASSUME NEW n \in 1 .. len, NEW m \in 1 .. len, n # m, NEW d \in DOMAIN Map,
                {leaves[n], leaves[m]} \subseteq Items(d)
         PROVE  FALSE
    <3>1. d \in 1 .. width
      <4>1. leaves[n] \in Nat
        BY <2>3, <2>6, <2>9
      <4>2. leaves[n] \notin Items(Root)
        <5>1. ASSUME leaves[n] \in Items(Root) PROVE FALSE
          <6>1. -leaves[n] \in 1 .. width
            BY <2>5, <5>1
          <6> QED
            BY <4>1, <6>1
        <5> QED
          BY <5>1
      <4>3. d # Root
        BY <2>10, <4>2
      <4> QED
        BY <2>4, <2>8, <4>3 DEF Root
    <3>2. -out[n] = d
      BY <2>3, <2>9, <2>10, <3>1
    <3>3. -out[m] = d
      BY <2>3, <2>9, <2>10, <3>1
    <3>4. out[n] = out[m]
      BY <2>9, <3>2, <3>3
    <3>5. n = m
      BY <2>1, <2>7, <3>4 DEF IsInjective
    <3> QED
      BY <2>10, <3>5
  <2>11. Range(leaves) \subseteq Ids(disks)
    <3>1. \A n \in 1 .. len : leaves[n] \in Ids(disks)
      BY <2>3, <2>9
    <3> QED
      BY <2>7, <3>1 DEF Range
  <2>12. result' = leaves
    BY <1>2 DEF leaves
  <2>13. ASSUME NEW n \in DOMAIN leaves, NEW m \in DOMAIN leaves, NEW d \in DOMAIN Map, n # m
         PROVE  ~({leaves[n], leaves[m]} \subseteq Range(Map[d].items))
    BY <2>7, <2>10, <2>13 DEF Items
  <2> QED
    BY <2>11, <2>12, <2>13
<1>7. CopiesInDistinctDomains'
  BY <1>2, <1>4, <1>6 DEF CopiesInDistinctDomains
<1> QED
  BY <1>2, <1>5, <1>7 DEF RuleInv

\* The list of disks becomes a map; a tree that gets no nodes ends the program.
LEMMA CrushSetDisksKeeps ==
  ASSUME RuleInv, NEW k \in Kinds, CrushSetDisks(k)
  PROVE  RuleInv'
<1>1. PICK l \in Lists[k], c \in 1 .. MaxCopies :
        LET map == BuildCrushMap(k, l)
            before == IF table = None THEN <<>> ELSE table.weights
        IN  /\ Len(before) <= MaxWeights
            /\ Configure(k, l, c, None)
            /\ table' = [buckets |-> map,
                         weights |-> before \o [n \in DOMAIN l |-> l[n].capacity]]
            /\ status' = IF BuildFails(map) THEN "crashed" ELSE "ready"
  BY DEF CrushSetDisks
<1>2. /\ kind = k /\ kind' = kind /\ disks' = l /\ copies' = c /\ result' = <<>>
  BY <1>1 DEF Configure
<1>3. Map' = BuildCrushMap(k, l)
  BY <1>1 DEF Map
<1>4. copies' \in Nat
  BY <1>2, BoundsAssumption
<1> DEFINE fails == BuildFails(BuildCrushMap(k, l))
<1>5. status' = IF fails THEN "crashed" ELSE "ready"
  BY <1>1
<1>6. BuildFails(Map)' <=> fails
  BY <1>3 DEF BuildFails
<1> HIDE DEF fails
<1>7. \/ status' = "crashed" /\ BuildFails(Map)'
      \/ status' = "ready" /\ ~(BuildFails(Map)')
  <2>1. CASE fails
    BY <1>5, <1>6, <2>1
  <2>2. CASE ~fails
    BY <1>5, <1>6, <2>2
  <2> QED
    BY <2>1, <2>2
<1>8. MapIsBuilt'
  BY <1>2, <1>3, <1>4, <1>7 DEF MapIsBuilt
<1>9. CASE status' = "crashed"
  <2>1. (\E n \in DOMAIN Map : NumNodes(Len(Map[n].items)) = 0)'
    BY <1>7, <1>9 DEF BuildFails
  <2>2. CopiesInDistinctDomains'
    BY <1>9, <2>1 DEF CopiesInDistinctDomains
  <2> QED
    BY <1>8, <1>9, <2>2 DEF RuleInv
<1>10. CASE status' = "ready"
  <2>1. Range(result') \subseteq Ids(disks')
    BY <1>2 DEF Range
  <2>2. DOMAIN result' = {}
    BY <1>2
  <2>3. CopiesInDistinctDomains'
    BY <1>10, <2>1, <2>2 DEF CopiesInDistinctDomains
  <2> QED
    BY <1>8, <1>10, <2>3 DEF RuleInv
<1> QED
  BY <1>7, <1>9, <1>10

\* A call begins without copies.
LEMMA CrushCallKeeps ==
  ASSUME RuleInv, NEW k \in Kinds, CrushCall(k)
  PROVE  RuleInv'
<1>1. PICK order \in {o \in [DOMAIN Map -> UNION {Orders(Map[n]) : n \in DOMAIN Map}] :
                        \A n \in DOMAIN Map : o[n] \in Orders(Map[n])},
           isout \in {IsOut \cup w : w \in SUBSET MayBeOut} :
        Call(k, [order |-> order, isout |-> isout, mode |-> "choose", rep |-> 0,
                 out |-> <<>>, leaves |-> <<>>, tries |-> NoTries, item |-> None,
                 leaftries |-> NoTries, leaf |-> None])
  BY DEF CrushCall
<1> DEFINE start == [order |-> order, isout |-> isout, mode |-> "choose", rep |-> 0,
                     out |-> <<>>, leaves |-> <<>>, tries |-> NoTries, item |-> None,
                     leaftries |-> NoTries, leaf |-> None]
<1>2. /\ UNCHANGED <<kind, disks, copies, table>> /\ status = "ready" /\ status' = "placing"
      /\ local' = start
  BY <1>1 DEF Call
<1>3. MapIsBuilt
  BY DEF RuleInv
<1>4. Map' = Map
  BY <1>2, SameCall
<1>5. MapIsBuilt'
  BY <1>2, <1>3, <1>4 DEF MapIsBuilt
<1>6. /\ DOMAIN start = Fields /\ start.order = order /\ start.mode = "choose"
      /\ start.rep = 0 /\ start.out = <<>> /\ start.leaves = <<>>
      /\ start.tries = NoTries /\ start.leaftries = NoTries
  BY DEF Fields
<1> HIDE DEF start
<1>7. \A n \in DOMAIN Map : order[n] \in Orders(Map[n])
  BY <1>1
<1>8. OutIsGood(start)
  <2>1. IsInjective(<<>>)
    BY DEF IsInjective
  <2>2. start.out \in Seq(Int) /\ start.leaves \in Seq(Int \cup {None}) /\ Len(start.out) = 0
        /\ Len(start.leaves) = 0
    BY <1>6
  <2>3. 1 .. Len(start.out) = {}
    BY <2>2
  <2>4. IsInjective(start.out)
    BY <1>6, <2>1
  <2>5. Len(start.out) <= start.rep
    BY <1>6, <2>2
  <2> QED
    BY <2>2, <2>3, <2>4, <2>5 DEF OutIsGood
<1>9. LocalIsGood(start)
  <2>1. 0 \in 0 .. copies
    BY <1>3 DEF MapIsBuilt
  <2> QED
    BY <1>6, <1>7, <1>8, <2>1, NoTriesAre DEF LocalIsGood
<1>10. CallIsGood'
  BY <1>2, <1>9, SameCall
<1>11. CopiesInDistinctDomains'
  BY <1>2 DEF CopiesInDistinctDomains
<1> QED
  BY <1>2, <1>5, <1>10, <1>11 DEF RuleInv

\* The caller deletes the list of disks it got.
LEMMA ForgetKeeps ==
  ASSUME RuleInv, Forget
  PROVE  RuleInv'
<1>1. /\ UNCHANGED <<kind, disks, copies, table, status>> /\ status = "ready"
      /\ result' = <<>>
  BY DEF Forget
<1>2. Map' = Map
  BY <1>1 DEF Map
<1>3. MapIsBuilt'
  BY <1>1, <1>2 DEF RuleInv, MapIsBuilt
<1>4. Range(result') \subseteq Ids(disks') /\ DOMAIN result' = {} /\ status' = "ready"
  BY <1>1 DEF Range
<1>5. CopiesInDistinctDomains'
  BY <1>4 DEF CopiesInDistinctDomains
<1> QED
  BY <1>3, <1>4, <1>5 DEF RuleInv

\* Before the first setDisks there is nothing to choose.
LEMMA RuleInit == Init => RuleInv
<1> SUFFICES ASSUME Init PROVE RuleInv
  OBVIOUS
<1>1. status = "new" /\ kind \in Kinds /\ copies = 0
  BY DEF Init
<1> QED
  BY <1>1 DEF RuleInv, MapIsBuilt, CopiesInDistinctDomains

\* Every step of setDisks, placeExtent and crush_choose preserves the invariant.
LEMMA RuleNext == RuleInv /\ [Next]_vars => RuleInv'
<1> SUFFICES ASSUME RuleInv, [Next]_vars PROVE RuleInv'
  OBVIOUS
<1>1. CASE UNCHANGED vars
  <2>1. MapIsBuilt' <=> MapIsBuilt
    BY <1>1 DEF vars, MapIsBuilt, Map, BuildFails
  <2>2. UNCHANGED <<kind, disks, copies, table>> /\ local' = local /\ result' = result
        /\ status' = status
    BY <1>1 DEF vars
  <2>3. Map' = Map /\ TwoLayers' = TwoLayers /\ (CallIsGood' <=> LocalIsGood(local'))
    BY <2>2, SameCall
  <2>4. CallIsGood' <=> CallIsGood
    BY <2>2, <2>3 DEF CallIsGood
  <2>5. CopiesInDistinctDomains' <=> CopiesInDistinctDomains
    BY <2>2, <2>3 DEF CopiesInDistinctDomains
  <2> QED
    BY <2>1, <2>2, <2>4, <2>5 DEF RuleInv
<1>2. ASSUME NEW k \in Kinds, CrushStep(k) PROVE RuleInv'
  BY <1>2, ChooseItemKeeps, ChooseLeafKeeps, JudgeItemKeeps, CrushReturnKeeps DEF CrushStep
<1>3. CASE Ended
  BY <1>1, <1>3 DEF Ended
<1> QED
  BY <1>1, <1>2, <1>3, CrushSetDisksKeeps, CrushCallKeeps, ForgetKeeps DEF Next

\* The copies of an extent that crush_choose has chosen so far are items of the root that
\* differ, each with a disk below it, in every map that setDisks builds and for every order
\* in which the buckets are searched.
THEOREM RuleInvariance == Spec => []RuleInv
<1> QED
  BY RuleInit, RuleNext, PTL DEF Spec

\* With two layers of buckets, no two copies that placeExtent returns are in one failure
\* domain: crush_choose compares an item with all that it chose before, and build_crush_map
\* puts no disk in two domains.
THEOREM DistinctDomains == Spec => []CopiesInDistinctDomains
<1>1. RuleInv => CopiesInDistinctDomains
  BY DEF RuleInv
<1> QED
  BY <1>1, RuleInvariance, PTL

--------------------------------------------------------------------------------
(* The search for a free domain.                                           *)

\* A round is over when the tries in the bucket are; the last round has the twentieth try.
LEMMA RoundsAre ==
  ASSUME NEW n \in Nat \ {0}, NEW t \in Nat, NEW last, last = (19 \div n + 1) * n - 1,
         t <= last
  PROVE  /\ (t % n) + 1 < n => (t + 1) % n = (t % n) + 1 /\ t + 1 <= last
         /\ ~((t % n) + 1 < n) /\ t + 1 < 20 => (t + 1) % n = 0 /\ t + 1 <= last
         /\ ~((t % n) + 1 < n) /\ ~(t + 1 < 20) => t = last
<1> DEFINE q == t \div n
           r == t % n
           m == 19 \div n
<1>1. q \in Nat /\ r \in 0 .. n - 1 /\ t = n * q + r
  <2>1. t \in Int
    OBVIOUS
  <2> QED
    BY <2>1, Division
<1>2. m \in Nat /\ n * m <= 19 /\ \A y \in Int : n * y <= 19 => y <= m
  <2>1. 19 \in Nat
    OBVIOUS
  <2> QED
    BY <2>1, Division, QuotientIs
<1> HIDE DEF q, r, m
<1>3. last = n * m + n - 1
  BY <1>2 DEF m
<1>4. CASE r + 1 < n
  <2>1. t + 1 = n * q + (r + 1) /\ r + 1 \in 0 .. n - 1 /\ q \in Int
    BY <1>1, <1>4
  <2>2. (t + 1) % n = r + 1
    <3> DEFINE a == t + 1
               w == r + 1
    <3>1. a = n * q + w /\ w \in 0 .. n - 1 /\ q \in Int
      BY <2>1
    <3> HIDE DEF a, w
    <3>2. a % n = w
      BY <3>1, RestIs
    <3> QED
      BY <3>2 DEF a, w
  <2>3. t # last
    <3> SUFFICES ASSUME t = last PROVE FALSE
      OBVIOUS
    <3>1. n * m + (n - 1) = t /\ n - 1 \in 0 .. n - 1 /\ m \in Int
      BY <1>2, <1>3
    <3> DEFINE w == n - 1
    <3>2. t = n * m + w /\ w \in 0 .. n - 1 /\ m \in Int
      BY <3>1
    <3> HIDE DEF w
    <3>3. t % n = w
      BY <3>2, RestIs
    <3> QED
      BY <1>4, <3>3 DEF r, w
  <2>4. last \in Int
    <3>1. n * m \in Int
      BY <1>2
    <3> DEFINE pow == n * m
    <3> HIDE DEF pow
    <3> QED
      BY <1>3, <3>1 DEF pow
  <2>5. t + 1 <= last
    BY <2>3, <2>4
  <2> QED
    BY <1>4, <2>2, <2>5 DEF r
<1>5. CASE ~(r + 1 < n)
  <2>1. r = n - 1
    BY <1>1, <1>5
  <2>2. t + 1 = n * (q + 1)
    BY <1>1, <2>1
  <2>3. (t + 1) % n = 0
    <3> DEFINE a == t + 1
               pow == q + 1
               z == 0
    <3>1. a = n * pow + z /\ z \in 0 .. n - 1 /\ pow \in Int
      BY <1>1, <2>2
    <3> HIDE DEF a, pow, z
    <3>2. a % n = z
      BY <3>1, RestIs
    <3> QED
      BY <3>2 DEF a, z
  <2> DEFINE u == n * (q + 1)
             v == n * (m + 1)
  <2>4. last = v - 1 /\ u \in Int /\ v \in Int /\ u = t + 1
    BY <1>1, <1>2, <1>3, <2>2
  <2>5. (q + 1 <= m => u <= v) /\ (m + 1 <= q + 1 => v <= u)
    BY <1>1, <1>2, ProductOrder
  <2>6. u <= 19 => q + 1 <= m
    BY <1>1, <1>2
  <2>7. n * m <= 19 /\ (q + 1 <= m => u <= n * m)
    BY <1>1, <1>2, ProductOrder
  <2>8. v = n * m + n
    BY <1>2
  <2> HIDE DEF u, v
  <2>9. q + 1 <= m \/ m + 1 <= q + 1
    BY <1>1, <1>2
  <2>10. CASE t + 1 < 20
    <3>1. u <= 19
      BY <2>4, <2>10
    <3>2. u <= v
      BY <2>5, <2>6, <3>1
    <3>3. u <= n * m
      BY <2>6, <2>7, <3>1
    <3> DEFINE pow == n * m
    <3>4. pow \in Int /\ u <= pow /\ v = pow + n
      BY <1>2, <2>8, <3>3
    <3> HIDE DEF pow
    <3>5. t + 1 <= last
      BY <2>4, <3>4
    <3> QED
      BY <1>5, <2>3, <2>10, <3>5 DEF r
  <2>11. CASE ~(t + 1 < 20)
    <3>1. ~(u <= 19)
      BY <2>4, <2>11
    <3> DEFINE pow == n * m
    <3>2. pow \in Int /\ pow <= 19 /\ (q + 1 <= m => u <= pow)
      BY <1>2, <2>7
    <3> HIDE DEF pow
    <3>3. ~(q + 1 <= m)
      BY <2>4, <3>1, <3>2
    <3>4. v <= u
      BY <2>5, <2>9, <3>3
    <3>5. t = last
      BY <2>4, <3>4
    <3> QED
      BY <1>5, <2>11, <3>5 DEF r
  <2> QED
    BY <2>10, <2>11
<1> QED
  BY <1>4, <1>5

\* The place of a try depends on its rest, and different rests have different places.
LEMMA PlacesAre ==
  ASSUME NEW n \in Nat \ {0}, NEW c \in Nat
  PROVE  /\ \A t \in Nat : t % n \in 0 .. n - 1 /\ (c + t) % n = (c + (t % n)) % n
         /\ \A a, b \in 0 .. n - 1 : (c + a) % n = (c + b) % n => a = b
<1>1. ASSUME NEW t \in Nat PROVE t % n \in 0 .. n - 1 /\ (c + t) % n = (c + (t % n)) % n
  <2> DEFINE q == t \div n
             r == t % n
             sub == c + r
             pow == sub \div n
             z == sub % n
             a == c + t
             d == q + pow
  <2>1. q \in Int /\ r \in 0 .. n - 1 /\ t = n * q + r
    <3>1. t \in Int
      OBVIOUS
    <3> QED
      BY <3>1, Division
  <2>2. sub \in Int
    BY <2>1
  <2> HIDE DEF q, r, sub
  <2>3. pow \in Int /\ z \in 0 .. n - 1 /\ sub = n * pow + z
    BY <2>2, Division
  <2> HIDE DEF pow, z
  <2>4. a = n * q + (n * pow + z)
    <3> DEFINE u == n * q
               v == n * pow
    <3>1. u \in Int /\ v \in Int /\ t = u + r /\ sub = v + z
      BY <2>1, <2>3
    <3> HIDE DEF u, v
    <3>2. a = u + (v + z)
      BY <2>1, <2>3, <3>1 DEF sub
    <3> QED
      BY <3>2 DEF u, v
  <2>5. a = n * d + z /\ d \in Int
    <3>1. n * (q + pow) = n * q + n * pow /\ n * q \in Int /\ n * pow \in Int
      BY <2>1, <2>3
    <3> DEFINE u == n * q
               v == n * pow
               w == n * (q + pow)
    <3>2. w = u + v /\ a = u + (v + z) /\ u \in Int /\ v \in Int /\ z \in Int
      BY <2>3, <2>4, <3>1
    <3> HIDE DEF u, v, w, a
    <3>3. a = w + z
      BY <3>2
    <3> QED
      BY <2>1, <2>3, <3>3 DEF w
  <2> HIDE DEF a, d
  <2>6. a % n = z
    BY <2>3, <2>5, RestIs
  <2> QED
    BY <2>1, <2>6 DEF a, z, sub, r
<1>2. ASSUME NEW a \in 0 .. n - 1, NEW b \in 0 .. n - 1, (c + a) % n = (c + b) % n
      PROVE  a = b
  <2> DEFINE u == c + a
             v == c + b
  <2>1. u \in Int /\ v \in Int /\ u - v = a - b /\ u % n = v % n
    BY <1>2
  <2> HIDE DEF u, v
  <2>2. \E d \in Int : u - v = n * d
    BY <2>1, SameRest
  <2>3. PICK d \in Int : u - v = n * d
    BY <2>2
  <2>4. n * d < n /\ n * d > -n
    <3>1. a - b < n /\ a - b > -n
      OBVIOUS
    <3> QED
      BY <2>1, <2>3, <3>1
  <2>5. d = 0
    BY <2>4, SmallMultiple
  <2>6. a - b = 0
    <3>1. n * d = 0
      BY <2>5
    <3> QED
      BY <2>1, <2>3, <3>1
  <2> QED
    BY <2>6
<1> QED
  BY <1>1, <1>2

\* With the full weights of the disks no disk is out.
LEMMA NoneIsOut ==
  ASSUME MapIsBuilt, status # "new", NothingIsOut
  PROVE  MayBeOut = {} /\ IsOut = {}
<1>1. disks \in Lists[kind] /\ kind \in Kinds
  BY DEF MapIsBuilt
<1>2. \A n \in DOMAIN disks : disks[n].capacity \in Nat \ {0}
  <2> DEFINE Disk == [id : Int, capacity : Nat \ {0}]
  <2>1. disks \in Seq(Disk)
    BY <1>1, ListsAssumption DEF AllLists
  <2> HIDE DEF Disk
  <2>2. \A n \in DOMAIN disks : disks[n] \in Disk
    BY <2>1
  <2> QED
    BY <2>2 DEF Disk
<1>3. ASSUME NEW id \in Ids(disks)
      PROVE  WeightRead(id) # {0} /\ \A w \in WeightRead(id) : ~(w < FullWeight)
  <2>1. PICK n \in DOMAIN disks : id = disks[n].id
    BY DEF Ids
  <2>2. WeightRead(id) = {disks[n].capacity} /\ disks[n].capacity >= FullWeight
    BY <2>1 DEF NothingIsOut, WeightsAreCapacities
  <2> DEFINE c == disks[n].capacity
  <2>3. c \in Nat \ {0} /\ WeightRead(id) = {c} /\ c >= FullWeight
    BY <1>2, <2>2
  <2> HIDE DEF c
  <2>4. ~(c < FullWeight)
    BY <2>3, RuleAssumption
  <2> QED
    BY <2>3, <2>4
<1> QED
  BY <1>3 DEF MayBeOut, IsOut

\* The root has a domain for each number, in an order of them.
LEMMA RootIs ==
  ASSUME MapIsBuilt, status = "placing", CallIsGood, TwoLayers
  PROVE  LET b == Map[Root]
             width == Len(b.items)
         IN  /\ width \in Nat \ {0} /\ b.items = [m \in 1 .. width |-> -m]
             /\ local.order[Root] \in [1 .. width -> 1 .. width]
             /\ IsInjective(local.order[Root])
             /\ \A item \in Items(Root) : item \in Int /\ -item \in 1 .. width
             /\ \A g, h \in 1 .. width : g # h => Items(g) \cap Items(h) = {}
<1> DEFINE b == Map[Root]
           width == Len(Map) - 1
<1>1. DomainsApart(Map, disks)
  <2>1. status # "new"
    OBVIOUS
  <2> QED
    BY <2>1, FactsHold
<1>2. /\ width > 0 /\ b.items = [m \in 1 .. width |-> -m]
      /\ \A g, h \in 1 .. width : g # h => Items(g) \cap Items(h) = {}
  BY <1>1 DEF DomainsApart, Items, Root
<1>3. Len(Map) \in Nat /\ local.order[Root] \in Orders(b)
  BY CallFacts DEF Root
<1>4. width \in Nat \ {0}
  <2>1. width > 0 /\ Len(Map) \in Nat
    BY <1>2, <1>3
  <2> DEFINE len == Len(Map)
  <2> HIDE DEF len
  <2>2. len - 1 \in Nat \ {0}
    BY <2>1 DEF len
  <2> QED
    BY <2>2 DEF len
<1> HIDE DEF width, b
<1>5. Len(b.items) = width /\ DOMAIN b.items = 1 .. width
  BY <1>2, <1>4
<1>6. local.order[Root] \in [1 .. width -> 1 .. width] /\ IsInjective(local.order[Root])
  <2> DEFINE o == local.order[Root]
  <2>1. o \in IF Len(b.items) > MaxPermuted THEN {[n \in 1 .. width |-> n]}
              ELSE {f \in [1 .. width -> 1 .. width] : IsInjective(f)}
    BY <1>3, <1>5 DEF Orders
  <2>2. /\ [n \in 1 .. width |-> n] \in [1 .. width -> 1 .. width]
        /\ IsInjective([n \in 1 .. width |-> n])
    BY DEF IsInjective
  <2> HIDE DEF o
  <2>3. o \in [1 .. width -> 1 .. width] /\ IsInjective(o)
    BY <2>1, <2>2
  <2> QED
    BY <2>3 DEF o
<1>7. \A item \in Range(b.items) : item \in Int /\ -item \in 1 .. width
  <2>1. ASSUME NEW item \in Range(b.items) PROVE item \in Int /\ -item \in 1 .. width
    <3>1. PICK m \in 1 .. width : item = -m
      BY <1>2, <1>4 DEF Range
    <3> QED
      BY <1>4, <3>1
  <2> QED
    BY <2>1
<1>8. Items(Root) = Range(b.items)
  BY DEF Items, b
<1> QED
  BY <1>2, <1>4, <1>5, <1>6, <1>7, <1>8 DEF b

\* The search depends on the tries, the order and the copies only.
LEMMA SameSearch ==
  ASSUME UNCHANGED <<kind, disks, copies, table>>
  PROVE  /\ NothingIsOut' <=> NothingIsOut
         /\ Search' <=> SearchIsGood(local')
<1>1. Map' = Map /\ Root' = Root
  BY DEF Map, Root
<1>2. \A id : WeightRead(id)' = WeightRead(id)
  BY DEF WeightRead
<1>3. NothingIsOut' <=> NothingIsOut
  BY <1>2 DEF NothingIsOut, WeightsAreCapacities
<1>4. Sure' = Sure
  BY <1>1 DEF Sure
<1>5. \A L, t : At(L, t)' = At(L, t)
  BY <1>1 DEF At
<1>6. Search' <=> SearchIsGood(local')
  BY <1>1, <1>4, <1>5 DEF Search, SearchIsGood, At
<1> QED
  BY <1>3, <1>6

\* The place of a try depends on nothing but the order and the copy.
LEMMA SameAt ==
  ASSUME NEW L, NEW M, L.order = M.order, L.rep = M.rep
  PROVE  \A t : At(L, t) = At(M, t)
BY DEF At

\* The rounds of the root
LEMMA RoundIs ==
  ASSUME NEW b, Len(b.items) \in Nat \ {0}
  PROVE  /\ Round(b) \in Nat \ {0} /\ Round(b) > 3
         /\ LastTry(b) = (19 \div Round(b) + 1) * Round(b) - 1
         /\ LastTry(b) \in Nat
<1> DEFINE n == Round(b)
           a == 19
           m == a \div n
           pow == m * n
           w == (m + 1) * n
<1>1. n \in Nat \ {0} /\ n > 3
  <2> DEFINE width == Len(b.items)
  <2>1. width \in Nat \ {0} /\ n = width + 5
    BY DEF Round, OrigTries
  <2> HIDE DEF width, n
  <2> QED
    BY <2>1
<1>2. LastTry(b) = (19 \div n + 1) * n - 1
  BY DEF LastTry
<1> HIDE DEF n
<1>3. m \in Nat
  <2>1. a \in Nat /\ a \in Int
    OBVIOUS
  <2> HIDE DEF a
  <2> QED
    BY <1>1, <2>1, Division
<1>4. LastTry(b) = w - 1
  BY <1>2
<1> HIDE DEF m
<1>5. pow \in Nat /\ w = pow + n
  BY <1>1, <1>3
<1>6. LastTry(b) \in Nat
  <2> HIDE DEF pow, w
  <2> QED
    BY <1>1, <1>4, <1>5
<1> QED
  BY <1>1, <1>2, <1>6 DEF n

\* Before its first try, a copy has met nothing.
LEMMA SearchStarts ==
  ASSUME Len(Map[Root].items) \in Nat \ {0}, NEW L, L.isout = {}, L.tries = NoTries,
         L.mode = "choose", Sure <= Len(L.out) \/ L.rep <= Len(L.out)
  PROVE  SearchIsGood(L)
<1> DEFINE n == Round(Map[Root])
           last == LastTry(Map[Root])
<1>1. n \in Nat \ {0} /\ last \in Nat
  <2> DEFINE b == Map[Root]
  <2>1. Len(b.items) \in Nat \ {0}
    OBVIOUS
  <2> HIDE DEF b
  <2>2. Round(b) \in Nat \ {0} /\ LastTry(b) \in Nat
    BY <2>1, RoundIs
  <2> QED
    BY <2>2 DEF b
<1>2. L.tries.total = 0 /\ L.tries.local = 0
  BY DEF NoTries
<1> HIDE DEF n, last
<1>3. 0 % n = 0
  <2> DEFINE z == 0
  <2>1. z \in 0 .. n - 1 /\ z \in Int /\ z = n * z + z
    BY <1>1
  <2> HIDE DEF z
  <2>2. z % n = z
    BY <1>1, <2>1, RestIs
  <2> QED
    BY <2>2 DEF z
<1>4. 0 .. L.tries.total - 1 = {} /\ L.tries.total <= last /\ L.tries.local = L.tries.total % n
  BY <1>1, <1>2, <1>3
<1> QED
  BY <1>4 DEF SearchIsGood, n, last

\* A call starts without a disk that is out.
LEMMA CrushCallSearches ==
  ASSUME RuleInv, NEW k \in Kinds, CrushCall(k), RuleInv', TwoLayers', NothingIsOut'
  PROVE  Search'
<1>1. PICK order \in {o \in [DOMAIN Map -> UNION {Orders(Map[n]) : n \in DOMAIN Map}] :
                        \A n \in DOMAIN Map : o[n] \in Orders(Map[n])},
           isout \in {IsOut \cup w : w \in SUBSET MayBeOut} :
        Call(k, [order |-> order, isout |-> isout, mode |-> "choose", rep |-> 0,
                 out |-> <<>>, leaves |-> <<>>, tries |-> NoTries, item |-> None,
                 leaftries |-> NoTries, leaf |-> None])
  BY DEF CrushCall
<1> DEFINE start == [order |-> order, isout |-> isout, mode |-> "choose", rep |-> 0,
                     out |-> <<>>, leaves |-> <<>>, tries |-> NoTries, item |-> None,
                     leaftries |-> NoTries, leaf |-> None]
<1>2. /\ UNCHANGED <<kind, disks, copies, table>> /\ status = "ready" /\ status' = "placing"
      /\ local' = start
  BY <1>1 DEF Call
<1>3. NothingIsOut /\ TwoLayers /\ (Search' <=> SearchIsGood(local'))
  <2>1. TwoLayers' = TwoLayers
    BY <1>2, SameCall
  <2> QED
    BY <1>2, <2>1, SameSearch
<1>4. isout = {}
  <2>1. MayBeOut = {} /\ IsOut = {}
    <3>1. MapIsBuilt /\ status # "new"
      BY <1>2 DEF RuleInv
    <3> QED
      BY <1>3, <3>1, NoneIsOut
  <2>2. PICK w \in SUBSET MayBeOut : isout = IsOut \cup w
    BY <1>1
  <2> QED
    BY <2>1, <2>2
<1>5. start.isout = {} /\ start.tries = NoTries /\ start.mode = "choose" /\ start.rep = 0
      /\ start.out = <<>>
  BY <1>4
<1> HIDE DEF start
<1>6. start.rep <= Len(start.out)
  BY <1>5
<1>7. Len(Map[Root].items) \in Nat \ {0}
  <2>1. MapIsBuilt' /\ CallIsGood' /\ status' = "placing"
    BY <1>2 DEF RuleInv
  <2>2. MapIsBuilt /\ status # "new"
    BY <1>2 DEF RuleInv
  <2>3. GoodMap(Map, kind)
    BY <2>2, FactsHold
  <2>4. Good(Map[Root])
    BY <2>3 DEF GoodMap, Root
  <2>5. Map[Root].items \in Seq(Int) /\ Len(Map[Root].items) > 0
    BY <2>4 DEF Good
  <2> DEFINE l == Map[Root].items
  <2> HIDE DEF l
  <2>6. Len(l) \in Nat \ {0}
    BY <2>5 DEF l
  <2> QED
    BY <2>6 DEF l
<1> QED
  BY <1>2, <1>3, <1>5, <1>6, <1>7, SearchStarts

\* A search gives the item at the place of the try, a bucket of one item its item.
LEMMA SearchPicks ==
  ASSUME MapIsBuilt, status = "placing", CallIsGood, TwoLayers,
         local.tries.local = local.tries.total % Round(Map[Root]),
         Searched(Map[Root], local.tries.total),
         NEW item \in Picks(Root, local.rep + local.tries.total, local.tries),
         item \in Items(Root)
  PROVE  item = At(local, local.tries.total)
<1> DEFINE b == Map[Root]
           width == Len(b.items)
           r == local.rep + local.tries.total
           m == local.order[Root][(r % width) + 1]
<1>1. At(local, local.tries.total) = b.items[m]
  BY Zenon DEF At
<1>2. CASE Len(b.items) = 1
  <2>1. \A y \in Items(Root) : y = -1
    <3>1. \A y \in Items(Root) : y \in Int /\ -y \in 1 .. 1
      BY <1>2, RootIs
    <3> QED
      BY <3>1
  <2>2. b.items[m] \in Items(Root)
    <3>1. Good(b) /\ local.order[Root] \in Orders(b) /\ r \in Int
      <4>1. local.rep \in Int /\ local.tries.total \in Int
        BY DEF CallIsGood, LocalIsGood, Counts, MapIsBuilt
      <4>2. Good(b) /\ local.order[Root] \in Orders(b)
        BY CallFacts
      <4> QED
        BY <4>1, <4>2
    <3> DEFINE o == local.order[Root]
    <3> HIDE DEF b, o, r
    <3>2. o[(r % Len(b.items)) + 1] \in DOMAIN b.items
      BY <3>1, PlaceIs DEF o
    <3>3. b.items[o[(r % Len(b.items)) + 1]] \in Range(b.items)
      BY <3>2 DEF Range
    <3> QED
      BY <3>3 DEF b, o, r, Items
  <2> QED
    BY <1>1, <2>1, <2>2
<1>3. CASE Len(b.items) # 1
  <2> DEFINE l == local.tries.local
             found == (l >= width \div 2 /\ l > OrigTries) \/ b.alg = "uniform"
  <2>1. found
    BY <1>3 DEF Searched
  <2>2. Picks(Root, r, local.tries) = IF found THEN {b.items[m]} ELSE Draws(b)
    BY DEF Picks
  <2>3. item \in Picks(Root, r, local.tries)
    OBVIOUS
  <2> HIDE DEF found, m, b, r
  <2> QED
    BY <1>1, <2>1, <2>2, <2>3
<1> HIDE DEF b, width, r, m
<1> QED
  BY <1>2, <1>3

\* The choice among the items of the root
LEMMA ChooseItemSearches ==
  ASSUME SearchInv, NEW k \in Kinds, ChooseItem(k), status' = "placing", TwoLayers', NothingIsOut'
  PROVE  Search'
<1>1. /\ RuleInv /\ MapIsBuilt /\ status = "placing" /\ CallIsGood /\ local.mode = "choose"
      /\ local.rep < copies
  BY DEF SearchInv, RuleInv, ChooseItem, Choosing, Placing
<1>2. LocalIsGood(local)
  BY <1>1 DEF CallIsGood
<1> DEFINE r == local.rep + local.tries.total
<1>3. /\ ~BuildFails(Map) /\ Root \in DOMAIN Map /\ Items(Root) \subseteq Int
      /\ Good(Map[Root]) /\ local.order[Root] \in Orders(Map[Root])
      /\ TwoLayers => \A item \in Items(Root) : TypeOf(item) = DomainType
  BY <1>1, CallFacts
<1>4. r \in Int
  BY <1>1, <1>2 DEF LocalIsGood, Counts, MapIsBuilt
<1>5. Picks(Root, r, local.tries) \subseteq Items(Root)
  <2> HIDE DEF r
  <2> QED
    BY <1>3, <1>4, PicksAre
<1>6. PICK item \in Picks(Root, r, local.tries) :
        \/ /\ item = None
           /\ Crash
        \/ /\ item # None /\ TypeOf(item) = DomainType
           /\ Advance([local EXCEPT !.mode = "leaf", !.item = item])
        \/ /\ item # None /\ TypeOf(item) # DomainType /\ item >= 0
           /\ Crash
        \/ /\ item # None /\ TypeOf(item) # DomainType /\ item < 0
           /\ Advance(NextRep(Append(local.out, item), Append(local.leaves, None)))
  BY DEF ChooseItem
<1>7. ~Crash
  BY DEF Crash
<1>8. UNCHANGED <<kind, disks, copies, table>>
  BY <1>6, <1>7 DEF Advance
<1>9. NothingIsOut /\ TwoLayers /\ (Search' <=> SearchIsGood(local'))
  <2>1. TwoLayers' = TwoLayers
    BY <1>8, SameCall
  <2> QED
    BY <1>8, <2>1, SameSearch
<1>10. SearchIsGood(local)
  BY <1>1, <1>9 DEF SearchInv, Search
<1>11. item \in Items(Root) /\ TypeOf(item) = DomainType
  BY <1>3, <1>5, <1>6, <1>9
<1> DEFINE next == [local EXCEPT !.mode = "leaf", !.item = item]
<1>12. local' = next
  BY <1>6, <1>7, <1>11 DEF Advance
<1>13. /\ next.order = local.order /\ next.isout = local.isout
       /\ next.mode = "leaf" /\ next.rep = local.rep /\ next.out = local.out
       /\ next.leaves = local.leaves /\ next.tries = local.tries /\ next.item = item
  BY <1>2 DEF LocalIsGood, Fields
<1> HIDE DEF next
<1>14. \A t : At(next, t) = At(local, t)
  BY <1>13, SameAt
<1>15. Searched(Map[Root], local.tries.total) => item = At(local, local.tries.total)
  <2>1. local.tries.local = local.tries.total % Round(Map[Root])
    BY <1>10 DEF SearchIsGood
  <2> QED
    BY <1>1, <1>6, <1>9, <1>11, <2>1, SearchPicks
<1>16. SearchIsGood(next)
  BY <1>10, <1>13, <1>14, <1>15 DEF SearchIsGood
<1> QED
  BY <1>9, <1>12, <1>16

\* The recursive call finds a disk under an item that is free.
LEMMA ChooseLeafSearches ==
  ASSUME SearchInv, NEW k \in Kinds, ChooseLeaf(k), status' = "placing", TwoLayers', NothingIsOut'
  PROVE  Search'
<1>1. RuleInv /\ MapIsBuilt /\ status = "placing" /\ CallIsGood /\ local.mode = "leaf"
  BY DEF SearchInv, RuleInv, ChooseLeaf, Choosing, Placing
<1>2. LocalIsGood(local)
  BY <1>1 DEF CallIsGood
<1> DEFINE n == -local.item
           b == Map[n]
           r == Len(local.out) + local.leaftries.total
<1>3. local.item \in Items(Root) /\ local.item < 0
  BY <1>1, <1>2 DEF LocalIsGood
<1>4. /\ n \in DOMAIN Map /\ Good(Map[n]) /\ local.order[n] \in Orders(Map[n])
      /\ Items(n) \subseteq Int /\ ~BuildFails(Map)
  BY <1>1, <1>3, CallFacts
<1>5. r \in Int
  <2>1. local.out \in Seq(Int) /\ local.leaftries \in Counts
    BY <1>2 DEF LocalIsGood, OutIsGood
  <2>2. Len(local.out) \in Int /\ local.leaftries.total \in Int
    BY <2>1 DEF Counts
  <2> QED
    BY <2>2
<1> HIDE DEF r, n
<1>6. Picks(n, r, local.leaftries) \subseteq Items(n)
  BY <1>4, <1>5, PicksAre
<1>7. PICK leaf \in Picks(n, r, local.leaftries) :
        LET collide == leaf \in Range(local.leaves)
            again == Again(b, collide, local.leaftries)
        IN  \/ /\ leaf = None
               /\ Crash
            \/ /\ leaf # None /\ ~collide /\ leaf \notin local.isout
               /\ Advance([local EXCEPT !.mode = "judge", !.leaf = leaf])
            \/ /\ leaf # None /\ (collide \/ leaf \in local.isout)
               /\ Advance(IF again = None
                            THEN [local EXCEPT !.mode = "judge", !.leaf = None]
                            ELSE [local EXCEPT !.leaftries = again])
  BY DEF ChooseLeaf, n, r
<1> DEFINE again == Again(b, leaf \in Range(local.leaves), local.leaftries)
<1> HIDE DEF b
<1>8. ~Crash
  BY DEF Crash
<1>9. UNCHANGED <<kind, disks, copies, table>>
  BY <1>7, <1>8 DEF Advance
<1>10. NothingIsOut /\ TwoLayers /\ (Search' <=> SearchIsGood(local'))
  <2>1. TwoLayers' = TwoLayers
    BY <1>9, SameCall
  <2> QED
    BY <1>9, <2>1, SameSearch
<1>11. SearchIsGood(local)
  BY <1>1, <1>10 DEF SearchInv, Search
<1>12. leaf \in Range(local.leaves) \/ leaf \in local.isout => local.item \in Range(local.out)
  <2>1. local.isout = {}
    BY <1>11 DEF SearchIsGood
  <2> SUFFICES ASSUME leaf \in Range(local.leaves) PROVE local.item \in Range(local.out)
    BY <2>1
  <2> DEFINE out == local.out
             leaves == local.leaves
             len == Len(out)
             width == Len(Map[Root].items)
  <2>2. /\ out \in Seq(Int) /\ leaves \in Seq(Int \cup {None}) /\ len = Len(leaves)
        /\ \A m \in 1 .. len : out[m] \in Items(Root) /\ leaves[m] \in Items(-out[m])
    BY <1>2, <1>10 DEF LocalIsGood, OutIsGood
  <2>3. /\ \A item \in Items(Root) : item \in Int /\ -item \in 1 .. width
        /\ \A g, h \in 1 .. width : g # h => Items(g) \cap Items(h) = {}
    BY <1>1, <1>10, RootIs
  <2>4. DOMAIN leaves = 1 .. len /\ DOMAIN out = 1 .. len /\ leaf \in Range(leaves)
    BY <2>2
  <2>5. -local.item \in 1 .. width /\ local.item \in Int /\ leaf \in Items(-local.item)
    BY <1>3, <1>6, <1>7, <2>3 DEF n
  <2> HIDE DEF out, leaves, len, width
  <2>6. PICK m \in 1 .. len : leaf = leaves[m]
    BY <2>4 DEF Range
  <2>7. leaf \in Items(-out[m]) /\ -out[m] \in 1 .. width /\ out[m] \in Int
    BY <2>2, <2>3, <2>6
  <2>8. -out[m] = -local.item
    BY <2>3, <2>5, <2>7
  <2>9. out[m] = local.item
    BY <2>5, <2>7, <2>8
  <2> QED
    BY <2>4, <2>9 DEF Range, out
<1>13. ASSUME NEW y, local' = [local EXCEPT !.mode = "judge", !.leaf = y],
              y = None => local.item \in Range(local.out)
       PROVE  SearchIsGood(local')
  <2> DEFINE next == [local EXCEPT !.mode = "judge", !.leaf = y]
  <2>1. /\ next.order = local.order /\ next.isout = local.isout
        /\ next.mode = "judge" /\ next.rep = local.rep /\ next.out = local.out
        /\ next.tries = local.tries /\ next.item = local.item /\ next.leaf = y
    BY <1>2 DEF LocalIsGood, Fields
  <2> HIDE DEF next
  <2>2. \A t : At(next, t) = At(local, t)
    BY <2>1, SameAt
  <2>3. SearchIsGood(next)
    BY <1>1, <1>11, <1>13, <2>1, <2>2 DEF SearchIsGood
  <2> QED
    BY <1>13, <2>3 DEF next
<1>14. ASSUME NEW y, local' = [local EXCEPT !.leaftries = y]
       PROVE  SearchIsGood(local')
  <2> DEFINE next == [local EXCEPT !.leaftries = y]
  <2>1. /\ next.order = local.order /\ next.isout = local.isout
        /\ next.mode = "leaf" /\ next.rep = local.rep /\ next.out = local.out
        /\ next.tries = local.tries /\ next.item = local.item
    BY <1>1, <1>2 DEF LocalIsGood, Fields
  <2> HIDE DEF next
  <2>2. \A t : At(next, t) = At(local, t)
    BY <2>1, SameAt
  <2>3. SearchIsGood(next)
    BY <1>1, <1>11, <2>1, <2>2 DEF SearchIsGood
  <2> QED
    BY <1>14, <2>3 DEF next
<1>15. \/ leaf # None /\ local' = [local EXCEPT !.mode = "judge", !.leaf = leaf]
       \/ /\ leaf \in Range(local.leaves) \/ leaf \in local.isout
          /\ \/ local' = [local EXCEPT !.mode = "judge", !.leaf = None]
             \/ local' = [local EXCEPT !.leaftries = again]
  BY <1>7, <1>8 DEF Advance, again
<1> HIDE DEF again
<1>16. SearchIsGood(local')
  BY <1>12, <1>13, <1>14, <1>15
<1> QED
  BY <1>10, <1>16

\* What a failed try leaves to the next one, and when there is none
LEMMA AgainGoesOn ==
  ASSUME NEW b, Len(b.items) \in Nat \ {0}, NEW c, NEW tries \in Counts,
         tries.local = tries.total % Round(b), tries.total <= LastTry(b)
  PROVE  LET again == Again(b, c, tries)
         IN  /\ again = None => tries.total = LastTry(b)
             /\ again # None => /\ again.total = tries.total + 1 /\ again.total <= LastTry(b)
                                /\ again.local = again.total % Round(b)
<1> DEFINE n == Round(b)
           last == LastTry(b)
           t == tries.total
           l == tries.local
           more == [total |-> t + 1, local |-> l + 1]
           again == Again(b, c, tries)
<1>1. n \in Nat \ {0} /\ n > 3 /\ last = (19 \div n + 1) * n - 1 /\ t \in Nat
  BY RoundIs DEF Counts
<1>2. again = IF (c /\ l + 1 < 3) \/ l + 1 < n THEN more
              ELSE IF t + 1 < 20 THEN [more EXCEPT !.local = 0] ELSE None
  BY DEF Again, Round
<1>3. [more EXCEPT !.local = 0] = [total |-> t + 1, local |-> 0]
  OBVIOUS
<1>4. l = t % n /\ l \in Int /\ t <= last
  BY DEF Counts
<1> HIDE DEF n, last, again, t
<1>5. /\ (t % n) + 1 < n => (t + 1) % n = (t % n) + 1 /\ t + 1 <= last
      /\ ~((t % n) + 1 < n) /\ t + 1 < 20 => (t + 1) % n = 0 /\ t + 1 <= last
      /\ ~((t % n) + 1 < n) /\ ~(t + 1 < 20) => t = last
  BY <1>1, <1>4, RoundsAre
<1> HIDE DEF l
<1>6. (c /\ l + 1 < 3) \/ l + 1 < n <=> l + 1 < n
  BY <1>1, <1>4
<1>7. ASSUME NEW y \in Nat PROVE [total |-> t + 1, local |-> y] # None
  <2> DEFINE pair == [total |-> t + 1, local |-> y]
  <2>1. pair \in [total : Nat, local : Nat]
    BY <1>1
  <2> HIDE DEF pair
  <2>2. pair # None
    BY <2>1, RuleAssumption
  <2> QED
    BY <2>2 DEF pair
<1>8. \E y \in Nat : l + 1 = y
  <2>1. l \in Nat
    <3>1. t \in Int
      BY <1>1
    <3>2. t % n \in 0 .. n - 1
      BY <1>1, <3>1, Division
    <3> QED
      BY <1>1, <1>4, <3>2
  <2> QED
    BY <2>1
<1>9. CASE l + 1 < n
  <2>1. again = [total |-> t + 1, local |-> l + 1]
    BY <1>2, <1>6, <1>9
  <2>2. again.total = t + 1 /\ again.local = l + 1
    BY <2>1
  <2>3. again # None
    BY <1>7, <1>8, <2>1
  <2>4. (t + 1) % n = l + 1 /\ t + 1 <= last
    BY <1>4, <1>5, <1>9
  <2>5. again.local = again.total % n /\ again.total <= last
    BY <2>2, <2>4
  <2> QED
    BY <2>2, <2>3, <2>5 DEF n, last, again, t
<1>10. CASE ~(l + 1 < n) /\ t + 1 < 20
  <2>1. again = [total |-> t + 1, local |-> 0]
    BY <1>2, <1>3, <1>6, <1>10
  <2>2. again.total = t + 1 /\ again.local = 0
    BY <2>1
  <2>3. again # None
    <3>1. 0 \in Nat
      OBVIOUS
    <3> QED
      BY <1>7, <2>1, <3>1
  <2>4. (t + 1) % n = 0 /\ t + 1 <= last
    BY <1>4, <1>5, <1>10
  <2>5. again.local = again.total % n /\ again.total <= last
    BY <2>2, <2>4
  <2> QED
    BY <2>2, <2>3, <2>5 DEF n, last, again, t
<1>11. CASE ~(l + 1 < n) /\ ~(t + 1 < 20)
  <2>1. again = None
    BY <1>2, <1>6, <1>11
  <2>2. t = last
    BY <1>4, <1>5, <1>11
  <2> QED
    BY <2>1, <2>2 DEF n, last, again, t
<1> QED
  BY <1>9, <1>10, <1>11

\* There are finitely many domains that are asked for.
LEMMA SureIs ==
  ASSUME Len(Map[Root].items) \in Nat \ {0}
  PROVE  Sure \in Int
<1> DEFINE b == Map[Root]
           width == Len(b.items)
           D == 0 .. width - 1
<1>1. width \in Nat \ {0}
  OBVIOUS
<1>2. \A t \in 0 .. LastTry(b) : t % width \in D
  <2>1. \A t \in 0 .. LastTry(b) : t \in Int
    OBVIOUS
  <2> HIDE DEF width
  <2> QED
    BY <1>1, <2>1, Division
<1>3. Asked(b) \subseteq D
  BY <1>2 DEF Asked
<1>4. IsFiniteSet(D)
  <2>1. 0 \in Int /\ width - 1 \in Int
    BY <1>1
  <2> QED
    BY <2>1, FS_Interval
<1> HIDE DEF D
<1>5. IsFiniteSet(Asked(b))
  BY <1>3, <1>4, FS_Subset
<1> QED
  BY <1>5, FS_CardinalityType DEF Sure

\* If all tries of a copy met domains that were taken, all that are asked for are taken.
LEMMA AllAskedAreTaken ==
  ASSUME MapIsBuilt, status = "placing", CallIsGood, TwoLayers,
         \A t \in 0 .. LastTry(Map[Root]) :
           Searched(Map[Root], t) => At(local, t) \in Range(local.out)
  PROVE  Sure <= Len(local.out)
<1> DEFINE b == Map[Root]
           width == Len(b.items)
           o == local.order[Root]
           out == local.out
           len == Len(out)
           c == local.rep
           last == LastTry(b)
           asked == Asked(b)
           place(a) == (c + a) % width
           item(a) == b.items[o[place(a) + 1]]
<1>1. /\ width \in Nat \ {0} /\ b.items = [m \in 1 .. width |-> -m]
      /\ o \in [1 .. width -> 1 .. width] /\ IsInjective(o)
  BY RootIs
<1>2. out \in Seq(Int) /\ c \in Nat
  BY DEF CallIsGood, LocalIsGood, OutIsGood, MapIsBuilt
<1>3. len \in Nat /\ DOMAIN out = 1 .. len
  BY <1>2
<1>4. \A t : At(local, t) = item(t)
  BY DEF At
<1>5. asked = {t % width : t \in {t \in 0 .. last : Searched(b, t)}}
  BY DEF Asked
<1>6. Sure = Cardinality(asked)
  BY DEF Sure
<1>7. last \in Nat
  <2> HIDE DEF b
  <2> QED
    BY <1>1, RoundIs
<1>8. \A t \in 0 .. last : Searched(b, t) => item(t) \in Range(out)
  BY <1>4
<1> HIDE DEF b, o, out, len, c, last, asked, width
<1>9. /\ \A t \in Nat : /\ t % width \in 0 .. width - 1
                        /\ (c + t) % width = (c + (t % width)) % width
      /\ \A a, e \in 0 .. width - 1 : (c + a) % width = (c + e) % width => a = e
  BY <1>1, <1>2, PlacesAre
<1>10. ASSUME NEW a \in asked
       PROVE  a \in 0 .. width - 1 /\ \E n \in 1 .. len : out[n] = item(a)
  <2>1. PICK t \in 0 .. last : Searched(b, t) /\ a = t % width
    BY <1>5
  <2>2. t \in Nat
    BY <1>7
  <2>3. a \in 0 .. width - 1 /\ place(t) = place(a)
    BY <1>9, <2>1, <2>2
  <2> HIDE DEF place
  <2>4. item(a) \in Range(out)
    BY <1>8, <2>1, <2>3
  <2> HIDE DEF item
  <2>5. \E n \in 1 .. len : out[n] = item(a)
    BY <1>3, <2>4 DEF Range
  <2> QED
    BY <2>3, <2>5
<1>11. ASSUME NEW a \in 0 .. width - 1 PROVE place(a) + 1 \in 1 .. width
  <2>1. c + a \in Int
    BY <1>1, <1>2
  <2> DEFINE w == c + a
  <2> HIDE DEF w
  <2>2. w % width \in 0 .. width - 1
    BY <1>1, <2>1, Division DEF w
  <2> DEFINE pow == w % width
  <2>3. pow \in 0 .. width - 1
    BY <2>2
  <2> HIDE DEF pow
  <2>4. pow + 1 \in 1 .. width
    BY <1>1, <2>3
  <2> QED
    BY <2>4 DEF pow, w
<1>12. ASSUME NEW a \in 0 .. width - 1, NEW e \in 0 .. width - 1, item(a) = item(e)
       PROVE  a = e
  <2> DEFINE pow == place(a)
             q == place(e)
  <2>1. pow + 1 \in 1 .. width /\ q + 1 \in 1 .. width
    BY <1>11
  <2>2. b.items[o[pow + 1]] = b.items[o[q + 1]]
    BY <1>12
  <2>3. pow \in Int /\ q \in Int
    <3>1. c + a \in Int /\ c + e \in Int
      BY <1>1, <1>2
    <3> DEFINE w == c + a
               z == c + e
    <3> HIDE DEF w, z
    <3>2. w \in Int /\ z \in Int
      BY <3>1 DEF w, z
    <3>3. w % width \in 0 .. width - 1
      BY <1>1, <3>2, Division
    <3>4. z % width \in 0 .. width - 1
      BY <1>1, <3>2, Division
    <3> QED
      BY <3>3, <3>4 DEF w, z
  <2> HIDE DEF pow, q, place
  <2>4. o[pow + 1] \in 1 .. width /\ o[q + 1] \in 1 .. width
    BY <1>1, <2>1
  <2> DEFINE v == o[pow + 1]
             y == o[q + 1]
             items == b.items
  <2>5. /\ v \in 1 .. width /\ y \in 1 .. width
        /\ items[v] = items[y] /\ items = [m \in 1 .. width |-> -m]
    BY <1>1, <2>2, <2>4
  <2> HIDE DEF v, y, items
  <2>6. items[v] = -v /\ items[y] = -y
    BY <2>5
  <2>7. v = y
    BY <1>1, <2>5, <2>6
  <2>8. pow + 1 = q + 1
    BY <1>1, <2>1, <2>7 DEF IsInjective, v, y
  <2>9. pow = q
    BY <2>3, <2>8
  <2> QED
    BY <1>9, <2>9 DEF pow, q, place
<1> HIDE DEF place, item
<1> DEFINE f == [a \in asked |-> CHOOSE n \in 1 .. len : out[n] = item(a)]
           D == 1 .. len
<1>13. ASSUME NEW a \in asked PROVE f[a] \in D /\ out[f[a]] = item(a)
  <2>1. \E n \in 1 .. len : out[n] = item(a)
    BY <1>10
  <2> QED
    BY <2>1
<1>14. f \in Injection(asked, D)
  <2>1. f \in [asked -> D]
    BY <1>13
  <2> HIDE DEF f
  <2>2. ASSUME NEW a \in asked, NEW e \in asked, f[a] = f[e] PROVE a = e
    <3>1. item(a) = item(e)
      BY <1>13, <2>2
    <3> QED
      BY <1>10, <1>12, <3>1
  <2> QED
    BY <2>1, <2>2 DEF Injection, IsInjective
<1>15. IsFiniteSet(D) /\ Cardinality(D) = len
  <2>1. 1 \in Int /\ len \in Int /\ IF 1 > len THEN len = 0 ELSE len - 1 + 1 = len
    BY <1>3
  <2> QED
    BY <2>1, FS_Interval
<1> HIDE DEF f, D
<1>16. Cardinality(asked) <= Cardinality(D)
  BY <1>14, <1>15, FS_Injection
<1> QED
  BY <1>6, <1>15, <1>16 DEF len, out

\* An item is taken with the disk under it, or the copy is tried again or given up.
LEMMA JudgeItemSearches ==
  ASSUME SearchInv, NEW k \in Kinds, JudgeItem(k), TwoLayers', NothingIsOut'
  PROVE  Search'
<1>1. RuleInv /\ MapIsBuilt /\ status = "placing" /\ CallIsGood /\ local.mode = "judge"
  BY DEF SearchInv, RuleInv, JudgeItem, Choosing, Placing
<1>2. LocalIsGood(local)
  BY <1>1 DEF CallIsGood
<1> DEFINE b == Map[Root]
           out == local.out
           tries == local.tries
           collide == Collides(local.item, local.out)
           again == Again(b, collide, tries)
           next == IF ~collide /\ local.leaf # None
                     THEN NextRep(Append(local.out, local.item), Append(local.leaves, local.leaf))
                   ELSE IF again = None THEN NextRep(local.out, local.leaves)
                   ELSE [local EXCEPT !.mode = "choose", !.tries = again, !.item = None,
                                      !.leaftries = NoTries, !.leaf = None]
<1>3. Advance(next)
  BY DEF JudgeItem
<1>4. UNCHANGED <<kind, disks, copies, table>> /\ local' = next
  BY <1>3 DEF Advance
<1>5. NothingIsOut /\ TwoLayers /\ (Search' <=> SearchIsGood(local'))
  <2>1. TwoLayers' = TwoLayers
    BY <1>4, SameCall
  <2> QED
    BY <1>4, <2>1, SameSearch
<1>6. SearchIsGood(local)
  BY <1>1, <1>5 DEF SearchInv, Search
<1>7. collide <=> local.item \in Range(local.out)
  BY DEF Collides
<1>8. /\ DOMAIN local = Fields /\ local.rep \in Nat /\ out \in Seq(Int) /\ tries \in Counts
      /\ local.leaves \in Seq(Int \cup {None}) /\ local.item \in Int
  <2>1. Items(Root) \subseteq Int
    BY <1>1, CallFacts
  <2> QED
    BY <1>1, <1>2, <2>1 DEF LocalIsGood, OutIsGood, MapIsBuilt
<1>9. Len(out) \in Nat /\ tries.total \in Nat
  BY <1>8 DEF Counts
<1>10. Len(b.items) \in Nat \ {0}
  BY <1>1, <1>5, RootIs
<1>11. /\ tries.local = tries.total % Round(b) /\ tries.total <= LastTry(b)
       /\ local.isout = {} /\ (Sure <= Len(out) \/ local.rep <= Len(out))
       /\ \A t \in 0 .. tries.total - 1 : Searched(b, t) => At(local, t) \in Range(out)
       /\ Searched(b, tries.total) => local.item = At(local, tries.total)
       /\ local.leaf = None => local.item \in Range(out)
  BY <1>1, <1>6 DEF SearchIsGood
<1>12. CASE ~collide /\ local.leaf # None
  <2> DEFINE more == Append(local.out, local.item)
             to == NextRep(more, Append(local.leaves, local.leaf))
  <2>1. to.rep = local.rep + 1 /\ to.out = more /\ to.tries = NoTries /\ to.isout = local.isout
        /\ to.mode = "choose"
    <3> DEFINE leaves == Append(local.leaves, local.leaf)
    <3> HIDE DEF more, leaves
    <3> QED
      BY <1>8, NextRepIs DEF leaves
  <2>2. next = to
    BY <1>12
  <2>3. Len(more) = Len(out) + 1
    BY <1>8
  <2> HIDE DEF to, more, next
  <2>4. Sure <= Len(more) \/ to.rep <= Len(more)
    <3>1. CASE local.rep <= Len(out)
      BY <1>8, <1>9, <2>1, <2>3, <3>1
    <3>2. CASE Sure <= Len(out)
      <4>1. Sure \in Int
        BY <1>10, SureIs
      <4> DEFINE n == Len(out)
      <4>2. n \in Nat /\ Len(more) = n + 1 /\ Sure <= n
        BY <1>9, <2>3, <3>2
      <4> HIDE DEF n
      <4>3. Sure <= n + 1
        BY <4>1, <4>2
      <4> QED
        BY <4>2, <4>3
    <3> QED
      BY <1>11, <3>1, <3>2
  <2>5. SearchIsGood(to)
    BY <1>10, <1>11, <2>1, <2>4, SearchStarts
  <2> QED
    BY <1>4, <1>5, <2>2, <2>5
<1> HIDE DEF again, collide
<1>13. CASE collide \/ local.leaf = None
  <2>1. local.item \in Range(out)
    BY <1>7, <1>11, <1>13
  <2>2. \A t \in 0 .. tries.total : Searched(b, t) => At(local, t) \in Range(out)
    <3>1. ASSUME NEW t \in 0 .. tries.total, Searched(b, t) PROVE At(local, t) \in Range(out)
      <4>1. CASE t = tries.total
        BY <1>11, <2>1, <3>1, <4>1
      <4>2. CASE t # tries.total
        <5>1. t \in 0 .. tries.total - 1
          BY <1>9, <4>2
        <5> QED
          BY <1>11, <3>1, <5>1
      <4> QED
        BY <4>1, <4>2
    <3> QED
      BY <3>1
  <2>3. /\ again = None => tries.total = LastTry(b)
        /\ again # None => /\ again.total = tries.total + 1 /\ again.total <= LastTry(b)
                           /\ again.local = again.total % Round(b)
    <3> HIDE DEF b, tries
    <3> QED
      BY <1>8, <1>10, <1>11, AgainGoesOn DEF again
  <2>4. CASE again = None
    <3> DEFINE to == NextRep(local.out, local.leaves)
    <3>1. /\ to.rep = local.rep + 1 /\ to.out = local.out /\ to.tries = NoTries
          /\ to.isout = local.isout /\ to.mode = "choose"
      BY <1>8, NextRepIs
    <3>2. next = to
      BY <1>13, <2>4
    <3> HIDE DEF to, next
    <3>3. Sure <= Len(local.out)
      BY <1>1, <1>5, <2>2, <2>3, <2>4, AllAskedAreTaken
    <3>4. SearchIsGood(to)
      BY <1>10, <1>11, <3>1, <3>3, SearchStarts
    <3> QED
      BY <1>4, <1>5, <3>2, <3>4
  <2>5. CASE again # None
    <3> DEFINE to == [local EXCEPT !.mode = "choose", !.tries = again, !.item = None,
                                   !.leaftries = NoTries, !.leaf = None]
    <3>1. /\ to.order = local.order /\ to.mode = "choose" /\ to.rep = local.rep
          /\ to.out = local.out /\ to.tries = again /\ to.isout = local.isout
      BY <1>8 DEF Fields
    <3>2. next = to
      BY <1>13, <2>5
    <3> HIDE DEF to, next
    <3>3. \A t : At(to, t) = At(local, t)
      BY <3>1, SameAt
    <3>4. again.total - 1 = tries.total
      BY <1>9, <2>3, <2>5
    <3>5. \A t \in 0 .. again.total - 1 : Searched(b, t) => At(to, t) \in Range(out)
      BY <2>2, <3>3, <3>4
    <3>6. SearchIsGood(to)
      BY <1>11, <2>3, <2>5, <3>1, <3>5 DEF SearchIsGood
    <3> QED
      BY <1>4, <1>5, <3>2, <3>6
  <2> QED
    BY <2>4, <2>5
<1> QED
  BY <1>12, <1>13

\* When the copies are chosen, the search has done what it promises.
LEMMA ChosenAreEnough ==
  ASSUME SearchInv
  PROVE  FreeDomainsAreUsed
<1> SUFFICES ASSUME NEW k \in Kinds, Chosen(k), TwoLayers, NothingIsOut
             PROVE  LET width == Len(Map[Root].items)
                        sure == Cardinality(Asked(Map[Root]))
                    IN  /\ Len(local.leaves) >= IF sure < copies THEN sure ELSE copies
                        /\ Len(local.leaves) <= IF width < copies THEN width ELSE copies
  BY DEF FreeDomainsAreUsed
<1> DEFINE width == Len(Map[Root].items)
           out == local.out
           len == Len(local.leaves)
<1>1. RuleInv /\ MapIsBuilt /\ status = "placing" /\ CallIsGood /\ local.rep = copies
  BY DEF SearchInv, RuleInv, Chosen, Choosing, Placing
<1>2. LocalIsGood(local) /\ SearchIsGood(local)
  BY <1>1 DEF CallIsGood, SearchInv, Search
<1>3. /\ out \in Seq(Int) /\ len = Len(out) /\ len <= copies /\ IsInjective(out)
      /\ \A n \in 1 .. len : out[n] \in Items(Root)
  BY <1>1, <1>2 DEF LocalIsGood, OutIsGood
<1>4. Sure <= len \/ copies <= len
  BY <1>1, <1>2, <1>3 DEF SearchIsGood
<1>5. width \in Nat \ {0} /\ \A item \in Items(Root) : item \in Int /\ -item \in 1 .. width
  BY <1>1, RootIs
<1>6. len \in Nat /\ copies \in Nat /\ DOMAIN out = 1 .. len
  BY <1>1, <1>3 DEF MapIsBuilt
<1> HIDE DEF width, out, len
<1>7. len <= width
  <2> DEFINE D == 1 .. len
             E == 1 .. width
             f == [n \in D |-> -out[n]]
  <2>1. \A n \in D : -out[n] \in E /\ out[n] \in Int
    BY <1>3, <1>5
  <2>2. f \in Injection(D, E)
    <3>1. f \in [D -> E]
      BY <2>1
    <3>2. ASSUME NEW n \in D, NEW m \in D, f[n] = f[m] PROVE n = m
      <4>1. -out[n] = -out[m]
        BY <3>2
      <4>2. out[n] = out[m]
        BY <2>1, <4>1
      <4> QED
        BY <1>3, <1>6, <4>2 DEF IsInjective
    <3> HIDE DEF f
    <3> QED
      BY <3>1, <3>2 DEF Injection, IsInjective
  <2>3. IsFiniteSet(D) /\ Cardinality(D) = len
    <3>1. 1 \in Int /\ len \in Int /\ IF 1 > len THEN len = 0 ELSE len - 1 + 1 = len
      BY <1>6
    <3> QED
      BY <3>1, FS_Interval
  <2>4. IsFiniteSet(E) /\ Cardinality(E) = width
    <3>1. 1 \in Int /\ width \in Int /\ IF 1 > width THEN width = 0 ELSE width - 1 + 1 = width
      BY <1>5
    <3> QED
      BY <3>1, FS_Interval
  <2> HIDE DEF f, D, E
  <2>5. Cardinality(D) <= Cardinality(E)
    BY <2>2, <2>4, FS_Injection
  <2> QED
    BY <2>3, <2>4, <2>5
<1>8. len <= IF width < copies THEN width ELSE copies
  BY <1>3, <1>7
<1>9. Sure \in Int
  BY <1>5, SureIs DEF width
<1>10. len >= IF Sure < copies THEN Sure ELSE copies
  <2>1. CASE copies <= len
    BY <1>6, <1>9, <2>1
  <2>2. CASE Sure <= len
    BY <1>6, <1>9, <2>2
  <2> QED
    BY <1>4, <2>1, <2>2
<1> QED
  BY <1>8, <1>10 DEF Sure, width, len

\* Before the first setDisks there is nothing to search.
LEMMA SearchInit == Init => SearchInv
<1> SUFFICES ASSUME Init PROVE SearchInv
  OBVIOUS
<1>1. RuleInv
  BY RuleInit
<1>2. status = "new"
  BY DEF Init
<1> QED
  BY <1>1, <1>2 DEF SearchInv

\* Every step of setDisks, placeExtent and crush_choose preserves the invariant of the search.
LEMMA SearchNext == SearchInv /\ [Next]_vars => SearchInv'
<1> SUFFICES ASSUME SearchInv, [Next]_vars PROVE SearchInv'
  OBVIOUS
<1>1. RuleInv /\ RuleInv'
  BY RuleNext DEF SearchInv
<1> SUFFICES ASSUME status' = "placing", TwoLayers', NothingIsOut' PROVE Search'
  BY <1>1 DEF SearchInv
<1>2. CASE UNCHANGED vars
  <2>1. UNCHANGED <<kind, disks, copies, table>> /\ local' = local /\ status' = status
    BY <1>2 DEF vars
  <2>2. /\ TwoLayers' = TwoLayers /\ (NothingIsOut' <=> NothingIsOut)
        /\ (Search' <=> SearchIsGood(local'))
    BY <2>1, SameCall, SameSearch
  <2> QED
    BY <2>1, <2>2 DEF SearchInv, Search
<1>3. ASSUME NEW k \in Kinds, CrushSetDisks(k) PROVE FALSE
  <2>1. \E fails : status' = IF fails THEN "crashed" ELSE "ready"
    BY <1>3 DEF CrushSetDisks
  <2> QED
    BY <2>1
<1>4. ASSUME NEW k \in Kinds, CrushCall(k) PROVE Search'
  BY <1>1, <1>4, CrushCallSearches
<1>5. ASSUME NEW k \in Kinds, CrushStep(k) PROVE Search'
  <2>1. ~CrushReturn(k)
    BY DEF CrushReturn
  <2> QED
    BY <1>5, <2>1, ChooseItemSearches, ChooseLeafSearches, JudgeItemSearches DEF CrushStep
<1>6. ~Forget
  BY DEF Forget
<1>7. CASE Ended
  BY <1>2, <1>7 DEF Ended
<1> QED
  BY <1>2, <1>3, <1>4, <1>5, <1>6, <1>7 DEF Next

\* As long as no disk is rejected for its weight, the domains that the exhaustive search of
\* crush_choose asked for without a copy were all taken, and a copy is not given up before
\* the last try of the round with the twentieth.
THEOREM SearchInvariance == Spec => []SearchInv
<1> QED
  BY SearchInit, SearchNext, PTL DEF Spec

\* With two layers and no disk rejected for its weight, crush_choose places a copy in each of
\* the domains that its rounds of searches ask for, or as many copies as are wanted; and
\* never more copies than there are domains.
THEOREM FreeDomains == Spec => []FreeDomainsAreUsed
<1> QED
  BY ChosenAreEnough, SearchInvariance, PTL
================================================================================
