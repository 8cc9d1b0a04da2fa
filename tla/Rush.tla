--------------------------------- MODULE Rush ---------------------------------
(***************************************************************************)
(* dadisi/DistRUSHp.cpp, DistRUSHr.cpp and DistRUSHt.cpp: disks of one     *)
(* capacity are a cluster, and an extent goes from the last cluster down   *)
(* (RUSHp, RUSHr) or along a tree (RUSHt) to the cluster of its disks.     *)
(* Weights are exact where the code computes with doubles.                 *)
(***************************************************************************)
EXTENDS Strategy, Rationals

CONSTANTS
  Primes        \* Prime::primes, in ascending order

RUSHKinds == {"RUSHp", "RUSHr", "RUSHt"}

\* The places in the list of the disks of one capacity
SameCapacity(l, capacity) == {n \in DOMAIN l : l[n].capacity = capacity}

ASSUME PrimesAssumption ==
  /\ Primes \in Seq(Nat) /\ Len(Primes) > 0 /\ Len(Primes) % 2 = 0
  /\ \A n \in DOMAIN Primes :
       Primes[n] > 1 /\ \A d \in 2 .. Primes[n] - 1 : Primes[n] % d # 0
  /\ \A m, n \in DOMAIN Primes : m < n => Primes[m] < Primes[n]

\* A cluster is smaller than the 5001st prime, the lowest one RUSHp hashes to.
ASSUME ClustersAssumption ==
  \A k \in Kinds \cap RUSHKinds : \A l \in Lists[k] : \A n \in DOMAIN l :
    Cardinality(SameCapacity(l, l[n].capacity)) < Primes[(Len(Primes) \div 2) + 1]

---------------------------------------------------------------------------
(* setDisks: clusters in the order in which their capacities first appear. *)
Ordered(S) ==
  [i \in 1 .. Cardinality(S) |-> CHOOSE n \in S : Cardinality({m \in S : m < n}) = i - 1]

Capacities(l) ==
  LET places == Ordered({n \in DOMAIN l : \A m \in 1 .. n - 1 : l[m].capacity # l[n].capacity})
  IN  [j \in DOMAIN places |-> l[places[j]].capacity]

Clusters(l) ==
  LET caps == Capacities(l)
  IN  [j \in DOMAIN caps |->
         LET places == Ordered(SameCapacity(l, caps[j]))
         IN  [i \in DOMAIN places |-> l[places[i]]]]

\* Capacity of a disk of the cluster over the average one
Weights(l) ==
  LET caps == Capacities(l)
  IN  [j \in DOMAIN caps |-> Ratio(caps[j] * Len(l), TotalCapacity(l))]

\* cumulative_servers of the clusters before cluster j
ServersBefore(clusters, j) ==
  SumFunctionOnSet([i \in DOMAIN clusters |-> Len(clusters[i])], 1 .. j - 1)

\* A cluster with fewer disks than copies ends the process.
TooSmall(l, c) == \E j \in DOMAIN Clusters(l) : Len(Clusters(l)[j]) < c

\* init_choices
Identity(n) == [i \in 0 .. n - 1 |-> i]

(* getMPrimej and getNPrimej: the weight of cluster j and of those before  *)
(* it, summed up in an integer.                                            *)
MPrime(clusters, weights, j) == Scaled(Len(clusters[j]), weights[j])
NPrime(mPrime, j) ==
  LET sum[i \in 0 .. j - 1] ==
        IF i = 0 THEN 0 ELSE Truncated(1, Plus(<<sum[i - 1], 1>>, mPrime[i]))
  IN  sum[j - 1]

\* What RUSHp takes the rest of z by
Modulus(mPrime, j) == Truncated(1, Plus(<<NPrime(mPrime, j), 1>>, mPrime[j]))

RUSHSetDisks(k, l, c) ==
  /\ Configure(k, l, c, None)
  /\ IF TooSmall(l, c) THEN status' = "exited" /\ table' = None
     ELSE LET clusters == Clusters(l)
              mPrime == [j \in DOMAIN clusters |-> MPrime(clusters, Weights(l), j)]
          IN  /\ status' = "ready"
              /\ table' = [clusters |-> clusters, mPrime |-> mPrime,
                           modulus |-> [j \in DOMAIN clusters |-> Modulus(mPrime, j)],
                           alldisks |-> l, choices |-> Identity(Len(l))]

---------------------------------------------------------------------------
(* RUSHp takes its disks from the clusters, which hold the caller's ones.  *)

\* Mutant of HashedPrimes: from the whole table
AllPrimes == ToSet(Primes)

\* getPrimeNumberIntHash: one of the upper half of the table
HashedPrimes == {Primes[n] : n \in (Len(Primes) \div 2) + 1 .. Len(Primes)}

(* The hash values of cluster j for this extent, the same for each of its  *)
(* copies: z, whether z is rounded up, and p.                              *)
Dice == [z : 0 .. MaxHash, up : {0, 1}, p : HashedPrimes]

RUSHpCall ==
  \E x \in 0 .. MaxHash :
    Call("RUSHp", [x |-> x, r |-> 0, j |-> Len(table.clusters),
                   dice |-> [j \in {} |-> 0]])

RUSHpRoll ==
  /\ Placing("RUSHp") /\ local.r < copies
  /\ local.j \notin DOMAIN local.dice
  /\ \E dice \in Dice : 
       Advance([local EXCEPT !.dice = [j \in DOMAIN @ \cup {local.j} |->
                                         IF j = local.j THEN dice ELSE @[j]]])

\* The loop goes on; after the last cluster the copy is left out.
NextCluster ==
  IF local.j > 1 THEN [local EXCEPT !.j = @ - 1]
  ELSE [local EXCEPT !.r = @ + 1, !.j = Len(table.clusters)]

\* The loop of RUSHp for copy r, cluster j: take a disk or go to the next cluster.
RUSHpStep ==
  /\ Placing("RUSHp") /\ local.r < copies
  /\ local.j \in DOMAIN local.dice
  /\ LET j == local.j
         cluster == table.clusters[j]
         d == local.dice[j]
         v == local.x + d.z + d.up + local.r * d.p
     IN  IF table.modulus[j] = 0 THEN Crash
         ELSE IF ~Less(<<(d.z + local.r * d.p) % table.modulus[j], 1>>, table.mPrime[j])
                THEN Advance(NextCluster)
         ELSE IF ~lent THEN Crash
         ELSE Append1(cluster[(v % Len(cluster)) + 1].id,
                      [local EXCEPT !.r = @ + 1, !.j = Len(table.clusters)])

---------------------------------------------------------------------------
(* RUSHr: from each cluster a number of disks at once, drawn without       *)
(* replacement out of n_choices, a table that all instances share.         *)
RUSHrCall == Call("RUSHr", [j |-> Len(table.clusters), remaining |-> copies])

\* The swaps of draw_k_of_n; choice[i] is below n - i.
Drawn(choices, k, n, choice) ==
  LET after[i \in 0 .. k] ==
        IF i = 0 THEN choices
        ELSE LET c == after[i - 1]
             IN  [c EXCEPT ![n - i] = c[choice[i - 1]], ![choice[i - 1]] = c[n - i]]
  IN  after[k]

\* Mutant of Restored: only the drawn places are reset.
TailRestored(choices, k, n) ==
  [i \in DOMAIN choices |-> IF i \in n - k .. n - 1 THEN i ELSE choices[i]]

\* The loop at the end of draw_k_of_n, which brings back the identity
Restored(choices, k, n) ==
  LET after[i \in 0 .. k] ==
        IF i = 0 THEN choices
        ELSE LET c == after[i - 1]
                 place == n - k + i - 1
                 clean == IF c[place] < n - k THEN [c EXCEPT ![c[place]] = c[place]] ELSE c
             IN  [clean EXCEPT ![place] = place]
  IN  after[k]

(* One cluster: disks the clusters before cannot take are mandatory, of    *)
(* the others i_sample draws any number.  The draw holds a mutex.          *)
RUSHrStep ==
  /\ Placing("RUSHr") /\ local.remaining > 0
  /\ LET j == local.j
         before == ServersBefore(table.clusters, j)
         servers == Len(table.clusters[j])
         mandatory == Max({0, local.remaining - before})
     IN  \E number \in mandatory .. local.remaining :
           IF number > 0 /\ ~(0 .. servers - 1 \subseteq DOMAIN table.choices)
             THEN Crash
             ELSE \E choice \in {f \in [0 .. number - 1 -> 0 .. servers - 1] :
                                   \A i \in DOMAIN f : f[i] < servers - i} :
                    LET drawn == Drawn(table.choices, number, servers, choice)
                        disk(i) == table.alldisks[before + drawn[servers - number + i - 1] + 1]
                    IN  /\ result' = result \o [i \in 1 .. number |-> disk(i).id]
                        /\ table' = [table EXCEPT
                                       !.choices = Restored(drawn, number, servers)]
                        /\ local' = [j |-> j - 1, remaining |-> local.remaining - number]
                        /\ UNCHANGED <<kind, disks, copies, status, lent>>

(* Another instance replaces the shared table by one of its own size when  *)
(* its disks are set, and frees it (size 0) when it is deleted; neither    *)
(* waits for a call that draws from one cluster after the other.           *)
RUSHrOther ==
  /\ kind = "RUSHr"
  /\ status = "placing" \/ (status = "ready" /\ result = <<>>)
  /\ \E n \in {0} \cup {Len(l) : l \in Lists[kind]} :
       table' = [table EXCEPT !.choices = Identity(n)]
  /\ UNCHANGED <<kind, disks, copies, status, lent, local, result>>

---------------------------------------------------------------------------
(* RUSHt: clusters are the leaves of a tree; a level with an odd number of *)
(* nodes ends with a parent that has no right child.                       *)
Leaves(t) ==
  [j \in DOMAIN t.clusters |-> [cluster |-> j, weight |-> t.mPrime[j]]]

\* init_internal_node
Parents(nodes) ==
  [i \in 1 .. (Len(nodes) + 1) \div 2 |->
     IF 2 * i <= Len(nodes)
       THEN [left |-> nodes[2 * i - 1], right |-> nodes[2 * i],
             weight |-> Plus(nodes[2 * i - 1].weight, nodes[2 * i].weight)]
       ELSE [left |-> nodes[2 * i - 1], right |-> None,
             weight |-> nodes[2 * i - 1].weight]]

\* construct_tree
Root(t) ==
  LET level[n \in Nat] == IF n = 0 THEN Leaves(t) ELSE Parents(level[n - 1])
      top == CHOOSE n \in 0 .. Len(t.clusters) : Len(level[n]) = 1
  IN  level[top][1]

\* getLowestPrimeIndex: the first prime above the largest cluster
LowestPrime(t) ==
  Min({n \in DOMAIN Primes : \A j \in DOMAIN t.clusters : Primes[n] > Len(t.clusters[j])})

RUSHtCall == Call("RUSHt", [node |-> Root(table)])

\* get_subcluster: one node; the hash values are the same for every copy.
RUSHtDescend ==
  /\ Placing("RUSHt") /\ "left" \in DOMAIN local.node
  /\ \E hash \in 0 .. MaxHash :
       LET node == local.node
       IN  IF Less(Ratio(hash, MaxHash), Over(node.left.weight, node.weight))
             THEN Advance([node |-> node.left])
           ELSE IF node.right = None THEN Crash
           ELSE Advance([node |-> node.right])

\* rusht in the cluster: all copies of the extent
RUSHtPlace ==
  /\ Placing("RUSHt") /\ "cluster" \in DOMAIN local.node
  /\ \E key \in 0 .. MaxHash, n \in LowestPrime(table) .. Len(Primes) :
       LET j == local.node.cluster
           server(r) == ServersBefore(table.clusters, j)
                          + ((key + (r - 1) * Primes[n]) % Len(table.clusters[j]))
       IN  result' = [r \in 1 .. copies |-> table.alldisks[server(r) + 1].id]
  /\ status' = "ready" /\ local' = None
  /\ UNCHANGED <<kind, disks, copies, table, lent>>

---------------------------------------------------------------------------
RUSHReturn ==
  \/ Placing("RUSHp") /\ local.r = copies /\ Finish
  \/ Placing("RUSHr") /\ local.remaining = 0 /\ Finish

RUSHNext ==
  \/ \E k \in RUSHKinds : \E l \in Lists[kind], c \in 1 .. MaxCopies : RUSHSetDisks(k, l, c)
  \/ RUSHpCall \/ RUSHpRoll \/ RUSHpStep
  \/ RUSHrCall \/ RUSHrStep \/ RUSHrOther
  \/ RUSHtCall \/ RUSHtDescend \/ RUSHtPlace
  \/ RUSHReturn

(* The server numbers of a cluster are its disks, if the list has the      *)
(* disks of a capacity next to each other; RUSHr leaves n_choices in order.*)
Grouped(l) ==
  \A a, b, c \in DOMAIN l :
    a < b /\ b < c /\ l[a].capacity = l[c].capacity => l[b].capacity = l[a].capacity

ServersMatchClusters ==
  kind \in RUSHKinds /\ table # None =>
    /\ Grouped(table.alldisks) =>
         \A j \in DOMAIN table.clusters : \A i \in DOMAIN table.clusters[j] :
           table.alldisks[ServersBefore(table.clusters, j) + i] = table.clusters[j][i]
    /\ \A i \in DOMAIN table.choices : table.choices[i] = i
===============================================================================
