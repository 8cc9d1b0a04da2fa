------------------------------- MODULE CrushMap -------------------------------
(***************************************************************************)
(* dadisi/DistCRUSH.cpp, buildCrushMap, and Builder.cpp: the tree of       *)
(* buckets that setDisks builds from the layers.  The lowest layer cuts    *)
(* the list of disks into failure domains, every layer above it has one    *)
(* bucket.  An item is a disk (its id) or a bucket (the negative of its    *)
(* position in the map, the id the code gives it).  A bucket is modelled   *)
(* by its items, their weights and the items each algorithm may draw; the  *)
(* hash value behind a draw is arbitrary.                                  *)
(***************************************************************************)
EXTENDS Strategy

CONSTANT MaxWeights   \* bound of the model: disks in all lists before the last one

\* A strategy of this module is [layers, ndom]: the bucket type of each layer, from the
\* lowest, and the number of failure domains, 0 for the default.
DefaultLayers == <<"uniform", "straw">>
Domains(k) == IF k.ndom = 0 THEN 10 ELSE k.ndom

\* A negative item is a bucket, so no disk has a negative id; nor is None an item.
ASSUME LayersAssumption ==
  /\ \A k \in Kinds : /\ k.layers \in Seq({"uniform", "list", "tree", "straw"})
                      /\ Len(k.layers) > 0 /\ k.ndom \in Nat
  /\ \A l \in AllLists : \A n \in DOMAIN l : l[n].id \in Nat
  /\ None \notin Int

Total(w) == SumFunction(w)

--------------------------------------------------------------------------------
\* Trees: the leaf of item k is node 2k - 1, and 2^h divides the nodes of height h.

Height(n) == CHOOSE h \in 0 .. n : n % (2^h) = 0 /\ n % (2^(h + 1)) # 0
Parent(n) == LET h == Height(n)
             IN  IF (n \div (2^(h + 1))) % 2 = 1 THEN n - 2^h ELSE n + 2^h
LeftOf(n) == n - 2^(Height(n) - 1)
RightOf(n) == n + 2^(Height(n) - 1)

Depth(size) == CHOOSE d \in 1 .. size + 1 : 2^(d - 1) >= size /\ (d > 1 => 2^(d - 2) < size)

\* num_nodes has eight bits.
NumNodes(size) == (2^Depth(size)) % 256

\* A weight is added to its leaf and to the depth - 1 nodes above it.
Path(k, depth) ==
  LET path[d \in 1 .. depth] == IF d = 1 THEN 2 * k - 1 ELSE Parent(path[d - 1])
  IN  path

NodeWeights(b) ==
  LET size == Len(b.items)
      depth == Depth(size)
  IN  [n \in 1 .. 2^depth - 1 |->
        Total([k \in 1 .. size |-> IF n \in Range(Path(k, depth)) THEN b.weights[k] ELSE 0])]

\* A point below the weight of a node goes left if it is below the weight of the left.
Below(w, n) ==
  {m \in {LeftOf(n)} : w[m] > 0} \cup {m \in {RightOf(n)} : w[n] > w[LeftOf(n)]}

TreeDraws(b) ==
  LET w == NodeWeights(b)
      depth == Depth(Len(b.items))
      level[d \in 1 .. depth] ==
        IF d = 1 THEN {NumNodes(Len(b.items)) \div 2}
        ELSE UNION {Below(w, n) : n \in level[d - 1]}
  IN  {b.items[n \div 2 + 1] : n \in level[depth]}

--------------------------------------------------------------------------------

\* From the end of the list, an item is taken if a sixteen-bit draw, scaled to the sum
\* of the weights up to it, is below its weight.  An assertion fails if none is.
ListDraws(b) ==
  LET sum(n) == Total(SubSeq(b.weights, 1, n))
      passed(n) == (65535 * sum(n)) \div 65536 >= b.weights[n]
      reached(n) == \A m \in n + 1 .. Len(b.items) : passed(m)
  IN  {b.items[n] : n \in {m \in DOMAIN b.items : reached(m) /\ b.weights[m] > 0}}
        \cup {None : n \in {m \in {1} : reached(m) /\ passed(m)}}

\* The longest of the drawn straws, the first of equals.  An item without weight has a
\* straw of length 0; the other lengths only weigh the draw.
StrawDraws(b) == {b.items[n] : n \in {m \in DOMAIN b.items : m = 1 \/ b.weights[m] > 0}}

\* The items crush_bucket_choose may return.
Draws(b) == CASE b.alg = "list" -> ListDraws(b)
              [] b.alg = "tree" -> TreeDraws(b)
              [] b.alg = "straw" -> StrawDraws(b)

--------------------------------------------------------------------------------

Bucket(alg, type, items, weights) ==
  [alg |-> alg, type |-> type, items |-> items, weights |-> weights]

\* The failure domains, each a run of nper disks of the list.
LowestLayer(k, l) ==
  LET nper == (Len(l) - 1) \div Domains(k) + 1
      run(g) == SubSeq(l, (g - 1) * nper + 1, IF g * nper < Len(l) THEN g * nper ELSE Len(l))
  IN  [g \in 1 .. (Len(l) - 1) \div nper + 1 |->
        Bucket(k.layers[1], 1, [n \in DOMAIN run(g) |-> run(g)[n].id],
                               [n \in DOMAIN run(g) |-> run(g)[n].capacity])]

\* Every other layer takes all buckets of the layer below into one.
NextLayer(k, n, below) ==
  LET first == IF n = 2 THEN 1 ELSE Len(below)
      item(m) == first + m - 1
      places == 1 .. Len(below) - first + 1
  IN  Append(below, Bucket(k.layers[n], n, [m \in places |-> -item(m)],
                                           [m \in places |-> Total(below[item(m)].weights)]))

BuildCrushMap(k, l) ==
  LET map[n \in DOMAIN k.layers] ==
        IF n = 1 THEN LowestLayer(k, l) ELSE NextLayer(k, n, map[n - 1])
  IN  map[Len(k.layers)]

\* A tree of more than 64 items gets no nodes, and its weights are written nowhere.
BuildFails(map) ==
  \E n \in DOMAIN map : map[n].alg = "tree" /\ NumNodes(Len(map[n].items)) = 0

\* The map is replaced; disk_weights keeps what earlier calls appended.
CrushSetDisks(k) ==
  \E l \in Lists[k], c \in 1 .. MaxCopies :
    LET map == BuildCrushMap(k, l)
        before == IF table = None THEN <<>> ELSE table.weights
    IN  /\ Len(before) <= MaxWeights
        /\ Configure(k, l, c, None)
        /\ table' = [buckets |-> map,
                     weights |-> before \o [n \in DOMAIN l |-> l[n].capacity]]
        /\ status' = IF BuildFails(map) THEN "crashed" ELSE "ready"
===============================================================================
