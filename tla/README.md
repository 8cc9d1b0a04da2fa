# A verification project for the Data Distribution Simulator

The simulator (library `dadisi`, programs in `perf_eval`) compares strategies that place
the extents of a virtual volume on disks.  This directory holds TLA+ models of its core,
the TLC configurations that check them, and proofs of their most important properties.

    tlc -workers 2 -config MCRandSlice.cfg MCRandSlice      # check a model
    tlapm MapProofs.tla                                     # check proofs

## Inventory

Every strategy implements `Distributor`: `setConfiguration` and `setDisks` build its
tables, `placeExtent(volume, position)` returns the disks of an extent.  Tables are
written by `setDisks` and only read by `placeExtent`, with the exceptions marked `!`.
Everything in this table is modelled; PROJECT.json says how far.

| Component | State | Operations | What makes it correct |
|---|---|---|---|
| `Distributor` | hash algorithms, base message, copies | `setConfiguration`, `setDisks`, `placeExtent`, `save`, `loadDistributor` | distinct disks of the list set last, whatever the strategy; calls return; a loaded object places like the saved one |
| `ImprovedMap` | slices of the key space, each a set of positions; the last key | construct, `findClosest`, destroy | the lookup is the greatest position at or below a key, around the ring |
| `flat_segment_tree` | list of leaves; a search tree over them and a flag | insert front/back, `build_tree`, copy, `search`, `search_tree` | it is a map from keys to values; the list is canonical; a search tree is never used when stale |
| `DistRandSlice` | partitions and their sizes, disks, a segment tree of intervals | `setDisks` (first: cut the space; later: add disks), `placeExtent` | fair shares; table and intervals agree; adding disks moves blocks only to them; retries stay in an extent's own hash inputs |
| `DistShare` | intervals per disk, a nearest-neighbour distributor per border, a key finder; a list of work packages and two locks while `setDisks` runs | `setDisks`, `__runInitThread`, `placeExtent` | a distributor for every border the key finder can return, built from the disks that cover it; no races |
| `DistNearestNeighbour` | positions of disks on a ring, key finder | `setDisks`, `setDisksMulti`, `placeExtent` | a disk at every position; the loop over distinct disks ends |
| `DistRoundRobin` | disks by position | `setDisks`, `placeExtent` | stripes use all disks evenly |
| `DistRedundantShare` | aligned capacities, corrected disks, thresholds | `setDisks`, `placeExtent` | the expected load of each disk is its share; the walk over the disks finds enough of them |
| `DistFastRedundantShare` | a `DistShare` per number of copies left and disk before | `setDisks`, `placeExtent` | the same loads; distinct disks |
| `DistRUSHp/r/t` | clusters of disks, a tree of them (t); one static table (r)! | `setDisks`, `placeExtent` | sampling without replacement; the static table is restored |
| CRUSH buckets | per bucket: last `x`, its permutation as far as computed! | `bucket_perm_choose` | the cache never shows |
| CRUSH map and rule | tree of buckets, weights | `setDisks`, `crush_choose`, `crush_do_rule` | copies in distinct failure domains; a free domain is found |
| `compare`, `test`, `fileDistTester` | extents split over threads, results per thread | loading, running, joining, evaluating | each extent counted once; moves counted consistently; the program ends |

How they interact: `DistShare` builds one `DistNearestNeighbour` per border and finds it
with an `ImprovedMap`; `DistNearestNeighbour` finds its disks with another.
`DistRandSlice` keeps its intervals in a `flat_segment_tree`.  `DistFastRedundantShare`
builds `DistShare` instances.  CRUSH and RUSH stand alone.  The programs use all of them
through `Distributor` only, and delete the lists they pass and get.

Concurrency arises in three places: the threads `DistShare::setDisks` starts to build its
distributors; the threads of `compare` and `test`, which call `placeExtent` on *shared*
distributors (CRUSH, whose buckets are written, takes a mutex in `do_rule`); and the
threads of `fileDistTester`, each of which creates and deletes distributors of its own,
while all of RUSHr's share one static table.  Nothing is persisted while it changes, and
there are no messages, so crash recovery and delivery are no topic here.  Ordering, stale
tables, partial failure of `pthread_create`, rounding, the bounds of the key space and
what a file brings back are.  PROJECT.json lists the hazards one by one.

## Modules

| Module | Models | Role |
|---|---|---|
| `ImprovedMap` | `ImprovedMap.cpp` | construction, one step per slice; lookup as an operator |
| `SegmentMap` | what a segment tree promises | abstract specification |
| `FlatSegmentTree` | `flat_segment_tree.hpp` | the list of leaves; implements `SegmentMap` |
| `SegmentTreeSearch` | `search`, `search_tree`, `flat_segment_tree_node.hpp` | extends `FlatSegmentTree` by the two searches |
| `RandSlice` | `setDisks` of `DistRandSlice.cpp` | composed with `SegmentMap`: its intervals are an instance of it |
| `ShareBuild` | what `DistShare::setDisks` promises | abstract specification |
| `ShareInit` | the thread pool of `DistShare.cpp` | implements `ShareBuild` |
| `Strategy` | `Distributor.h` | what a caller sees of any strategy; the modules below extend it |
| `RoundRobin`, `NearestNeighbour`, `Share`, `RedundantShare`, `FastRedundantShare`, `Rush`, `RandSlicePlacement` | the `Dist*.cpp` of that name | tables, their construction, `placeExtent` step by step |
| `Rationals` | the `mpq_class` of GMP | exact fractions |
| `Placement` | `Distributor::createDistributor` and the callers | all of these strategies behind one interface, with one set of properties |
| `CrushPerm` | `bucket_perm_choose`, the mutex of `do_rule` | one step per statement that touches the bucket |
| `CrushMap` | `DistCRUSH.cpp`, `Builder.cpp`, the choose functions of `mapper.cpp` | the tree of buckets `setDisks` builds |
| `CrushRule` | `crush_choose`, `crush_do_rule` | `placeExtent` of CRUSH, one step per round of a loop |
| `SaveLoad` | `save`, `loadDistributor`, `toXML` and the XML constructors | an object and its loaded twin |
| `Evaluation` | `compare.cpp`, `test.cpp`, `fileDistTester.cpp` | the threads of the programs and their results |
| `NumberFacts` | | lemmas on induction over sets, recursive sequences, sums, ranks, division, products and fractions |
| `MapProofs` | | theorems about the two maps, `ImprovedMap` and `FlatSegmentTree` with `SegmentTreeSearch`, and about the threads that fill Share's, `ShareInit` |
| `RedundantShareProofs` | | lemmas about the numbers of `RedundantShare` and `FastRedundantShare`: alignment, thresholds, areas, loads |
| `CrushProofs` | | theorems about CRUSH, `CrushPerm` and `CrushRule` with `CrushMap` |
| `...Proofs` | | theorems about the module they are named after |
| `MC...` | | constants for TLC |

**ImprovedMap.**  The constructor's locals (`key`, `previousKey`, `firstPlaced`) are
variables: `rest` are the keys the iterator has not reached.  `PlaceSlice` is one
iteration of the loop over the slices, with the carried-over key and the special case of
the last slice, whose end overflows.  `Destroy` lets the program build another map.
Keys have W bits (64 in the program); sums wrap.

**FlatSegmentTree.**  The doubly linked list is a function from the keys of the leaves
to their values.  `Insert` is `insert_segment_impl` with its clipping, for a caller that
may name any keys; `insert_front` and `insert_back` differ in the end the search for the
start node begins at, which does not change the node found.  The right leaf's value is
never read and is left out.  The search tree is modelled by the leaves it was built over
and `valid`; `SegmentTreeSearch` computes the nodes of each level from them the way
`build_tree` pairs them, including a last node with one child.

**RandSlice.**  `AddPartitions` is `add_partitions` up to `redistribute`; the collect and
reuse actions are the iterations of the loops in `collect_free_space(_even_odd)` and
`reuse_free_space(_sort)`; `UpdateMembers` is the end of `add_partitions`.  The collection
without even-odd is the one with `even` always false.  `CutInterval` tests for an
extension of the last free interval before it takes an end, as the code does.
Shares are computed exactly; the doubles of the code are not modelled.

**ShareInit.**  `main` is where `setDisks` is, `thread[w]` where `__runInitThread` is.
The list of packages is the set of those left, of which the front is the one with the
least border: the list is filled in that order.  `front()` and `pop_front()` are two
steps, because that is where the lock matters.  A distributor is represented by the
package it was built from, so that one built for another border or from the disks of
another call can be told apart.  Without threads the same packages are built in the same
order by the caller.  `pthread_create` may fail: the `int` thrown is caught nowhere, and
the process ends.

**Strategy and Placement.**  One object is created, configured - some strategies several
times - and asked for extents.  `status` says whether it is inside a call; `local` are
the locals of that call.  A hash value is an arbitrary number, drawn in the step in which
the code computes it, so that a property holds for every hash function, also one that
gives the same value for every input.  What the code computes with GMP is computed in
exact fractions.  The lists belong to the caller, who deletes them (`DeleteList`) at any
time after `setDisks`.  A read outside of a table, a null pointer, a division by zero or
a failed assertion is the status `crashed`, and `CrashesAreKnown` lists the situations in
which it occurs; `exit(1)` is `exited`.

* `Share` stretches its intervals until each border is covered, and builds the table of
  distributors; a distributor at a border is used by what it promises, any of its disks.
  With `-cnn` and fewer disks than copies the code stretches for ever; the model cycles.
* `NearestNeighbour` inserts positions one by one.  How many a disk gets is a constant per
  length of the list, as are Share's stretch factors: the code computes both from the
  number of disks with logarithms.
* `RedundantShare` computes corrections and thresholds as the code does; `LoadsAreFair`
  compares the loads that follow from them, disk by disk along the walk (`Takes`,
  `PassesOn`), with the loads wanted.  A correction that cannot be computed, or is a
  negative number, which `readUint64_t` refuses, ends `setDisks` (`Fails`).  The caches
  (`RSCache`) memoise pure functions and do not show.
* `FastRedundantShare` uses its `DistShare` objects by what they promise, a disk with area.
* `Rush` has the three variants.  RUSHr's draw from the hypergeometric distribution is any
  number in its range; `RUSHrOther` is another instance being created or destroyed, at any
  time, since that takes no lock.
* `RandSlicePlacement` is `placeExtent` on the table `RandSlice` shows to be right: the
  retries and the range of hash inputs they use up.

**CrushPerm.**  The hash is an arbitrary function chosen initially, reduced modulo as the
code does; `malloc`'s contents are `Undefined`.  A call keeps its locals per thread, and
`Lock` and `Unlock` are the mutex of `do_rule`, the only caller.

**CrushMap and CrushRule.**  A bucket is its items, their weights and the items its
algorithm may draw; `CrushRule` replaces the permutation of a uniform bucket by an
arbitrary permutation, which is what `CrushPerm` shows it to be.  `TreeDraws` computes the
node weights and the walk of a tree bucket, with `num_nodes` in eight bits: `Path` are the
nodes that get an item's weight, `Below` where the walk may go.  `NextLayer` is one round
of the loop over the layers.  `is_out`
reads the weights at a disk's id, as the code does, and past the end of the vector
anything.  Second and further `setDisks` append their weights.

**SaveLoad.**  A table is what it was computed from, the hash function and the list in
force at `setDisks`.  After `Load` both objects get every call (`Both`), as `test` does
when it loads an object and goes on configuring it.  `Losses` lists what a file does not
bring back.  The loading program may lack an algorithm the saving one had.  The two
setters of the hash algorithms undo each other's choice, so their order matters:
`Restored` is the one of the XML constructors.

**Evaluation.**  `Given` is the split of the extents, `StartThread` and `Join` the two
loops of the main thread.  Each thread counts in its own table; `Used` and `Moved...` add
the tables up.  With one thread the main thread does the work itself, which is the same
as a thread that is joined.  Numbers of distributors wrap at `IdModulus` (256).

## Runs

| Run | Shows | Bounds | States |
|---|---|---|---|
| `improved_map` | the lookup equals the definition of the ring predecessor for every key and every finished map; no step before the first element of a set; every construction places all keys | W = 3: all 255 nonempty sets of positions, 1 to 9 slices | 16 k |
| `flat_segment_tree` | every insertion implements the abstract map and keeps the list canonical; both searches return the maximal run of equal values | span 1..6 and keys 0..7, so that segments start and end outside on both sides; two values | 1 k |
| `rand_slice` | after every `setDisks` table and intervals agree and are fair; while it runs the free space equals the demand; blocks move only to new disks; `setDisks` returns | 17 blocks, 5 disks of capacity 1..3 in any grouping, all four combinations of options | 186 k |
| `rand_slice_set_disks` | **violated**: a later `setDisks` adds disks rather than replacing them | as above | |
| `share_init` | no data race on the list or table, no thread without locks, each border's distributor built once from this call's disks, `setDisks` returns or the process ends | up to 3 threads, two disk lists with 3 and 2 borders that overlap; calls repeat forever | 105 k |
| `crush_perm` | a call gets the permutation of its `x` whatever was cached, also with two threads | buckets of 1..4 items, two `x`, every hash function, r up to 4 (wraps), 2 threads | 1030 k |
| `placement` | fourteen strategies with their options: distinct disks of the list; failures only as listed; fair loads; exact tables; calls return | lists of 1..5 disks with capacities 1..3 and one of seven, 1..3 copies, hash values 0..4, three hash inputs per copy, four primes; three strategies configured repeatedly | 131 k |
| `placement_deleted_list` | **violated**: RUSHp uses the disks its caller deleted | RUSHp, as above | |
| `crush_rule` | copies in distinct failure domains; a copy given up only when no domain is left that the search asks for; every call ends | seven maps: all bucket types as root and as domain, 1 to 5 domains, a tree bucket of 65 disks, disks that are out or whose id is no position, a second `setDisks`; 1..3 copies | 290 k |
| `crush_layers` | **violated**: with three layers the result was never written | one map of three layers | |
| `save_load` | a loaded object places and writes what the saved one does, except for the listed losses | 12 strategies, lists of 3 and 1 disks, 1..2 copies, two messages, two algorithms of each sort, one unknown to the loader | 21 k |
| `evaluation` | results are of all extents, moves cover the changes of the disks, the programs come to their results | none to 3 threads, 1..3 extents, lists of 1..4 distributors with numbers that wrap at 3 | 72 k |

Why the bounds are enough.  Three bits give slices that are empty, full, first and last,
one slice (shift by the full width) and as many slices as keys.  Six keys give up to six
leaves under the search tree and the right leaf: one node, nodes with one child, and three
levels.  Seventeen blocks are not a multiple of most total capacities, so that rounding
occurs on both sides, and three successive additions cut intervals that were cut before.
Three threads and three borders include a thread without a package, two threads that
wait for one lock, and more packages than threads.  Four items have a swap with an element
that was already swapped, and an unswapped last one.  Hash values 0..4 let positions
collide, hit key 0 and the greatest value, and intervals wrap and go around several times;
`<<1, 2, 2, 2, 2>>` is a list in which RedundantShare corrects two disks, shorter ones
those in which it corrects none or one, `<<2, 3, 3, 7, 12, 12, 13>>` one in which a
second correction sends a threshold below zero; clusters of one to three disks in orders that are
sorted and mixed give RUSHt trees of up to three leaves with a missing right child; three
inputs per copy are used up by two collisions.  Sixty-five items are one more than a tree
bucket's eight bits can hold, and in maps of three domains and three copies the search for
a free one has to succeed; with five domains it asks for four (`Asked`), with more copies
than the run has.  The theorem `FreeDomains` is for all numbers.  Two copies and three disks are enough for an order of
copies to differ, and a number modulo 3 with four distributors to collide.

Deadlock is checked except in `rand_slice`, where the caller has no more disks to add at
the bound.  A process that has ended stutters by an action of its own.

Fairness.  Each loop that runs inside one call (`PlaceSlice`, `Collect`, `Reuse`,
`Choose(t)`, `Step` of `Placement` and `CrushRule`) is weakly fair: the code does nothing
else until it ends.  A draw of a hash value that brings nothing new leaves the state
unchanged, so weak fairness of `Step` also says that not every draw is unlucky; the code
has a new hash input each time, and no termination without that assumption.  In
`ShareInit` and `Evaluation` each thread and the main thread are weakly fair, as the
operating system schedules them; no fairness of locks is assumed there, because the
packages run out.  In `crush_perm` a thread that has the mutex is let on.  No call by a
caller is fair.

## Proofs

All theorems hold for every value of the constants, under the assumptions named in the
modules.

* `MapProofs`, on `ImprovedMap`: `RingInv` is inductive: the iterator is in step with the slices
  (`IteratorInStep`), and each finished slice holds its keys and the key carried over
  (`SlicesFilled`).  From it follow `LookupIsRingPredecessor` and `NoStepBelowBegin`.
  The type invariant alone says nothing of what an earlier slice left, so the
  strengthening describes the contents of every slice at once.
* `MapProofs`, on `FlatSegmentTree` and `SegmentTreeSearch`: `TreeInv` is `TreeTypeOK`, `Canonical` and `TreeIsFresh`.  Its core is
  the lemma `LeavesAfter`, what an insertion does to the leaves, and `MapAfter`, from
  which `ImplementsMap` (refinement of `SegmentMap`) follows.  `search` returns the longest
  run of a value because the list is canonical.  For `search_tree` the leaves are counted
  by their rank among the keys; each level of nodes covers all leaves, one step down from a
  node whose range has the key keeps the key in range, and the parents of the lowest level
  have both leaves wherever the descent can end (`DescentEndsAtPair`), so that both
  searches agree.
* `MapProofs`, on `ShareInit`: `IInv` adds to the types who holds which lock (`LockHolders`), which
  threads run (`RunningThreads`), that every border is in the list, with one thread or in
  the table (`PackagesAccountedFor`), and that a list found empty stays empty
  (`EndsWhenEmpty`).  From it follow `AccessesAreExclusive`, `LocksOutliveThreads` and the
  refinement of `ShareBuild`: the last join implies an empty list and no package in hand,
  so the table is complete.
* `CrushProofs`, on `CrushPerm`: the permutation of an `x` is a recursive function of how
  far it is computed.  `PermInv` relates the cache to it: the counted elements are those of
  the permutation of `perm_x` (`PermIsDefinedForX`), the marker stands for the one that is
  computed without the others, a thread inside holds the mutex, and a loop that fills the
  cache is between two elements of one permutation.  The types are not inductive alone:
  that an index stays inside the bucket needs that the cache is a permutation.  From
  `PermInv` follow `ReturnsPermutation` and, by `ItemsAreDistinct`, that a call can reach
  every item.  The one assumption is that buckets are smaller than the marker.
* `CrushProofs`, on `CrushRule`: `RuleInv` says that the copies so far are different items
  of the root, each with a leaf of its own (`OutIsGood`), and that what is between two
  steps of `crush_choose` is an item of the root and a disk below it (`LocalIsGood`).
  `CopiesInDistinctDomains` follows because the domains are disjoint runs of the list
  (`LowestLayerIs`, `MapIs`).  That a draw is an item of its bucket at all needs a proof for
  each type: a list takes its first item at the latest, since a scaled draw stays below the
  weight (`ScaledIsBelow`); the walk down a tree ends at a leaf that exists, because a node
  weighs what the leaves under it do and the walk only enters nodes with weight
  (`NodeWeightIs`, `HalvesAdd`, `TreeDrawsAre`).
  `SearchInv` adds, while no disk is rejected, that every place of the random order a
  search asked for has a domain that was taken (`SearchIsGood`), and where in its round the
  count of tries stands.  A copy is given up after the round with the twentieth try
  (`LastTry`).  Different tries of the searches ask for different places of a permutation,
  so the domains taken are as many as `Asked` has (`ChosenAreEnough`), and no more than
  the root has: `FreeDomainsAreUsed`.
* `RandSliceProofs`: `IInv` holds at every step of `setDisks` and says what the phases keep:
  the intervals and the free ones are disjoint and make up the whole space, free ones held
  blocks of old disks only (`FreeSpaceIsOld`), what is collected or filled is the part of
  the demand that is not open (`FreeSpaceMeetsDemand`), and each disk's blocks are its
  share with the rounding errors so far (`FairShares`).  These parts need each other: a
  count does not fall below zero because the demand is met, and the demand is met because
  the sum of all shares is the size of the space.  Sums over disks and intervals are the
  lemmas of `NumberFacts`.  `MovesOnlyToNewDisks`, an action property, follows from the
  table and the free space.
* `SaveLoadProofs`: `IInv` says what a saved object and the loaded one have in common.
  That the two properties hold after loading is not inductive: a call such as
  `setBaseMessage` or a change of the algorithm reveals attributes that did not matter
  before.  So `Related` is stated per strategy and per loss: which attributes agree though
  extents do not, which tables do, and settings that hash alike (`HashAlike`) though one
  object lacks an algorithm not in use.  `Shape` is what each strategy's table holds of
  its object, for instance that RUSH's table is that of its disks.
* `PlacementProofs`: the invariant is that the disks selected so far are different ones of
  the list (`Selected`), with one formula per strategy on what its tables and the locals of
  a call hold.  Most strategies test for a disk selected before; the three arguments are
  those of the strategies that do not.  *RedundantShare* and *FastRedundantShare* walk along
  the disks: the aligned capacities taper (`CPositionsTaper`), so that the copies left are
  never more than the disks left (`LeftDrops`, `EveryDrop`), and the walk ends before the
  disks do (`RSWalk`): the two fail in no extent once `setDisks` built their tables.
  *RUSHp* takes steps of a prime length in a cluster smaller than the prime: the two have no
  common divisor (`GcdCombines`), so the steps differ (`PrimeSteps`); the clusters part the
  list (`ClustersAre`), and a copy that reaches the first cluster stays there
  (`FirstClusterTakes`), so none is left out.  *RUSHr* draws with swaps of a table that is
  the identity before and after (`DrawnDraws`, `RestoredRestores`), and *RUSHt* descends in
  a tree whose levels halve down to one root (`LevelsExist`, `RootIs`).
  A second invariant, `CountsHold`, rests on the first and gives `TablesAreExact` and
  `CrashesAreKnown`.  Share
  counts an interval in the table of each border it passes, once per round it makes of the
  ring: `CountIsPasses` shows that a count by the ends of an interval is the number of
  rounds in which it passes a point, whatever draws came before (`CountsArePasses`).
  RUSH's cluster numbers are the sums of the clusters before (`ServersMatch`), and random
  slicing hashes at most one input per copy beyond those of its extent (`InputsStay`).
  `RUSHFailures` says why RUSH fails; that RUSHp never divides by a modulus of 0 needs that
  some cluster has the average capacity (`HeavyCluster`, `NextModulus`).  `RSFailures` says
  why *RedundantShare* does: a disk is corrected only if it is neither the first nor the last
  and more disks than placed copies come before it, each with a chance below 1
  (`CorrectedIs`), so that the sums of products `r_inner` computes are positive
  (`PIs`, `NextRowIs`, `RInnerIs`) and nothing is divided by 0; the disk before the first
  is read for the second disk only (`CorrectionsFail`).  A single corrected threshold is a
  probability, so that reading it fails only where several collide (`AligningFails`).
  A third, `LoadsHold`, is about *RoundRobin* and the areas of *FastRedundantShare*.
  Numbers in a row, as many as a multiple of the disks, leave each rest equally often
  (`EvenlySpread`), which makes `StripesAreFair`.  An area is the part of a product of chances
  that is lost to the next (`SharesAreChances`).  A fourth, `TablesBuilt`, says that a table is
  what `setDisks` computes from some list; with the two it gives `LoadsAreFair` (`LoadsFair`).
* `RedundantShareProofs` has the argument for it.  What the code computes in fractions is a
  walk in natural numbers: of the product of `b[0] .. b[i - 1]` chances, `u[i][m]` come to
  disk `i` with `m` copies left after a disk that took none, and `v[i][m]` just after a copy
  (`Walk`).  The weight of a walk is the number of copies left, and the average load of a disk is
  the weight it takes away (`WeightedStep`, `LoadValue`).  If every disk takes its part of
  the aligned capacities from it on, the weight before each disk is that of the capacities
  left, and every load is fair (`PartsStay`, `LoadIsFair`).  A disk takes its part at
  once if no threshold exceeds 1 (`PlainTaken`).  One that would exceed it takes too little with
  all the copies it can meet, and the corrected threshold adds just what is missing:
  `R`, computed backwards from the disk, counts the walks that reach it (`BackwardMeets`,
  `RValue`), so that `Ki` is the gap (`KiValue`) and `checkCStar` closes it
  (`StarValue`, `CorrectedTaken`).  It is a probability, because the gap is no more than those
  who come just after a copy with one copy less (`StarIsChance`).  The recursive sums are
  characterised by their equations, and those are compared by induction over the disks.
  The walk of *FastRedundantShare* ends where a copy is taken: an area is the part of those who come
  from one disk that stop at another (`AreaValues`), so its loads are those of the same walk
  (`DrawsAreFair`).  The areas telescope over one common denominator
  (`AreasAddUp`); before the last disk all chances are below 1, and there the chance is at
  least 1 (`ChancesAre`), so that it takes exactly the rest.
* `EvaluationProofs`: `IInv` says that the shares of the threads divide the extents
  (`BeforeIs`), that each thread stands at an extent of its own share (`Position`), and that
  its tables are the counts of exactly those it has placed (`TablesAreOfPlaced`).  The sums of
  the results run over threads; `SumOfParts` turns them into sums over extents, which is
  `ResultsAreOfAllExtents`.  For `MovesCoverChanges` the copies an added disk got are among
  those that moved to it in any order (`CountedAtMostMoved`); for the disks removed, an
  extent with different disks in both lists gets as many new ones as it loses
  (`EquallyManyNew`), and a copy that kept its disk but not its place is a move only with
  order (`MovesAreInOrder`).
* `NumberFacts`: induction and recursion over the natural numbers and over subsets, stated
  for sets instead of formulas (a least counterexample), recursive sequences upwards and
  downwards, folds, ranks in a finite set, sums over finite sets and over the classes they
  are parted into, division, products, and fractions and their sums (`FractionSumValue`).
* Assumptions: nonempty spans and key sets, borders that are natural numbers, at least one
  thread, lists that name each disk once, a null that is none of the objects or tables, an even number
  of primes in ascending order, clusters smaller than the primes RUSHp hashes to (the 5001st
  and later ones), disks with ids that are not negative, as a negative item is a bucket;
  all are evaluated by TLC in the runs.

Only model-checked: liveness (`ConstructionCompletes`, both `SetDisksReturns`,
`CallsReturn`, `CallsEnd`, `CrushCallsEnd`, `ComesToResults`), which the prover does not
handle.  Every other property of a passing run is proved for all values of the constants.

## Findings

* `src/dadisi/DistRandSlice.cpp:137`: the second `setDisks` adds its disks, where
  `src/dadisi/Distributor.h:207` promises that those of the list are now used.
* `src/dadisi/DistRUSHp.cpp:200`: RUSHp keeps the caller's `Disk` objects, where
  `Distributor.h:182` says a distributor copies them and the caller deletes its own, as
  `fileDistTester` does.
* `src/dadisi/mapper.cpp:371`: `continue` in a `do ... while (retry_bucket)` leaves the
  loop, so that `crush_choose` takes a bucket of another type than the one asked for
  (`mapper.cpp:279`) and writes no leaf (`mapper.cpp:289`).  Three layers are needed.

What the models found besides, and the properties name as known exceptions because no
doc says otherwise: `CrashesAreKnown` lists the situations in which a strategy fails, among
them RedundantShare with several corrected disks, since no correction takes the others into
account and one may come out negative (`CorrectionsCollide`),
`CanEnd` those in which it loops for ever, `Losses` what saving loses, `Asked` the
failure domains CRUSH's search asks for: all but one of five, all of another number below
fifteen, and half of a greater number and five more, so that of sixteen domains three may
stay free though a copy is given up; and
`ResultsAreOfAllExtents` that every thread of `fileDistTester` begins with file 0.

## Plan

1. `ImprovedMap`, `FlatSegmentTree`, `RandSlice`, `ShareInit`, `CrushPerm` with their
   abstract specifications, runs and proofs: done.
2. The strategies behind one interface, CRUSH's map and rule, save and load, the
   evaluation programs: done.
3. Proofs of `RandSlice`, `CrushPerm`, `SaveLoad`, the searches of `SegmentTreeSearch` and
   `PlacesDistinctDisks`, `TablesAreExact` and `CrashesAreKnown`, strategy by strategy: done.
4. Proofs of the split of the extents in `Evaluation` and of the moves: done.
5. Proofs of CRUSH: the domains of the copies, and the search for a free one: done.
6. Proofs of the loads of `RedundantShare` and `FastRedundantShare`: done.

## Not modelled

* Hash functions: arbitrary values stand for them.  The table of primes: a short one does.
  The probability of a random draw, as in the hypergeometric sampling of RUSHr and the
  lengths of CRUSH's straws: every outcome that can occur does.
* The number of positions per disk (`-cut`, nearest neighbour) and Share's stretch factor:
  constants, computed in doubles by the code.
* XML and sqlite access and their errors, command lines, timing, statistics and reports.
  Malformed files are refused or read as defaults by Xerces, which is outside of `src/`.
* `test_rand_slice_grow`: a script of `setDisks` calls to random slicing, whose sequences
  are those of `RandSlice`.
* `flat_segment_tree::shift_left`, `shift_right` and `operator==`, CRUSH's removal of
  items, its indep mode: called by nothing in the repository.
* Build scripts.
