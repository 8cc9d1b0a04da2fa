------------------------------ MODULE RandSlice ------------------------------
(***************************************************************************)
(* dadisi/DistRandSlice.cpp: random slicing.  The virtual blocks           *)
(* 0 .. VSPACE_MAX - 1 are partitioned among the disks in proportion to    *)
(* their capacities.  The first setDisks cuts the space; every later one   *)
(* adds disks: it collects from the old partitions the blocks they have    *)
(* too many and gives them to the new partitions.                          *)
(*                                                                         *)
(* A partition has the id of its disk, and the caller numbers the disks    *)
(* 0, 1, 2, ... in the order it adds them (compute_interval_sizes indexes  *)
(* a vector with the ids).  Shares are exact: the rounding of doubles is   *)
(* not modelled.  VSPACE_MAX is 2^64 - 1 in the program.                   *)
(***************************************************************************)
EXTENDS Integers, Sequences, SequencesExt

CONSTANTS
  VSPACE_MAX,   \* number of virtual blocks
  MaxDisks,     \* bound of the model: disks a caller adds in all
  MaxCapacity   \* bound of the model: capacity of a disk

ASSUME SpaceAssumption == VSPACE_MAX \in Nat \ {0}
ASSUME BoundAssumption == MaxDisks \in Nat \ {0} /\ MaxCapacity \in Nat \ {0}

\* Only create_partitions asserts that a block is at most a unit of capacity; with
\* 2^64 - 1 blocks no system of disks comes near it.
ASSUME CapacityAssumption == MaxDisks * MaxCapacity <= VSPACE_MAX

VARIABLES
  even_odd,       \* m_use_even_odd_collection
  sort_free,      \* m_use_sorted_assimilation
  pc,             \* "idle", "collect" or "reuse": where setDisks is
  disks,          \* m_disks: id -> capacity
  partitions,     \* m_partitions: id -> number of blocks
  capacity,       \* m_capacity
  owner,          \* m_interval_tree: block -> partition
  new_disks,      \* the argument of the last setDisks
  old_partitions, \* id -> number of blocks still to take from it
  new_partitions, \* list of the partitions to create, each with its size
  last_low,       \* start of the interval to look at next
  free_space,     \* list of the intervals [first, second) collected
  even,           \* even-odd: take the next interval's end
  last_complete,  \* even-odd: the last interval was taken as a whole
  part,           \* position in new_partitions
  free,           \* position in free_space
  psize           \* blocks the partition at hand still needs

members == <<disks, partitions, capacity>>
arguments == <<even_odd, sort_free, new_disks>>
collection == <<old_partitions, last_low, even, last_complete>>
assimilation == <<part, free, psize>>
vars == <<pc, members, owner, arguments, collection, new_partitions, free_space,
          assimilation>>

Block == 0 .. VSPACE_MAX - 1
Id == 0 .. MaxDisks - 1

\* m_interval_tree, as flat_segment_tree promises it.
Tree == INSTANCE SegmentMap
          WITH MIN <- 0, MAX <- VSPACE_MAX, Key <- 0 .. VSPACE_MAX, Value <- Id,
               InitVal <- 0, map <- owner

\* Mutant of Share: it is rounded up.
ShareRoundedUp(disk_capacity, total) ==
  (disk_capacity * VSPACE_MAX + total - 1) \div total

\* floor(p * VSPACE_MAX): the blocks of a disk in a system of a total capacity.
Share(disk_capacity, total) == (disk_capacity * VSPACE_MAX) \div total

\* The argument of setDisks: some disks with the next ids.  An empty list is not
\* one: the code takes its front or its back.
NewDisks ==
  LET n == Cardinality(DOMAIN disks)
  IN  UNION {[n .. m -> 1 .. MaxCapacity] : m \in n .. MaxDisks - 1}

--------------------------------------------------------------------------------

\* The constructor.
Init ==
  /\ even_odd \in BOOLEAN
  /\ sort_free \in BOOLEAN
  /\ pc = "idle"
  /\ disks = <<>>
  /\ partitions = <<>>
  /\ capacity = 0
  /\ owner = [x \in Block |-> 0]
  /\ new_disks = <<>>
  /\ old_partitions = <<>>
  /\ new_partitions = <<>>
  /\ last_low = 0
  /\ free_space = <<>>
  /\ even = FALSE
  /\ last_complete = FALSE
  /\ part = 1
  /\ free = 1
  /\ psize = 0

\* create_partitions: each disk gets the interval behind the one before it, and
\* the last one all that is left.
CreatePartitions(added) ==
  LET total == SumFunction(added)
      start(d) == SumFunctionOnSet([i \in DOMAIN added |-> Share(added[i], total)],
                                   {i \in DOMAIN added : i < d})
      end(d) == IF d + 1 \in DOMAIN added THEN start(d + 1) ELSE VSPACE_MAX
  IN  /\ disks = <<>>
      /\ pc = "idle"
      /\ total <= VSPACE_MAX
      /\ disks' = added
      /\ capacity' = total
      /\ partitions' = [d \in DOMAIN added |-> end(d) - start(d)]
      /\ owner' = [x \in Block |->
                     CHOOSE d \in DOMAIN added : start(d) <= x /\ x < end(d)]
      /\ new_disks' = added
      /\ UNCHANGED <<pc, even_odd, sort_free, collection, new_partitions, free_space,
                     assimilation>>

\* Mutant of AddPartitions: the new shares are taken of the old total.
AddPartitionsOfOldTotal(added) ==
  LET total == capacity + SumFunction(added)
      lost == [d \in DOMAIN partitions |-> partitions[d] - Share(disks[d], total)]
      gained == [d \in DOMAIN added |-> Share(added[d], capacity)]
      first == Min(DOMAIN added)
      list == [n \in 1 .. Cardinality(DOMAIN added) |->
                 [pid |-> first + n - 1, size |-> gained[first + n - 1]]]
      r == SumFunction(lost) - SumFunction(gained)
  IN  /\ disks # <<>>
      /\ pc = "idle"
      /\ old_partitions' = lost
      /\ partitions' = [d \in DOMAIN partitions |-> Share(disks[d], total)]
      /\ new_partitions' = [list EXCEPT ![Len(list)].size = @ + r]
      /\ new_disks' = added
      /\ last_low' = 0
      /\ free_space' = <<>>
      /\ even' = FALSE
      /\ last_complete' = FALSE
      /\ pc' = "collect"
      /\ UNCHANGED <<disks, capacity, owner, even_odd, sort_free, assimilation>>

\* add_partitions up to redistribute: what every old partition loses and every
\* new one gets, the rounding errors going to the last of them.
AddPartitions(added) ==
  LET total == capacity + SumFunction(added)
      lost == [d \in DOMAIN partitions |-> partitions[d] - Share(disks[d], total)]
      gained == [d \in DOMAIN added |-> Share(added[d], total)]
      first == Min(DOMAIN added)
      list == [n \in 1 .. Cardinality(DOMAIN added) |->
                 [pid |-> first + n - 1, size |-> gained[first + n - 1]]]
      r == SumFunction(lost) - SumFunction(gained)
  IN  /\ disks # <<>>
      /\ pc = "idle"
      /\ old_partitions' = lost
      /\ partitions' = [d \in DOMAIN partitions |-> Share(disks[d], total)]
      /\ new_partitions' = [list EXCEPT ![Len(list)].size = @ + r]
      /\ new_disks' = added
      /\ last_low' = 0
      /\ free_space' = <<>>
      /\ even' = FALSE
      /\ last_complete' = FALSE
      /\ pc' = "collect"
      /\ UNCHANGED <<disks, capacity, owner, even_odd, sort_free, assimilation>>

--------------------------------------------------------------------------------
(* collect_free_space and collect_free_space_even_odd.                     *)

\* The end of the interval of the tree that starts at low.
IntervalEnd(low) ==
  Min({x \in low + 1 .. VSPACE_MAX : x = VSPACE_MAX \/ owner[x] # owner[low]})

\* The interval at last_low starts where the last free one ends.
Extends == free_space # <<>> /\ Last(free_space).second = last_low

\* A free interval is appended, or extends the last one.
AddFree(first, second) ==
  free_space' =
    IF Extends
      THEN Append(Front(free_space), [first |-> Last(free_space).first, second |-> second])
      ELSE Append(free_space, [first |-> first, second |-> second])

\* Mutant of SkipInterval: the loop does not move on.
SkipIntervalInPlace ==
  /\ pc = "collect"
  /\ last_low < VSPACE_MAX
  /\ old_partitions[owner[last_low]] = 0
  /\ last_low' = last_low
  /\ UNCHANGED <<pc, members, owner, arguments, old_partitions, even, last_complete,
                 new_partitions, free_space, assimilation>>

\* The partition of the interval has given enough.
SkipInterval ==
  /\ pc = "collect"
  /\ last_low < VSPACE_MAX
  /\ old_partitions[owner[last_low]] = 0
  /\ last_low' = IntervalEnd(last_low)
  /\ UNCHANGED <<pc, members, owner, arguments, old_partitions, even, last_complete,
                 new_partitions, free_space, assimilation>>

\* The interval is smaller than what its partition has to give.
TakeInterval ==
  LET pid == owner[last_low]
      high == IntervalEnd(last_low)
      size == high - last_low
  IN  /\ pc = "collect"
      /\ last_low < VSPACE_MAX
      /\ old_partitions[pid] # 0
      /\ size < old_partitions[pid]
      /\ AddFree(last_low, high)
      /\ old_partitions' = [old_partitions EXCEPT ![pid] = @ - size]
      /\ even' = (even /\ ~last_complete)
      /\ last_complete' = even_odd
      /\ last_low' = high
      /\ UNCHANGED <<pc, members, owner, arguments, new_partitions, assimilation>>

\* Mutant of CutInterval: the end is taken even of an interval that extends the last
\* free one.
CutIntervalEnd ==
  LET pid == owner[last_low]
      high == IntervalEnd(last_low)
      size == old_partitions[pid]
  IN  /\ pc = "collect"
      /\ last_low < VSPACE_MAX
      /\ size # 0
      /\ high - last_low >= size
      /\ IF even THEN AddFree(high - size, high)
                ELSE AddFree(last_low, last_low + size)
      /\ old_partitions' = [old_partitions EXCEPT ![pid] = 0]
      /\ even' = (even_odd /\ ~even)
      /\ last_complete' = FALSE
      /\ last_low' = high
      /\ UNCHANGED <<pc, members, owner, arguments, new_partitions, assimilation>>

\* The interval is cut.  Even-odd collection takes the end of every second one,
\* unless its start extends the last free interval.
CutInterval ==
  LET pid == owner[last_low]
      high == IntervalEnd(last_low)
      size == old_partitions[pid]
  IN  /\ pc = "collect"
      /\ last_low < VSPACE_MAX
      /\ size # 0
      /\ high - last_low >= size
      /\ IF even /\ ~Extends THEN AddFree(high - size, high)
                             ELSE AddFree(last_low, last_low + size)
      /\ old_partitions' = [old_partitions EXCEPT ![pid] = 0]
      /\ even' = (even_odd /\ ~even)
      /\ last_complete' = FALSE
      /\ last_low' = high
      /\ UNCHANGED <<pc, members, owner, arguments, new_partitions, assimilation>>

\* list::sort by decreasing size is stable: elements of one size keep their order.
SortBySize(list, size) ==
  LET Before(i, j) == size[i] > size[j] \/ (size[i] = size[j] /\ i < j)
      place(i) == Cardinality({j \in DOMAIN list : Before(j, i)}) + 1
  IN  [n \in DOMAIN list |-> list[CHOOSE i \in DOMAIN list : place(i) = n]]

\* reuse_free_space, and reuse_free_space_sort, which first sorts both lists.
StartReuse ==
  /\ pc = "collect"
  /\ last_low = VSPACE_MAX
  /\ IF sort_free
       THEN /\ free_space' =
                 SortBySize(free_space, [n \in DOMAIN free_space |->
                                           free_space[n].second - free_space[n].first])
            /\ new_partitions' =
                 SortBySize(new_partitions, [n \in DOMAIN new_partitions |->
                                               new_partitions[n].size])
       ELSE UNCHANGED <<free_space, new_partitions>>
  /\ pc' = "reuse"
  /\ part' = 1
  /\ free' = 1
  /\ psize' = new_partitions'[1].size
  /\ UNCHANGED <<members, owner, arguments, collection>>

--------------------------------------------------------------------------------
(* reuse_free_space: one iteration of its inner loop.                      *)

isize == free_space[free].second - free_space[free].first

\* The guard of the inner loop.
Assimilating ==
  /\ pc = "reuse"
  /\ free <= Len(free_space)
  /\ psize > 0

SkipUsed ==
  /\ Assimilating
  /\ isize = 0
  /\ free' = free + 1
  /\ UNCHANGED <<pc, members, owner, arguments, collection, new_partitions, free_space,
                 part, psize>>

\* Mutant of AssimilatePartially: the free interval keeps the blocks handed out.
AssimilateWithoutShrinking ==
  LET first == free_space[free].first
  IN  /\ Assimilating
      /\ isize > psize
      /\ Tree!Insert(first, first + psize, new_partitions[part].pid)
      /\ UNCHANGED free_space
      /\ psize' = 0
      /\ free' = free + 1
      /\ UNCHANGED <<pc, members, arguments, collection, new_partitions, part>>

AssimilatePartially ==
  LET first == free_space[free].first
  IN  /\ Assimilating
      /\ isize > psize
      /\ Tree!Insert(first, first + psize, new_partitions[part].pid)
      /\ free_space' = [free_space EXCEPT ![free].first = @ + psize]
      /\ psize' = 0
      /\ free' = free + 1
      /\ UNCHANGED <<pc, members, arguments, collection, new_partitions, part>>

\* Mutant of AssimilateCompletely: the free interval is not emptied.
AssimilateWithoutClearing ==
  /\ Assimilating
  /\ isize # 0
  /\ isize <= psize
  /\ Tree!Insert(free_space[free].first, free_space[free].second,
                 new_partitions[part].pid)
  /\ UNCHANGED free_space
  /\ psize' = psize - isize
  /\ free' = free + 1
  /\ UNCHANGED <<pc, members, arguments, collection, new_partitions, part>>

AssimilateCompletely ==
  /\ Assimilating
  /\ isize # 0
  /\ isize <= psize
  /\ Tree!Insert(free_space[free].first, free_space[free].second,
                 new_partitions[part].pid)
  /\ free_space' = [free_space EXCEPT ![free] = [first |-> 0, second |-> 0]]
  /\ psize' = psize - isize
  /\ free' = free + 1
  /\ UNCHANGED <<pc, members, arguments, collection, new_partitions, part>>

\* The inner loop is over.
NextPartition ==
  /\ pc = "reuse"
  /\ ~Assimilating
  /\ part < Len(new_partitions)
  /\ part' = part + 1
  /\ free' = 1
  /\ psize' = new_partitions[part + 1].size
  /\ UNCHANGED <<pc, members, owner, arguments, collection, new_partitions, free_space>>

\* The last partition is done: add_partitions updates the members.
UpdateMembers ==
  LET size(d) == (CHOOSE p \in ToSet(new_partitions) : p.pid = d).size
  IN  /\ pc = "reuse"
      /\ ~Assimilating
      /\ part = Len(new_partitions)
      /\ disks' = [d \in DOMAIN disks \cup DOMAIN new_disks |->
                     IF d \in DOMAIN new_disks THEN new_disks[d] ELSE disks[d]]
      /\ partitions' = [d \in DOMAIN partitions \cup DOMAIN new_disks |->
                          IF d \in DOMAIN new_disks THEN size(d) ELSE partitions[d]]
      /\ capacity' = capacity + SumFunction(new_disks)
      /\ pc' = "idle"
      /\ UNCHANGED <<owner, arguments, collection, new_partitions, free_space,
                     assimilation>>

--------------------------------------------------------------------------------

Collect == SkipInterval \/ TakeInterval \/ CutInterval \/ StartReuse
Reuse == \/ SkipUsed \/ AssimilatePartially \/ AssimilateCompletely
         \/ NextPartition \/ UpdateMembers

Next ==
  \/ \E added \in NewDisks : CreatePartitions(added) \/ AddPartitions(added)
  \/ Collect
  \/ Reuse

\* setDisks runs to its end once it is called.
Spec == Init /\ [][Next]_vars /\ WF_vars(Collect) /\ WF_vars(Reuse)

\* search_tree finds no interval for the key VSPACE_MAX, and partition_id keeps
\* its default.
Lookup(key) == IF key \in Block THEN owner[key] ELSE 0

--------------------------------------------------------------------------------

\* The type invariant.  No count of blocks, which the code keeps unsigned, is ever
\* negative.
TypeOK ==
  /\ pc \in {"idle", "collect", "reuse"}
  /\ even_odd \in BOOLEAN /\ sort_free \in BOOLEAN
  /\ DOMAIN disks \in {0 .. n - 1 : n \in 0 .. MaxDisks}
  /\ disks \in [DOMAIN disks -> 1 .. MaxCapacity]
  /\ partitions \in [DOMAIN disks -> 0 .. VSPACE_MAX]
  /\ capacity \in 0 .. VSPACE_MAX
  /\ owner \in [Block -> Id]
  /\ old_partitions \in [DOMAIN old_partitions -> 0 .. VSPACE_MAX]
  /\ new_partitions \in Seq([pid : Id, size : 0 .. VSPACE_MAX])
  /\ last_low \in 0 .. VSPACE_MAX
  /\ free_space \in Seq([first : 0 .. VSPACE_MAX, second : 0 .. VSPACE_MAX])
  /\ even \in BOOLEAN /\ last_complete \in BOOLEAN
  /\ part \in Nat /\ free \in Nat
  /\ psize \in 0 .. VSPACE_MAX

BlocksOf(d) == {x \in Block : owner[x] = d}

\* Between two calls of setDisks the partition table and the interval tree agree:
\* every disk owns as many blocks as its entry says, and some, and no block is
\* owned by anything else (verify_partitions, compute_interval_sizes).
TableMatchesTree ==
  pc = "idle" /\ disks # <<>> =>
    /\ \A d \in DOMAIN disks : partitions[d] = Cardinality(BlocksOf(d)) /\ partitions[d] > 0
    /\ \A x \in Block : owner[x] \in DOMAIN disks

\* Every disk has its exact share of the blocks, rounded down, but for the rounding
\* errors of all disks together, which are less than one block for each
\* (verify_partitions compares the proportions).
FairShares ==
  pc = "idle" =>
    \A d \in DOMAIN disks :
      partitions[d] - Share(disks[d], capacity) \in 0 .. Cardinality(DOMAIN disks) - 1

Sizes(list) == SumFunction([n \in DOMAIN list |-> list[n].second - list[n].first])

\* While the free space is handed out, what is left of it is what the partition at
\* hand and those after it still need: no new partition is left short and no block
\* stays behind, in either order of the lists.
FreeSpaceMeetsDemand ==
  pc = "reuse" =>
    Sizes(free_space) =
      psize + SumFunctionOnSet([n \in DOMAIN new_partitions |-> new_partitions[n].size],
                               part + 1 .. Len(new_partitions))

\* The free intervals do not overlap, and nothing of them has been handed out.
FreeSpaceIsOld ==
  \A m \in DOMAIN free_space :
    /\ free_space[m].first <= free_space[m].second
    /\ \A x \in free_space[m].first .. free_space[m].second - 1 :
         owner[x] \in DOMAIN disks
    /\ \A n \in DOMAIN free_space :
         m # n => \/ free_space[m].second <= free_space[n].first
                  \/ free_space[n].second <= free_space[m].first
                  \/ free_space[n].first = free_space[n].second
                  \/ free_space[m].first = free_space[m].second

\* Adding disks moves a block only to one of the new disks, and no block twice:
\* no data moves between the disks that were there.
MovesOnlyToNewDisks ==
  [][\A x \in Block :
       \/ owner'[x] = owner[x]
       \/ disks = <<>>
       \/ owner[x] \in DOMAIN disks /\ owner'[x] \notin DOMAIN disks]_vars

\* Distributor.h documents the argument of setDisks as "The Disks, that now should be
\* used": after every call the distributor uses these disks and no others.
DisksAreTheOnesSet == pc = "idle" => DOMAIN disks = DOMAIN new_disks

\* Every setDisks returns.
SetDisksReturns == pc # "idle" ~> pc = "idle"
================================================================================
