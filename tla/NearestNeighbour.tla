--------------------------- MODULE NearestNeighbour ---------------------------
(***************************************************************************)
(* dadisi/DistNearestNeighbour.cpp: disks own positions on a ring, and an  *)
(* extent goes to the disks of the positions its hash values find.         *)
(***************************************************************************)
EXTENDS Strategy

CONSTANTS
  NNCopies,     \* length of the list -> positions per disk (getNNCopies)
  CutFactor     \* the option -cut

ASSUME NNAssumption ==
  /\ \A l \in AllLists : NNCopies[Len(l)] \in Nat \ {0}
  /\ CutFactor \in Nat \ {0}

NNKinds == {"NearestNeighbour", "NearestNeighbour -cut"}

\* One, or one for each begun CutFactor of the capacity
Multiplicity(k, d) ==
  IF k = "NearestNeighbour" THEN 1
  ELSE d.capacity \div CutFactor + (IF d.capacity % CutFactor = 0 THEN 0 ELSE 1)

\* Mutant of RingClosest: the search does not stop at the key.
RingLast(positions, key) == IF key >= 0 THEN Max(positions) ELSE key

\* ImprovedMap::findClosest
RingClosest(positions, key) ==
  LET below == {p \in positions : p <= key}
  IN  IF below = {} THEN Max(positions) ELSE Max(below)

\* setDisks clears the tables, setDisksMulti computes one position after the other.
NNSetDisks(k, l, c) ==
  /\ Configure(k, l, c, [disk |-> 1, i |-> 0])
  /\ status' = "building"
  /\ table' = [diskDistribution |-> [p \in {} |-> None], keyFinder |-> {}]

\* A position that is taken stays with its disk.
Inserted(distribution, p, id) ==
  [x \in DOMAIN distribution \cup {p} |->
     IF x \in DOMAIN distribution THEN distribution[x] ELSE id]

\* Position i of a disk is any hash value.
NNInsert(k) ==
  /\ Building(k) /\ local.disk <= Len(disks)
  /\ \E p \in 0 .. MaxHash :
       table' = [table EXCEPT !.diskDistribution = Inserted(@, p, disks[local.disk].id)]
  /\ local' = IF local.i + 1 < NNCopies[Len(disks)] * Multiplicity(k, disks[local.disk])
                THEN [local EXCEPT !.i = @ + 1]
                ELSE [disk |-> local.disk + 1, i |-> 0]
  /\ UNCHANGED <<kind, disks, copies, status, lent, result>>

\* Mutant of FinderKeys: the key finder is built after key 0 is added.
FinderKeysWithZero(distribution) == DOMAIN distribution \cup {0}

FinderKeys(distribution) == DOMAIN distribution

NNReturn(k) ==
  /\ Building(k) /\ local.disk > Len(disks)
  /\ table' = [table EXCEPT !.keyFinder = FinderKeys(table.diskDistribution)]
  /\ Built

\* The loop draws again until it finds a disk the extent is not on yet.
NNCall(k) == Call(k, [search |-> TRUE])

NNStep(k) ==
  /\ Placing(k) /\ Len(result) < copies
  /\ \E hash \in 0 .. MaxHash :
       LET pos == RingClosest(table.keyFinder, hash)
       IN  IF pos \notin DOMAIN table.diskDistribution THEN Crash
           ELSE IF table.diskDistribution[pos] \in ToSet(result) THEN Advance(local)
           ELSE Append1(table.diskDistribution[pos], local)

NNFinish(k) == Placing(k) /\ Len(result) = copies /\ Finish

NNNext ==
  \E k \in NNKinds :
    \/ \E l \in Lists[kind], c \in 1 .. MaxCopies : NNSetDisks(k, l, c)
    \/ NNInsert(k) \/ NNReturn(k)
    \/ NNCall(k) \/ NNStep(k) \/ NNFinish(k)

\* Disks an extent can be placed on
NNReached == {table.diskDistribution[p] : p \in DOMAIN table.diskDistribution}
===============================================================================
