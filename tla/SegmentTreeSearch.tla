-------------------------- MODULE SegmentTreeSearch --------------------------
(***************************************************************************)
(* The two lookups of dadisi/flat_segment_tree.hpp: search walks the list  *)
(* of leaves, search_tree descends the tree that build_tree pairs up over  *)
(* it (flat_segment_tree_node.hpp).                                        *)
(*                                                                         *)
(* Level 0 of the tree is the list, right leaf included; node j of level l *)
(* is the parent of the nodes 2j - 1 and 2j of the level below, and the    *)
(* last node of a level of odd length has a parent of its own.  A lookup   *)
(* that fails answers NotFound.                                            *)
(***************************************************************************)
EXTENDS FlatSegmentTree

NotFound == [found |-> FALSE]

\* value, start_key and end_key of the segment that starts at leaf k of a list.
SegmentFrom(list, k) ==
  [found |-> TRUE, value |-> list[k], start_key |-> k,
   end_key |-> Min({j \in DOMAIN list \cup {MAX} : j > k})]

--------------------------------------------------------------------------------

search(key) ==
  IF key < MIN \/ MAX <= key THEN NotFound
  ELSE LET pos == Min({k \in Leaves \cup {MAX} : key <= k})
       IN  IF pos = key THEN SegmentFrom(leaf, pos)
                        ELSE SegmentFrom(leaf, Max({k \in Leaves : k < pos}))

--------------------------------------------------------------------------------

\* Number of leaves under the tree, and the key of the n-th of them.
Length == Cardinality(DOMAIN tree) + 1

KeyAt(n) ==
  CHOOSE k \in DOMAIN tree \cup {MAX} :
    Cardinality({j \in DOMAIN tree : j < k}) = n - 1

\* Number of nodes of a level.  Even a single pair of leaves gets a parent.
LevelSize[level \in Nat] ==
  IF level = 0 THEN Length ELSE (LevelSize[level - 1] + 1) \div 2

Height == Min({level \in 1 .. Length : LevelSize[level] = 1})

\* Leaves under a node that is not the last of its level
Width[level \in Nat] == IF level = 0 THEN 1 ELSE 2 * Width[level - 1]

\* fill_nonleaf_value: a node's range starts with its first leaf and ends where
\* the leaf after its last one starts, or with its last one if none follows.
FirstLeaf(level, j) == (j - 1) * Width[level] + 1
low(level, j) == KeyAt(FirstLeaf(level, j))

\* Mutant of high: the range ends with the node's last leaf.
HighOfLastLeaf(level, j) ==
  LET last == j * Width[level]
  IN  KeyAt(IF last < Length THEN last ELSE Length)

high(level, j) ==
  LET next == j * Width[level] + 1
  IN  KeyAt(IF next < Length THEN next ELSE Length)

Covers(level, j, key) == low(level, j) <= key /\ key < high(level, j)

\* The number of the last parent on the way down, 0 when the way ends before.
Descend(key) ==
  LET node[level \in Nat] ==    \* the node of the level the descent reaches
        IF level >= Height THEN 1
        ELSE LET left == 2 * node[level + 1] - 1
                 right == left + 1
             IN  IF node[level + 1] = 0 THEN 0
                 ELSE IF Covers(level, left, key) THEN left
                 ELSE IF right <= LevelSize[level] /\ Covers(level, right, key)
                   THEN right
                 ELSE 0
  IN  node[1]

search_tree(key) ==
  IF tree = NoTree \/ ~valid \/ key < MIN \/ MAX <= key \/ Descend(key) = 0 THEN NotFound
  ELSE LET left == 2 * Descend(key) - 1
           key1 == KeyAt(left)
           key2 == KeyAt(left + 1)
       IN  IF key1 <= key /\ key < key2 THEN SegmentFrom(tree, key1)
           ELSE IF key2 <= key /\ key < high(1, Descend(key)) THEN SegmentFrom(tree, key2)
           ELSE NotFound

--------------------------------------------------------------------------------

\* The longest run of keys around key that have its value.
RunOf(key) ==
  CHOOSE r \in (MIN .. MAX - 1) \X (MIN + 1 .. MAX) :
        /\ r[1] <= key /\ key < r[2]
        /\ \A x \in r[1] .. r[2] - 1 : SegmentValue(x) = SegmentValue(key)
        /\ r[1] = MIN \/ SegmentValue(r[1] - 1) # SegmentValue(key)
        /\ r[2] = MAX \/ SegmentValue(r[2]) # SegmentValue(key)

\* search finds, for every key of the span, its value and the whole run of keys
\* that share it; outside the span it finds nothing.
SearchFindsRun ==
  \A key \in Key :
    search(key) =
      IF key \in Span
        THEN [found |-> TRUE, value |-> SegmentValue(key),
              start_key |-> RunOf(key)[1], end_key |-> RunOf(key)[2]]
        ELSE NotFound

\* A valid tree answers every key as the list does, for every number of leaves:
\* the descent of search_tree never ends between two nodes, nor at the last pair
\* when the second of it is missing.
TreeAgreesWithList ==
  valid => \A key \in Key : search_tree(key) = search(key)

\* The descent never ends at a parent that has one leaf only: search_tree reads
\* both of them (flat_segment_tree.hpp, the assertion on is_leaf).
DescentEndsAtPair ==
  valid => \A key \in Span :
             Descend(key) # 0 /\ 2 * Descend(key) <= Length
================================================================================
