--------------------------- MODULE FlatSegmentTree ---------------------------
(***************************************************************************)
(* dadisi/flat_segment_tree.hpp: a map from a span of keys to values, kept *)
(* as a linked list of leaves.  A leaf is the start of a segment and       *)
(* carries its value; the segment ends at the next leaf.                   *)
(*                                                                         *)
(* leaf is the list: its domain are the keys of the leaves, in the order   *)
(* of the list.  The right leaf, at MAX, is always there and its value is  *)
(* never read, so it is left out of leaf.  The search tree over the list   *)
(* is modelled by the leaves it was built from; module SegmentTreeSearch   *)
(* says how they are paired up.                                            *)
(***************************************************************************)
EXTENDS Integers, FiniteSetsExt

CONSTANTS
  MIN, MAX,     \* m_left_leaf's key and m_right_leaf's
  Key,          \* key_type: the keys a caller can name
  Value,        \* values of a segment
  InitVal       \* m_init_val

ASSUME SpanAssumption == MIN \in Nat /\ MAX \in Nat /\ MIN < MAX
ASSUME KeyAssumption == Key \in SUBSET Int
ASSUME ValueAssumption == InitVal \in Value

VARIABLES
  leaf,         \* key of a leaf -> its value
  tree,         \* the leaves build_tree last paired up, under m_root_node
  valid         \* m_valid_tree

treeVars == <<leaf, tree, valid>>

NoTree == [k \in {} |-> InitVal]

Leaves == DOMAIN leaf
Span == MIN .. MAX - 1

\* The leaf of the segment that holds x.
SegmentStart(x) == Max({k \in Leaves : k <= x})

SegmentValue(x) == leaf[SegmentStart(x)]

--------------------------------------------------------------------------------

\* The constructor: one segment from the left leaf to the right leaf.
TreeInit ==
  /\ leaf = [k \in {MIN} |-> InitVal]
  /\ tree = NoTree
  /\ valid = FALSE

\* insert_segment_impl: the segment before the new one has its value, so the new
\* segment needs no leaf of its own.
ExtendsLeft(start_key, val) == start_key > MIN /\ SegmentValue(start_key - 1) = val

\* Mutant of JoinsRight: a leaf at the end of the new segment always stays.
JoinsRightBetweenLeaves(end_key, val) ==
  end_key < MAX /\ end_key \notin Leaves /\ SegmentValue(end_key) = val

\* What is left of the segment that end_key cuts, or that starts at end_key, has
\* the new value and loses its leaf.  The right leaf stays.
JoinsRight(end_key, val) == end_key < MAX /\ SegmentValue(end_key) = val

\* Mutant of InsertSegment: a leaf right behind the new segment is lost.
InsertSegmentDroppingNext(start_key, end_key, val) ==
  LET kept == {k \in Leaves : k < start_key \/ end_key + 1 < k}
      starts == IF ExtendsLeft(start_key, val) THEN {} ELSE {start_key}
      ends == IF end_key = MAX \/ JoinsRight(end_key, val) THEN {} ELSE {end_key}
  IN  leaf' = [k \in kept \cup starts \cup ends |->
                 IF k = start_key THEN val
                 ELSE IF k = end_key THEN SegmentValue(end_key)
                 ELSE leaf[k]]

\* Mutant of InsertSegment: a segment that ends with the span leaves a leaf there.
InsertSegmentPastEnd(start_key, end_key, val) ==
  LET kept == {k \in Leaves : k < start_key \/ end_key < k}
      starts == IF ExtendsLeft(start_key, val) THEN {} ELSE {start_key}
      ends == IF JoinsRight(end_key, val) THEN {} ELSE {end_key}
  IN  leaf' = [k \in kept \cup starts \cup ends |->
                 IF k = start_key THEN val
                 ELSE IF k = end_key THEN SegmentValue(end_key)
                 ELSE leaf[k]]

\* The leaves from start_key to end_key make room for the new segment.
InsertSegment(start_key, end_key, val) ==
  LET kept == {k \in Leaves : k < start_key \/ end_key < k}
      starts == IF ExtendsLeft(start_key, val) THEN {} ELSE {start_key}
      ends == IF end_key = MAX \/ JoinsRight(end_key, val) THEN {} ELSE {end_key}
  IN  leaf' = [k \in kept \cup starts \cup ends |->
                 IF k = start_key THEN val
                 ELSE IF k = end_key THEN SegmentValue(end_key)
                 ELSE leaf[k]]

\* Mutant of Insert: a segment that needs no new leaf leaves the tree valid.
InsertTrustingTree(start_key, end_key, val) ==
  LET from == IF start_key < MIN THEN MIN ELSE start_key
      to == IF end_key > MAX THEN MAX ELSE end_key
  IN  IF end_key < MIN \/ start_key > MAX \/ from >= to
        THEN UNCHANGED treeVars
        ELSE /\ InsertSegment(from, to, val)
             /\ valid' = (valid /\ from \in Leaves /\ to \in Leaves \cup {MAX})
             /\ UNCHANGED tree

\* insert_front and insert_back search the insertion position from either end of
\* the list and find the same one.  A segment is clipped to the span; one that is
\* empty, inverted or outside changes nothing, the tree's validity included.
Insert(start_key, end_key, val) ==
  LET from == IF start_key < MIN THEN MIN ELSE start_key
      to == IF end_key > MAX THEN MAX ELSE end_key
  IN  IF end_key < MIN \/ start_key > MAX \/ from >= to
        THEN UNCHANGED treeVars
        ELSE /\ InsertSegment(from, to, val)
             /\ valid' = FALSE
             /\ UNCHANGED tree

\* build_tree: the non-leaf nodes are built anew from the leaves.
BuildTree ==
  /\ tree' = leaf
  /\ valid' = TRUE
  /\ UNCHANGED leaf

\* The copy constructor copies the leaves alone.
Copy ==
  /\ tree' = NoTree
  /\ valid' = FALSE
  /\ UNCHANGED leaf

TreeNext ==
  \/ \E start_key, end_key \in Key, val \in Value : Insert(start_key, end_key, val)
  \/ BuildTree
  \/ Copy

TreeSpec == TreeInit /\ [][TreeNext]_treeVars

--------------------------------------------------------------------------------

\* The type invariant: every leaf lies in the span.
TreeTypeOK ==
  /\ Leaves \in SUBSET Span
  /\ leaf \in [Leaves -> Value]
  /\ DOMAIN tree \in SUBSET Span
  /\ tree \in [DOMAIN tree -> Value]
  /\ valid \in BOOLEAN

\* The list is canonical: it starts at MIN, and no leaf repeats the value of the
\* segment before it.  A segment is then as long as it can be, and two trees with
\* the same content have the same leaves, which is what operator== compares.
Canonical ==
  /\ MIN \in Leaves
  /\ \A k \in Leaves \ {MIN} : leaf[k] # SegmentValue(k - 1)

\* A valid tree was built from the leaves as they are.
TreeIsFresh == valid => tree = leaf

\* The inductive invariant.
TreeInv == TreeTypeOK /\ Canonical /\ TreeIsFresh

\* The list of leaves implements the map of keys to values.
Segments == INSTANCE SegmentMap WITH map <- [x \in Span |-> SegmentValue(x)]

\* Every step changes exactly the keys of the segment handed to insert_front or
\* insert_back, whatever leaves the segment cuts, covers or touches.
ImplementsSegmentMap == Segments!Spec
================================================================================
