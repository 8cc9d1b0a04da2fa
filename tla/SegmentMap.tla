------------------------------ MODULE SegmentMap ------------------------------
(***************************************************************************)
(* What a flat segment tree promises: a total map from the keys of a base  *)
(* span to values, changed one half-open segment at a time.                *)
(***************************************************************************)
EXTENDS Integers

CONSTANTS
  MIN, MAX,     \* the base span is MIN .. MAX - 1
  Key,          \* the keys a caller can name, inside the span or not
  Value,        \* what a segment can carry
  InitVal       \* the value of a fresh map

VARIABLE map

Span == MIN .. MAX - 1

TypeOK == map \in [Span -> Value]

Init == map = [x \in Span |-> InitVal]

\* Keys start_key up to, not including, end_key get the value.
Insert(start_key, end_key, val) ==
  map' = [x \in Span |-> IF start_key <= x /\ x < end_key THEN val ELSE map[x]]

Next ==
  \E start_key, end_key \in Key, val \in Value : Insert(start_key, end_key, val)

Spec == Init /\ [][Next]_map
===============================================================================
