-------------------------- MODULE RandSlicePlacement --------------------------
(***************************************************************************)
(* dadisi/DistRandSlice.cpp, placeExtent: the extent at a position has a   *)
(* range of Offset hash inputs of its own, of which each try uses one.     *)
(* What setDisks does is in module RandSlice; here every disk of the list  *)
(* has a partition.                                                        *)
(***************************************************************************)
EXTENDS Strategy

CONSTANTS
  Offset        \* hash inputs per position (200)

ASSUME OffsetAssumption == Offset \in Nat \ {0}

RandSliceSetDisks(l, c) ==
  /\ Configure("RandSlice", l, c, None)
  /\ status' = "ready" /\ table' = Ids(l)

RandSliceCall == Call("RandSlice", [idx |-> 0])

\* assert(idx <= offset), after idx was increased
MayRetry(idx) == idx + 1 <= Offset

\* One hash value: a new partition, or one that is selected already.
RandSliceStep ==
  /\ Placing("RandSlice") /\ Len(result) < copies
  /\ \E id \in table :
       IF id \notin ToSet(result) THEN Append1(id, [idx |-> local.idx + 1])
       ELSE IF MayRetry(local.idx) THEN Advance([idx |-> local.idx + 1])
       ELSE Crash

RandSliceReturn == Placing("RandSlice") /\ Len(result) = copies /\ Finish

RandSliceNext ==
  \/ \E l \in Lists[kind], c \in 1 .. MaxCopies : RandSliceSetDisks(l, c)
  \/ RandSliceCall \/ RandSliceStep \/ RandSliceReturn

(* An extent uses the inputs of its own range, and at most copies - 1 of   *)
(* the next one's: idx is the number of inputs used.                       *)
InputsStayInRange ==
  kind = "RandSlice" /\ local # None => local.idx < Offset + copies
===============================================================================
