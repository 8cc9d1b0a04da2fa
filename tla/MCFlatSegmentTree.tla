-------------------------- MODULE MCFlatSegmentTree --------------------------
(* A span of five keys and two values, with segments that start and end    *)
(* inside, at the ends of and outside the span.  Up to six leaves make a   *)
(* tree of three levels, with and without nodes that have no sibling.      *)
EXTENDS SegmentTreeSearch

CONSTANTS a, b

MCMin == 1
MCMax == 6
MCKey == 0 .. 7
MCValue == {a, b}
================================================================================
