---------------------------- MODULE MCImprovedMap ----------------------------
(* A key space of 8 keys, with every set of positions and every number of  *)
(* slices a caller can ask for, the ones above the number of keys          *)
(* included.                                                               *)
EXTENDS ImprovedMap

MCW == 3

==============================================================================
