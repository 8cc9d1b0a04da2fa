----------------------------- MODULE MCRandSlice -----------------------------
(* Seventeen blocks, so that few shares are exact, and up to five disks of  *)
(* capacities 1 to 3, added in every way in one to five calls, under each   *)
(* of the four combinations of options.                                     *)
EXTENDS RandSlice

MCSpace == 17
MCDisks == 5
MCCapacity == 3
================================================================================
