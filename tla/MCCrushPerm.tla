----------------------------- MODULE MCCrushPerm -----------------------------
(* Buckets of one to four items, two values of x, and every hash function, *)
(* for two threads on one distributor, as compare.cpp -Tn 2 runs them.     *)
EXTENDS CrushPerm

CONSTANTS t1, t2

TwoThreads == {t1, t2}
MCX == {0, 1}
MCSize == 4

==============================================================================
