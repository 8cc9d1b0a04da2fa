----------------------------- MODULE MCShareInit -----------------------------
(* Up to three threads, and two arguments of setDisks with borders they    *)
(* share and borders only one of them has.  The calls do not end.          *)
EXTENDS ShareInit

CONSTANTS d1, d2

MCDiskList == {d1, d2}
MCBorders == [d \in MCDiskList |-> IF d = d1 THEN {0, 2, 3} ELSE {2, 5}]
MCThreads == 3

==============================================================================
