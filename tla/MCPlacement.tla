------------------------------ MODULE MCPlacement ------------------------------
(* Lists of disks for Placement, chosen for what the strategies tell apart. *)
EXTENDS Placement

MCKinds ==
  RRKinds \cup NNKinds \cup ShareKinds \cup RSKinds \cup RUSHKinds
    \cup {"FastRedundantShare", "RandSlice"}
MCRebuilt == {"RoundRobin", "RedundantShare", "RUSHp"}

ListOf(caps) == [k \in DOMAIN caps |-> [id |-> k, capacity |-> caps[k]]]

\* Up to four disks in ascending order, a list with two corrected disks, and one whose
\* corrections collide
Ascending ==
  {c \in UNION {[1 .. n -> 1 .. 3] : n \in 1 .. 4} : \A i \in 1 .. Len(c) - 1 : c[i] <= c[i + 1]}
    \cup {<<1, 2, 2, 2, 2>>, <<2, 3, 3, 7, 12, 12, 13>>}
\* Clusters of several sizes and orders, also mixed ones
Clustered ==
  {<<1>>, <<1, 2>>, <<1, 1, 1>>, <<2, 2, 2, 1, 1>>, <<1, 2, 3>>, <<3, 2, 1>>, <<1, 2, 1, 2>>}
Few == {<<1>>, <<2, 1>>, <<1, 1, 2>>}

MCLists ==
  [k \in MCKinds |->
     {ListOf(c) : c \in IF k \in RSKinds \cup {"FastRedundantShare"} THEN Ascending
                        ELSE IF k \in RUSHKinds THEN Clustered
                        ELSE Few}]

MCNNCopies == [n \in 1 .. 7 |-> IF n = 2 THEN 2 ELSE 1]
MCStretchHalves == [n \in 1 .. 7 |-> IF n = 1 THEN 2 ELSE 3]
MCPrimes == <<2, 3, 5, 7>>
===============================================================================
