-------------------------- MODULE FastRedundantShare --------------------------
(***************************************************************************)
(* dadisi/DistFastRedundantShare.cpp: the disk of the next copy is drawn   *)
(* by one DistShare per number of copies left and disk of the copy before, *)
(* over the disks from the next one to the last that can be reached.  A    *)
(* DistShare with one copy is the choice of any disk with an area.         *)
(***************************************************************************)
EXTENDS RedundantShare

\* lastDisk[l]: the first disk that takes a copy for certain with l + 1 left.
LastDisk(check, n, c) ==
  LET left == Left(check, n, c)
  IN  [l \in 0 .. c - 1 |->
         Min({i \in 0 .. n - 1 : left[i] = l + 1 /\ left[i + 1] = l} \cup {n})]

(* createShare: the areas of the disks first .. last; the last one gets    *)
(* the rest, unless its own chance is less.                                *)
Areas(check, first, last, k) ==
  LET factor[i \in first .. last] ==
        IF i = first THEN One
        ELSE Times(factor[i - 1], Minus(One, Scaled(k, check[i - 1])))
      area(i) == Times(factor[i], Scaled(k, check[i]))
      rest == Minus(One, SumOver([i \in first .. last - 1 |-> area(i)]))
  IN  [i \in first .. last |-> IF i < last THEN area(i) ELSE Least(rest, area(last))]

(* initShareStructures: one share for the first copy, then one for each    *)
(* disk that can hold the copy before; the key of the first is 0.          *)
Shares(t, c) ==
  LET last == LastDisk(t.check, Cardinality(DOMAIN t.disks), c)
      first(l) == IF l = c THEN {0} ELSE c - l .. last[l - 1]
  IN  [l \in 1 .. c |->
         [i \in first(l) |-> Areas(t.check, i, last[l - 1], l)]]

\* setDisks configures a DistRedundantShare of its own first.
FRSSetDisks(l, c) ==
  /\ Configure("FastRedundantShare", l, c, None)
  /\ LET t == Aligning(l, c, FALSE)
     IN  IF Len(l) < c \/ Fails(t, c)
           THEN status' = "crashed" /\ table' = None
           ELSE /\ status' = "ready"
                /\ table' = [disks |-> t.disks, cPosition |-> t.cPosition,
                             kError |-> t.kError, shares |-> Shares(t, c)]

FRSCall == Call("FastRedundantShare", [l |-> copies, i |-> 0])

(* The share is found by the disk of the copy before; operator[] returns a *)
(* null pointer for a disk without one.                                    *)
FRSStep ==
  /\ Placing("FastRedundantShare") /\ local.l > 0
  /\ IF local.i \notin DOMAIN table.shares[local.l]
       THEN Crash
       ELSE LET areas == table.shares[local.l][local.i]
            IN  \E i \in DOMAIN areas :
                  /\ Less(Zero, areas[i])
                  /\ Append1(table.disks[i].id, [l |-> local.l - 1, i |-> i + 1])

FRSReturn == Placing("FastRedundantShare") /\ local.l = 0 /\ Finish

FRSNext ==
  \/ \E l \in Lists[kind], c \in 1 .. MaxCopies : FRSSetDisks(l, c)
  \/ FRSCall \/ FRSStep \/ FRSReturn

FRSLoad(t, c) ==
  LET taken[l \in 1 .. c] ==
        [i \in DOMAIN t.disks |->
           LET before == {s \in DOMAIN t.shares[l] : i \in DOMAIN t.shares[l][s]}
           IN  SumOver([s \in before |->
                 Times(IF l = c THEN One ELSE taken[l + 1][s - 1], t.shares[l][s][i])])]
  IN  [i \in DOMAIN t.disks |-> SumOver([l \in 1 .. c |-> taken[l][i]])]

(* The areas of a share are its disks' chances, and together they are one: *)
(* none is lost where the last disk gets the rest.                         *)
AreasAreChances ==
  kind = "FastRedundantShare" /\ table # None =>
    \A l \in DOMAIN table.shares : \A i \in DOMAIN table.shares[l] :
      LET areas == table.shares[l][i]
      IN  /\ \A d \in DOMAIN areas : AtMost(Zero, areas[d])
          /\ SumOver(areas) = One

\* The loads are fair, too, if nothing had to be corrected.
FRSFair ==
  /\ AreasAreChances
  /\ kind = "FastRedundantShare" /\ table # None /\ Corrected(table) = {} =>
       FRSLoad(table, copies) = FairLoad(table, copies)
===============================================================================
