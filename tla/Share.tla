--------------------------------- MODULE Share ---------------------------------
(***************************************************************************)
(* dadisi/DistShare.cpp and ShareDisk.h: every disk has intervals on a     *)
(* ring, and between two borders an extent goes to one of the disks that   *)
(* cover the ring there.  The distributors at the borders are used by what *)
(* they promise: a nearest neighbour draws any of its disks.  How threads  *)
(* build them is in module ShareInit.                                      *)
(***************************************************************************)
EXTENDS NearestNeighbour

CONSTANTS
  ShareCopies,  \* intervals per disk
  StretchHalves \* length of the list -> twice the stretch factor

ASSUME ShareAssumption ==
  /\ ShareCopies \in Nat \ {0}
  /\ \A l \in AllLists : StretchHalves[Len(l)] \in Nat \ {0}

ShareKinds == {"Share", "Share -cnn"}

\* Disks that have to cover each border
Needed(k, c) == IF k = "Share -cnn" THEN c ELSE 1

\* The factor, made so many times longer; a product with it is truncated.
Stretch(k, l, c, times) == (StretchHalves[Len(l)] * Needed(k, c) * times) \div 2

Length(l, n, stretch) ==
  (l[n].capacity * MaxHash * stretch) \div TotalCapacity(l)

Interval(l, n, start, stretch) ==
  LET length == Length(l, n, stretch)
  IN  [disk |-> n, start |-> start, end |-> (start + length) % MaxHash,
       rounds |-> IF length > MaxHash THEN length \div MaxHash ELSE 0, length |-> length]

CountCoversPoint(sd, point) ==
  IF \/ sd.start < sd.end /\ point > sd.start /\ point < sd.end
     \/ sd.start >= sd.end /\ (point < sd.end \/ point > sd.start)
    THEN sd.rounds + 1 ELSE sd.rounds

\* The code's sDisks and borders, for the starts drawn
Intervals(k, l, c, starts, times) ==
  [i \in DOMAIN starts |->
     Interval(l, ((i - 1) \div ShareCopies) + 1, starts[i], Stretch(k, l, c, times))]
Borders(sDisks) ==
  {sDisks[i].start : i \in DOMAIN sDisks} \cup {sDisks[i].end : i \in DOMAIN sDisks}

\* *it - 1, of an unsigned number
PointBefore(border) == IF border = 0 THEN MaxHash ELSE border - 1

\* multi: what the distributor of a border is built from
Multi(l, sDisks, border) ==
  [n \in DOMAIN l |->
     SumFunction([i \in DOMAIN sDisks |->
                    IF sDisks[i].disk = n
                      THEN CountCoversPoint(sDisks[i], PointBefore(border)) ELSE 0])]
Covering(multi) == {n \in DOMAIN multi : multi[n] > 0}

AllFilled(l, sDisks, need) ==
  \A b \in Borders(sDisks) : Cardinality(Covering(Multi(l, sDisks, b))) >= need

ShareSetDisks(k, l, c) ==
  /\ Configure(k, l, c, [starts |-> <<>>, times |-> 1])
  /\ status' = "building" /\ table' = None

\* The intervals start at hash values, the same each time the factor is doubled.
ShareStart(k) ==
  /\ Building(k) /\ Len(local.starts) < Len(disks) * ShareCopies
  /\ \E start \in 0 .. MaxHash :
       Advance([local EXCEPT !.starts = Append(@, start)])

\* The loop of setDisks: either all is covered, or the intervals are stretched.
ShareFill(k) ==
  /\ Building(k) /\ Len(local.starts) = Len(disks) * ShareCopies
  /\ \E sDisks \in {Intervals(k, disks, copies, local.starts, local.times)} :
         IF AllFilled(disks, sDisks, Needed(k, copies))
           THEN /\ table' = [sDisks |-> sDisks,
                             distributors |-> [b \in Borders(sDisks) |->
                                                 Multi(disks, sDisks, b)]]
                /\ Built
           ELSE Advance([local EXCEPT !.times =
                           IF Len(disks) >= Needed(k, copies) THEN 2 * @
                           ELSE 2])  \* bound of the model: it goes on for ever

ShareCall(k) == Call(k, [border |-> -1])

\* The distributor of the closest border draws one of its disks.
DrawAt(border, next) ==
  LET covering == Covering(table.distributors[border])
  IN  IF covering = {} THEN Crash
      ELSE \E n \in covering :
             IF disks[n].id \in ToSet(result) THEN Advance(next)
             ELSE Append1(disks[n].id, next)

Closest(hash) == RingClosest(DOMAIN table.distributors, hash)

\* A border and one disk of it for each copy
ShareDraw ==
  /\ Placing("Share") /\ Len(result) < copies
  /\ \E hash \in 0 .. MaxHash : DrawAt(Closest(hash), local)

\* One border for all copies; its distributor draws until they are distinct.
ShareFind ==
  /\ Placing("Share -cnn") /\ local.border = -1
  /\ \E hash \in 0 .. MaxHash : Advance([border |-> Closest(hash)])
ShareDrawByNN ==
  /\ Placing("Share -cnn") /\ local.border # -1 /\ Len(result) < copies
  /\ DrawAt(local.border, local)

ShareReturn(k) == Placing(k) /\ Len(result) = copies /\ Finish

ShareNext ==
  \/ \E k \in ShareKinds :
       \/ \E l \in Lists[kind], c \in 1 .. MaxCopies : ShareSetDisks(k, l, c)
       \/ ShareStart(k) \/ ShareFill(k)
       \/ ShareCall(k) \/ ShareReturn(k)
  \/ ShareDraw \/ ShareFind \/ ShareDrawByNN

---------------------------------------------------------------------------
(* Disks an extent can be placed on *)
ShareReached ==
  {disks[n].id : n \in UNION {Covering(table.distributors[b]) : b \in DOMAIN table.distributors}}

\* How often the interval of that length passes a point of the ring of MaxHash points
Passes(sd, point) ==
  Cardinality({round \in 0 .. sd.rounds + 1 :
                 LET at == (point % MaxHash) + round * MaxHash
                     from == sd.start % MaxHash
                 IN  from <= at /\ at < from + sd.length})

(* The distributor of a border counts a disk once for every time one of    *)
(* its intervals passes the point before the border; but an interval does  *)
(* not cover its first point, and one of no length or of whole rounds      *)
(* is counted once too often.                                              *)
ShareCountsPasses ==
  kind \in ShareKinds /\ table # None =>
    \A b \in DOMAIN table.distributors : \A i \in DOMAIN table.sDisks :
      LET sd == table.sDisks[i]
          p == PointBefore(b)
      IN  sd.length % MaxHash # 0 /\ p # sd.start =>
            CountCoversPoint(sd, p) = Passes(sd, IF b = 0 THEN MaxHash - 1 ELSE b - 1)
===============================================================================
