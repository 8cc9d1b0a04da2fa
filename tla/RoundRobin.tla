------------------------------ MODULE RoundRobin ------------------------------
(***************************************************************************)
(* dadisi/DistRoundRobin.cpp: the copies of an extent go to disks that     *)
(* follow each other, either in the order of the list or, with -im, in the *)
(* order of an unordered map that is entered where a ring map says.        *)
(***************************************************************************)
EXTENDS Strategy

RRKinds == {"RoundRobin", "RoundRobin -hash", "RoundRobin -im"}

\* Disk k of the table is number k - 1 of the code.
RRSetDisks(k, l, c) ==
  /\ Configure(k, l, c, None)
  /\ status' = "ready"
  /\ IF k = "RoundRobin -im"
       THEN \E order \in {o \in [DOMAIN l -> DOMAIN l] : IsInjective(o)} :
              table' = [n \in DOMAIN l |-> l[order[n]].id]
       ELSE table' = [n \in DOMAIN l |-> l[n].id]

\* Disks first, first + 1, ... around the table
Stripe(t, first, c) == [i \in 1 .. c |-> t[((first + i - 1) % Len(t)) + 1]]

\* Number of the first disk of an extent: a hashed position is any number.
FirstDisk(position, c, n) == (position * c) % n

RRPlaceExtent(k) ==
  /\ kind = k
  /\ status = "ready" /\ result = <<>>
  /\ IF k = "RoundRobin -im"
       THEN \E at \in 0 .. Len(table) - 1 : result' = Stripe(table, at, copies)
       ELSE \E position \in 0 .. MaxHash :
              result' = Stripe(table, FirstDisk(position, copies, Len(table)), copies)
  /\ UNCHANGED <<kind, disks, copies, table, status, lent, local>>

RRNext ==
  \E k \in RRKinds :
    \/ \E l \in Lists[kind], c \in 1 .. MaxCopies : RRSetDisks(k, l, c)
    \/ RRPlaceExtent(k)

(* As many extents in a row as there are disks put as many copies on each  *)
(* disk.                                                                   *)
RREven ==
  kind = "RoundRobin" /\ table # None =>
    LET n == Len(table)
        placed(p) == Stripe(table, FirstDisk(p, copies, n), copies)
    IN  \A first \in 0 .. MaxHash, d \in Ids(disks) :
          Cardinality({pi \in (first .. first + n - 1) \X (1 .. copies) :
                         placed(pi[1])[pi[2]] = d}) = copies
===============================================================================
