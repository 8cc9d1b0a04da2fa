---------------------------- MODULE RedundantShare ----------------------------
(***************************************************************************)
(* dadisi/DistRedundantShare.cpp: copies are placed along the disks, the   *)
(* largest first; a disk takes the copy if the dice is at most the disk's  *)
(* threshold for the number of copies left.  Disks are counted from 0, as  *)
(* in the code; its caches of probabilities are compiled out.              *)
(***************************************************************************)
EXTENDS Strategy, Rationals

\* rsDiskCompare, or rsDiskCompareRevertID with the option -decID
Before(a, b, revert) ==
  \/ a.capacity > b.capacity
  \/ a.capacity = b.capacity /\ (IF revert THEN a.id > b.id ELSE a.id < b.id)

Sorted(l, revert) ==
  [i \in 0 .. Len(l) - 1 |->
     CHOOSE d \in ToSet(l) : Cardinality({e \in ToSet(l) : Before(e, d, revert)}) = i]

\* Mutant of Aligned: the divisor counts the disk itself.
AlignedByOneMore(capacity, k, below) ==
  IF k <= 0 \/ capacity < below \div (k + 1) THEN capacity ELSE below \div (k + 1)

(* alignDisks, from the last disk to the first: cPosition[i] is the sum of *)
(* the aligned capacities from disk i on.                                  *)
Aligned(capacity, k, below) ==
  IF k <= 0 \/ capacity < below \div k THEN capacity ELSE below \div k

CPositions(s, c) ==
  LET n == Cardinality(DOMAIN s)
      pos[i \in 0 .. n] ==
        IF i = n THEN 0 ELSE pos[i + 1] + Aligned(s[i].capacity, c - 1 - i, pos[i + 1])
  IN  pos

(* The loop over the disks: with l copies left a threshold of 1 or more    *)
(* places a copy for certain, and one of more than 1 has to be corrected.  *)
Left(check, n, c) ==
  LET l[i \in 0 .. n] ==
        IF i = 0 THEN c
        ELSE IF Less(Scaled(l[i - 1], check[i - 1]), One) THEN l[i - 1] ELSE l[i - 1] - 1
  IN  l

KError(check, n, c) ==
  LET l == Left(check, n, c)
  IN  [i \in 0 .. n - 1 |->
         IF Less(One, Scaled(l[i], check[i])) THEN l[i] - 1 ELSE -1]

\* P_{a,b,l}: no disk from a to b - 1 takes a copy while l are left.
P(check, a, b, l) ==
  LET product[v \in a .. b] ==
        IF v = b THEN One
        ELSE LET f == Minus(One, Scaled(l, check[v]))
             IN  IF f[1] < 0 THEN Zero ELSE Times(f, product[v + 1])
  IN  IF a > b THEN Zero
      ELSE IF a = b THEN One
      ELSE IF Less(One, Scaled(l, check[b - 1])) THEN Zero ELSE product[a]

\* r_inner (short = 0) and r2_inner (short = 1)
RInner(check, o, m, j, i, short) ==
  LET inner[p \in (o .. m) \X (0 .. i + 1)] ==
        LET mm == p[1]
            jj == p[2]
        IN  IF mm = o THEN Times(Least(One, Scaled(mm, check[i])), P(check, jj, i, mm))
            ELSE Scaled(mm, SumOver([v \in jj .. i - mm + o - short |->
                   Times(Times(check[v], P(check, jj, v, mm)), inner[<<mm - 1, v + 1>>])]))
  IN  inner[<<m, j>>]

\* r and r2 read the disk before disk i: there is none before the first.
ReadsBefore(o, m, j, i, short) == ~(o > m \/ j > i \/ j > i - m + o - short) /\ i = 0

R(check, o, m, j, i, short) ==
  IF \/ o > m \/ j > i \/ j > i - m + o - short
     \/ Less(One, Scaled(o, check[i - 1]))
    THEN Zero
    ELSE RInner(check, o, m, j, i, short)

\* k_i: what disk i should still get of the copies
Ki(check, share, c, i, l) ==
  Minus(share, SumOver([o \in 1 .. c |-> R(check, o, c, 0, i, IF o = l - 1 THEN 1 ELSE 0)]))

\* cStar: the part of the walks to disk i that should stay for each of l - 1 copies
CStarPart(check, cPosition, c, i, l) ==
  LET aligned == cPosition[i] - cPosition[i + 1]
  IN  Over(Times(Ratio(1, l - 1), Ki(check, Ratio(c * aligned, cPosition[0]), c, i, l)),
           R(check, l, c, 0, i - 1, 0))

\* checkCStar of disk i, corrected for l - 1 copies left
CheckCStar(check, cPosition, c, i, l) ==
  LET tmp == CStarPart(check, cPosition, c, i, l)
      cNew == Over(Scaled(cPosition[i + 1], tmp), Minus(One, tmp))
  IN  Scaled(l - 1, Over(cNew, Plus(cNew, <<cPosition[i + 1], 1>>)))

\* The disks setDisks computes a checkCStar for
Corrected(t) == {i \in DOMAIN t.disks : t.kError[i] > 0}

(* It reads disks[i - 2] and disks[i + 1], and divides by r and by what    *)
(* cStar's part leaves of 1; read_uint64_t throws for a negative number.   *)
ReadsOutside(t, c) ==
  \E i \in Corrected(t) : \/ ReadsBefore(t.kError[i] + 1, c, 0, i - 1, 0)
                         \/ i + 1 \notin DOMAIN t.disks
DividesByZero(t, c) ==
  \E i \in Corrected(t) : R(t.check, t.kError[i] + 1, c, 0, i - 1, 0) = Zero
OutOfRange(t, c) ==
  \E i \in Corrected(t) :
    LET star == CheckCStar(t.check, t.cPosition, c, i, t.kError[i] + 1)
    IN  \/ CStarPart(t.check, t.cPosition, c, i, t.kError[i] + 1) = One
        \/ MaxHash * star[1] <= -star[2]
Fails(t, c) == ReadsOutside(t, c) \/ DividesByZero(t, c) \/ OutOfRange(t, c)

\* initValueCaches
HashValue(check, copy) ==
  IF ~Less(Scaled(copy, check), One) THEN MaxHash ELSE Truncated(copy * MaxHash, check)

Aligning(l, c, revert) ==
  LET s == Sorted(l, revert)
      n == Len(l)
      pos == CPositions(s, c)
      check == [i \in 0 .. n - 1 |-> Ratio(pos[i] - pos[i + 1], pos[i])]
  IN  [disks |-> s, cPosition |-> pos, check |-> check, kError |-> KError(check, n, c)]

\* A disk of the sorted list whose correction reads the disk before the first
SecondIsCorrected(l, c, revert) ==
  LET t == Aligning(l, c, revert)
  IN  1 \in Corrected(t) /\ t.kError[1] + 1 <= c

\* Several corrected disks of which one gets a negative threshold: no correction
\* takes the others into account.
CorrectionsCollide(l, c, revert) ==
  LET t == Aligning(l, c, revert)
  IN  Cardinality(Corrected(t)) > 1 /\ OutOfRange(t, c)

Tables(t, c) ==
  [disks |-> t.disks, cPosition |-> t.cPosition, check |-> t.check, kError |-> t.kError,
   star |-> [i \in Corrected(t) |->
               CheckCStar(t.check, t.cPosition, c, i, t.kError[i] + 1)],
   hashValues |-> [i \in DOMAIN t.disks |-> [k \in 1 .. c |-> HashValue(t.check[i], k)]],
   errorValues |-> [k \in {t.kError[i] : i \in Corrected(t)} |->
                      LET i == CHOOSE i \in Corrected(t) : t.kError[i] = k
                          star == CheckCStar(t.check, t.cPosition, c, i, k + 1)
                      IN  IF star[1] < 0 THEN 0 ELSE Truncated(MaxHash, star)]]

RSKinds == {"RedundantShare", "RedundantShare -decID"}

\* None is none of the tables setDisks can build.
ASSUME TablesAssumption ==
  \A k \in RSKinds \cap Kinds : \A l \in Lists[k], c \in 1 .. MaxCopies :
    LET t == Aligning(l, c, k # "RedundantShare")
    IN  c <= Len(l) /\ ~Fails(t, c) => Tables(t, c) # None

\* With fewer disks than copies setDisks returns and leaves the old tables.
RSSetDisks(k, l, c) ==
  /\ Configure(k, l, c, None)
  /\ IF Len(l) < c THEN status' = "ready" /\ table' = table
     ELSE LET t == Aligning(l, c, k # "RedundantShare")
          IN  IF Fails(t, c)
                THEN status' = "crashed" /\ table' = None
                ELSE status' = "ready" /\ table' = Tables(t, c)

RSCall(k) == Call(k, [i |-> 0, toPlace |-> copies, first |-> TRUE])

\* The value the dice is compared with: a corrected one for the first disk only.
Threshold(t, i, toPlace, first) ==
  IF first /\ t.kError[i] = toPlace THEN t.errorValues[toPlace]
  ELSE t.hashValues[i][toPlace]

\* One dice of placeExtent
RSStep(k) ==
  /\ Placing(k) /\ local.toPlace > 0
  /\ IF table = None \/ local.i \notin DOMAIN table.disks
       THEN Crash
       ELSE \E dice \in 0 .. MaxHash :
              IF dice > Threshold(table, local.i, local.toPlace, local.first)
                THEN Advance([local EXCEPT !.i = @ + 1, !.first = FALSE])
                ELSE Append1(table.disks[local.i].id,
                             [i |-> local.i + 1, toPlace |-> local.toPlace - 1, first |-> TRUE])

RSReturn(k) == Placing(k) /\ local.toPlace = 0 /\ Finish

RSNext ==
  \E k \in RSKinds :
    \/ \E l \in Lists[kind], c \in 1 .. MaxCopies : RSSetDisks(k, l, c)
    \/ RSCall(k) \/ RSStep(k) \/ RSReturn(k)

(***************************************************************************)
(* The copies a disk gets on average, along the walk of placeExtent and    *)
(* with the thresholds before they are rounded: the chances that the walk  *)
(* comes to disk i with m copies left, just after a copy or not.           *)
(***************************************************************************)
Chance(t, i, m, first) ==
  IF first /\ t.kError[i] = m THEN t.star[i] ELSE Least(One, Scaled(m, t.check[i]))

\* Disk i takes copy m.
Takes(t, w, i, m) ==
  Plus(Times(w.on[m], Chance(t, i, m, FALSE)), Times(w.first[m], Chance(t, i, m, TRUE)))

\* It does not.
PassesOn(t, w, i, m) ==
  Plus(Times(w.on[m], Minus(One, Chance(t, i, m, FALSE))),
       Times(w.first[m], Minus(One, Chance(t, i, m, TRUE))))

Load(t, c) ==
  LET walk[i \in DOMAIN t.disks] ==
        IF i = 0
          THEN [first |-> [m \in 1 .. c |-> IF m = c THEN One ELSE Zero],
                on |-> [m \in 1 .. c |-> Zero]]
          ELSE [first |-> [m \in 1 .. c |->
                             IF m = c THEN Zero ELSE Takes(t, walk[i - 1], i - 1, m + 1)],
                on |-> [m \in 1 .. c |-> PassesOn(t, walk[i - 1], i - 1, m)]]
  IN  [i \in DOMAIN t.disks |-> SumOver([m \in 1 .. c |-> Takes(t, walk[i], i, m)])]

\* What it should get: its part of the aligned capacity.
FairLoad(t, c) ==
  [i \in DOMAIN t.disks |-> Ratio(c * (t.cPosition[i] - t.cPosition[i + 1]), t.cPosition[0])]

(* As long as one disk at most had its threshold corrected, that is a      *)
(* probability and a disk's load is its share of the aligned capacity.     *)
RSFair ==
  kind \in RSKinds /\ table # None /\ Cardinality(Corrected(table)) <= 1 =>
    /\ \A i \in Corrected(table) : AtMost(Zero, table.star[i]) /\ AtMost(table.star[i], One)
    /\ Load(table, copies) = FairLoad(table, copies)
===============================================================================
