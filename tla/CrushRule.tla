------------------------------ MODULE CrushRule ------------------------------
(***************************************************************************)
(* dadisi/mapper.cpp, crush_choose and crush_do_rule, as DistCRUSH calls   *)
(* them: take the root, choose as many failure domains as there are        *)
(* copies, each with one disk of it, emit the disks.  A domain or a disk   *)
(* that was chosen before, or that is out, makes the code try again in the *)
(* bucket, then from the root, then give the copy up.  One try in a bucket *)
(* is a step.                                                              *)
(***************************************************************************)
EXTENDS CrushMap

CONSTANTS
  FullWeight,   \* weight from which a disk is never out: 0x1000
  MaxPermuted   \* bound of the model: larger buckets keep their items in order

\* None stands for the end of the tries, too.
ASSUME RuleAssumption == FullWeight \in Nat /\ None \notin [total : Nat, local : Nat]

OrigTries == 5
DomainType == 1

Map == table.buckets
Root == Len(Map)
TypeOf(item) == IF item < 0 THEN Map[-item].type ELSE 0

\* The random order bucket_perm_choose gives the items of a bucket (CrushPerm).
Orders(b) ==
  LET places == DOMAIN b.items
  IN  IF Len(b.items) > MaxPermuted THEN {[n \in places |-> n]}
      ELSE {o \in [places -> places] : IsInjective(o)}

\* is_out takes the weight at the id of a disk, although weights are in the order of
\* the lists; past their end it reads anything.  Whether a disk with less than the full
\* weight is out depends on x alone.
WeightRead(id) == IF id < Len(table.weights) THEN {table.weights[id + 1]} ELSE 0 .. FullWeight
MayBeOut == {id \in Ids(disks) : \E w \in WeightRead(id) : w < FullWeight}
IsOut == {id \in Ids(disks) : WeightRead(id) = {0}}

\* The locals of crush_choose: rep, out, out2 as leaves, the tries of the outer call and
\* of the one for a leaf, the item of the outer call and the leaf under it.
NoTries == [total |-> 0, local |-> 0]
CrushCall(k) ==
  /\ kind = k /\ status = "ready"
  /\ \E order \in {o \in [DOMAIN Map -> UNION {Orders(Map[n]) : n \in DOMAIN Map}] :
                     \A n \in DOMAIN Map : o[n] \in Orders(Map[n])},
        isout \in {IsOut \cup s : s \in SUBSET MayBeOut} :
       Call(k, [order |-> order, isout |-> isout, mode |-> "choose", rep |-> 0,
                out |-> <<>>, leaves |-> <<>>, tries |-> NoTries, item |-> None,
                leaftries |-> NoTries, leaf |-> None])

--------------------------------------------------------------------------------

\* Mutant of Picks: the bucket is never searched item by item.
PicksByDrawAlone(n, r, tries) ==
  IF Map[n].alg = "uniform" THEN {Map[n].items[local.order[n][(r % Len(Map[n].items)) + 1]]}
  ELSE Draws(Map[n])

\* The item chosen from bucket n: r-th of its random order, or drawn.
Picks(n, r, tries) ==
  LET b == Map[n]
      searched == tries.local >= Len(b.items) \div 2 /\ tries.local > OrigTries
  IN  IF searched \/ b.alg = "uniform"
        THEN {b.items[local.order[n][(r % Len(b.items)) + 1]]}
        ELSE Draws(b)

\* Mutant of Again: what was tried is forgotten with every descent.
AgainFromScratch(b, collide, tries) ==
  LET more == [total |-> tries.total + 1, local |-> tries.local + 1]
  IN  IF (collide /\ more.local < 3) \/ more.local < Len(b.items) + OrigTries THEN more
      ELSE IF more.total < 20 THEN NoTries
      ELSE None

\* After a collision or a rejection: retry in the bucket, retry the descent, or None to
\* skip the copy.
Again(b, collide, tries) ==
  LET more == [total |-> tries.total + 1, local |-> tries.local + 1]
  IN  IF (collide /\ more.local < 3) \/ more.local < Len(b.items) + OrigTries THEN more
      ELSE IF more.total < 20 THEN [more EXCEPT !.local = 0]
      ELSE None

\* The next copy, with what the last one added to out and out2.
NextRep(out, leaves) ==
  [local EXCEPT !.mode = "choose", !.rep = @ + 1, !.out = out, !.leaves = leaves,
                !.tries = NoTries, !.item = None, !.leaftries = NoTries, !.leaf = None]

Choosing(k, mode) == Placing(k) /\ local.mode = mode

\* The choice among the items of the root.  An item of another type leaves the loop at
\* its "continue", since retry_bucket is 0: it is taken as it is, and its entry of out2
\* was never written.
ChooseItem(k) ==
  /\ Choosing(k, "choose") /\ local.rep < copies
  /\ \E item \in Picks(Root, local.rep + local.tries.total, local.tries) :
       \/ /\ item = None
          /\ Crash
       \/ /\ item # None /\ TypeOf(item) = DomainType
          /\ Advance([local EXCEPT !.mode = "leaf", !.item = item])
       \/ /\ item # None /\ TypeOf(item) # DomainType /\ item >= 0
          /\ Crash
       \/ /\ item # None /\ TypeOf(item) # DomainType /\ item < 0
          /\ Advance(NextRep(Append(local.out, item), Append(local.leaves, None)))

\* The recursive call for one disk under the item.
ChooseLeaf(k) ==
  /\ Choosing(k, "leaf")
  /\ \E leaf \in Picks(-local.item, Len(local.out) + local.leaftries.total, local.leaftries) :
       LET collide == leaf \in Range(local.leaves)
           again == Again(Map[-local.item], collide, local.leaftries)
       IN  \/ /\ leaf = None
              /\ Crash
           \/ /\ leaf # None /\ ~collide /\ leaf \notin local.isout
              /\ Advance([local EXCEPT !.mode = "judge", !.leaf = leaf])
           \/ /\ leaf # None /\ (collide \/ leaf \in local.isout)
              /\ Advance(IF again = None
                           THEN [local EXCEPT !.mode = "judge", !.leaf = None]
                           ELSE [local EXCEPT !.leaftries = again])

\* Mutant of Collides: an item may be chosen for two copies.
CollidesNever(item, out) == FALSE

Collides(item, out) == item \in Range(out)

JudgeItem(k) ==
  LET collide == Collides(local.item, local.out)
      again == Again(Map[Root], collide, local.tries)
  IN  /\ Choosing(k, "judge")
      /\ Advance(
           IF ~collide /\ local.leaf # None
             THEN NextRep(Append(local.out, local.item), Append(local.leaves, local.leaf))
           ELSE IF again = None THEN NextRep(local.out, local.leaves)
           ELSE [local EXCEPT !.mode = "choose", !.tries = again, !.item = None,
                              !.leaftries = NoTries, !.leaf = None])

\* The disks under the chosen items are emitted; placeExtent returns one Disk for each.
Chosen(k) == Choosing(k, "choose") /\ local.rep = copies
CrushReturn(k) ==
  /\ Chosen(k)
  /\ result' = local.leaves
  /\ status' = "ready" /\ local' = None
  /\ UNCHANGED <<kind, disks, copies, table, lent>>

CrushStep(k) == ChooseItem(k) \/ ChooseLeaf(k) \/ JudgeItem(k) \/ CrushReturn(k)

Next ==
  \/ \E k \in Kinds : CrushSetDisks(k) \/ CrushCall(k) \/ CrushStep(k)
  \/ Forget
  \/ Ended

Spec == Init /\ [][Next]_vars
Step == \E k \in Kinds : CrushStep(k)
FairSpec == Spec /\ WF_vars(Step)

--------------------------------------------------------------------------------

\* Layers the mapper copes with: with one it finds a disk where it wants a domain, with
\* three a bucket of the wrong type.
TwoLayers == Len(kind.layers) = 2

\* Whatever collides and is out, and however often the code starts again, the copies of
\* an extent are on disks that were set last, in different failure domains, and no
\* assertion fails.
CopiesInDistinctDomains ==
  /\ status = "crashed" =>
       Len(kind.layers) = 1 \/ \E n \in DOMAIN Map : NumNodes(Len(Map[n].items)) = 0
  /\ TwoLayers /\ status = "ready" =>
       /\ Range(result) \subseteq Ids(disks)
       /\ \A n, m \in DOMAIN result, d \in DOMAIN Map :
            n # m => ~({result[n], result[m]} \subseteq Range(Map[d].items))

\* The weights is_out reads are the capacities: the ids are positions in the list, and no
\* list was set before.
WeightsAreCapacities ==
  \A n \in DOMAIN disks : WeightRead(disks[n].id) = {disks[n].capacity}
NothingIsOut == WeightsAreCapacities /\ \A n \in DOMAIN disks : disks[n].capacity >= FullWeight

\* The tries for a copy in a bucket come in rounds, until there were twenty.  What the
\* code calls an exhaustive search asks, in the last tries of a round, for the items at
\* consecutive places of the random order, but for one or more less than there are; the
\* next round goes on at other places.  Asked is what all rounds ask for, counted from
\* the place that belongs to the copy.
Round(b) == Len(b.items) + OrigTries
LastTry(b) == (19 \div Round(b) + 1) * Round(b) - 1
Searched(b, t) ==
  \/ b.alg = "uniform" \/ Len(b.items) = 1
  \/ t % Round(b) >= Len(b.items) \div 2 /\ t % Round(b) > OrigTries
Asked(b) == {t % Len(b.items) : t \in {t \in 0 .. LastTry(b) : Searched(b, t)}}

\* A copy is given up only when no failure domain is left for it that the search asks
\* for, although it draws at random and stops after some twenty tries.  The search asks for
\* all but one of five domains, and for all of a smaller or greater number below fifteen.
FreeDomainsAreUsed ==
  \A k \in Kinds :
    Chosen(k) /\ TwoLayers /\ NothingIsOut =>
      LET size == Len(Map[Root].items)
          sure == Cardinality(Asked(Map[Root]))
      IN  /\ Len(local.leaves) >= IF sure < copies THEN sure ELSE copies
          /\ Len(local.leaves) <= IF size < copies THEN size ELSE copies

\* Every placeExtent comes to an end.
CrushCallsEnd == status = "placing" ~> status # "placing"

\* Refuted with three layers, by a single extent.  mapper.cpp says of crush_choose that it
\* chooses "items of given type", and of its out2 that it holds the "leaf items" under
\* them; the disks it returns to the caller are disks.
ReturnsDisks == status = "ready" => Range(result) \subseteq Ids(disks)
===============================================================================
