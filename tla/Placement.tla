------------------------------- MODULE Placement -------------------------------
(***************************************************************************)
(* The strategies behind one interface (dadisi/Distributor.h): what every  *)
(* caller may rely on, whichever strategy createDistributor returned.  One *)
(* object is modelled; it is configured, some of them again, and asked for *)
(* extents by a caller that deletes what it owns.                          *)
(***************************************************************************)
EXTENDS RoundRobin, Share, FastRedundantShare, Rush, RandSlicePlacement

Next ==
  \/ RRNext \/ NNNext \/ ShareNext \/ RSNext \/ FRSNext \/ RUSHNext \/ RandSliceNext
  \/ Forget \/ DeleteList \/ Ended

Spec == Init /\ [][Next]_vars

\* The steps inside of setDisks and placeExtent
Step ==
  \/ \E k \in NNKinds : NNInsert(k) \/ NNReturn(k) \/ NNStep(k) \/ NNFinish(k)
  \/ \E k \in ShareKinds : ShareStart(k) \/ ShareFill(k) \/ ShareReturn(k)
  \/ ShareDraw \/ ShareFind \/ ShareDrawByNN
  \/ \E k \in RSKinds : RSStep(k) \/ RSReturn(k)
  \/ FRSStep \/ FRSReturn
  \/ RUSHpRoll \/ RUSHpStep \/ RUSHrStep \/ RUSHtDescend \/ RUSHtPlace \/ RUSHReturn
  \/ RandSliceStep \/ RandSliceReturn

(* A call that has begun goes on.  A draw that finds nothing new changes   *)
(* nothing, so weak fairness also says that not all draws are unlucky: the *)
(* hash values of one extent are independent.                              *)
FairSpec == Spec /\ WF_vars(Step)

---------------------------------------------------------------------------
(* placeExtent returns as many disks as copies, all different and of the   *)
(* list set last.  RoundRobin repeats disks when there are fewer than      *)
(* copies; RedundantShare then goes on with the disks it had before.       *)
PlacesDistinctDisks ==
  status = "ready" /\ result # <<>> =>
    /\ Len(result) = copies
    /\ IsInjective(result) \/ (kind \in RRKinds /\ Len(disks) < copies)
    /\ ToSet(result) \subseteq Ids(disks) \/ (kind \in RSKinds /\ Len(disks) < copies)

(* A strategy fails in a configured object only where it is known to:      *)
(* RedundantShare and FastRedundantShare with fewer disks than copies, and *)
(* when they correct the second disk or several that collide; random       *)
(* slicing at the end of an extent's hash inputs; RUSHp after its caller's *)
(* disks are deleted; RUSHr when another instance replaced the shared      *)
(* table by a smaller one; RUSHt at a node without a right child and the   *)
(* greatest hash value.  RUSH ends the process just for clusters smaller   *)
(* than copies.                                                            *)
CrashesAreKnown ==
  /\ status = "crashed" =>
       \/ /\ kind \in RSKinds \cup {"FastRedundantShare"}
          /\ \/ Len(disks) < copies
             \/ /\ table = None
                /\ LET revert == kind = "RedundantShare -decID"
                   IN  \/ SecondIsCorrected(disks, copies, revert)
                       \/ CorrectionsCollide(disks, copies, revert)
       \/ kind = "RandSlice" /\ local.idx >= Offset
       \/ kind = "RUSHp" /\ ~lent
       \/ kind = "RUSHr" /\ Cardinality(DOMAIN table.choices) < Len(table.clusters[local.j])
       \/ kind = "RUSHt" /\ local.node.right = None
  /\ status = "exited" =>
       /\ kind \in RUSHKinds
       /\ \E d \in ToSet(disks) :
            Cardinality({n \in DOMAIN disks : disks[n].capacity = d.capacity}) < copies

(* After setDisks the average load of every disk is what it should be, for *)
(* the strategies that compute it: see RSFair, FRSFair and RREven.         *)
LoadsAreFair ==
  status = "ready" /\ result = <<>> /\ lent => RSFair /\ FRSFair /\ RREven

\* Server numbers, hash inputs and interval counts stay what placeExtent takes them for.
TablesAreExact == ServersMatchClusters /\ InputsStayInRange /\ ShareCountsPasses

InCall == status \in {"building", "placing"}

\* The disks an extent can reach are at least the copies.
CanEnd ==
  CASE status = "building" -> kind = "Share -cnn" => Len(disks) >= copies
    [] kind \in NNKinds    -> Cardinality(NNReached) >= copies
    [] kind = "Share"      -> Cardinality(ShareReached) >= copies
    [] OTHER               -> TRUE

(* setDisks and placeExtent return, if as many disks as copies own a       *)
(* position or cover a border; otherwise they loop for ever.               *)
CallsEnd ==
  (InCall /\ CanEnd) ~> ~InCall

(* A Distributor copies its disks and the caller deletes its own           *)
(* (Distributor.h): RUSHp goes on placing extents on them.                 *)
SurvivesDeletedList == kind = "RUSHp" => status # "crashed"
===============================================================================
