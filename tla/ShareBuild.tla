------------------------------ MODULE ShareBuild ------------------------------
(***************************************************************************)
(* What DistShare::setDisks promises of the distributors it builds,        *)
(* however many threads build them: one for every border of the disks,     *)
(* each built once from the disks of this call, and a key finder over just *)
(* these borders.  The process may end instead, never a broken table stay. *)
(***************************************************************************)
CONSTANTS
  DiskList,     \* arguments of setDisks
  Borders       \* disks -> the borders of their intervals

VARIABLES
  phase,        \* "idle", "building" or "terminated"
  disks,        \* argument of the last setDisks
  distributors, \* border -> what its distributor was built from
  keyFinder     \* the borders placeExtent can hit

NoDistributors == [b \in {} |-> {}]

Init ==
  /\ phase = "idle"
  /\ disks \in DiskList
  /\ distributors = NoDistributors
  /\ keyFinder = {}

Begin(d) ==
  /\ phase = "idle"
  /\ phase' = "building"
  /\ disks' = d
  /\ distributors' = NoDistributors
  /\ UNCHANGED keyFinder

Build(b) ==
  /\ phase = "building"
  /\ b \notin DOMAIN distributors
  /\ distributors' = [x \in DOMAIN distributors \cup {b} |->
                        IF x = b THEN [pos |-> b, disks |-> disks] ELSE distributors[x]]
  /\ UNCHANGED <<phase, disks, keyFinder>>

Return ==
  /\ phase = "building"
  /\ DOMAIN distributors = Borders[disks]
  /\ phase' = "idle"
  /\ keyFinder' = Borders[disks]
  /\ UNCHANGED <<disks, distributors>>

Terminate ==
  /\ phase = "building"
  /\ phase' = "terminated"
  /\ UNCHANGED <<disks, distributors, keyFinder>>

Next ==
  \/ \E d \in DiskList : Begin(d)
  \/ \E b \in Borders[disks] : Build(b)
  \/ Return
  \/ Terminate

Spec == Init /\ [][Next]_<<phase, disks, distributors, keyFinder>>
===============================================================================
