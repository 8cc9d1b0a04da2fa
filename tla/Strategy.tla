------------------------------- MODULE Strategy -------------------------------
(***************************************************************************)
(* dadisi/Distributor.h: what a caller sees of every strategy.  setDisks   *)
(* (called by setConfiguration the first time) builds tables out of a list *)
(* of disks, placeExtent appends disks to a list of its own until it has   *)
(* one per copy.  The module of a strategy says what its tables are and    *)
(* which disks it appends; a hash value is an arbitrary number, drawn when *)
(* the code computes it.                                                   *)
(***************************************************************************)
EXTENDS Integers, SequencesExt, FiniteSets

CONSTANTS
  Kinds,        \* strategies of the model, with their options
  Rebuilt,      \* those of which the model calls setDisks more than once
  Lists,        \* strategy -> lists of disks: sequences of [id, capacity]
  MaxCopies,    \* bound of the model: copies a caller may ask for
  MaxHash,      \* greatest hash value (2^64 - 1 in the program)
  None          \* no table, no locals: a null pointer

AllLists == UNION {Lists[k] : k \in Kinds}
ASSUME ListsAssumption ==
  \A l \in AllLists :
    /\ l \in Seq([id : Int, capacity : Nat \ {0}])
    /\ Len(l) > 0
    /\ \A k, n \in DOMAIN l : l[k].id = l[n].id => k = n
ASSUME BoundsAssumption == MaxCopies \in Nat \ {0} /\ MaxHash \in Nat \ {0}

VARIABLES
  kind,         \* the strategy
  disks,        \* argument of the last setDisks
  copies,       \* copies, as set by setConfiguration
  table,        \* what setDisks built: as the strategy defines it
  status,       \* "new", "building", "ready", "placing", "crashed"; "exited" by exit(1)
  lent,         \* the caller has not yet deleted the list it passed to setDisks
  local,        \* locals of placeExtent, or of a setDisks of several steps
  result        \* the list placeExtent builds; the last one when ready

vars == <<kind, disks, copies, table, status, lent, local, result>>

Ids(l) == {l[k].id : k \in DOMAIN l}
TotalCapacity(l) == SumFunction([k \in DOMAIN l |-> l[k].capacity])

Init ==
  /\ kind \in Kinds
  /\ disks = <<>> /\ copies = 0
  /\ table = None /\ local = None
  /\ status = "new" /\ result = <<>> /\ lent = FALSE

\* setConfiguration the first time, setDisks from then on.
Configure(k, l, c, start) ==
  /\ kind = k
  /\ \/ status = "new"
     \/ status = "ready" /\ k \in Rebuilt /\ result = <<>> /\ c = copies
  /\ disks' = l /\ copies' = c /\ lent' = TRUE
  /\ local' = start /\ result' = <<>>
  /\ UNCHANGED kind

\* A setDisks that draws hash values goes on, and returns.
Building(k) == kind = k /\ status = "building"
Built ==
  /\ status' = "ready" /\ local' = None
  /\ UNCHANGED <<kind, disks, copies, lent, result>>

\* placeExtent is called.
Call(k, start) ==
  /\ kind = k
  /\ status = "ready" /\ result = <<>>
  /\ status' = "placing" /\ local' = start
  /\ UNCHANGED <<kind, disks, copies, table, lent, result>>

Placing(k) == kind = k /\ status = "placing"

\* placeExtent goes on, without or with another disk in its list.
Advance(next) ==
  /\ local' = next
  /\ UNCHANGED <<kind, disks, copies, table, status, lent, result>>
Append1(id, next) ==
  /\ local' = next
  /\ result' = Append(result, id)
  /\ UNCHANGED <<kind, disks, copies, table, status, lent>>

\* placeExtent returns its list.
Finish ==
  /\ status' = "ready" /\ local' = None
  /\ UNCHANGED <<kind, disks, copies, table, lent, result>>

\* A read outside of a table, a null pointer or a division by zero.
Crash ==
  /\ status' = "crashed"
  /\ UNCHANGED <<kind, disks, copies, table, lent, local, result>>

\* The caller deletes the list it got and may ask for the next extent.
Forget ==
  /\ status = "ready" /\ result # <<>>
  /\ result' = <<>>
  /\ UNCHANGED <<kind, disks, copies, table, status, lent, local>>

(* The disks of the list belong to the caller, who deletes them when       *)
(* setDisks has returned.                                                  *)
DeleteList ==
  /\ status = "ready" /\ result = <<>> /\ lent
  /\ lent' = FALSE
  /\ UNCHANGED <<kind, disks, copies, table, status, local, result>>

Ended ==
  /\ status \in {"crashed", "exited"}
  /\ UNCHANGED vars
===============================================================================
