------------------------------- MODULE SaveLoad -------------------------------
(***************************************************************************)
(* dadisi/Distributor.cpp, save and loadDistributor, with the toXML and    *)
(* the XML constructor of every strategy.  An object is written by one     *)
(* program and read back by another; from then on both objects get the     *)
(* same calls (the evaluation program saves, loads, and sets a message     *)
(* again).  A table is what it was computed from: the hash function and    *)
(* the list in force when setDisks ran.                                    *)
(***************************************************************************)
EXTENDS Integers, SequencesExt, FiniteSets

CONSTANTS
  Kinds,          \* strategies with their options; RandSlice's toXML throws
  Lists,          \* lists of disks a caller sets
  MaxCopies,      \* bound of the model: copies a caller asks for
  MaxDisks,       \* bound of the model: disks CRUSH collects
  Messages,       \* base messages
  ZeroMessage,    \* the one of a new object
  Internal,       \* hash algorithms of the library itself
  SHA1,           \* the one of a new object
  GCrypt,         \* algorithms of libgcrypt, in the program that saves
  GCryptOfLoader, \* those in the program that loads
  NoAlgorithm,    \* 0: no algorithm of libgcrypt
  Domains,        \* failure domains of CRUSH
  None            \* null

ASSUME ListsAssumption ==
  \A l \in Lists : l \in Seq(ToSet(l)) /\ Len(l) > 0 /\ IsInjective(l)
ASSUME HashAssumption ==
  /\ ZeroMessage \in Messages /\ SHA1 \in Internal
  /\ GCryptOfLoader \subseteq GCrypt /\ NoAlgorithm \notin GCrypt
ASSUME BoundsAssumption == MaxCopies \in Nat \ {0} /\ MaxDisks \in Nat /\ Domains \in Nat \ {0}

VARIABLES
  kind,   \* what createDistributor made
  dist,   \* the object
  file,   \* what save wrote, as long as the object is as it was then
  twin,   \* the object loadDistributor returned, or None
  lost    \* what loading is known to have lost: "extents", "attributes"

vars == <<kind, dist, file, twin, lost>>

NNKind == "NearestNeighbour"
CnnKind == "Share -cnn"
ShareKinds == {"Share", CnnKind}
FRSKind == "FastRedundantShare"
RSKind == "RedundantShare"
RRHashKind == "RoundRobin -h"
RRMapKind == "RoundRobin -im"
RRKinds == {"RoundRobin", RRHashKind, RRMapKind}
RUSHKinds == {"RUSHp", "RUSHr", "RUSHt"}
CRUSHKind == "CRUSH"

ASSUME KindsAssumption ==
  Kinds \subseteq {NNKind, FRSKind, RSKind, CRUSHKind} \cup ShareKinds \cup RRKinds \cup RUSHKinds

---------------------------------------------------------------------------
\* The base class

New ==
  [hash |-> [internal |-> TRUE, algorithm |-> SHA1, gcrypt |-> NoAlgorithm],
   message |-> ZeroMessage, copies |-> 0, disks |-> <<>>, table |-> None, part |-> None]

(* The nearest neighbours at the borders of a Share, and the Shares of a   *)
(* FastRedundantShare; null is none of them.                               *)
Neighbours ==
  [hash : {New.hash}, message : Messages, copies : Nat, disks : {<<>>},
   table : ({SHA1} \X Messages) \X Lists, part : {None}]
Shares ==
  [hash : {New.hash}, message : Messages, copies : {1}, disks : Lists,
   table : ({SHA1} \X Messages) \X Lists, part : Neighbours]

ASSUME NoneAssumption == None \notin Neighbours /\ None \notin Shares

\* What hashFunctionInt64 computes: gcrypt does not look at the base message.
Hashing(o) ==
  IF o.hash.internal THEN <<o.hash.algorithm, o.message>> ELSE <<o.hash.gcrypt>>

useInternal(h, a) == [h EXCEPT !.internal = TRUE, !.algorithm = a]

useGCrypt(h, a, supported) ==
  IF a \in supported THEN [h EXCEPT !.internal = FALSE, !.gcrypt = a] ELSE h

\* Mutant of Restored: the algorithms are set in one order, whichever is in use.
RestoredInOneOrder(h) ==
  useGCrypt(useInternal(New.hash, h.algorithm), h.gcrypt, GCryptOfLoader)

\* Mutant of Restored: only the algorithm in use is set.
RestoredInUse(h) ==
  IF h.internal THEN useInternal(New.hash, h.algorithm)
  ELSE useGCrypt(New.hash, h.gcrypt, GCryptOfLoader)

(* Every XML constructor sets both algorithms, the one in use last.        *)
Restored(h) ==
  IF h.internal
  THEN useInternal(useGCrypt(New.hash, h.gcrypt, GCryptOfLoader), h.algorithm)
  ELSE useGCrypt(useInternal(New.hash, h.algorithm), h.gcrypt, GCryptOfLoader)

---------------------------------------------------------------------------
\* Nearest neighbour: the positions are saved, so they are not hashed again.

NNSetDisks(o, l, c) == [o EXCEPT !.copies = c, !.table = <<Hashing(o), l>>]
NNToXML(o) ==
  [message |-> o.message, copies |-> o.copies, hash |-> o.hash, positions |-> o.table]
NNFromXML(x) ==
  [New EXCEPT !.message = x.message, !.copies = x.copies, !.hash = Restored(x.hash),
              !.table = x.positions]

(* Share: borders hashed by itself, and at each border a nearest neighbour *)
(* with the hash algorithm of a new object (part stands for them all).     *)
ShareSetDisks(o, l, c, cnn) ==
  [o EXCEPT !.copies = c, !.disks = l, !.table = <<Hashing(o), l>>,
            !.part = NNSetDisks([New EXCEPT !.message = o.message], l, IF cnn THEN c ELSE 1)]
ShareSetBaseMessage(o, m) ==
  [o EXCEPT !.message = m, !.part = IF @ = None THEN None ELSE [@ EXCEPT !.message = m]]
ShareToXML(o) ==
  [message |-> o.message, copies |-> o.copies, hash |-> o.hash, disks |-> o.disks,
   borders |-> o.table, distributors |-> NNToXML(o.part)]
ShareFromXML(x) ==
  [New EXCEPT !.message = x.message, !.copies = x.copies, !.hash = Restored(x.hash),
              !.disks = x.disks, !.table = x.borders, !.part = NNFromXML(x.distributors)]

(* FastRedundantShare: a Share per number of copies left and disk used     *)
(* last, again with the algorithm of a new object.                         *)
FRSSetDisks(o, l, c) ==
  [o EXCEPT !.copies = c, !.disks = l, !.table = <<l, c>>,
            !.part = ShareSetDisks([New EXCEPT !.message = o.message], l, 1, FALSE)]
FRSSetBaseMessage(o, m) ==
  [o EXCEPT !.message = m, !.part = IF @ = None THEN None ELSE ShareSetBaseMessage(@, m)]
FRSToXML(o) ==
  [message |-> o.message, copies |-> o.copies, hash |-> o.hash, disks |-> o.disks,
   positions |-> o.table, distributors |-> ShareToXML(o.part)]
FRSFromXML(x) ==
  [New EXCEPT !.message = x.message, !.copies = x.copies, !.hash = Restored(x.hash),
              !.disks = x.disks, !.table = x.positions, !.part = ShareFromXML(x.distributors)]

(* RedundantShare: rationals of the aligned disks, and thresholds computed *)
(* from them for as many copies.  With fewer disks than copies setDisks    *)
(* returns at once.                                                        *)
initValueCaches(rsDisks, c) == [rsDisks |-> rsDisks, thresholds |-> c]
RSSetDisks(o, l, c) ==
  IF Len(l) < c THEN [o EXCEPT !.copies = c]
  ELSE [o EXCEPT !.copies = c, !.disks = l, !.table = initValueCaches(<<l, c>>, c)]
RSDiskToXML(o) == o.table.rsDisks
RSToXML(o) ==
  [message |-> o.message, copies |-> o.copies, hash |-> o.hash, numDisks |-> Len(o.disks),
   positions |-> RSDiskToXML(o)]
RSDiskFromXML(x) == x.positions
RSFromXML(x) ==
  [New EXCEPT !.message = x.message, !.copies = x.copies, !.hash = Restored(x.hash),
              !.disks = RSDiskFromXML(x)[1],
              !.table = initValueCaches(RSDiskFromXML(x), x.copies)]

(* RoundRobin: disks by position in an unordered map.  Filled in the same  *)
(* order, a map iterates in the same order, here the one of the list;      *)
(* filled from a file, in another one.                                     *)
RRSetDisks(o, l, c) ==
  [o EXCEPT !.copies = c, !.disks = l, !.table = [order |-> [k \in DOMAIN l |-> k], at |-> l]]
RRToXML(o) ==
  [message |-> o.message, copies |-> o.copies, hash |-> o.hash,
   positions |-> {<<k, o.table.at[k]>> : k \in DOMAIN o.table.at}]
RRFromXML(x, order) ==
  LET at == [k \in {p[1] : p \in x.positions} |-> (CHOOSE p \in x.positions : p[1] = k)[2]]
  IN  [New EXCEPT !.message = x.message, !.copies = x.copies, !.hash = Restored(x.hash),
                  !.disks = at, !.table = [order |-> order, at |-> at]]

\* RUSH: the file has the disks, and setDisks builds the clusters again.
RUSHSetDisks(o, l, c) == [o EXCEPT !.copies = c, !.disks = l, !.table = l]
RUSHToXML(o) == [copies |-> o.copies, disks |-> o.disks]
RUSHFromXML(x) == RUSHSetDisks(New, x.disks, x.copies)

(* CRUSH: disks of every setDisks are collected, the map has those of the  *)
(* last one, and the loaded map those of the file.                         *)
CRUSHSetDisks(o, l, c) ==
  [o EXCEPT !.copies = c, !.disks = @ \o l,
            !.table = [map |-> l, size |-> (Len(l) - 1) \div Domains + 1]]
CRUSHToXML(o) ==
  [ndom |-> Domains, copies |-> o.copies, disks |-> o.disks, layers |-> o.table.size]
CRUSHFromXML(x) == CRUSHSetDisks(New, x.disks, x.copies)

---------------------------------------------------------------------------
\* The virtual methods

setConfiguration(o, l, c) ==
  CASE kind = NNKind       -> NNSetDisks(o, l, c)
    [] kind \in ShareKinds -> ShareSetDisks(o, l, c, kind = CnnKind)
    [] kind = FRSKind      -> FRSSetDisks(o, l, c)
    [] kind = RSKind       -> RSSetDisks(o, l, c)
    [] kind \in RRKinds    -> RRSetDisks(o, l, c)
    [] kind \in RUSHKinds  -> RUSHSetDisks(o, l, c)
    [] kind = CRUSHKind    -> CRUSHSetDisks(o, l, c)

setBaseMessage(o, m) ==
  CASE kind \in ShareKinds -> ShareSetBaseMessage(o, m)
    [] kind = FRSKind      -> FRSSetBaseMessage(o, m)
    [] OTHER               -> [o EXCEPT !.message = m]

ToXML(o) ==
  CASE kind = NNKind       -> NNToXML(o)
    [] kind \in ShareKinds -> ShareToXML(o)
    [] kind = FRSKind      -> FRSToXML(o)
    [] kind = RSKind       -> RSToXML(o)
    [] kind \in RRKinds    -> RRToXML(o)
    [] kind \in RUSHKinds  -> RUSHToXML(o)
    [] kind = CRUSHKind    -> CRUSHToXML(o)

\* The objects the XML constructors may make of a file.
FromXML(x) ==
  CASE kind = NNKind       -> {NNFromXML(x)}
    [] kind \in ShareKinds -> {ShareFromXML(x)}
    [] kind = FRSKind      -> {FRSFromXML(x)}
    [] kind = RSKind       -> {RSFromXML(x)}
    [] kind \in RRKinds    ->
         {RRFromXML(x, order) : order \in SetToSeqs({p[1] : p \in x.positions})}
    [] kind \in RUSHKinds  -> {RUSHFromXML(x)}
    [] kind = CRUSHKind    -> {CRUSHFromXML(x)}

\* Where the map of a RoundRobin has a position
Place(order, p) == CHOOSE k \in DOMAIN order : order[k] = p

\* The n-th element from position p on, in the order of the map and around its end
Following(table, p, n) ==
  table.at[table.order[(((Place(table.order, p) - 1) + n) % Len(table.order)) + 1]]

\* Where extents go: what placeExtent computes its result from.
Places(o) ==
  CASE kind = NNKind -> <<Hashing(o), o.table, o.copies>>
    [] kind \in ShareKinds -> <<Hashing(o), o.table, o.copies, Hashing(o.part), o.part.table>>
    [] kind = FRSKind ->
         <<o.table, o.copies, Hashing(o.part), o.part.table,
           Hashing(o.part.part), o.part.part.table>>
    [] kind = RSKind -> <<Hashing(o), o.table, o.copies>>
    [] kind = RRMapKind ->
         [p \in DOMAIN o.table.at |-> [n \in 1 .. o.copies |-> Following(o.table, p, n - 1)]]
    [] kind = "RoundRobin" -> <<o.table.at, o.copies>>
    [] kind = RRHashKind -> <<Hashing(o), o.table.at, o.copies>>
    [] kind \in {"RUSHp", "RUSHt"} -> <<Hashing(o), o.table, o.copies>>
    [] kind = "RUSHr" -> <<o.table, o.copies>>
    [] kind = CRUSHKind -> <<Hashing(o), o.table, o.disks, o.copies>>

---------------------------------------------------------------------------
Init ==
  /\ kind \in Kinds
  /\ dist = New /\ file = None /\ twin = None /\ lost = {}

\* Both objects get the call.
Both(op(_)) ==
  /\ dist' = op(dist)
  /\ twin' = IF twin = None THEN None ELSE op(twin)
  /\ file' = None
  /\ UNCHANGED <<kind, lost>>

UseInternalHashAlgorithm(a) ==
  LET op(o) == [o EXCEPT !.hash = useInternal(@, a)] IN Both(op)

\* The caller of the loaded object asks for what its program supports.
UseGCryptHashAlgorithm(a) ==
  /\ twin # None => a \in GCryptOfLoader
  /\ LET op(o) == [o EXCEPT !.hash = useGCrypt(@, a, GCrypt)] IN Both(op)

SetBaseMessage(m) ==
  LET op(o) == setBaseMessage(o, m) IN Both(op)

(* FastRedundantShare, RUSH, Share -cnn and, the first time,               *)
(* RedundantShare do not come back with fewer disks than copies.           *)
SetConfiguration(l, c) ==
  /\ \/ Len(l) >= c
     \/ kind \in RRKinds \cup {NNKind, "Share", CRUSHKind}
     \/ kind = RSKind /\ dist.table # None
  /\ kind = CRUSHKind => Len(dist.disks) + Len(l) <= MaxDisks
  /\ LET op(o) == setConfiguration(o, l, c) IN Both(op)

Save ==
  /\ dist.table # None
  /\ file' = ToXML(dist)
  /\ UNCHANGED <<kind, dist, twin, lost>>

(* What a file does not bring back: base message and hash algorithms of    *)
(* RUSH and CRUSH; an algorithm the loader lacks; the order of             *)
(* RoundRobin's map; a CRUSH map of other disks than those collected;      *)
(* RedundantShare's thresholds for the copies before its last, refused,    *)
(* configuration.                                                          *)
Losses ==
  {loss \in {"extents", "attributes"} :
     \/ /\ kind \in {"RUSHp", "RUSHt", CRUSHKind} /\ loss = "extents"
        /\ Hashing(dist) # Hashing(New)
     \/ /\ kind \notin RUSHKinds \cup {CRUSHKind}
        /\ dist.hash.gcrypt \in GCrypt \ GCryptOfLoader
        /\ loss = "extents" => ~dist.hash.internal
     \/ /\ kind = RRMapKind /\ loss = "extents"
        /\ dist.copies > 1 /\ Len(dist.disks) > 2
     \/ kind = CRUSHKind /\ dist.table.map # dist.disks
     \/ kind = RSKind /\ loss = "extents" /\ dist.table.thresholds # dist.copies}

Load ==
  /\ file # None /\ twin = None
  /\ twin' \in FromXML(file)
  /\ lost' = Losses
  /\ UNCHANGED <<kind, dist, file>>

Next ==
  \/ \E a \in Internal : UseInternalHashAlgorithm(a)
  \/ \E a \in GCrypt : UseGCryptHashAlgorithm(a)
  \/ \E m \in Messages : SetBaseMessage(m)
  \/ \E l \in Lists, c \in 1 .. MaxCopies : SetConfiguration(l, c)
  \/ Save
  \/ Load

Spec == Init /\ [][Next]_vars

---------------------------------------------------------------------------
(* A loaded object places every extent where the saved one does, also      *)
(* after further calls to both, unless something was lost.                 *)
LoadedPlacesLikeSaved ==
  twin # None /\ "extents" \notin lost => Places(twin) = Places(dist)

(* Saved again, a loaded object writes the file it came from, also after   *)
(* further calls to both.                                                  *)
SecondFileIsFirst ==
  twin # None /\ "attributes" \notin lost => ToXML(twin) = ToXML(dist)
===============================================================================
