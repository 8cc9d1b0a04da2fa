---------------------------- MODULE SaveLoadProofs ----------------------------
(***************************************************************************)
(* Proofs about SaveLoad: a loaded object places every extent where the    *)
(* saved one does, and writes the same file again, whatever both are asked *)
(* to do after that, unless loading lost something.                        *)
(***************************************************************************)
EXTENDS SaveLoad, FiniteSetTheorems, SequenceTheorems, TLAPS

--------------------------------------------------------------------------------
(* The inductive invariant.                                                *)

\* Hash settings of an object; an algorithm of libgcrypt is only in use if it is one.
Hashes ==
  {h \in [internal : BOOLEAN, algorithm : Internal, gcrypt : GCrypt \cup {NoAlgorithm}] :
     ~h.internal => h.gcrypt \in GCrypt}

\* Settings that hash in the same way, though one may lack an algorithm not in use.
HashAlike(g, h) ==
  /\ g.internal <=> h.internal
  /\ g.internal => g.algorithm = h.algorithm
  /\ ~g.internal => g.gcrypt = h.gcrypt

\* The one record with these fields, as a set
Fields(hash, message, copies, disks, table, part) ==
  [hash : {hash}, message : {message}, copies : {copies}, disks : {disks},
   table : {table}, part : {part}]

Object(o) ==
  /\ o \in Fields(o.hash, o.message, o.copies, o.disks, o.table, o.part)
  /\ o.hash \in Hashes /\ o.message \in Messages /\ o.copies \in Nat

AllDisks == UNION {ToSet(l) : l \in Lists}

\* The table of a RoundRobin: an order of the disks, and the disks.
RRTable(table, l) ==
  /\ table = [order |-> table.order, at |-> l]
  /\ table.order \in [DOMAIN l -> DOMAIN l] /\ IsInjective(table.order)

\* An object whose disks are set, as its strategy leaves it.
Shape(k, o) ==
  /\ k \in ShareKinds => o.part \in Neighbours
  /\ k = FRSKind => o.part \in Shares
  /\ k = RSKind => /\ o.table = initValueCaches(o.table.rsDisks, o.table.thresholds)
                   /\ o.disks = o.table.rsDisks[1]
  /\ k \in RRKinds => o.disks \in Lists /\ RRTable(o.table, o.disks)
  /\ k \in RUSHKinds => o.table = o.disks
  /\ k = CRUSHKind =>
       o.table = [map |-> o.table.map, size |-> (Len(o.table.map) - 1) \div Domains + 1]

\* A saved object d and the loaded one t, when what is in l was lost.
Related(k, l, d, t) ==
  LET kept == ~("extents" \in l /\ "attributes" \in l)
      hashes == k \notin RUSHKinds \cup {CRUSHKind}
  IN  /\ t.copies = d.copies
      /\ hashes \/ (k # "RUSHr" /\ "extents" \notin l) => t.message = d.message
      /\ hashes /\ "attributes" \notin l => t.hash = d.hash
      /\ k # "RUSHr" /\ "extents" \notin l => HashAlike(t.hash, d.hash)
      /\ k = NNKind /\ kept => t.table = d.table
      /\ k \in ShareKinds => t.disks = d.disks /\ t.part = d.part /\ (kept => t.table = d.table)
      /\ k = FRSKind => t.disks = d.disks /\ t.part = d.part /\ t.table = d.table
      /\ k = RSKind => /\ t.disks = d.disks /\ t.table.rsDisks = d.table.rsDisks
                       /\ "extents" \notin l => t.table.thresholds = d.table.thresholds
      /\ k \in RRKinds => /\ t.disks = d.disks
                          /\ k = RRMapKind /\ "extents" \notin l =>
                               t.table.order = d.table.order \/ d.copies <= 1 \/ Len(d.disks) <= 2
      /\ k \in RUSHKinds => t.disks = d.disks /\ t.table = d.table
      /\ k = CRUSHKind /\ kept => t.disks = d.disks /\ t.table = d.table

Objects ==
  /\ kind \in Kinds
  /\ Object(dist)
  /\ dist.table # None => Shape(kind, dist)
  /\ kind = CRUSHKind => dist.disks \in Seq(AllDisks)
  /\ kind \in RRKinds /\ dist.table # None =>
       dist.table.order = [n \in DOMAIN dist.disks |-> n]

Saved == file # None => file = ToXML(dist) /\ dist.table # None

Loaded ==
  twin # None =>
    /\ Object(twin)
    /\ Shape(kind, dist) /\ Shape(kind, twin)
    /\ Related(kind, lost, dist, twin)

IInv == Objects /\ Saved /\ Loaded
--------------------------------------------------------------------------------
(* Hash settings.                                                          *)

\* The settings of a new object are settings.
LEMMA NewHash == New.hash \in Hashes /\ New.hash.internal /\ New.hash.algorithm = SHA1
BY HashAssumption DEF New, Hashes

\* A call that picks an algorithm leaves two objects with settings that hash in the
\* same way.
LEMMA AlgorithmPicked ==
  ASSUME NEW g \in Hashes, NEW h \in Hashes
  PROVE  /\ \A a \in Internal : /\ useInternal(g, a) \in Hashes
                                /\ HashAlike(useInternal(g, a), useInternal(h, a))
         /\ \A a \in GCrypt : /\ useGCrypt(g, a, GCrypt) \in Hashes
                              /\ HashAlike(useGCrypt(g, a, GCrypt), useGCrypt(h, a, GCrypt))
BY DEF Hashes, HashAlike, useInternal, useGCrypt

\* What the XML constructors restore of settings: all of them, unless the loader
\* lacks an algorithm of libgcrypt, and the algorithm in use unless it lacks that.
LEMMA RestoredIs ==
  ASSUME NEW h \in Hashes
  PROVE  /\ Restored(h) \in Hashes
         /\ h.gcrypt \notin GCrypt \ GCryptOfLoader => Restored(h) = h
         /\ h.internal \/ h.gcrypt \notin GCrypt \ GCryptOfLoader => HashAlike(Restored(h), h)
<1>1. h = [internal |-> h.internal, algorithm |-> h.algorithm, gcrypt |-> h.gcrypt]
  BY DEF Hashes
<1>2. /\ h.internal \in BOOLEAN /\ h.algorithm \in Internal
      /\ h.gcrypt \in GCrypt \cup {NoAlgorithm} /\ (~h.internal => h.gcrypt \in GCrypt)
  BY DEF Hashes
<1>3. CASE h.internal
  <2>1. Restored(h) = [internal |-> TRUE, algorithm |-> h.algorithm,
                       gcrypt |-> IF h.gcrypt \in GCryptOfLoader THEN h.gcrypt
                                  ELSE NoAlgorithm]
    BY <1>3 DEF Restored, useInternal, useGCrypt, New
  <2>2. h.internal = TRUE
    BY <1>2, <1>3
  <2> QED
    BY <1>1, <1>2, <1>3, <2>1, <2>2, HashAssumption DEF Hashes, HashAlike
<1>4. CASE ~h.internal
  <2>1. h.internal = FALSE /\ h.gcrypt \in GCrypt
    BY <1>2, <1>4
  <2>2. CASE h.gcrypt \in GCryptOfLoader
    <3>1. Restored(h) = [internal |-> FALSE, algorithm |-> h.algorithm, gcrypt |-> h.gcrypt]
      BY <1>4, <2>2 DEF Restored, useInternal, useGCrypt, New
    <3>2. Restored(h) = h
      BY <1>1, <2>1, <3>1
    <3> QED
      BY <3>2 DEF HashAlike
  <2>3. CASE h.gcrypt \notin GCryptOfLoader
    <3>1. Restored(h) = [internal |-> TRUE, algorithm |-> h.algorithm, gcrypt |-> NoAlgorithm]
      BY <1>4, <2>3 DEF Restored, useInternal, useGCrypt, New
    <3> QED
      BY <1>2, <1>4, <2>1, <2>3, <3>1 DEF Hashes
  <2> QED
    BY <2>2, <2>3
<1> QED
  BY <1>3, <1>4

\* The settings of a new object survive, whatever the loader lacks.
LEMMA NewHashRestored == Restored(New.hash) = New.hash
BY HashAssumption DEF Restored, useInternal, useGCrypt, New

\* Settings that hash in the same way do so, for one base message.
LEMMA SameHashing ==
  ASSUME NEW o, NEW p, HashAlike(o.hash, p.hash), o.message = p.message
  PROVE  Hashing(o) = Hashing(p)
BY DEF Hashing, HashAlike

\* An object that hashes like a new one has its base message and algorithm.
LEMMA HashesLikeNew ==
  ASSUME NEW o, Hashing(o) = Hashing(New)
  PROVE  HashAlike(New.hash, o.hash) /\ New.message = o.message
<1>1. Hashing(New) = <<New.hash.algorithm, New.message>> /\ New.hash.internal
  BY NewHash DEF Hashing
<1>2. o.hash.internal
  <2> SUFFICES ASSUME ~o.hash.internal PROVE FALSE
    OBVIOUS
  <2>1. Len(Hashing(o)) = 1
    BY DEF Hashing
  <2>2. Len(Hashing(New)) = 2
    BY <1>1
  <2> QED
    BY <2>1, <2>2
<1> QED
  BY <1>1, <1>2 DEF Hashing, HashAlike

--------------------------------------------------------------------------------
(* Initially, and steps that change one object's settings.                 *)

\* A record has the fields it is made of.
LEMMA FieldsAre ==
  ASSUME NEW h, NEW m, NEW c, NEW d, NEW t, NEW p, NEW o \in Fields(h, m, c, d, t, p)
  PROVE  /\ o.hash = h /\ o.message = m /\ o.copies = c /\ o.disks = d
         /\ o.table = t /\ o.part = p
         /\ h \in Hashes /\ m \in Messages /\ c \in Nat => Object(o)
<1>1. /\ o.hash = h /\ o.message = m /\ o.copies = c /\ o.disks = d
      /\ o.table = t /\ o.part = p
  BY DEF Fields
<1> QED
  BY <1>1 DEF Object

\* Nothing is saved or loaded at the beginning.
LEMMA InitInvariant == Init => IInv
<1> SUFFICES ASSUME Init PROVE IInv
  OBVIOUS
<1>1. Object(New)
  BY NewHash, HashAssumption DEF Object, Fields, New
<1>2. New.table = None /\ New.disks = <<>>
  BY DEF New
<1> QED
  BY <1>1, <1>2 DEF Init, IInv, Objects, Saved, Loaded

\* Picking an algorithm keeps two objects alike.
LEMMA HashSet ==
  ASSUME NEW k, NEW l, NEW d, NEW t, NEW g \in Hashes, NEW h \in Hashes,
         Object(d), Object(t), Related(k, l, d, t), HashAlike(h, g), t.hash = d.hash => h = g
  PROVE  Related(k, l, [d EXCEPT !.hash = g], [t EXCEPT !.hash = h])
<1> DEFINE e == [d EXCEPT !.hash = g]
           u == [t EXCEPT !.hash = h]
<1>1. /\ e.hash = g /\ e.message = d.message /\ e.copies = d.copies /\ e.disks = d.disks
      /\ e.table = d.table /\ e.part = d.part
  BY DEF Object, Fields
<1>2. /\ u.hash = h /\ u.message = t.message /\ u.copies = t.copies /\ u.disks = t.disks
      /\ u.table = t.table /\ u.part = t.part
  BY DEF Object, Fields
<1> HIDE DEF e, u
<1>3. Related(k, l, e, u)
  BY <1>1, <1>2 DEF Related
<1> QED
  BY <1>3 DEF e, u

\* The invariant after a call to both objects.
LEMMA CallKeeps ==
  ASSUME IInv, UNCHANGED <<kind, lost>>, file' = None,
         Object(dist'),
         dist'.table # None => Shape(kind, dist'),
         kind = CRUSHKind => dist'.disks \in Seq(AllDisks),
         kind \in RRKinds /\ dist'.table # None =>
           dist'.table.order = [n \in DOMAIN dist'.disks |-> n],
         twin = None => twin' = None,
         twin # None => /\ Object(twin')
                        /\ Shape(kind, dist') /\ Shape(kind, twin')
                        /\ Related(kind, lost, dist', twin')
  PROVE  IInv'
BY DEF IInv, Objects, Saved, Loaded

\* Settings alone say nothing of the tables.
LEMMA SettingsChange ==
  ASSUME NEW k, NEW o, Object(o), NEW h \in Hashes
  PROVE  LET p == [o EXCEPT !.hash = h]
         IN  /\ Object(p) /\ p.table = o.table /\ p.disks = o.disks
             /\ Shape(k, o) => Shape(k, p)
<1> DEFINE p == [o EXCEPT !.hash = h]
<1>1. p \in Fields(h, o.message, o.copies, o.disks, o.table, o.part)
  BY DEF Object, Fields
<1> HIDE DEF p
<1>2. /\ p.hash = h /\ p.message = o.message /\ p.copies = o.copies /\ p.disks = o.disks
      /\ p.table = o.table /\ p.part = o.part
  BY <1>1, FieldsAre
<1>3. Object(p)
  BY <1>1, FieldsAre DEF Object
<1>4. Shape(k, o) => Shape(k, p)
  BY <1>2 DEF Shape
<1> QED
  BY <1>2, <1>3, <1>4 DEF p

\* The invariant after other settings of both objects.
LEMMA SettingsKeep ==
  ASSUME IInv, UNCHANGED <<kind, lost>>, file' = None,
         NEW g \in Hashes, dist' = [dist EXCEPT !.hash = g],
         NEW h, twin' = IF twin = None THEN None ELSE [twin EXCEPT !.hash = h],
         twin # None => h \in Hashes /\ HashAlike(h, g) /\ (twin.hash = dist.hash => h = g)
  PROVE  IInv'
<1>1. /\ Object(dist') /\ dist'.table = dist.table /\ dist'.disks = dist.disks
      /\ Shape(kind, dist) => Shape(kind, dist')
  BY SettingsChange DEF IInv, Objects
<1>2. ASSUME twin # None
      PROVE  /\ Object(twin')
             /\ Shape(kind, dist') /\ Shape(kind, twin')
             /\ Related(kind, lost, dist', twin')
  <2>1. /\ Object(dist) /\ Object(twin) /\ Shape(kind, dist) /\ Shape(kind, twin)
        /\ Related(kind, lost, dist, twin)
    BY <1>2 DEF IInv, Objects, Loaded
  <2>2. h \in Hashes /\ twin' = [twin EXCEPT !.hash = h]
    BY <1>2
  <2>3. Object(twin') /\ (Shape(kind, twin) => Shape(kind, twin'))
    BY <2>1, <2>2, SettingsChange
  <2>4. Related(kind, lost, dist', twin')
    BY <1>2, <2>1, <2>2, HashSet
  <2> QED
    BY <1>1, <2>1, <2>3, <2>4
<1>3. /\ dist.table # None => Shape(kind, dist)
      /\ kind = CRUSHKind => dist.disks \in Seq(AllDisks)
      /\ kind \in RRKinds /\ dist.table # None =>
           dist.table.order = [n \in DOMAIN dist.disks |-> n]
  BY DEF IInv, Objects
<1>4. kind \in RRKinds /\ dist'.table # None =>
        dist'.table.order = [n \in DOMAIN dist'.disks |-> n]
  BY <1>1, <1>3
<1> QED
  BY <1>1, <1>2, <1>3, <1>4, CallKeeps

\* useHashAlgorithm with an algorithm of the library keeps the invariant.
LEMMA UseInternalKeeps ==
  ASSUME IInv, NEW a \in Internal, UseInternalHashAlgorithm(a) PROVE IInv'
<1> DEFINE g == useInternal(dist.hash, a)
           h == useInternal(twin.hash, a)
<1>1. /\ dist' = [dist EXCEPT !.hash = g]
      /\ twin' = IF twin = None THEN None ELSE [twin EXCEPT !.hash = h]
      /\ file' = None /\ UNCHANGED <<kind, lost>>
  BY DEF UseInternalHashAlgorithm, Both
<1>2. dist.hash \in Hashes /\ (twin # None => twin.hash \in Hashes)
  BY DEF IInv, Objects, Loaded, Object
<1>3. g \in Hashes
  BY <1>2, AlgorithmPicked
<1>4. twin # None => h \in Hashes /\ HashAlike(h, g) /\ (twin.hash = dist.hash => h = g)
  BY <1>2, AlgorithmPicked
<1> HIDE DEF g, h
<1> QED
  BY <1>1, <1>3, <1>4, SettingsKeep

\* useHashAlgorithm with one of libgcrypt that the programs support keeps it, too.
LEMMA UseGCryptKeeps ==
  ASSUME IInv, NEW a \in GCrypt, UseGCryptHashAlgorithm(a) PROVE IInv'
<1> DEFINE g == useGCrypt(dist.hash, a, GCrypt)
           h == useGCrypt(twin.hash, a, GCrypt)
<1>1. /\ dist' = [dist EXCEPT !.hash = g]
      /\ twin' = IF twin = None THEN None ELSE [twin EXCEPT !.hash = h]
      /\ file' = None /\ UNCHANGED <<kind, lost>>
  BY DEF UseGCryptHashAlgorithm, Both
<1>2. dist.hash \in Hashes /\ (twin # None => twin.hash \in Hashes)
  BY DEF IInv, Objects, Loaded, Object
<1>3. g \in Hashes
  BY <1>2, AlgorithmPicked
<1>4. twin # None => h \in Hashes /\ HashAlike(h, g) /\ (twin.hash = dist.hash => h = g)
  BY <1>2, AlgorithmPicked
<1> HIDE DEF g, h
<1> QED
  BY <1>1, <1>3, <1>4, SettingsKeep

--------------------------------------------------------------------------------
(* The base message.                                                       *)

\* The distributors inside of an object get the base message as well, and stay what
\* they are.
LEMMA PartsGetMessage ==
  ASSUME NEW m \in Messages
  PROVE  /\ \A n \in Neighbours : [n EXCEPT !.message = m] \in Neighbours
         /\ \A s \in Shares : ShareSetBaseMessage(s, m) \in Shares
<1>1. ASSUME NEW n \in Neighbours PROVE [n EXCEPT !.message = m] \in Neighbours
  BY DEF Neighbours
<1>2. ASSUME NEW s \in Shares PROVE ShareSetBaseMessage(s, m) \in Shares
  <2>1. s.part \in Neighbours /\ s.part # None
    BY NoneAssumption DEF Shares
  <2>2. ShareSetBaseMessage(s, m) = [s EXCEPT !.message = m,
                                              !.part = [s.part EXCEPT !.message = m]]
    BY <2>1 DEF ShareSetBaseMessage
  <2> DEFINE n == [s.part EXCEPT !.message = m]
  <2>3. n \in Neighbours
    BY <1>1, <2>1
  <2> HIDE DEF n
  <2>4. [s EXCEPT !.message = m, !.part = n] \in Shares
    BY <2>3 DEF Shares
  <2> QED
    BY <2>2, <2>4 DEF n
<1> QED
  BY <1>1, <1>2

\* setBaseMessage changes the message of an object and of the distributors inside.
LEMMA MessageSet ==
  ASSUME NEW m \in Messages, NEW o, Object(o)
  PROVE  LET p == setBaseMessage(o, m)
         IN  /\ Object(p)
             /\ p.hash = o.hash /\ p.message = m /\ p.copies = o.copies
             /\ p.disks = o.disks /\ p.table = o.table
             /\ kind \in ShareKinds =>
                  p.part = IF o.part = None THEN None ELSE [o.part EXCEPT !.message = m]
             /\ kind = FRSKind =>
                  p.part = IF o.part = None THEN None ELSE ShareSetBaseMessage(o.part, m)
             /\ Shape(kind, o) => Shape(kind, p)
<1> DEFINE p == setBaseMessage(o, m)
           part == IF kind \in ShareKinds
                   THEN IF o.part = None THEN None ELSE [o.part EXCEPT !.message = m]
                   ELSE IF kind = FRSKind
                   THEN IF o.part = None THEN None ELSE ShareSetBaseMessage(o.part, m)
                   ELSE o.part
<1>1. FRSKind \notin ShareKinds
  BY Zenon DEF FRSKind, CnnKind, ShareKinds
<1> HIDE DEF part
<1>2. p \in Fields(o.hash, m, o.copies, o.disks, o.table, part)
  <2>1. CASE kind \in ShareKinds
    BY <1>1, <2>1 DEF part, setBaseMessage, ShareSetBaseMessage, Object, Fields
  <2>2. CASE kind = FRSKind
    BY <1>1, <2>2 DEF part, setBaseMessage, FRSSetBaseMessage, Object, Fields
  <2>3. CASE kind \notin ShareKinds /\ kind # FRSKind
    BY <2>3 DEF part, setBaseMessage, Object, Fields
  <2> QED
    BY <2>1, <2>2, <2>3
<1> HIDE DEF p
<1>3. /\ p.hash = o.hash /\ p.message = m /\ p.copies = o.copies
      /\ p.disks = o.disks /\ p.table = o.table /\ p.part = part
  BY <1>2, FieldsAre
<1>4. Object(p)
  BY <1>2, FieldsAre DEF Object
<1>5. Shape(kind, o) => Shape(kind, p)
  <2> SUFFICES ASSUME Shape(kind, o) PROVE Shape(kind, p)
    OBVIOUS
  <2>1. kind \in ShareKinds => part \in Neighbours
    <3>1. o.part \in Neighbours => o.part # None
      BY NoneAssumption
    <3> QED
      BY <3>1, PartsGetMessage DEF part, Shape
  <2>2. kind = FRSKind => part \in Shares
    <3>1. o.part \in Shares => o.part # None
      BY NoneAssumption
    <3> QED
      BY <1>1, <3>1, PartsGetMessage DEF part, Shape
  <2> QED
    BY <1>3, <2>1, <2>2 DEF Shape
<1> QED
  BY <1>1, <1>3, <1>4, <1>5 DEF part, p

\* setBaseMessage keeps the invariant.
LEMMA SetBaseMessageKeeps ==
  ASSUME IInv, NEW m \in Messages, SetBaseMessage(m) PROVE IInv'
<1> DEFINE e == setBaseMessage(dist, m)
           u == setBaseMessage(twin, m)
<1>1. /\ dist' = e /\ twin' = IF twin = None THEN None ELSE u
      /\ file' = None /\ UNCHANGED <<kind, lost>>
  BY DEF SetBaseMessage, Both
<1>2. /\ Object(dist)
      /\ dist.table # None => Shape(kind, dist)
      /\ kind = CRUSHKind => dist.disks \in Seq(AllDisks)
      /\ kind \in RRKinds /\ dist.table # None =>
           dist.table.order = [n \in DOMAIN dist.disks |-> n]
  BY DEF IInv, Objects
<1>3. /\ Object(e)
      /\ e.hash = dist.hash /\ e.message = m /\ e.copies = dist.copies
      /\ e.disks = dist.disks /\ e.table = dist.table
      /\ kind \in ShareKinds =>
           e.part = IF dist.part = None THEN None ELSE [dist.part EXCEPT !.message = m]
      /\ kind = FRSKind =>
           e.part = IF dist.part = None THEN None ELSE ShareSetBaseMessage(dist.part, m)
      /\ Shape(kind, dist) => Shape(kind, e)
  BY <1>2, MessageSet
<1>4. ASSUME twin # None
      PROVE  /\ Object(u)
             /\ Shape(kind, e) /\ Shape(kind, u)
             /\ Related(kind, lost, e, u)
  <2>1. /\ Object(twin) /\ Shape(kind, dist) /\ Shape(kind, twin)
        /\ Related(kind, lost, dist, twin)
    BY <1>4 DEF IInv, Loaded
  <2>2. /\ Object(u)
        /\ u.hash = twin.hash /\ u.message = m /\ u.copies = twin.copies
        /\ u.disks = twin.disks /\ u.table = twin.table
        /\ kind \in ShareKinds =>
             u.part = IF twin.part = None THEN None ELSE [twin.part EXCEPT !.message = m]
        /\ kind = FRSKind =>
             u.part = IF twin.part = None THEN None ELSE ShareSetBaseMessage(twin.part, m)
        /\ Shape(kind, twin) => Shape(kind, u)
    BY <2>1, MessageSet
  <2> HIDE DEF e, u
  <2>3. /\ kind \in ShareKinds => u.part = e.part
        /\ kind = FRSKind => u.part = e.part
    BY <1>3, <2>1, <2>2 DEF Related
  <2>4. Related(kind, lost, e, u)
    BY <1>3, <2>1, <2>2, <2>3 DEF Related
  <2> QED
    BY <1>3, <2>1, <2>2, <2>4
<1> HIDE DEF e, u
<1>5. /\ Object(dist')
      /\ dist'.table # None => Shape(kind, dist')
      /\ kind = CRUSHKind => dist'.disks \in Seq(AllDisks)
      /\ kind \in RRKinds /\ dist'.table # None =>
           dist'.table.order = [n \in DOMAIN dist'.disks |-> n]
  BY <1>1, <1>2, <1>3
<1>6. /\ twin = None => twin' = None
      /\ twin # None => /\ Object(twin')
                        /\ Shape(kind, dist') /\ Shape(kind, twin')
                        /\ Related(kind, lost, dist', twin')
  BY <1>1, <1>4
<1> QED
  BY <1>1, <1>5, <1>6, CallKeeps

--------------------------------------------------------------------------------
(* The strategies: what each of them keeps, writes and reads.              *)

AllKinds ==
  {NNKind, FRSKind, RSKind, CRUSHKind} \cup ShareKinds \cup RRKinds \cup RUSHKinds

\* Every call goes to the method of one strategy.
LEMMA KindsDiffer ==
  /\ NNKind \notin ShareKinds \cup RRKinds \cup RUSHKinds
  /\ FRSKind \notin ShareKinds \cup RRKinds \cup RUSHKinds
  /\ RSKind \notin ShareKinds \cup RRKinds \cup RUSHKinds
  /\ CRUSHKind \notin ShareKinds \cup RRKinds \cup RUSHKinds
  /\ NNKind # FRSKind /\ NNKind # RSKind /\ NNKind # CRUSHKind
  /\ FRSKind # RSKind /\ FRSKind # CRUSHKind /\ RSKind # CRUSHKind
  /\ \A k \in ShareKinds : k \notin RRKinds \cup RUSHKinds
  /\ \A k \in RRKinds : k \notin RUSHKinds
  /\ "RUSHr" \in RUSHKinds /\ RRMapKind \in RRKinds
BY Zenon DEF NNKind, FRSKind, RSKind, CRUSHKind, CnnKind, ShareKinds, RRHashKind, RRMapKind,
             RRKinds, RUSHKinds

\* setDisks of each strategy
LEMMA Configured ==
  ASSUME NEW o, NEW l, NEW c
  PROVE  /\ kind = NNKind => setConfiguration(o, l, c) = NNSetDisks(o, l, c)
         /\ kind \in ShareKinds =>
              setConfiguration(o, l, c) = ShareSetDisks(o, l, c, kind = CnnKind)
         /\ kind = FRSKind => setConfiguration(o, l, c) = FRSSetDisks(o, l, c)
         /\ kind = RSKind => setConfiguration(o, l, c) = RSSetDisks(o, l, c)
         /\ kind \in RRKinds => setConfiguration(o, l, c) = RRSetDisks(o, l, c)
         /\ kind \in RUSHKinds => setConfiguration(o, l, c) = RUSHSetDisks(o, l, c)
         /\ kind = CRUSHKind => setConfiguration(o, l, c) = CRUSHSetDisks(o, l, c)
<1>1. kind = NNKind => setConfiguration(o, l, c) = NNSetDisks(o, l, c)
  BY KindsDiffer DEF setConfiguration
<1>2. kind \in ShareKinds =>
        setConfiguration(o, l, c) = ShareSetDisks(o, l, c, kind = CnnKind)
  BY KindsDiffer DEF setConfiguration
<1>3. kind = FRSKind => setConfiguration(o, l, c) = FRSSetDisks(o, l, c)
  BY KindsDiffer DEF setConfiguration
<1>4. kind = RSKind => setConfiguration(o, l, c) = RSSetDisks(o, l, c)
  BY KindsDiffer DEF setConfiguration
<1>5. kind \in RRKinds => setConfiguration(o, l, c) = RRSetDisks(o, l, c)
  BY KindsDiffer DEF setConfiguration
<1>6. kind \in RUSHKinds => setConfiguration(o, l, c) = RUSHSetDisks(o, l, c)
  BY KindsDiffer DEF setConfiguration
<1>7. kind = CRUSHKind => setConfiguration(o, l, c) = CRUSHSetDisks(o, l, c)
  BY KindsDiffer DEF setConfiguration
<1> QED
  BY <1>1, <1>2, <1>3, <1>4, <1>5, <1>6, <1>7

\* What save writes of each strategy
LEMMA Written ==
  ASSUME NEW o
  PROVE  /\ kind = NNKind => ToXML(o) = NNToXML(o)
         /\ kind \in ShareKinds => ToXML(o) = ShareToXML(o)
         /\ kind = FRSKind => ToXML(o) = FRSToXML(o)
         /\ kind = RSKind => ToXML(o) = RSToXML(o)
         /\ kind \in RRKinds => ToXML(o) = RRToXML(o)
         /\ kind \in RUSHKinds => ToXML(o) = RUSHToXML(o)
         /\ kind = CRUSHKind => ToXML(o) = CRUSHToXML(o)
<1>1. kind = NNKind => ToXML(o) = NNToXML(o)
  BY KindsDiffer DEF ToXML
<1>2. kind \in ShareKinds => ToXML(o) = ShareToXML(o)
  BY KindsDiffer DEF ToXML
<1>3. kind = FRSKind => ToXML(o) = FRSToXML(o)
  BY KindsDiffer DEF ToXML
<1>4. kind = RSKind => ToXML(o) = RSToXML(o)
  BY KindsDiffer DEF ToXML
<1>5. kind \in RRKinds => ToXML(o) = RRToXML(o)
  BY KindsDiffer DEF ToXML
<1>6. kind \in RUSHKinds => ToXML(o) = RUSHToXML(o)
  BY KindsDiffer DEF ToXML
<1>7. kind = CRUSHKind => ToXML(o) = CRUSHToXML(o)
  BY KindsDiffer DEF ToXML
<1> QED
  BY <1>1, <1>2, <1>3, <1>4, <1>5, <1>6, <1>7

\* The nearest neighbours that a Share fills, and the Shares that a
\* FastRedundantShare fills
LEMMA PartsFilled ==
  ASSUME NEW m \in Messages, NEW l \in Lists, NEW c \in Nat
  PROVE  /\ NNSetDisks([New EXCEPT !.message = m], l, c) \in Neighbours
         /\ ShareSetDisks([New EXCEPT !.message = m], l, 1, FALSE) \in Shares
<1> DEFINE o == [New EXCEPT !.message = m]
<1>1. o \in Fields(New.hash, m, 0, <<>>, None, None)
  BY DEF New, Fields
<1> HIDE DEF o
<1>2. Hashing(o) = <<SHA1, m>>
  <2>1. o.hash = New.hash /\ o.message = m
    BY <1>1, FieldsAre
  <2> QED
    BY <2>1, NewHash DEF Hashing
<1>3. ASSUME NEW n \in Nat PROVE NNSetDisks(o, l, n) \in Neighbours
  <2>1. NNSetDisks(o, l, n) \in Fields(New.hash, m, n, <<>>, <<<<SHA1, m>>, l>>, None)
    BY <1>1, <1>2 DEF NNSetDisks, Fields
  <2> QED
    BY <2>1 DEF Neighbours, Fields
<1>4. ShareSetDisks(o, l, 1, FALSE) \in Shares
  <2> DEFINE n == NNSetDisks([New EXCEPT !.message = o.message], l, 1)
  <2>1. n = NNSetDisks(o, l, 1)
    BY <1>1, FieldsAre DEF o
  <2>2. n \in Neighbours
    BY <1>3, <2>1
  <2> DEFINE table == <<<<SHA1, m>>, l>>
             hash == New.hash
  <2>3. ShareSetDisks(o, l, 1, FALSE) \in Fields(hash, m, 1, l, table, n)
    BY <1>1, <1>2 DEF ShareSetDisks, Fields
  <2>4. table \in ({SHA1} \X Messages) \X Lists
    OBVIOUS
  <2>5. Shares = [hash : {hash}, message : Messages, copies : {1}, disks : Lists,
                  table : ({SHA1} \X Messages) \X Lists, part : Neighbours]
    BY DEF Shares
  <2> HIDE DEF n, table, hash
  <2> QED
    BY <2>2, <2>3, <2>4, <2>5 DEF Fields
<1> QED
  BY <1>3, <1>4 DEF o

\* What setConfiguration leaves in an object p that was o, for each strategy
ConfiguredAs(p, o, l, c) ==
  /\ p.hash = o.hash /\ p.message = o.message /\ p.copies = c
  /\ kind = NNKind => p.table = <<Hashing(o), l>>
  /\ kind \in ShareKinds =>
       /\ p.disks = l /\ p.table = <<Hashing(o), l>>
       /\ p.part = NNSetDisks([New EXCEPT !.message = o.message], l,
                              IF kind = CnnKind THEN c ELSE 1)
  /\ kind = FRSKind =>
       /\ p.disks = l /\ p.table = <<l, c>>
       /\ p.part = ShareSetDisks([New EXCEPT !.message = o.message], l, 1, FALSE)
  /\ kind = RSKind =>
       IF Len(l) < c THEN p.disks = o.disks /\ p.table = o.table
       ELSE p.disks = l /\ p.table = initValueCaches(<<l, c>>, c)
  /\ kind \in RRKinds =>
       p.disks = l /\ p.table = [order |-> [k \in DOMAIN l |-> k], at |-> l]
  /\ kind \in RUSHKinds => p.disks = l /\ p.table = l
  /\ kind = CRUSHKind =>
       /\ p.disks = o.disks \o l
       /\ p.table = [map |-> l, size |-> (Len(l) - 1) \div Domains + 1]

\* setConfiguration sets the copies, and the tables of its strategy.
LEMMA ConfigurationSet ==
  ASSUME NEW o, Object(o), NEW l \in Lists, NEW c \in Nat, kind \in AllKinds
  PROVE  /\ Object(setConfiguration(o, l, c))
         /\ ConfiguredAs(setConfiguration(o, l, c), o, l, c)
<1> DEFINE p == setConfiguration(o, l, c)
           Now(d, t, q) == p \in Fields(o.hash, o.message, c, d, t, q)
<1>0. ASSUME NEW d, NEW t, NEW q, Now(d, t, q)
      PROVE  /\ Object(p) /\ p.hash = o.hash /\ p.message = o.message /\ p.copies = c
             /\ p.disks = d /\ p.table = t /\ p.part = q
  <2> HIDE DEF p
  <2>1. p \in Fields(o.hash, o.message, c, d, t, q)
    BY <1>0
  <2> QED
    BY <2>1, FieldsAre DEF Object
<1>1. CASE kind = NNKind
  <2>1. p = NNSetDisks(o, l, c)
    BY <1>1, Configured
  <2>2. Now(o.disks, <<Hashing(o), l>>, o.part)
    BY <2>1 DEF NNSetDisks, Object, Fields
  <2> HIDE DEF Now
  <2>3. /\ Object(p) /\ p.hash = o.hash /\ p.message = o.message /\ p.copies = c
        /\ p.disks = o.disks /\ p.table = <<Hashing(o), l>> /\ p.part = o.part
    BY <1>0, <2>2
  <2> HIDE DEF p
  <2> QED
    BY <1>1, <2>3, KindsDiffer DEF ConfiguredAs, p
<1>2. CASE kind \in ShareKinds
  <2> DEFINE n == NNSetDisks([New EXCEPT !.message = o.message], l,
                             IF kind = CnnKind THEN c ELSE 1)
  <2>1. p = ShareSetDisks(o, l, c, kind = CnnKind)
    BY <1>2, Configured
  <2>2. Now(l, <<Hashing(o), l>>, n)
    BY <2>1 DEF ShareSetDisks, Object, Fields
  <2> HIDE DEF Now, n
  <2>3. /\ Object(p) /\ p.hash = o.hash /\ p.message = o.message /\ p.copies = c
        /\ p.disks = l /\ p.table = <<Hashing(o), l>> /\ p.part = n
    BY <1>0, <2>2
  <2> HIDE DEF p
  <2> QED
    BY <1>2, <2>3, KindsDiffer DEF ConfiguredAs, p, n
<1>3. CASE kind = FRSKind
  <2> DEFINE s == ShareSetDisks([New EXCEPT !.message = o.message], l, 1, FALSE)
  <2>1. p = FRSSetDisks(o, l, c)
    BY <1>3, Configured
  <2>2. Now(l, <<l, c>>, s)
    BY <2>1 DEF FRSSetDisks, Object, Fields
  <2> HIDE DEF Now, s
  <2>3. /\ Object(p) /\ p.hash = o.hash /\ p.message = o.message /\ p.copies = c
        /\ p.disks = l /\ p.table = <<l, c>> /\ p.part = s
    BY <1>0, <2>2
  <2> HIDE DEF p
  <2> QED
    BY <1>3, <2>3, KindsDiffer DEF ConfiguredAs, p, s
<1>4. CASE kind = RSKind
  <2>1. p = RSSetDisks(o, l, c)
    BY <1>4, Configured
  <2>2. CASE Len(l) < c
    <3>1. Now(o.disks, o.table, o.part)
      BY <2>1, <2>2 DEF RSSetDisks, Object, Fields
    <3> HIDE DEF Now
    <3>2. /\ Object(p) /\ p.hash = o.hash /\ p.message = o.message /\ p.copies = c
          /\ p.disks = o.disks /\ p.table = o.table
      BY <1>0, <3>1
    <3> HIDE DEF p
    <3> QED
      BY <1>4, <2>2, <3>2, KindsDiffer DEF ConfiguredAs, p
  <2>3. CASE ~(Len(l) < c)
    <3> DEFINE table == initValueCaches(<<l, c>>, c)
    <3>1. Now(l, table, o.part)
      BY <2>1, <2>3 DEF RSSetDisks, Object, Fields
    <3> HIDE DEF Now, table
    <3>2. /\ Object(p) /\ p.hash = o.hash /\ p.message = o.message /\ p.copies = c
          /\ p.disks = l /\ p.table = table
      BY <1>0, <3>1
    <3> HIDE DEF p
    <3> QED
      BY <1>4, <2>3, <3>2, KindsDiffer DEF ConfiguredAs, p, table
  <2> QED
    BY <2>2, <2>3
<1>5. CASE kind \in RRKinds
  <2> DEFINE table == [order |-> [k \in DOMAIN l |-> k], at |-> l]
  <2>1. p = RRSetDisks(o, l, c)
    BY <1>5, Configured
  <2>2. Now(l, table, o.part)
    BY <2>1 DEF RRSetDisks, Object, Fields
  <2> HIDE DEF Now, table
  <2>3. /\ Object(p) /\ p.hash = o.hash /\ p.message = o.message /\ p.copies = c
        /\ p.disks = l /\ p.table = table /\ p.part = o.part
    BY <1>0, <2>2
  <2> HIDE DEF p
  <2> QED
    BY <1>5, <2>3, KindsDiffer DEF ConfiguredAs, p, table
<1>6. CASE kind \in RUSHKinds
  <2>1. p = RUSHSetDisks(o, l, c)
    BY <1>6, Configured
  <2>2. Now(l, l, o.part)
    BY <2>1 DEF RUSHSetDisks, Object, Fields
  <2> HIDE DEF Now
  <2>3. /\ Object(p) /\ p.hash = o.hash /\ p.message = o.message /\ p.copies = c
        /\ p.disks = l /\ p.table = l /\ p.part = o.part
    BY <1>0, <2>2
  <2> HIDE DEF p
  <2> QED
    BY <1>6, <2>3, KindsDiffer DEF ConfiguredAs, p
<1>7. CASE kind = CRUSHKind
  <2> DEFINE table == [map |-> l, size |-> (Len(l) - 1) \div Domains + 1]
             all == o.disks \o l
  <2>1. p = CRUSHSetDisks(o, l, c)
    BY <1>7, Configured
  <2>2. Now(all, table, o.part)
    BY <2>1 DEF CRUSHSetDisks, Object, Fields
  <2> HIDE DEF Now, table, all
  <2>3. /\ Object(p) /\ p.hash = o.hash /\ p.message = o.message /\ p.copies = c
        /\ p.disks = all /\ p.table = table /\ p.part = o.part
    BY <1>0, <2>2
  <2> HIDE DEF p
  <2> QED
    BY <1>7, <2>3, KindsDiffer DEF ConfiguredAs, p, table, all
<1> QED
  BY <1>1, <1>2, <1>3, <1>4, <1>5, <1>6, <1>7 DEF AllKinds

\* The order in which setDisks fills the map of a RoundRobin is one.
LEMMA IdentityIsAnOrder ==
  ASSUME NEW l
  PROVE  RRTable([order |-> [k \in DOMAIN l |-> k], at |-> l], l)
<1> DEFINE id == [k \in DOMAIN l |-> k]
           table == [order |-> id, at |-> l]
<1>1. id \in [DOMAIN l -> DOMAIN l] /\ IsInjective(id)
  BY DEF IsInjective
<1> HIDE DEF id
<1>2. table.order = id /\ table = [order |-> table.order, at |-> l]
  OBVIOUS
<1> HIDE DEF table
<1>3. RRTable(table, l)
  BY <1>1, <1>2 DEF RRTable
<1> QED
  BY <1>3 DEF table, id

\* setConfiguration leaves an object as its strategy leaves it.
LEMMA ShapeSet ==
  ASSUME NEW o, Object(o), NEW l \in Lists, NEW c \in Nat, kind \in AllKinds,
         kind = RSKind /\ Len(l) < c => Shape(kind, o)
  PROVE  Shape(kind, setConfiguration(o, l, c))
<1> DEFINE p == setConfiguration(o, l, c)
<1>0. ConfiguredAs(p, o, l, c)
  BY ConfigurationSet
<1> SUFFICES Shape(kind, p)
  OBVIOUS
<1> HIDE DEF p
<1>1. CASE kind \in ShareKinds
  <2> DEFINE n == IF kind = CnnKind THEN c ELSE 1
  <2>1. n \in Nat /\ o.message \in Messages
    BY DEF Object
  <2>2. p.part = NNSetDisks([New EXCEPT !.message = o.message], l, n)
    BY <1>0, <1>1 DEF ConfiguredAs
  <2> HIDE DEF n
  <2>3. p.part \in Neighbours
    BY <2>1, <2>2, PartsFilled
  <2> QED
    BY <1>1, <2>3, KindsDiffer DEF Shape
<1>2. CASE kind = FRSKind
  <2>1. o.message \in Messages
    BY DEF Object
  <2>2. p.part = ShareSetDisks([New EXCEPT !.message = o.message], l, 1, FALSE)
    BY <1>0, <1>2 DEF ConfiguredAs
  <2>3. p.part \in Shares
    BY <2>1, <2>2, PartsFilled
  <2> QED
    BY <1>2, <2>3, KindsDiffer DEF Shape
<1>3. CASE kind = RSKind
  <2>1. IF Len(l) < c THEN p.disks = o.disks /\ p.table = o.table
        ELSE p.disks = l /\ p.table = initValueCaches(<<l, c>>, c)
    BY <1>0, <1>3 DEF ConfiguredAs
  <2>2. /\ p.table = initValueCaches(p.table.rsDisks, p.table.thresholds)
        /\ p.disks = p.table.rsDisks[1]
    <3>1. CASE Len(l) < c
      BY <1>3, <2>1, <3>1 DEF Shape
    <3>2. CASE ~(Len(l) < c)
      <4>1. p.table.rsDisks = <<l, c>> /\ p.table.thresholds = c
        BY <2>1, <3>2 DEF initValueCaches
      <4> QED
        BY <2>1, <3>2, <4>1
    <3> QED
      BY <3>1, <3>2
  <2> QED
    BY <1>3, <2>2, KindsDiffer DEF Shape
<1>4. CASE kind \in RRKinds
  <2> DEFINE table == [order |-> [k \in DOMAIN l |-> k], at |-> l]
  <2>1. p.disks = l /\ p.table = table
    BY <1>0, <1>4 DEF ConfiguredAs
  <2>2. RRTable(table, l)
    BY IdentityIsAnOrder
  <2> HIDE DEF table
  <2> QED
    BY <1>4, <2>1, <2>2, KindsDiffer DEF Shape
<1>5. CASE kind = CRUSHKind
  <2> DEFINE table == [map |-> l, size |-> (Len(l) - 1) \div Domains + 1]
  <2>1. p.table = table
    BY <1>0, <1>5 DEF ConfiguredAs
  <2>2. table = [map |-> table.map, size |-> (Len(table.map) - 1) \div Domains + 1]
    OBVIOUS
  <2> HIDE DEF table
  <2> QED
    BY <1>5, <2>1, <2>2, KindsDiffer DEF Shape
<1>6. CASE kind \in RUSHKinds
  <2>1. p.disks = l /\ p.table = l
    BY <1>0, <1>6 DEF ConfiguredAs
  <2> QED
    BY <1>6, <2>1, KindsDiffer DEF Shape
<1>7. CASE kind = NNKind
  BY <1>7, KindsDiffer DEF Shape
<1> QED
  BY <1>1, <1>2, <1>3, <1>4, <1>5, <1>6, <1>7 DEF AllKinds

\* One configuration of both keeps a saved object and the loaded one alike.
LEMMA RelatedSet ==
  ASSUME NEW d, NEW t, Object(d), Object(t), NEW l \in Lists, NEW c \in Nat,
         kind \in AllKinds, NEW gone, Related(kind, gone, d, t)
  PROVE  Related(kind, gone, setConfiguration(d, l, c), setConfiguration(t, l, c))
<1> DEFINE e == setConfiguration(d, l, c)
           u == setConfiguration(t, l, c)
           kept == ~("extents" \in gone /\ "attributes" \in gone)
           hashes == kind \notin RUSHKinds \cup {CRUSHKind}
<1>0. ConfiguredAs(e, d, l, c) /\ ConfiguredAs(u, t, l, c)
  BY ConfigurationSet
<1> HIDE DEF e, u
<1>1. /\ e.hash = d.hash /\ e.message = d.message /\ e.copies = c
      /\ u.hash = t.hash /\ u.message = t.message /\ u.copies = c
  BY <1>0 DEF ConfiguredAs
<1>2. hashes /\ kept => Hashing(t) = Hashing(d)
  <2>1. ASSUME hashes, kept PROVE t.message = d.message /\ HashAlike(t.hash, d.hash)
    BY <2>1, KindsDiffer DEF Related, HashAlike
  <2> QED
    BY <2>1, SameHashing
<1>3. kind = NNKind /\ kept => u.table = e.table
  <2>1. ASSUME kind = NNKind PROVE e.table = <<Hashing(d), l>> /\ u.table = <<Hashing(t), l>>
    BY <1>0, <2>1 DEF ConfiguredAs
  <2> QED
    BY <1>2, <2>1, KindsDiffer
<1>4. kind \in ShareKinds => u.disks = e.disks /\ u.part = e.part /\ (kept => u.table = e.table)
  <2> SUFFICES ASSUME kind \in ShareKinds
               PROVE  u.disks = e.disks /\ u.part = e.part /\ (kept => u.table = e.table)
    OBVIOUS
  <2>1. hashes /\ t.message = d.message
    BY KindsDiffer DEF Related
  <2> DEFINE n == IF kind = CnnKind THEN c ELSE 1
  <2>2. /\ e.disks = l /\ e.table = <<Hashing(d), l>>
        /\ e.part = NNSetDisks([New EXCEPT !.message = d.message], l, n)
    BY <1>0 DEF ConfiguredAs
  <2>3. /\ u.disks = l /\ u.table = <<Hashing(t), l>>
        /\ u.part = NNSetDisks([New EXCEPT !.message = t.message], l, n)
    BY <1>0 DEF ConfiguredAs
  <2> HIDE DEF n, hashes, kept
  <2> QED
    BY <1>2, <2>1, <2>2, <2>3
<1>5. kind = FRSKind => u.disks = e.disks /\ u.part = e.part /\ u.table = e.table
  <2> SUFFICES ASSUME kind = FRSKind
               PROVE  u.disks = e.disks /\ u.part = e.part /\ u.table = e.table
    OBVIOUS
  <2>1. t.message = d.message
    BY KindsDiffer DEF Related
  <2>2. /\ e.disks = l /\ e.table = <<l, c>>
        /\ e.part = ShareSetDisks([New EXCEPT !.message = d.message], l, 1, FALSE)
    BY <1>0 DEF ConfiguredAs
  <2>3. /\ u.disks = l /\ u.table = <<l, c>>
        /\ u.part = ShareSetDisks([New EXCEPT !.message = t.message], l, 1, FALSE)
    BY <1>0 DEF ConfiguredAs
  <2> QED
    BY <2>1, <2>2, <2>3
<1>6. kind = RSKind => /\ u.disks = e.disks /\ u.table.rsDisks = e.table.rsDisks
                       /\ "extents" \notin gone => u.table.thresholds = e.table.thresholds
  <2> SUFFICES ASSUME kind = RSKind
               PROVE  /\ u.disks = e.disks /\ u.table.rsDisks = e.table.rsDisks
                      /\ "extents" \notin gone => u.table.thresholds = e.table.thresholds
    OBVIOUS
  <2>1. /\ t.disks = d.disks /\ t.table.rsDisks = d.table.rsDisks
        /\ "extents" \notin gone => t.table.thresholds = d.table.thresholds
    BY DEF Related
  <2>2. IF Len(l) < c THEN e.disks = d.disks /\ e.table = d.table
        ELSE e.disks = l /\ e.table = initValueCaches(<<l, c>>, c)
    BY <1>0 DEF ConfiguredAs
  <2>3. IF Len(l) < c THEN u.disks = t.disks /\ u.table = t.table
        ELSE u.disks = l /\ u.table = initValueCaches(<<l, c>>, c)
    BY <1>0 DEF ConfiguredAs
  <2> QED
    BY <2>1, <2>2, <2>3
<1>7. kind \in RRKinds => u.disks = e.disks /\ u.table = e.table
  BY <1>0 DEF ConfiguredAs
<1>8. kind \in RUSHKinds => u.disks = e.disks /\ u.table = e.table
  BY <1>0 DEF ConfiguredAs
<1>9. kind = CRUSHKind /\ kept => u.disks = e.disks /\ u.table = e.table
  <2> SUFFICES ASSUME kind = CRUSHKind, kept PROVE u.disks = e.disks /\ u.table = e.table
    OBVIOUS
  <2>1. t.disks = d.disks
    BY DEF Related
  <2> HIDE DEF kept
  <2>2. /\ e.disks = d.disks \o l /\ u.disks = t.disks \o l
        /\ e.table = [map |-> l, size |-> (Len(l) - 1) \div Domains + 1]
        /\ u.table = [map |-> l, size |-> (Len(l) - 1) \div Domains + 1]
    BY <1>0 DEF ConfiguredAs
  <2> QED
    BY <2>1, <2>2
<1>10. Related(kind, gone, e, u)
  BY <1>1, <1>3, <1>4, <1>5, <1>6, <1>7, <1>8, <1>9 DEF Related
<1> QED
  BY <1>10 DEF e, u

\* setConfiguration keeps the invariant.
LEMMA SetConfigurationKeeps ==
  ASSUME IInv, NEW l \in Lists, NEW c \in 1 .. MaxCopies, SetConfiguration(l, c)
  PROVE  IInv'
<1> DEFINE e == setConfiguration(dist, l, c)
           u == setConfiguration(twin, l, c)
<1>1. /\ dist' = e /\ twin' = IF twin = None THEN None ELSE u
      /\ file' = None /\ UNCHANGED <<kind, lost>>
  BY DEF SetConfiguration, Both
<1>2. /\ Object(dist) /\ kind \in AllKinds /\ c \in Nat
      /\ dist.table # None => Shape(kind, dist)
      /\ kind = CRUSHKind => dist.disks \in Seq(AllDisks)
  BY KindsAssumption, BoundsAssumption DEF IInv, Objects, AllKinds
<1>3. Object(e) /\ ConfiguredAs(e, dist, l, c)
  BY <1>2, ConfigurationSet
<1>4. Shape(kind, e)
  <2>1. kind = RSKind /\ Len(l) < c => Shape(kind, dist)
    <3> SUFFICES ASSUME kind = RSKind, Len(l) < c PROVE Shape(kind, dist)
      OBVIOUS
    <3>1. Len(l) \in Nat
      BY ListsAssumption
    <3>2. ~(Len(l) >= c)
      BY <1>2, <3>1
    <3>3. kind \notin RRKinds \cup {NNKind, "Share", CRUSHKind}
      BY KindsDiffer DEF ShareKinds
    <3>4. dist.table # None
      BY <3>2, <3>3 DEF SetConfiguration
    <3> QED
      BY <1>2, <3>4
  <2> QED
    BY <1>2, <2>1, ShapeSet
<1>5. kind = CRUSHKind => e.disks \in Seq(AllDisks)
  <2> SUFFICES ASSUME kind = CRUSHKind PROVE e.disks \in Seq(AllDisks)
    OBVIOUS
  <2>1. e.disks = dist.disks \o l
    BY <1>3 DEF ConfiguredAs
  <2>2. l \in Seq(AllDisks)
    <3>1. l \in Seq(ToSet(l)) /\ ToSet(l) \subseteq AllDisks
      BY ListsAssumption DEF AllDisks
    <3> QED
      BY <3>1
  <2> QED
    BY <1>2, <2>1, <2>2
<1>6. kind \in RRKinds => e.table.order = [n \in DOMAIN e.disks |-> n]
  <2> SUFFICES ASSUME kind \in RRKinds PROVE e.table.order = [n \in DOMAIN e.disks |-> n]
    OBVIOUS
  <2>1. e.disks = l /\ e.table = [order |-> [k \in DOMAIN l |-> k], at |-> l]
    BY <1>3 DEF ConfiguredAs
  <2> QED
    BY <2>1
<1>7. ASSUME twin # None
      PROVE  Object(u) /\ Shape(kind, u) /\ Related(kind, lost, e, u)
  <2>1. /\ Object(twin) /\ Shape(kind, twin)
        /\ Related(kind, lost, dist, twin)
    BY <1>7 DEF IInv, Loaded
  <2>2. Object(u)
    BY <1>2, <2>1, ConfigurationSet
  <2>3. Shape(kind, u)
    BY <1>2, <2>1, ShapeSet
  <2>4. Related(kind, lost, e, u)
    BY <1>2, <2>1, RelatedSet
  <2> QED
    BY <2>2, <2>3, <2>4
<1> HIDE DEF e, u
<1>8. /\ Object(dist')
      /\ dist'.table # None => Shape(kind, dist')
      /\ kind = CRUSHKind => dist'.disks \in Seq(AllDisks)
      /\ kind \in RRKinds /\ dist'.table # None =>
           dist'.table.order = [n \in DOMAIN dist'.disks |-> n]
  BY <1>1, <1>3, <1>4, <1>5, <1>6
<1>9. /\ twin = None => twin' = None
      /\ twin # None => /\ Object(twin')
                        /\ Shape(kind, dist') /\ Shape(kind, twin')
                        /\ Related(kind, lost, dist', twin')
  BY <1>1, <1>4, <1>7
<1> QED
  BY <1>1, <1>8, <1>9, CallKeeps

--------------------------------------------------------------------------------
(* Save and load.                                                          *)

\* Saving keeps the invariant: the file is that of the object as it is.
LEMMA SaveKeeps ==
  ASSUME IInv, Save PROVE IInv'
<1>1. /\ dist.table # None /\ file' = ToXML(dist)
      /\ UNCHANGED <<kind, dist, twin, lost>>
  BY DEF Save
<1>2. ToXML(dist)' = ToXML(dist)
  BY <1>1 DEF ToXML
<1> QED
  BY <1>1, <1>2 DEF IInv, Objects, Saved, Loaded

\* The distributors inside of an object survive a file.
LEMMA PartsRestored ==
  /\ \A n \in Neighbours : NNFromXML(NNToXML(n)) = n
  /\ \A s \in Shares : ShareFromXML(ShareToXML(s)) = s
<1> DEFINE hash == New.hash
<1>1. Restored(hash) = hash
  BY NewHashRestored
<1>2. ASSUME NEW n \in Neighbours PROVE NNFromXML(NNToXML(n)) = n
  <2>1. /\ n \in Fields(hash, n.message, n.copies, <<>>, n.table, None)
        /\ n.hash = hash
    BY DEF Neighbours, Fields
  <2>2. NNToXML(n) = [message |-> n.message, copies |-> n.copies, hash |-> hash,
                      positions |-> n.table]
    BY <2>1 DEF NNToXML
  <2> DEFINE x == NNToXML(n)
  <2>3. x.message = n.message /\ x.copies = n.copies /\ x.hash = hash /\ x.positions = n.table
    BY <2>2
  <2> HIDE DEF x
  <2>4. NNFromXML(x) \in Fields(Restored(x.hash), x.message, x.copies, <<>>, x.positions, None)
    BY DEF NNFromXML, New, Fields
  <2> HIDE DEF hash
  <2>5. NNFromXML(x) \in Fields(hash, n.message, n.copies, <<>>, n.table, None)
    BY <1>1, <2>3, <2>4
  <2>6. NNFromXML(x) = n
    BY <2>1, <2>5 DEF Fields
  <2> QED
    BY <2>6 DEF x
<1>3. ASSUME NEW s \in Shares PROVE ShareFromXML(ShareToXML(s)) = s
  <2>1. /\ s \in Fields(hash, s.message, s.copies, s.disks, s.table, s.part)
        /\ s.hash = hash /\ s.part \in Neighbours
    BY DEF Shares, Fields
  <2>2. ShareToXML(s) = [message |-> s.message, copies |-> s.copies, hash |-> hash,
                         disks |-> s.disks, borders |-> s.table,
                         distributors |-> NNToXML(s.part)]
    BY <2>1 DEF ShareToXML
  <2> DEFINE x == ShareToXML(s)
             n == NNFromXML(x.distributors)
  <2>3. /\ x.message = s.message /\ x.copies = s.copies /\ x.hash = hash
        /\ x.disks = s.disks /\ x.borders = s.table /\ x.distributors = NNToXML(s.part)
    BY <2>2
  <2>4. n = s.part
    BY <1>2, <2>1, <2>3
  <2> HIDE DEF x
  <2>5. ShareFromXML(x) \in Fields(Restored(x.hash), x.message, x.copies, x.disks, x.borders, n)
    BY DEF ShareFromXML, New, Fields
  <2> HIDE DEF hash, n
  <2>6. ShareFromXML(x) \in Fields(hash, s.message, s.copies, s.disks, s.table, s.part)
    BY <1>1, <2>3, <2>4, <2>5
  <2>7. ShareFromXML(x) = s
    BY <2>1, <2>6 DEF Fields
  <2> QED
    BY <2>7 DEF x
<1> QED
  BY <1>2, <1>3

\* What is not lost
LEMMA LossesAre ==
  /\ kind \notin RUSHKinds \cup {CRUSHKind} =>
       /\ "attributes" \notin Losses => dist.hash.gcrypt \notin GCrypt \ GCryptOfLoader
       /\ "extents" \notin Losses =>
            dist.hash.internal \/ dist.hash.gcrypt \notin GCrypt \ GCryptOfLoader
  /\ kind \in {"RUSHp", "RUSHt", CRUSHKind} /\ "extents" \notin Losses =>
       Hashing(dist) = Hashing(New)
  /\ kind = RRMapKind /\ "extents" \notin Losses =>
       ~(dist.copies > 1) \/ ~(Len(dist.disks) > 2)
  /\ kind = CRUSHKind /\ ~("extents" \in Losses /\ "attributes" \in Losses) =>
       dist.table.map = dist.disks
  /\ kind = RSKind /\ "extents" \notin Losses => dist.table.thresholds = dist.copies
BY DEF Losses

\* The hash settings of an object that is loaded, where the file has them
LEMMA SettingsLoaded ==
  ASSUME kind \notin RUSHKinds \cup {CRUSHKind}, dist.hash \in Hashes
  PROVE  /\ Restored(dist.hash) \in Hashes
         /\ "attributes" \notin Losses => Restored(dist.hash) = dist.hash
         /\ "extents" \notin Losses => HashAlike(Restored(dist.hash), dist.hash)
BY LossesAre, RestoredIs

\* What loadDistributor makes of a file of each strategy
LEMMA Read ==
  ASSUME NEW x
  PROVE  /\ kind = NNKind => FromXML(x) = {NNFromXML(x)}
         /\ kind \in ShareKinds => FromXML(x) = {ShareFromXML(x)}
         /\ kind = FRSKind => FromXML(x) = {FRSFromXML(x)}
         /\ kind = RSKind => FromXML(x) = {RSFromXML(x)}
         /\ kind \in RRKinds =>
              FromXML(x) = {RRFromXML(x, order) : order \in SetToSeqs({p[1] : p \in x.positions})}
         /\ kind \in RUSHKinds => FromXML(x) = {RUSHFromXML(x)}
         /\ kind = CRUSHKind => FromXML(x) = {CRUSHFromXML(x)}
<1>1. kind = NNKind => FromXML(x) = {NNFromXML(x)}
  BY KindsDiffer DEF FromXML
<1>2. kind \in ShareKinds => FromXML(x) = {ShareFromXML(x)}
  BY KindsDiffer DEF FromXML
<1>3. kind = FRSKind => FromXML(x) = {FRSFromXML(x)}
  BY KindsDiffer DEF FromXML
<1>4. kind = RSKind => FromXML(x) = {RSFromXML(x)}
  BY KindsDiffer DEF FromXML
<1>5. kind \in RRKinds =>
        FromXML(x) = {RRFromXML(x, order) : order \in SetToSeqs({p[1] : p \in x.positions})}
  BY KindsDiffer DEF FromXML
<1>6. kind \in RUSHKinds => FromXML(x) = {RUSHFromXML(x)}
  BY KindsDiffer DEF FromXML
<1>7. kind = CRUSHKind => FromXML(x) = {CRUSHFromXML(x)}
  BY KindsDiffer DEF FromXML
<1> QED
  BY <1>1, <1>2, <1>3, <1>4, <1>5, <1>6, <1>7

\* A nearest neighbour that is loaded
LEMMA NNLoaded ==
  ASSUME Objects, dist.table # None, kind = NNKind, NEW t \in FromXML(ToXML(dist))
  PROVE  Object(t) /\ Shape(kind, t) /\ Related(kind, Losses, dist, t)
<1> DEFINE x == ToXML(dist)
<1>1. /\ x.message = dist.message /\ x.copies = dist.copies /\ x.hash = dist.hash
      /\ x.positions = dist.table
  BY Written DEF NNToXML
<1>2. t = NNFromXML(x)
  BY Read
<1> HIDE DEF x
<1>3. t \in Fields(Restored(dist.hash), dist.message, dist.copies, <<>>, dist.table, None)
  BY <1>1, <1>2 DEF NNFromXML, New, Fields
<1>4. Object(dist)
  BY DEF Objects
<1>5. /\ Restored(dist.hash) \in Hashes
      /\ "attributes" \notin Losses => Restored(dist.hash) = dist.hash
      /\ "extents" \notin Losses => HashAlike(Restored(dist.hash), dist.hash)
  BY <1>4, SettingsLoaded, KindsDiffer DEF Object
<1>6. /\ t.hash = Restored(dist.hash) /\ t.message = dist.message /\ t.copies = dist.copies
      /\ t.table = dist.table /\ Object(t)
  BY <1>3, <1>4, <1>5, FieldsAre DEF Object
<1>7. Shape(kind, t)
  BY KindsDiffer DEF Shape
<1>8. Related(kind, Losses, dist, t)
  BY <1>5, <1>6, KindsDiffer DEF Related
<1> QED
  BY <1>6, <1>7, <1>8

\* A Share that is loaded
LEMMA ShareLoaded ==
  ASSUME Objects, dist.table # None, kind \in ShareKinds, NEW t \in FromXML(ToXML(dist))
  PROVE  Object(t) /\ Shape(kind, t) /\ Related(kind, Losses, dist, t)
<1> DEFINE x == ToXML(dist)
<1>1. /\ x.message = dist.message /\ x.copies = dist.copies /\ x.hash = dist.hash
      /\ x.disks = dist.disks /\ x.borders = dist.table /\ x.distributors = NNToXML(dist.part)
  <2>1. x = ShareToXML(dist)
    BY Written
  <2> HIDE DEF x
  <2> QED
    BY <2>1 DEF ShareToXML
<1>2. t = ShareFromXML(x)
  BY Read
<1>3. dist.part \in Neighbours
  BY DEF Objects, Shape
<1>4. NNFromXML(x.distributors) = dist.part
  BY <1>1, <1>3, PartsRestored
<1> HIDE DEF x
<1>5. t \in Fields(Restored(dist.hash), dist.message, dist.copies, dist.disks, dist.table,
                   dist.part)
  BY <1>1, <1>2, <1>4 DEF ShareFromXML, New, Fields
<1>6. Object(dist)
  BY DEF Objects
<1>7. /\ Restored(dist.hash) \in Hashes
      /\ "attributes" \notin Losses => Restored(dist.hash) = dist.hash
      /\ "extents" \notin Losses => HashAlike(Restored(dist.hash), dist.hash)
  BY <1>6, SettingsLoaded, KindsDiffer DEF Object
<1>8. /\ t.hash = Restored(dist.hash) /\ t.message = dist.message /\ t.copies = dist.copies
      /\ t.disks = dist.disks /\ t.table = dist.table /\ t.part = dist.part /\ Object(t)
  BY <1>5, <1>6, <1>7, FieldsAre DEF Object
<1>9. Shape(kind, t)
  BY <1>3, <1>8, KindsDiffer DEF Shape
<1>10. Related(kind, Losses, dist, t)
  BY <1>7, <1>8, KindsDiffer DEF Related
<1> QED
  BY <1>8, <1>9, <1>10

\* A FastRedundantShare that is loaded
LEMMA FRSLoaded ==
  ASSUME Objects, dist.table # None, kind = FRSKind, NEW t \in FromXML(ToXML(dist))
  PROVE  Object(t) /\ Shape(kind, t) /\ Related(kind, Losses, dist, t)
<1> DEFINE x == ToXML(dist)
<1>1. /\ x.message = dist.message /\ x.copies = dist.copies /\ x.hash = dist.hash
      /\ x.disks = dist.disks /\ x.positions = dist.table
      /\ x.distributors = ShareToXML(dist.part)
  <2>1. x = FRSToXML(dist)
    BY Written
  <2> HIDE DEF x
  <2> QED
    BY <2>1 DEF FRSToXML
<1>2. t = FRSFromXML(x)
  BY Read
<1>3. dist.part \in Shares
  BY DEF Objects, Shape
<1>4. ShareFromXML(x.distributors) = dist.part
  BY <1>1, <1>3, PartsRestored
<1> HIDE DEF x
<1>5. t \in Fields(Restored(dist.hash), dist.message, dist.copies, dist.disks, dist.table,
                   dist.part)
  BY <1>1, <1>2, <1>4 DEF FRSFromXML, New, Fields
<1>6. Object(dist)
  BY DEF Objects
<1>7. /\ Restored(dist.hash) \in Hashes
      /\ "attributes" \notin Losses => Restored(dist.hash) = dist.hash
      /\ "extents" \notin Losses => HashAlike(Restored(dist.hash), dist.hash)
  BY <1>6, SettingsLoaded, KindsDiffer DEF Object
<1>8. /\ t.hash = Restored(dist.hash) /\ t.message = dist.message /\ t.copies = dist.copies
      /\ t.disks = dist.disks /\ t.table = dist.table /\ t.part = dist.part /\ Object(t)
  BY <1>5, <1>6, <1>7, FieldsAre DEF Object
<1>9. Shape(kind, t)
  BY <1>3, <1>8, KindsDiffer DEF Shape
<1>10. Related(kind, Losses, dist, t)
  BY <1>7, <1>8, KindsDiffer DEF Related
<1> QED
  BY <1>8, <1>9, <1>10

\* A RedundantShare that is loaded: the thresholds are those of the copies.
LEMMA RSLoaded ==
  ASSUME Objects, dist.table # None, kind = RSKind, NEW t \in FromXML(ToXML(dist))
  PROVE  Object(t) /\ Shape(kind, t) /\ Related(kind, Losses, dist, t)
<1> DEFINE x == ToXML(dist)
           rsDisks == dist.table.rsDisks
<1>1. /\ x.message = dist.message /\ x.copies = dist.copies /\ x.hash = dist.hash
      /\ x.positions = rsDisks
  BY Written DEF RSToXML, RSDiskToXML
<1>2. t = RSFromXML(x)
  BY Read
<1>3. dist.disks = rsDisks[1]
  BY DEF Objects, Shape
<1> HIDE DEF x, rsDisks
<1> DEFINE table == initValueCaches(rsDisks, dist.copies)
<1>4. table.rsDisks = rsDisks /\ table.thresholds = dist.copies
  BY DEF initValueCaches
<1>5. table = initValueCaches(table.rsDisks, table.thresholds)
  BY <1>4
<1> HIDE DEF table
<1>6. t \in Fields(Restored(dist.hash), dist.message, dist.copies, dist.disks, table, None)
  BY <1>1, <1>2, <1>3 DEF RSFromXML, RSDiskFromXML, New, Fields, table
<1>7. Object(dist)
  BY DEF Objects
<1>8. /\ Restored(dist.hash) \in Hashes
      /\ "attributes" \notin Losses => Restored(dist.hash) = dist.hash
      /\ "extents" \notin Losses => HashAlike(Restored(dist.hash), dist.hash)
  BY <1>7, SettingsLoaded, KindsDiffer DEF Object
<1>9. /\ t.hash = Restored(dist.hash) /\ t.message = dist.message /\ t.copies = dist.copies
      /\ t.disks = dist.disks /\ t.table = table /\ Object(t)
  BY <1>6, <1>7, <1>8, FieldsAre DEF Object
<1>10. Shape(kind, t)
  BY <1>3, <1>4, <1>5, <1>9, KindsDiffer DEF Shape
<1>11. "extents" \notin Losses => t.table.thresholds = dist.table.thresholds
  BY <1>4, <1>9, LossesAre
<1>12. t.table.rsDisks = dist.table.rsDisks
  BY <1>4, <1>9 DEF rsDisks
<1>13. Related(kind, Losses, dist, t)
  BY <1>8, <1>9, <1>11, <1>12, KindsDiffer DEF Related
<1> QED
  BY <1>9, <1>10, <1>13

\* The order of RoundRobin's map is only lost where it matters.
LEMMA OrderSurvives ==
  ASSUME Objects, dist.disks \in Lists, kind = RRMapKind, "extents" \notin Losses
  PROVE  dist.copies <= 1 \/ Len(dist.disks) <= 2
<1>1. dist.copies \in Nat /\ Len(dist.disks) \in Nat
  BY ListsAssumption DEF Objects, Object
<1>2. ~(dist.copies > 1) \/ ~(Len(dist.disks) > 2)
  BY LossesAre
<1> QED
  BY <1>1, <1>2

\* A RoundRobin that is loaded: its map has the same disks in any order.
LEMMA RRLoaded ==
  ASSUME Objects, dist.table # None, kind \in RRKinds, NEW t \in FromXML(ToXML(dist))
  PROVE  Object(t) /\ Shape(kind, t) /\ Related(kind, Losses, dist, t)
<1> DEFINE x == ToXML(dist)
           l == dist.disks
           keys == {p[1] : p \in x.positions}
           at == [k \in keys |-> (CHOOSE p \in x.positions : p[1] = k)[2]]
<1>1. l \in Lists /\ dist.table.at = l
  <2>1. l \in Lists /\ dist.table = [order |-> dist.table.order, at |-> l]
    BY DEF Objects, Shape, RRTable
  <2> HIDE DEF l
  <2> QED
    BY <2>1
<1>2. /\ x.message = dist.message /\ x.copies = dist.copies /\ x.hash = dist.hash
      /\ x.positions = {<<k, l[k]>> : k \in DOMAIN l}
  <2>1. x = RRToXML(dist)
    BY Written
  <2> HIDE DEF x, l
  <2> QED
    BY <1>1, <2>1 DEF RRToXML
<1>3. PICK order \in SetToSeqs(keys) : t = RRFromXML(x, order)
  BY Read
<1> HIDE DEF x
<1>4. keys = DOMAIN l
  <2>1. ASSUME NEW k \in keys PROVE k \in DOMAIN l
    BY <1>2
  <2>2. ASSUME NEW k \in DOMAIN l PROVE k \in keys
    <3>1. <<k, l[k]>> \in x.positions /\ <<k, l[k]>>[1] = k
      BY <1>2
    <3> QED
      BY <3>1
  <2> QED
    BY <2>1, <2>2
<1>5. at = l
  <2>1. l = [k \in DOMAIN l |-> l[k]]
    BY <1>1, ListsAssumption
  <2>2. ASSUME NEW k \in DOMAIN l PROVE (CHOOSE p \in x.positions : p[1] = k)[2] = l[k]
    <3>1. <<k, l[k]>> \in x.positions
      BY <1>2
    <3>2. \A p \in x.positions : p[1] = k => p[2] = l[k]
      BY <1>2
    <3> QED
      BY <3>1, <3>2
  <2> HIDE DEF keys
  <2> QED
    BY <1>4, <2>1, <2>2
<1>6. order \in [DOMAIN l -> DOMAIN l] /\ IsInjective(order)
  <2>1. DOMAIN l = 1 .. Len(l) /\ Len(l) \in Nat
    BY <1>1, ListsAssumption
  <2>2. Cardinality(1 .. Len(l)) = Len(l)
    BY <2>1, FS_Interval
  <2>3. 1 .. Cardinality(keys) = DOMAIN l
    BY <1>4, <2>1, <2>2
  <2> HIDE DEF keys, l
  <2>4. /\ order \in [DOMAIN l -> DOMAIN l]
        /\ \A i, j \in DOMAIN l : i # j => order[i] # order[j]
    BY <1>4, <2>3 DEF SetToSeqs
  <2> QED
    BY <2>4 DEF IsInjective
<1> DEFINE table == [order |-> order, at |-> l]
<1>7. RRTable(table, l) /\ table.order = order
  <2>1. table.order = order /\ table = [order |-> table.order, at |-> l]
    OBVIOUS
  <2> HIDE DEF table, l
  <2> QED
    BY <1>6, <2>1 DEF RRTable
<1> HIDE DEF table
<1>8. t \in Fields(Restored(dist.hash), dist.message, dist.copies, l, table, None)
  <2>1. t = [New EXCEPT !.message = x.message, !.copies = x.copies,
                        !.hash = Restored(x.hash), !.disks = at, !.table = table]
    BY <1>3, <1>5 DEF RRFromXML, table
  <2> HIDE DEF at, l
  <2> QED
    BY <1>2, <1>5, <2>1 DEF New, Fields
<1>9. Object(dist)
  BY DEF Objects
<1>10. /\ Restored(dist.hash) \in Hashes
       /\ "attributes" \notin Losses => Restored(dist.hash) = dist.hash
       /\ "extents" \notin Losses => HashAlike(Restored(dist.hash), dist.hash)
  BY <1>9, SettingsLoaded, KindsDiffer DEF Object
<1>11. /\ t.hash = Restored(dist.hash) /\ t.message = dist.message /\ t.copies = dist.copies
       /\ t.disks = l /\ t.table = table /\ Object(t)
  BY <1>8, <1>9, <1>10, FieldsAre DEF Object
<1>12. Shape(kind, t)
  BY <1>1, <1>7, <1>11, KindsDiffer DEF Shape
<1> HIDE DEF keys, at
<1>13. kind = RRMapKind /\ "extents" \notin Losses =>
         dist.copies <= 1 \/ Len(dist.disks) <= 2
  BY <1>1, OrderSurvives
<1>14. Related(kind, Losses, dist, t)
  BY <1>10, <1>11, <1>13, KindsDiffer DEF Related
<1> QED
  BY <1>11, <1>12, <1>14

\* A RUSH that is loaded: its disks are set anew in a new object.
LEMMA RUSHLoaded ==
  ASSUME Objects, dist.table # None, kind \in RUSHKinds, NEW t \in FromXML(ToXML(dist))
  PROVE  Object(t) /\ Shape(kind, t) /\ Related(kind, Losses, dist, t)
<1> DEFINE x == ToXML(dist)
<1>1. x.copies = dist.copies /\ x.disks = dist.disks
  BY Written DEF RUSHToXML
<1>2. t = RUSHFromXML(x)
  BY Read
<1> HIDE DEF x
<1>3. dist.table = dist.disks
  BY DEF Objects, Shape
<1>4. t \in Fields(New.hash, New.message, dist.copies, dist.disks, dist.table, None)
  BY <1>3, <1>1, <1>2 DEF RUSHFromXML, RUSHSetDisks, New, Fields
<1>5. Object(dist) /\ New.message \in Messages
  BY HashAssumption DEF Objects, New
<1>6. /\ t.hash = New.hash /\ t.message = New.message /\ t.copies = dist.copies
      /\ t.disks = dist.disks /\ t.table = dist.table /\ Object(t)
  BY <1>4, <1>5, NewHash, FieldsAre DEF Object
<1>7. kind # "RUSHr" /\ "extents" \notin Losses =>
        HashAlike(New.hash, dist.hash) /\ New.message = dist.message
  <2>1. kind # "RUSHr" => kind \in {"RUSHp", "RUSHt", CRUSHKind}
    BY DEF RUSHKinds
  <2>2. kind # "RUSHr" /\ "extents" \notin Losses => Hashing(dist) = Hashing(New)
    BY <2>1, LossesAre
  <2> QED
    BY <2>2, HashesLikeNew
<1>8. Shape(kind, t)
  BY <1>3, <1>6, KindsDiffer DEF Shape
<1>9. Related(kind, Losses, dist, t)
  BY <1>6, <1>7, KindsDiffer DEF Related
<1> QED
  BY <1>6, <1>8, <1>9

\* A CRUSH that is loaded: its map has the disks that were collected.
LEMMA CRUSHLoaded ==
  ASSUME Objects, dist.table # None, kind = CRUSHKind, NEW t \in FromXML(ToXML(dist))
  PROVE  Object(t) /\ Shape(kind, t) /\ Related(kind, Losses, dist, t)
<1> DEFINE x == ToXML(dist)
           l == dist.disks
           table == [map |-> l, size |-> (Len(l) - 1) \div Domains + 1]
<1>1. x.copies = dist.copies /\ x.disks = l
  BY Written DEF CRUSHToXML
<1>2. t = CRUSHFromXML(x)
  BY Read
<1>3. <<>> \o l = l
  BY ConcatEmptySeq DEF Objects
<1> HIDE DEF x, l
<1>4. t = [New EXCEPT !.copies = dist.copies, !.disks = <<>> \o l, !.table = table]
  BY <1>1, <1>2 DEF CRUSHFromXML, CRUSHSetDisks, New
<1>5. t \in Fields(New.hash, New.message, dist.copies, l, table, None)
  <2> HIDE DEF table
  <2> QED
    BY <1>3, <1>4 DEF New, Fields
<1>6. table = [map |-> table.map, size |-> (Len(table.map) - 1) \div Domains + 1]
  OBVIOUS
<1>7. dist.table = [map |-> dist.table.map, size |-> (Len(dist.table.map) - 1) \div Domains + 1]
  BY DEF Objects, Shape
<1>8. ~("extents" \in Losses /\ "attributes" \in Losses) => table = dist.table
  <2> SUFFICES ASSUME ~("extents" \in Losses /\ "attributes" \in Losses)
               PROVE  table = dist.table
    OBVIOUS
  <2>1. dist.table.map = l
    BY LossesAre DEF l
  <2> QED
    BY <1>7, <2>1
<1> HIDE DEF table
<1>9. Object(dist) /\ New.message \in Messages
  BY HashAssumption DEF Objects, New
<1>10. /\ t.hash = New.hash /\ t.message = New.message /\ t.copies = dist.copies
       /\ t.disks = l /\ t.table = table /\ Object(t)
  BY <1>5, <1>9, NewHash, FieldsAre DEF Object
<1>11. "extents" \notin Losses => HashAlike(New.hash, dist.hash) /\ New.message = dist.message
  BY LossesAre, HashesLikeNew
<1>12. Shape(kind, t)
  BY <1>6, <1>10, KindsDiffer DEF Shape
<1>13. Related(kind, Losses, dist, t)
  BY <1>8, <1>10, <1>11, KindsDiffer DEF Related, l
<1> QED
  BY <1>10, <1>12, <1>13

\* Loading keeps the invariant: what the loaded object shares with the saved one is
\* all but what is lost.
LEMMA LoadKeeps ==
  ASSUME IInv, Load PROVE IInv'
<1>1. /\ file # None /\ twin' \in FromXML(file) /\ lost' = Losses
      /\ UNCHANGED <<kind, dist, file>>
  BY DEF Load
<1>2. Objects /\ file = ToXML(dist) /\ dist.table # None
  BY <1>1 DEF IInv, Saved
<1>3. kind \in AllKinds /\ Shape(kind, dist)
  BY <1>2, KindsAssumption DEF Objects, AllKinds
<1>4. /\ Object(twin') /\ Shape(kind, twin')
      /\ Related(kind, Losses, dist, twin')
  <2> DEFINE t == twin'
  <2>1. t \in FromXML(ToXML(dist))
    BY <1>1, <1>2
  <2> HIDE DEF t
  <2>2. Object(t) /\ Shape(kind, t) /\ Related(kind, Losses, dist, t)
    <3>1. CASE kind = NNKind
      BY <1>2, <2>1, <3>1, NNLoaded
    <3>2. CASE kind \in ShareKinds
      BY <1>2, <2>1, <3>2, ShareLoaded
    <3>3. CASE kind = FRSKind
      BY <1>2, <2>1, <3>3, FRSLoaded
    <3>4. CASE kind = RSKind
      BY <1>2, <2>1, <3>4, RSLoaded
    <3>5. CASE kind \in RRKinds
      BY <1>2, <2>1, <3>5, RRLoaded
    <3>6. CASE kind \in RUSHKinds
      BY <1>2, <2>1, <3>6, RUSHLoaded
    <3>7. CASE kind = CRUSHKind
      BY <1>2, <2>1, <3>7, CRUSHLoaded
    <3> QED
      BY <1>3, <3>1, <3>2, <3>3, <3>4, <3>5, <3>6, <3>7 DEF AllKinds
  <2> QED
    BY <2>2 DEF t
<1>5. Loaded'
  BY <1>1, <1>3, <1>4 DEF Loaded
<1>6. Objects' /\ Saved'
  <2>1. ToXML(dist)' = ToXML(dist)
    BY <1>1 DEF ToXML
  <2> QED
    BY <1>1, <1>2, <2>1 DEF Objects, Saved
<1> QED
  BY <1>5, <1>6 DEF IInv

\* Every step keeps the invariant.
LEMMA NextInvariant == IInv /\ [Next]_vars => IInv'
<1> SUFFICES ASSUME IInv, [Next]_vars PROVE IInv'
  OBVIOUS
<1>1. CASE \E a \in Internal : UseInternalHashAlgorithm(a)
  BY <1>1, UseInternalKeeps
<1>2. CASE \E a \in GCrypt : UseGCryptHashAlgorithm(a)
  BY <1>2, UseGCryptKeeps
<1>3. CASE \E m \in Messages : SetBaseMessage(m)
  BY <1>3, SetBaseMessageKeeps
<1>4. CASE \E l \in Lists, c \in 1 .. MaxCopies : SetConfiguration(l, c)
  BY <1>4, SetConfigurationKeeps
<1>5. CASE Save
  BY <1>5, SaveKeeps
<1>6. CASE Load
  BY <1>6, LoadKeeps
<1>7. CASE UNCHANGED vars
  <2>1. UNCHANGED <<kind, dist, file, twin, lost>>
    BY <1>7 DEF vars
  <2>2. ToXML(dist)' = ToXML(dist)
    BY <2>1 DEF ToXML
  <2> QED
    BY <2>1, <2>2 DEF IInv, Objects, Saved, Loaded
<1> QED
  BY <1>1, <1>2, <1>3, <1>4, <1>5, <1>6, <1>7 DEF Next

\* A file is that of the object as it is, and a loaded object is the saved one in all
\* that loading did not lose, whatever calls both get from then on.
THEOREM Invariance == Spec => []IInv
BY InitInvariant, NextInvariant, PTL DEF Spec

--------------------------------------------------------------------------------
(* What follows for extents and for files.                                 *)

\* In an order of the disks, each of them has one position.
LEMMA PositionOf ==
  ASSUME NEW L \in Nat, NEW order \in [1 .. L -> 1 .. L], IsInjective(order),
         NEW p \in 1 .. L
  PROVE  Place(order, p) \in 1 .. L /\ order[Place(order, p)] = p
<1> DEFINE S == 1 .. L
<1>1. IsFiniteSet(S)
  BY FS_Interval
<1>2. order \in [S -> S]
  OBVIOUS
<1>3. order \in Injection(S, S)
  BY <1>2 DEF IsInjective, Injection
<1> HIDE DEF S
<1>4. order \in Surjection(S, S)
  BY <1>1, <1>3, FS_Injection
<1>5. \E k \in S : order[k] = p
  BY <1>4 DEF Surjection, S
<1>6. DOMAIN order = S
  BY <1>2
<1> QED
  BY <1>5, <1>6 DEF S, Place

\* The options of a strategy are told apart.
LEMMA KindsApart ==
  /\ \A k \in {"RUSHp", "RUSHt", "RUSHr"} : k \in RUSHKinds
  /\ \A k \in {"RoundRobin", RRHashKind, RRMapKind} : k \in RRKinds
  /\ RUSHKinds = {"RUSHp", "RUSHt"} \cup {"RUSHr"} /\ "RUSHr" \notin {"RUSHp", "RUSHt"}
  /\ RRKinds = {"RoundRobin", RRHashKind, RRMapKind}
  /\ "RoundRobin" # RRHashKind /\ "RoundRobin" # RRMapKind /\ RRHashKind # RRMapKind
BY Zenon DEF RUSHKinds, RRKinds, RRHashKind, RRMapKind

\* What placeExtent of each strategy computes its result from
LEMMA Placed ==
  ASSUME NEW o
  PROVE  /\ kind = NNKind =>
              Places(o) = <<Hashing(o), o.table, o.copies>>
         /\ kind \in ShareKinds =>
              Places(o) = <<Hashing(o), o.table, o.copies, Hashing(o.part), o.part.table>>
         /\ kind = FRSKind =>
              Places(o) =
                <<o.table, o.copies, Hashing(o.part), o.part.table, Hashing(o.part.part),
                  o.part.part.table>>
         /\ kind = RSKind =>
              Places(o) = <<Hashing(o), o.table, o.copies>>
         /\ kind = RRMapKind =>
              Places(o) =
                [p \in DOMAIN o.table.at |->
                   [n \in 1 .. o.copies |-> Following(o.table, p, n - 1)]]
         /\ kind = "RoundRobin" =>
              Places(o) = <<o.table.at, o.copies>>
         /\ kind = RRHashKind =>
              Places(o) = <<Hashing(o), o.table.at, o.copies>>
         /\ kind \in {"RUSHp", "RUSHt"} =>
              Places(o) = <<Hashing(o), o.table, o.copies>>
         /\ kind = "RUSHr" =>
              Places(o) = <<o.table, o.copies>>
         /\ kind = CRUSHKind =>
              Places(o) = <<Hashing(o), o.table, o.disks, o.copies>>
<1>1. kind = NNKind => Places(o) = <<Hashing(o), o.table, o.copies>>
  BY KindsApart, KindsDiffer DEF Places
<1>2. kind \in ShareKinds =>
        Places(o) =
          <<Hashing(o), o.table, o.copies, Hashing(o.part), o.part.table>>
  BY KindsApart, KindsDiffer DEF Places
<1>3. kind = FRSKind =>
        Places(o) =
          <<o.table, o.copies, Hashing(o.part), o.part.table, Hashing(o.part.part),
            o.part.part.table>>
  BY KindsApart, KindsDiffer DEF Places
<1>4. kind = RSKind => Places(o) = <<Hashing(o), o.table, o.copies>>
  BY KindsApart, KindsDiffer DEF Places
<1>5. kind = RRMapKind =>
        Places(o) =
          [p \in DOMAIN o.table.at |-> [n \in 1 .. o.copies |-> Following(o.table, p, n - 1)]]
  BY KindsApart, KindsDiffer DEF Places
<1>6. kind = "RoundRobin" => Places(o) = <<o.table.at, o.copies>>
  BY KindsApart, KindsDiffer DEF Places
<1>7. kind = RRHashKind => Places(o) = <<Hashing(o), o.table.at, o.copies>>
  BY KindsApart, KindsDiffer DEF Places
<1>8. kind \in {"RUSHp", "RUSHt"} => Places(o) = <<Hashing(o), o.table, o.copies>>
  BY KindsApart, KindsDiffer DEF Places
<1>9. kind = "RUSHr" => Places(o) = <<o.table, o.copies>>
  BY KindsApart, KindsDiffer DEF Places
<1>10. kind = CRUSHKind => Places(o) = <<Hashing(o), o.table, o.disks, o.copies>>
  BY KindsApart, KindsDiffer DEF Places
<1> QED
  BY <1>1, <1>2, <1>3, <1>4, <1>5, <1>6, <1>7, <1>8, <1>9, <1>10

\* A number below the modulus is its own remainder.
LEMMA SmallRemainder ==
  ASSUME NEW L \in Nat \ {0}, NEW x \in 0 .. L - 1 PROVE x % L = x
OBVIOUS

\* Two maps of the same L disks, asked for the m-th element after position p: they
\* have one order, or no element is followed, or only one can follow.
Interchangeable(L, m, s, t, p) ==
  /\ L \in Nat /\ m \in Nat /\ p \in 1 .. L
  /\ s.at = t.at
  /\ s.order \in [1 .. L -> 1 .. L] /\ IsInjective(s.order)
  /\ t.order \in [1 .. L -> 1 .. L] /\ IsInjective(t.order)
  /\ s.order = t.order \/ m = 0 \/ L <= 2

\* Such maps give the same element (DistRoundRobin.cpp, placeExtent and its iterator).
LEMMA SameFollowers ==
  ASSUME NEW L, NEW m, NEW s, NEW t, NEW p, Interchangeable(L, m, s, t, p)
  PROVE  Following(s, p, m) = Following(t, p, m)
<1> SUFFICES ASSUME L \in Nat, m \in Nat, s.at = t.at,
                    s.order \in [1 .. L -> 1 .. L], IsInjective(s.order),
                    t.order \in [1 .. L -> 1 .. L], IsInjective(t.order),
                    s.order = t.order \/ m = 0 \/ L <= 2,
                    p \in 1 .. L
             PROVE  Following(s, p, m) = Following(t, p, m)
  BY DEF Interchangeable
<1>1. Len(s.order) = L /\ Len(t.order) = L
  <2>1. \A f \in [1 .. L -> 1 .. L] : Len(f) = L
    OBVIOUS
  <2> QED
    BY <2>1
<1> DEFINE j == Place(s.order, p)
           k == Place(t.order, p)
<1>2. j \in 1 .. L /\ s.order[j] = p
  <2> DEFINE f == s.order
  <2>1. f \in [1 .. L -> 1 .. L] /\ IsInjective(f)
    OBVIOUS
  <2> HIDE DEF f
  <2>2. Place(f, p) \in 1 .. L /\ f[Place(f, p)] = p
    BY <2>1, PositionOf
  <2> QED
    BY <2>2 DEF f
<1>3. k \in 1 .. L /\ t.order[k] = p
  <2> DEFINE f == t.order
  <2>1. f \in [1 .. L -> 1 .. L] /\ IsInjective(f)
    OBVIOUS
  <2> HIDE DEF f
  <2>2. Place(f, p) \in 1 .. L /\ f[Place(f, p)] = p
    BY <2>1, PositionOf
  <2> QED
    BY <2>2 DEF f
<1>4. /\ Following(s, p, m) = s.at[s.order[(((j - 1) + m) % L) + 1]]
      /\ Following(t, p, m) = s.at[t.order[(((k - 1) + m) % L) + 1]]
  BY <1>1 DEF Following
<1> HIDE DEF j, k
<1>5. CASE s.order = t.order
  BY <1>4, <1>5 DEF j, k
<1>6. CASE m = 0
  <2>1. \A x \in 0 .. L - 1 : x % L = x
    <3>1. L \in Nat \ {0}
      OBVIOUS
    <3> QED
      BY <3>1, SmallRemainder
  <2>2. \A i \in 1 .. L : (((i - 1) + m) % L) + 1 = i
    <3> TAKE i \in 1 .. L
    <3>1. (i - 1) + m = i - 1 /\ i - 1 \in 0 .. L - 1 /\ (i - 1) + 1 = i
      BY <1>6
    <3> QED
      BY <2>1, <3>1
  <2> QED
    BY <1>2, <1>3, <1>4, <2>2
<1>7. CASE L <= 2
  <2>1. CASE L = 1
    <3>1. s.order = t.order
      BY <2>1
    <3> QED
      BY <1>5, <3>1
  <2>2. CASE L = 2
    <3> DEFINE q(i) == (((i - 1) + m) % 2) + 1
    <3>1. m % 2 = 0 \/ m % 2 = 1
      OBVIOUS
    <3>2. /\ Following(s, p, m) = s.at[s.order[q(j)]]
          /\ Following(t, p, m) = s.at[t.order[q(k)]]
          /\ j \in {1, 2} /\ k \in {1, 2}
      BY <1>2, <1>3, <1>4, <2>2
    <3>3. CASE m % 2 = 0
      <4>1. q(1) = 1 /\ q(2) = 2
        BY <3>3
      <4> HIDE DEF q
      <4>2. q(j) = j /\ q(k) = k
        BY <3>2, <4>1
      <4> QED
        BY <1>2, <1>3, <3>2, <4>2
    <3>4. CASE m % 2 = 1
      <4>1. q(1) = 2 /\ q(2) = 1
        BY <3>4
      <4>2. \A f \in [1 .. 2 -> 1 .. 2] : IsInjective(f) => f[1] # f[2]
        BY DEF IsInjective
      <4>3. s.order[1] # s.order[2] /\ t.order[1] # t.order[2]
        BY <2>2, <4>2
      <4> HIDE DEF q
      <4> QED
        BY <1>2, <1>3, <2>2, <3>2, <4>1, <4>3
    <3> QED
      BY <3>1, <3>3, <3>4
  <2> QED
    BY <1>7, <2>1, <2>2
<1> QED
  BY <1>5, <1>6, <1>7

\* The invariant says where extents go (Distributor.cpp, loadDistributor): a loaded
\* object places like the saved one.
LEMMA SamePlaces ==
  ASSUME IInv, twin # None, "extents" \notin lost
  PROVE  Places(twin) = Places(dist)
<1> DEFINE d == dist
           t == twin
<1>1. /\ kind \in AllKinds /\ Object(d) /\ Shape(kind, d) /\ Shape(kind, t)
      /\ Related(kind, lost, d, t) /\ t.copies = d.copies
  BY KindsAssumption DEF IInv, Objects, Loaded, Related, AllKinds
<1>2. kind # "RUSHr" => Hashing(t) = Hashing(d)
  <2> SUFFICES ASSUME kind # "RUSHr" PROVE Hashing(t) = Hashing(d)
    OBVIOUS
  <2>1. HashAlike(t.hash, d.hash)
    BY <1>1 DEF Related
  <2>2. t.message = d.message
    BY <1>1 DEF Related
  <2> HIDE DEF d, t
  <2> QED
    BY <2>1, <2>2, SameHashing
<1> HIDE DEF d, t
<1>3. CASE kind = NNKind
  <2>1. t.table = d.table /\ kind # "RUSHr"
    BY <1>1, <1>3, KindsDiffer DEF Related
  <2> QED
    BY <1>1, <1>2, <1>3, <2>1, Placed DEF d, t
<1>4. CASE kind \in ShareKinds
  <2>1. t.table = d.table /\ t.part = d.part /\ kind # "RUSHr"
    BY <1>1, <1>4, KindsDiffer DEF Related
  <2> QED
    BY <1>1, <1>2, <1>4, <2>1, Placed DEF d, t
<1>5. CASE kind = FRSKind
  <2>1. t.table = d.table /\ t.part = d.part
    BY <1>1, <1>5, KindsDiffer DEF Related
  <2> QED
    BY <1>1, <1>5, <2>1, Placed DEF d, t
<1>6. CASE kind = RSKind
  <2>1. /\ t.table.rsDisks = d.table.rsDisks /\ t.table.thresholds = d.table.thresholds
        /\ kind # "RUSHr"
    BY <1>1, <1>6, KindsDiffer DEF Related
  <2>2. /\ t.table = initValueCaches(t.table.rsDisks, t.table.thresholds)
        /\ d.table = initValueCaches(d.table.rsDisks, d.table.thresholds)
    BY <1>1, <1>6 DEF Shape
  <2>3. t.table = d.table
    BY <2>1, <2>2
  <2> QED
    BY <1>1, <1>2, <1>6, <2>1, <2>3, Placed DEF d, t
<1>7. CASE kind \in RRKinds
  <2> DEFINE l == d.disks
             L == Len(l)
  <2>1. t.disks = l /\ kind # "RUSHr"
    BY <1>1, <1>7, KindsDiffer DEF Related
  <2>2. l \in Lists /\ RRTable(d.table, l) /\ RRTable(t.table, l)
    BY <1>1, <1>7, <2>1 DEF Shape
  <2> HIDE DEF l
  <2>3. d.table.at = l /\ t.table.at = l
    BY <2>2 DEF RRTable
  <2>4. CASE kind = "RoundRobin"
    <3>1. Places(t) = <<t.table.at, t.copies>> /\ Places(d) = <<d.table.at, d.copies>>
      BY <2>4, Placed
    <3>2. Places(t) = Places(d)
      BY <1>1, <2>3, <3>1
    <3> QED
      BY <3>2 DEF d, t
  <2>5. CASE kind = RRHashKind
    <3>1. /\ Places(t) = <<Hashing(t), t.table.at, t.copies>>
          /\ Places(d) = <<Hashing(d), d.table.at, d.copies>>
      BY <2>5, Placed
    <3>2. Places(t) = Places(d)
      BY <1>1, <1>2, <2>1, <2>3, <3>1
    <3> QED
      BY <3>2 DEF d, t
  <2>6. CASE kind = RRMapKind
    <3>1. L \in Nat /\ DOMAIN l = 1 .. L /\ d.copies \in Nat
      BY <1>1, <2>2, ListsAssumption DEF Object
    <3>2. t.table.order = d.table.order \/ d.copies <= 1 \/ L <= 2
      BY <1>1, <1>7, <2>6 DEF Related, l
    <3> HIDE DEF L
    <3>3. /\ d.table.order \in [1 .. L -> 1 .. L] /\ IsInjective(d.table.order)
          /\ t.table.order \in [1 .. L -> 1 .. L] /\ IsInjective(t.table.order)
      BY <2>2, <3>1 DEF RRTable
    <3> DEFINE F(table) ==
                 [p \in 1 .. L |-> [n \in 1 .. d.copies |-> Following(table, p, n - 1)]]
    <3>4. ASSUME NEW p \in 1 .. L, NEW n \in 1 .. d.copies
          PROVE  Following(t.table, p, n - 1) = Following(d.table, p, n - 1)
      <4> DEFINE r == t.table
                 s == d.table
                 m == n - 1
      <4>1. /\ s.at = r.at /\ L \in Nat /\ m \in Nat
            /\ s.order \in [1 .. L -> 1 .. L] /\ IsInjective(s.order)
            /\ r.order \in [1 .. L -> 1 .. L] /\ IsInjective(r.order)
            /\ r.order = s.order \/ m = 0 \/ L <= 2
        <5>1. m \in Nat /\ (d.copies <= 1 => m = 0)
          BY <3>1
        <5> QED
          BY <2>3, <3>1, <3>2, <3>3, <5>1
      <4> HIDE DEF r, s, m
      <4>2. Interchangeable(L, m, s, r, p)
        BY <4>1 DEF Interchangeable
      <4>3. Following(s, p, m) = Following(r, p, m)
        BY <4>2, SameFollowers
      <4> QED
        BY <4>3 DEF r, s, m
    <3>5. Places(t) = F(t.table)
      <4>1. Places(t) = [p \in DOMAIN t.table.at |->
                          [n \in 1 .. t.copies |-> Following(t.table, p, n - 1)]]
        BY <2>6, Placed
      <4>2. DOMAIN t.table.at = 1 .. L /\ t.copies = d.copies
        BY <1>1, <2>3, <3>1
      <4> QED
        BY <4>1, <4>2
    <3>6. Places(d) = F(d.table)
      <4>1. Places(d) = [p \in DOMAIN d.table.at |->
                          [n \in 1 .. d.copies |-> Following(d.table, p, n - 1)]]
        BY <2>6, Placed
      <4>2. DOMAIN d.table.at = 1 .. L
        BY <2>3, <3>1
      <4> QED
        BY <4>1, <4>2
    <3>7. Places(t) = Places(d)
      BY <3>4, <3>5, <3>6
    <3> QED
      BY <3>7 DEF d, t
  <2> QED
    BY <1>7, <2>4, <2>5, <2>6, KindsApart
<1>8. CASE kind \in RUSHKinds
  <2>1. t.table = d.table
    BY <1>1, <1>8 DEF Related
  <2>2. CASE kind = "RUSHr"
    BY <1>1, <2>1, <2>2, Placed DEF d, t
  <2>3. CASE kind \in {"RUSHp", "RUSHt"}
    <3>1. kind # "RUSHr"
      BY <2>3
    <3> QED
      BY <1>1, <1>2, <2>1, <2>3, <3>1, Placed DEF d, t
  <2> QED
    BY <1>8, <2>2, <2>3, KindsApart
<1>9. CASE kind = CRUSHKind
  <2>1. t.table = d.table /\ t.disks = d.disks /\ kind # "RUSHr"
    BY <1>1, <1>9, KindsDiffer DEF Related
  <2> QED
    BY <1>1, <1>2, <1>9, <2>1, Placed DEF d, t
<1> QED
  BY <1>1, <1>3, <1>4, <1>5, <1>6, <1>7, <1>8, <1>9 DEF AllKinds

\* And it writes the same file.
LEMMA SameFile ==
  ASSUME IInv, twin # None, "attributes" \notin lost
  PROVE  ToXML(twin) = ToXML(dist)
<1> DEFINE d == dist
           t == twin
<1>1. /\ kind \in AllKinds /\ Shape(kind, d) /\ Shape(kind, t)
      /\ Related(kind, lost, d, t) /\ t.copies = d.copies
  BY KindsAssumption DEF IInv, Objects, Loaded, Related, AllKinds
<1>2. kind \notin RUSHKinds \cup {CRUSHKind} => t.message = d.message /\ t.hash = d.hash
  BY <1>1 DEF Related
<1> HIDE DEF d, t
<1>3. CASE kind = NNKind
  <2>1. t.table = d.table /\ t.message = d.message /\ t.hash = d.hash
    BY <1>1, <1>2, <1>3, KindsDiffer DEF Related
  <2>2. NNToXML(t) = NNToXML(d)
    BY <1>1, <2>1 DEF NNToXML
  <2> QED
    BY <1>3, <2>2, Written DEF d, t
<1>4. CASE kind \in ShareKinds
  <2>1. /\ t.table = d.table /\ t.disks = d.disks /\ t.part = d.part
        /\ t.message = d.message /\ t.hash = d.hash
    BY <1>1, <1>2, <1>4, KindsDiffer DEF Related
  <2>2. ShareToXML(t) = ShareToXML(d)
    BY <1>1, <2>1 DEF ShareToXML
  <2> QED
    BY <1>4, <2>2, Written DEF d, t
<1>5. CASE kind = FRSKind
  <2>1. /\ t.table = d.table /\ t.disks = d.disks /\ t.part = d.part
        /\ t.message = d.message /\ t.hash = d.hash
    BY <1>1, <1>2, <1>5, KindsDiffer DEF Related
  <2>2. FRSToXML(t) = FRSToXML(d)
    BY <1>1, <2>1 DEF FRSToXML
  <2> QED
    BY <1>5, <2>2, Written DEF d, t
<1>6. CASE kind = RSKind
  <2>1. /\ t.table.rsDisks = d.table.rsDisks /\ t.disks = d.disks
        /\ t.message = d.message /\ t.hash = d.hash
    BY <1>1, <1>2, <1>6, KindsDiffer DEF Related
  <2>2. RSToXML(t) = RSToXML(d)
    BY <1>1, <2>1 DEF RSToXML, RSDiskToXML
  <2> QED
    BY <1>6, <2>2, Written DEF d, t
<1>7. CASE kind \in RRKinds
  <2>1. /\ t.disks = d.disks /\ t.message = d.message /\ t.hash = d.hash
    BY <1>1, <1>2, <1>7, KindsDiffer DEF Related
  <2>2. t.table.at = d.table.at
    <3>1. RRTable(d.table, d.disks) /\ RRTable(t.table, d.disks)
      BY <1>1, <1>7, <2>1 DEF Shape
    <3> QED
      BY <3>1 DEF RRTable
  <2>3. RRToXML(t) = RRToXML(d)
    BY <1>1, <2>1, <2>2 DEF RRToXML
  <2> QED
    BY <1>7, <2>3, Written DEF d, t
<1>8. CASE kind \in RUSHKinds
  <2>1. t.disks = d.disks
    BY <1>1, <1>8 DEF Related
  <2>2. RUSHToXML(t) = RUSHToXML(d)
    BY <1>1, <2>1 DEF RUSHToXML
  <2> QED
    BY <1>8, <2>2, Written DEF d, t
<1>9. CASE kind = CRUSHKind
  <2>1. t.table = d.table /\ t.disks = d.disks
    BY <1>1, <1>9 DEF Related
  <2>2. CRUSHToXML(t) = CRUSHToXML(d)
    BY <1>1, <2>1 DEF CRUSHToXML
  <2> QED
    BY <1>9, <2>2, Written DEF d, t
<1> QED
  BY <1>1, <1>3, <1>4, <1>5, <1>6, <1>7, <1>8, <1>9 DEF AllKinds

\* A loaded object places every extent where the saved one does, also after further
\* calls to both, unless loading lost something (Distributor.cpp, loadDistributor).
THEOREM PlacesSurvive == Spec => []LoadedPlacesLikeSaved
<1>1. IInv => LoadedPlacesLikeSaved
  BY SamePlaces DEF LoadedPlacesLikeSaved
<1> QED
  BY <1>1, Invariance, PTL

\* Saved again, a loaded object writes the file it came from, unless loading lost an
\* attribute (Distributor.cpp, save).
THEOREM FilesSurvive == Spec => []SecondFileIsFirst
<1>1. IInv => SecondFileIsFirst
  BY SameFile DEF SecondFileIsFirst
<1> QED
  BY <1>1, Invariance, PTL
================================================================================
