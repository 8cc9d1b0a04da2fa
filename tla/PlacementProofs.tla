---------------------------- MODULE PlacementProofs ----------------------------
(***************************************************************************)
(* Every strategy places an extent on as many different disks of the list  *)
(* set last as there are copies, for all lists, copies and hash values.    *)
(***************************************************************************)
EXTENDS Placement, RedundantShareProofs

--------------------------------------------------------------------------------
(* Steps of one strategy.                                                  *)

\* The options of a strategy are told apart.
LEMMA KindsDiffer ==
  /\ \A k \in RRKinds :
       k \notin NNKinds \cup ShareKinds \cup RSKinds \cup RUSHKinds
         \cup {"FastRedundantShare", "RandSlice"}
  /\ \A k \in NNKinds :
       k \notin ShareKinds \cup RSKinds \cup RUSHKinds \cup {"FastRedundantShare", "RandSlice"}
  /\ \A k \in ShareKinds :
       k \notin RSKinds \cup RUSHKinds \cup {"FastRedundantShare", "RandSlice"}
  /\ \A k \in RSKinds : k \notin RUSHKinds \cup {"FastRedundantShare", "RandSlice"}
  /\ \A k \in RUSHKinds : k \notin {"FastRedundantShare", "RandSlice"}
  /\ "Share" \in ShareKinds /\ "Share -cnn" \in ShareKinds
  /\ RUSHKinds = {"RUSHp", "RUSHr", "RUSHt"}
BY Zenon DEF RRKinds, NNKinds, ShareKinds, RSKinds, RUSHKinds

\* A step is one of the caller's or of the object's own strategy, which stays.
LEMMA OwnSteps ==
  ASSUME Next
  PROVE  /\ kind' = kind
         /\ \/ kind \in RRKinds /\ RRNext
            \/ kind \in NNKinds /\ NNNext
            \/ kind \in ShareKinds /\ ShareNext
            \/ kind \in RSKinds /\ RSNext
            \/ kind = "FastRedundantShare" /\ FRSNext
            \/ kind \in RUSHKinds /\ RUSHNext
            \/ kind = "RandSlice" /\ RandSliceNext
            \/ Forget \/ DeleteList \/ Ended
<1>1. RRNext => kind \in RRKinds /\ kind' = kind
  BY DEF RRNext, RRSetDisks, Configure, RRPlaceExtent
<1>2. NNNext => kind \in NNKinds /\ kind' = kind
  BY DEF NNNext, NNSetDisks, Configure, NNInsert, NNReturn, NNCall, NNStep, NNFinish, Building,
         Built, Call, Placing, Crash, Advance, Append1, Finish
<1>3. ShareNext => kind \in ShareKinds /\ kind' = kind
  <2>1. ASSUME NEW k \in ShareKinds, NEW l, NEW c, ShareSetDisks(k, l, c)
        PROVE  kind \in ShareKinds /\ kind' = kind
    BY <2>1 DEF ShareSetDisks, Configure
  <2>2. ASSUME NEW k \in ShareKinds,
               ShareStart(k) \/ ShareFill(k) \/ ShareCall(k) \/ ShareReturn(k)
        PROVE  kind \in ShareKinds /\ kind' = kind
    BY <2>2 DEF ShareStart, ShareFill, ShareCall, ShareReturn, Building, Built, Call, Placing,
                Advance, Finish
  <2>3. ASSUME ShareDraw \/ ShareFind \/ ShareDrawByNN
        PROVE  kind \in ShareKinds /\ kind' = kind
    <3>1. kind' = kind
      BY <2>3 DEF ShareDraw, ShareFind, ShareDrawByNN, DrawAt, Crash, Advance, Append1
    <3>2. kind \in {"Share", "Share -cnn"}
      BY <2>3, Zenon DEF ShareDraw, ShareFind, ShareDrawByNN, Placing
    <3> QED
      BY <3>1, <3>2 DEF ShareKinds
  <2> QED
    BY <2>1, <2>2, <2>3 DEF ShareNext
<1>4. RSNext => kind \in RSKinds /\ kind' = kind
  BY DEF RSNext, RSSetDisks, Configure, RSCall, Call, RSStep, RSReturn, Placing, Crash, Advance,
         Append1, Finish
<1>5. FRSNext => kind = "FastRedundantShare" /\ kind' = kind
  BY DEF FRSNext, FRSSetDisks, Configure, FRSCall, Call, FRSStep, FRSReturn, Placing, Crash,
         Advance, Append1, Finish
<1>6. RUSHNext => kind \in RUSHKinds /\ kind' = kind
  BY DEF RUSHNext, RUSHKinds, RUSHSetDisks, Configure, RUSHpCall, RUSHpRoll, RUSHpStep, RUSHrCall,
         RUSHrStep, RUSHrOther, RUSHtCall, RUSHtDescend, RUSHtPlace, RUSHReturn, Call, Placing,
         Crash, Advance, Append1, Finish
<1>7. RandSliceNext => kind = "RandSlice" /\ kind' = kind
  BY DEF RandSliceNext, RandSliceSetDisks, Configure, RandSliceCall, Call, RandSliceStep,
         RandSliceReturn, Placing, Crash, Advance, Append1, Finish
<1>8. Forget \/ DeleteList \/ Ended => kind' = kind
  BY DEF Forget, DeleteList, Ended, vars
<1> QED
  BY <1>1, <1>2, <1>3, <1>4, <1>5, <1>6, <1>7, <1>8 DEF Next

\* A disk that is not in the list yet is appended to it.
LEMMA AppendNew ==
  ASSUME NEW r \in Seq(Int), NEW x \in Int
  PROVE  /\ Append(r, x) \in Seq(Int) /\ Len(Append(r, x)) = Len(r) + 1
         /\ Append(r, x) # <<>>
         /\ ToSet(Append(r, x)) = ToSet(r) \cup {x}
         /\ IsInjective(r) /\ x \notin ToSet(r) => IsInjective(Append(r, x))
<1> DEFINE s == Append(r, x)
           n == Len(r)
<1>1. /\ s \in Seq(Int) /\ n \in Nat /\ Len(s) = n + 1
      /\ DOMAIN r = 1 .. n /\ DOMAIN s = 1 .. n + 1
      /\ s[n + 1] = x /\ \A i \in 1 .. n : s[i] = r[i]
  OBVIOUS
<1> HIDE DEF s
<1>2. s # <<>>
  BY <1>1
<1>3. 1 .. n + 1 = (1 .. n) \cup {n + 1}
  BY <1>1
<1>4. ToSet(s) = ToSet(r) \cup {x}
  BY <1>1, <1>3 DEF ToSet
<1>5. ASSUME IsInjective(r), x \notin ToSet(r) PROVE IsInjective(s)
  <2> SUFFICES ASSUME NEW a \in DOMAIN s, NEW b \in DOMAIN s, s[a] = s[b] PROVE a = b
    BY DEF IsInjective
  <2>1. CASE a \in 1 .. n /\ b \in 1 .. n
    BY <1>1, <1>5, <2>1 DEF IsInjective
  <2>2. CASE a = n + 1 /\ b \in 1 .. n
    BY <1>1, <1>5, <2>2 DEF ToSet
  <2>3. CASE b = n + 1 /\ a \in 1 .. n
    BY <1>1, <1>5, <2>3 DEF ToSet
  <2> QED
    BY <1>1, <1>3, <2>1, <2>2, <2>3
<1> QED
  BY <1>1, <1>2, <1>4, <1>5 DEF s

--------------------------------------------------------------------------------
(* What every strategy keeps.                                              *)

\* The disks and copies are those of a call to setDisks.
Configured ==
  /\ kind \in Kinds
  /\ status # "new" => disks \in Lists[kind] /\ copies \in 1 .. MaxCopies

\* RoundRobin repeats disks, and RedundantShare has others, with too few of them.
TooFew == Len(disks) < copies

\* The disks selected so far are different ones of the list.
Selected ==
  /\ result \in Seq(Int)
  /\ status \in {"new", "building"} => result = <<>>
  /\ status = "ready" /\ result # <<>> => Len(result) = copies
  /\ status = "placing" => Len(result) <= copies
  /\ IsInjective(result) \/ (kind \in RRKinds /\ TooFew)
  /\ ToSet(result) \subseteq Ids(disks) \/ (kind \in RSKinds /\ TooFew)

\* A complete list of selected disks is what placeExtent should return.
LEMMA SelectedIsDistinct ==
  ASSUME Selected
  PROVE  PlacesDistinctDisks
BY DEF Selected, TooFew, PlacesDistinctDisks

\* The empty list
LEMMA NothingSelected ==
  /\ <<>> \in Seq(Int) /\ Len(<<>>) = 0 /\ ToSet(<<>>) = {} /\ IsInjective(<<>>)
BY DEF ToSet, IsInjective

\* A call to setDisks starts without a result.
LEMMA ConfigureSelects ==
  ASSUME NEW k, NEW l, NEW c \in Nat, NEW start, Configure(k, l, c, start)
  PROVE  Selected'
<1>1. result' = <<>> /\ copies' = c
  BY DEF Configure
<1> QED
  BY <1>1, NothingSelected DEF Selected

\* A step that leaves the disks and the result alone keeps it, if it counts the copies.
LEMMA SameSelected ==
  ASSUME Selected, UNCHANGED <<kind, disks, copies, result>>,
         status' \in {"new", "building"} => result = <<>>,
         status' = "ready" /\ result # <<>> => Len(result) = copies,
         status' = "placing" => Len(result) <= copies
  PROVE  Selected'
BY DEF Selected, TooFew

\* So does one that appends a new disk.
LEMMA AppendSelected ==
  ASSUME Configured, Selected, NEW id \in Int, NEW next, Append1(id, next), status = "placing",
         Len(result) < copies,
         id \in Ids(disks) \/ (kind \in RSKinds /\ TooFew),
         id \notin ToSet(result) \/ (kind \in RRKinds /\ TooFew)
  PROVE  Selected'
<1>1. /\ result \in Seq(Int) /\ copies \in Nat
      /\ IsInjective(result) \/ (kind \in RRKinds /\ TooFew)
      /\ ToSet(result) \subseteq Ids(disks) \/ (kind \in RSKinds /\ TooFew)
  BY BoundsAssumption DEF Selected, Configured
<1>2. /\ result' = Append(result, id) /\ UNCHANGED <<kind, disks, copies, status>>
  BY DEF Append1
<1>3. /\ result' \in Seq(Int) /\ Len(result') = Len(result) + 1
      /\ ToSet(result') = ToSet(result) \cup {id}
      /\ IsInjective(result) /\ id \notin ToSet(result) => IsInjective(result')
  BY <1>1, <1>2, AppendNew
<1>4. Len(result) \in Nat
  BY <1>1
<1>5. Len(result') <= copies'
  BY <1>1, <1>2, <1>3, <1>4
<1>6. TooFew' = TooFew
  BY <1>2 DEF TooFew
<1> QED
  BY <1>1, <1>2, <1>3, <1>5, <1>6 DEF Selected

\* The disks and copies stay those of a call to setDisks.
LEMMA StaysConfigured ==
  ASSUME Configured, kind' = kind,
         \/ status' # "new" /\ status # "new" /\ UNCHANGED <<disks, copies>>
         \/ status' = status /\ UNCHANGED <<disks, copies>>
         \/ disks' \in Lists[kind] /\ copies' \in 1 .. MaxCopies
  PROVE  Configured'
BY DEF Configured

--------------------------------------------------------------------------------
(* RoundRobin: the table has the disks of the list in some order.          *)

RRTable ==
  kind \in RRKinds /\ status # "new" =>
    /\ status = "ready"
    /\ \E order \in [DOMAIN disks -> DOMAIN disks] :
         IsInjective(order) /\ table = [n \in DOMAIN disks |-> disks[order[n]].id]

\* The disks of an extent are different, if there are enough of them.
LEMMA StripeSelects ==
  ASSUME Configured, RRTable, kind \in RRKinds, status = "ready", NEW first \in Nat
  PROVE  /\ Stripe(table, first, copies) \in Seq(Int)
         /\ Len(Stripe(table, first, copies)) = copies
         /\ TooFew \/ IsInjective(Stripe(table, first, copies))
         /\ ToSet(Stripe(table, first, copies)) \subseteq Ids(disks)
<1> DEFINE n == Len(disks)
           at(i) == ((first + i - 1) % n) + 1
           s == Stripe(table, first, copies)
<1>1. /\ disks \in Lists[kind] /\ kind \in Kinds /\ copies \in Nat
  BY BoundsAssumption DEF Configured
<1>2. /\ n \in Nat \ {0} /\ DOMAIN disks = 1 .. n
      /\ \A k \in DOMAIN disks : disks[k].id \in Int
      /\ \A k, m \in DOMAIN disks : disks[k].id = disks[m].id => k = m
  BY <1>1, ListIs
<1>3. PICK order \in [DOMAIN disks -> DOMAIN disks] :
        IsInjective(order) /\ table = [k \in DOMAIN disks |-> disks[order[k]].id]
  BY DEF RRTable
<1>4. Len(table) = n
  BY <1>2, <1>3
<1>5. \A i \in 1 .. copies : at(i) \in DOMAIN disks
  BY <1>1, <1>2
<1>6. s = [i \in 1 .. copies |-> table[at(i)]]
  BY <1>4 DEF Stripe
<1> HIDE DEF at, s
<1>7. \A k \in DOMAIN disks : /\ table[k] \in Int /\ table[k] \in Ids(disks)
                              /\ \A m \in DOMAIN disks : table[k] = table[m] => k = m
  BY <1>2, <1>3 DEF Ids, IsInjective
<1>8. s \in Seq(Int) /\ Len(s) = copies /\ DOMAIN s = 1 .. copies
  BY <1>1, <1>5, <1>6, <1>7
<1>9. ToSet(s) \subseteq Ids(disks)
  BY <1>5, <1>6, <1>7, <1>8 DEF ToSet
<1>10. ASSUME ~TooFew PROVE IsInjective(s)
  <2> SUFFICES ASSUME NEW i \in 1 .. copies, NEW j \in 1 .. copies, s[i] = s[j] PROVE i = j
    BY <1>8 DEF IsInjective
  <2>1. at(i) = at(j)
    BY <1>5, <1>6, <1>7
  <2>2. (first + i - 1) % n \in Int /\ (first + j - 1) % n \in Int
    BY <1>1, <1>2
  <2>3. (first + i - 1) % n = (first + j - 1) % n
    BY <2>1, <2>2 DEF at
  <2>4. i \in 1 .. n /\ j \in 1 .. n
    BY <1>1, <1>2, <1>10 DEF TooFew
  <2> QED
    BY <1>2, <2>3, <2>4, PlacesDiffer
<1> QED
  BY <1>8, <1>9, <1>10 DEF s

\* The steps of RoundRobin
LEMMA RRSelects ==
  ASSUME Configured, Selected, RRTable, kind \in RRKinds, RRNext
  PROVE  Configured' /\ Selected' /\ RRTable'
<1>1. ASSUME NEW k \in RRKinds, NEW l \in Lists[kind], NEW c \in 1 .. MaxCopies,
             RRSetDisks(k, l, c)
      PROVE  Configured' /\ Selected' /\ RRTable'
  <2>1. /\ Configure(k, l, c, None) /\ kind' = kind /\ status' = "ready"
        /\ disks' = l /\ copies' = c /\ kind = k
    BY <1>1 DEF RRSetDisks, Configure
  <2>2. DOMAIN l = 1 .. Len(l) /\ l = disks'
    BY <2>1, ListIs DEF Configured
  <2>3. \E order \in [DOMAIN l -> DOMAIN l] :
          IsInjective(order) /\ table' = [n \in DOMAIN l |-> l[order[n]].id]
    <3>1. CASE k = "RoundRobin -im"
      <4>1. \E order \in {o \in [DOMAIN l -> DOMAIN l] : IsInjective(o)} :
              table' = [n \in DOMAIN l |-> l[order[n]].id]
        BY <1>1, <3>1, Zenon DEF RRSetDisks
      <4> QED
        BY <4>1
    <3>2. CASE k # "RoundRobin -im"
      <4>1. table' = [n \in DOMAIN l |-> l[n].id]
        BY <1>1, <3>2, Zenon DEF RRSetDisks
      <4> DEFINE order == [n \in DOMAIN l |-> n]
      <4>2. order \in [DOMAIN l -> DOMAIN l] /\ IsInjective(order)
        BY DEF IsInjective
      <4>3. table' = [n \in DOMAIN l |-> l[order[n]].id]
        BY <4>1
      <4> QED
        BY <4>2, <4>3
    <3> QED
      BY <3>1, <3>2
  <2>4. Configured'
    BY <2>1, StaysConfigured
  <2>5. Selected'
    BY <2>1, ConfigureSelects
  <2>6. RRTable'
    BY <2>1, <2>2, <2>3 DEF RRTable
  <2> QED
    BY <2>4, <2>5, <2>6
<1>2. ASSUME NEW k \in RRKinds, RRPlaceExtent(k)
      PROVE  Configured' /\ Selected' /\ RRTable'
  <2>1. /\ status = "ready" /\ UNCHANGED <<kind, disks, copies, table, status>>
    BY <1>2 DEF RRPlaceExtent
  <2>2. \E first \in Nat : result' = Stripe(table, first, copies)
    <3>1. copies \in Nat /\ Len(table) \in Nat \ {0}
      <4>1. /\ copies \in Nat /\ kind \in Kinds /\ disks \in Lists[kind]
        BY <2>1, BoundsAssumption DEF Configured
      <4>2. Len(disks) \in Nat \ {0} /\ DOMAIN disks = 1 .. Len(disks)
        BY <4>1, ListIs
      <4>3. DOMAIN table = DOMAIN disks
        BY <2>1 DEF RRTable
      <4>4. Len(table) = Len(disks)
        BY <2>1, <4>2 DEF RRTable
      <4> QED
        BY <4>1, <4>2, <4>4
    <3>2. CASE k = "RoundRobin -im"
      <4>1. \E at \in 0 .. Len(table) - 1 : result' = Stripe(table, at, copies)
        BY <1>2, <3>2, Zenon DEF RRPlaceExtent
      <4> QED
        BY <3>1, <4>1
    <3>3. CASE k # "RoundRobin -im"
      <4>1. \E position \in 0 .. MaxHash :
              result' = Stripe(table, FirstDisk(position, copies, Len(table)), copies)
        BY <1>2, <3>3, Zenon DEF RRPlaceExtent
      <4>2. PICK position \in 0 .. MaxHash :
              result' = Stripe(table, FirstDisk(position, copies, Len(table)), copies)
        BY <4>1
      <4> DEFINE a == position * copies
      <4>3. a \in Nat
        BY <3>1, BoundsAssumption
      <4> HIDE DEF a
      <4>4. a % Len(table) \in Nat
        BY <3>1, <4>3
      <4> QED
        BY <4>2, <4>4 DEF FirstDisk, a
    <3> QED
      BY <3>2, <3>3
  <2>3. PICK first \in Nat : result' = Stripe(table, first, copies)
    BY <2>2
  <2>4. /\ result' \in Seq(Int) /\ Len(result') = copies
        /\ (TooFew \/ IsInjective(result')) /\ ToSet(result') \subseteq Ids(disks)
    BY <2>1, <2>3, StripeSelects
  <2>6. TooFew' = TooFew
    BY <2>1 DEF TooFew
  <2>7. Selected'
    BY <2>1, <2>4, <2>6 DEF Selected
  <2>8. RRTable'
    BY <2>1 DEF RRTable
  <2> QED
    BY <2>1, <2>7, <2>8, StaysConfigured
<1> QED
  BY <1>1, <1>2 DEF RRNext

\* Copies of n extents in a row, numbered through: each place of a stripe around n disks
\* has as many as an extent has copies.
LEMMA StripesAreEven ==
  ASSUME NEW n \in Nat \ {0}, NEW c \in Nat \ {0}, NEW first \in Nat, NEW k \in 0 .. n - 1
  PROVE  LET S == {pi \in (first .. first + n - 1) \X (1 .. c) :
                     (pi[1] * c + (pi[2] - 1)) % n = k}
         IN  Cardinality(S) = c
<1> DEFINE Pairs == (first .. first + n - 1) \X (1 .. c)
           number(pi) == pi[1] * c + (pi[2] - 1)
           S == {pi \in Pairs : number(pi) % n = k}
           b == first * c
           T == {x \in b .. b + n * c - 1 : x % n = k}
           f == [pi \in S |-> number(pi)]
<1>1. ASSUME NEW p \in first .. first + n - 1, NEW i \in 1 .. c
      PROVE  /\ number(<<p, i>>) \in b .. b + n * c - 1 /\ number(<<p, i>>) \in Nat
             /\ number(<<p, i>>) % c = i - 1 /\ number(<<p, i>>) \div c = p
  <2> DEFINE j == i - 1
             q == p - first
             u == c * q
             w == c * (n - 1)
             size == n * c
             x == c * p + j
  <2>1. /\ p \in Nat /\ p \in Int /\ j \in 0 .. c - 1 /\ q \in Nat /\ q \in Int /\ q <= n - 1
        /\ n - 1 \in Int /\ c \in Nat
    OBVIOUS
  <2>2. u <= w /\ u \in Nat /\ w \in Int /\ size = w + c /\ b \in Nat /\ c * p = b + u
    <3> HIDE DEF q
    <3>1. c * q <= c * (n - 1)
      BY <2>1, ProductOrder
    <3>2. c * q \in Nat /\ c * (n - 1) \in Int /\ n * c = c * (n - 1) + c /\ first * c \in Nat
      BY <2>1
    <3>3. c * p = first * c + c * (p - first)
      BY <2>1
    <3> QED
      BY <3>1, <3>2, <3>3 DEF q
  <2>3. number(<<p, i>>) = x
    <3>1. p * c = c * p
      BY <2>1
    <3> QED
      BY <3>1
  <2> HIDE DEF q, u, w, size, j, b
  <2>4. x = (b + u) + j
    BY <2>2
  <2>5. x \in b .. b + size - 1 /\ x \in Nat /\ x \in Int
    <3> HIDE DEF x
    <3> QED
      BY <2>1, <2>2, <2>4
  <2>6. x % c = j
    <3>1. x = c * p + j
      OBVIOUS
    <3> HIDE DEF x
    <3> QED
      BY <2>1, <2>5, <3>1, RestIsUnique
  <2>7. x \div c = p
    <3>1. x = c * p + j
      OBVIOUS
    <3> HIDE DEF x
    <3> QED
      BY <2>1, <2>5, <3>1, RestIsUnique
  <2> HIDE DEF x
  <2> QED
    BY <2>3, <2>5, <2>6, <2>7 DEF size, j
<1>2. ASSUME NEW x \in b .. b + n * c - 1
      PROVE  \E p \in first .. first + n - 1, i \in 1 .. c : number(<<p, i>>) = x
  <2> DEFINE p == x \div c
             j == x % c
             e == first + n
             size == n * c
  <2>1. b \in Nat /\ size \in Nat /\ e \in Nat /\ c * first = b /\ c * e = b + size
    OBVIOUS
  <2>2. x \in Nat /\ x \in Int /\ b <= x /\ x < b + size
    <3> HIDE DEF b, size
    <3> QED
      BY <2>1
  <2>3. p \in Nat /\ j \in 0 .. c - 1 /\ x = c * p + j
    BY <2>2, Division
  <2> HIDE DEF p, j, e, b, size
  <2>4. c * first <= x => first <= p
    <3>1. first \in Int
      OBVIOUS
    <3> QED
      BY <2>2, <3>1, QuotientIs DEF p
  <2>5. first <= p
    BY <2>1, <2>2, <2>4
  <2>6. c * p < c * e
    <3> DEFINE u == c * p
               v == c * e
    <3>1. u \in Int /\ v \in Int /\ x = u + j /\ v = b + size
      BY <2>1, <2>3
    <3> HIDE DEF u, v
    <3>2. u < v
      BY <2>1, <2>2, <2>3, <3>1
    <3> QED
      BY <3>2 DEF u, v
  <2>7. p \in Int /\ e \in Int /\ c \in Nat /\ c > 0
    BY <2>1, <2>3
  <2>8. p < e
    BY <2>6, <2>7, ProductOrder
  <2>9. p \in first .. first + n - 1 /\ j + 1 \in 1 .. c
    BY <2>3, <2>5, <2>8 DEF e
  <2>10. number(<<p, j + 1>>) = x
    <3>1. p * c = c * p /\ (j + 1) - 1 = j
      BY <2>3
    <3> QED
      BY <2>3, <3>1
  <2> QED
    BY <2>9, <2>10
<1>3. IsFiniteSet(T) /\ Cardinality(T) = c
  <2>1. b \in Nat
    OBVIOUS
  <2> HIDE DEF b
  <2> QED
    BY <2>1, EvenlySpread
<1> HIDE DEF b, number
<1>4. ASSUME NEW pi \in S PROVE f[pi] \in T
  <2>1. PICK p \in first .. first + n - 1, i \in 1 .. c : pi = <<p, i>>
    OBVIOUS
  <2> QED
    BY <1>1, <2>1
<1>5. ASSUME NEW pi \in S, NEW pj \in S, f[pi] = f[pj] PROVE pi = pj
  <2>1. PICK p \in first .. first + n - 1, i \in 1 .. c : pi = <<p, i>>
    OBVIOUS
  <2>2. PICK q \in first .. first + n - 1, j \in 1 .. c : pj = <<q, j>>
    OBVIOUS
  <2>3. number(<<p, i>>) = number(<<q, j>>)
    BY <1>5, <2>1, <2>2
  <2>4. p = q /\ i - 1 = j - 1
    BY <1>1, <2>3
  <2> QED
    BY <2>1, <2>2, <2>4
<1>6. ASSUME NEW x \in T PROVE \E pi \in S : f[pi] = x
  <2>1. PICK p \in first .. first + n - 1, i \in 1 .. c : number(<<p, i>>) = x
    BY <1>2
  <2>2. <<p, i>> \in S
    BY <2>1
  <2> QED
    BY <2>1, <2>2
<1> HIDE DEF S, T, f
<1>7. f \in [S -> T]
  <2>1. f = [pi \in S |-> f[pi]]
    BY DEF f
  <2> QED
    BY <1>4, <2>1
<1>8. f \in Injection(S, T) /\ f \in Surjection(S, T)
  BY <1>5, <1>6, <1>7 DEF Injection, Surjection, IsInjective
<1>9. Cardinality(S) = Cardinality(T)
  BY <1>3, <1>8, FS_Injection
<1> QED
  BY <1>3, <1>9 DEF S, Pairs, number

\* The places of a stripe are those of its copies, numbered through.
LEMMA StripeAt ==
  ASSUME NEW n \in Nat \ {0}, Len(table) = n, copies \in Nat, NEW p \in Nat,
         NEW i \in 1 .. copies
  PROVE  Stripe(table, FirstDisk(p, copies, n), copies)[i]
           = table[((p * copies + (i - 1)) % n) + 1]
<1> DEFINE a == p * copies
           first == a % n
           j == i - 1
<1>1. a \in Int /\ j \in Int
  OBVIOUS
<1> HIDE DEF a
<1>2. (first + j) % n = (a + j) % n
  <2> HIDE DEF j
  <2> QED
    BY <1>1, RestOfSum
<1>3. first \in Int
  BY <1>1
<1> HIDE DEF first
<1>4. first + i - 1 = first + j
  BY <1>3
<1>5. Stripe(table, first, copies)[i] = table[((first + i - 1) % n) + 1]
  BY DEF Stripe
<1> QED
  BY <1>2, <1>4, <1>5 DEF first, a, FirstDisk

\* As many extents in a row as there are disks put as many copies on each of them.
LEMMA StripesHold ==
  ASSUME Configured, RRTable, kind = "RoundRobin", status = "ready"
  PROVE  RREven
<1> DEFINE n == Len(table)
<1>1. kind \in Kinds /\ disks \in Lists[kind] /\ copies \in Nat \ {0} /\ MaxHash \in Nat
  BY BoundsAssumption DEF Configured
<1>2. /\ Len(disks) \in Nat \ {0} /\ DOMAIN disks = 1 .. Len(disks)
      /\ \A m, k \in DOMAIN disks : disks[m].id = disks[k].id => m = k
  BY <1>1, ListIs
<1>3. PICK order \in [DOMAIN disks -> DOMAIN disks] :
        IsInjective(order) /\ table = [k \in DOMAIN disks |-> disks[order[k]].id]
  BY DEF RRTable, RRKinds
<1>4. n = Len(table) /\ n = Len(disks) /\ n \in Nat \ {0} /\ DOMAIN disks = 1 .. n
  BY <1>2, <1>3
<1>5. order \in Surjection(1 .. n, 1 .. n)
  <2>1. order \in Injection(1 .. n, 1 .. n)
    BY <1>3, <1>4 DEF Injection, IsInjective
  <2>2. IsFiniteSet(1 .. n)
    BY <1>4, FS_Interval
  <2> QED
    BY <2>1, <2>2, FS_Injection
<1> HIDE DEF n
<1>6. ASSUME NEW first \in 0 .. MaxHash, NEW d \in Ids(disks)
      PROVE  Cardinality({pi \in (first .. first + n - 1) \X (1 .. copies) :
                            Stripe(table, FirstDisk(pi[1], copies, n), copies)[pi[2]] = d})
               = copies
  <2> DEFINE Pairs == (first .. first + n - 1) \X (1 .. copies)
             rest(pi) == (pi[1] * copies + (pi[2] - 1)) % n
             On(pi) == Stripe(table, FirstDisk(pi[1], copies, n), copies)[pi[2]]
  <2>1. PICK m \in 1 .. n : disks[m].id = d
    BY <1>4 DEF Ids
  <2>2. PICK k \in 1 .. n : order[k] = m
    BY <1>5 DEF Surjection
  <2>3. \A x \in 1 .. n : table[x] = d <=> x = k
    BY <1>2, <1>3, <1>4, <2>1, <2>2 DEF IsInjective
  <2>4. ASSUME NEW pi \in Pairs PROVE On(pi) = d <=> rest(pi) = k - 1
    <3>1. PICK p \in first .. first + n - 1, i \in 1 .. copies : pi = <<p, i>>
      OBVIOUS
    <3> DEFINE a == p * copies + (i - 1)
    <3>2. a \in Int /\ p \in Nat
      BY <1>1, <1>4
    <3> HIDE DEF a
    <3>3. a % n \in 0 .. n - 1
      BY <1>4, <3>2, Division
    <3>4. (a % n) + 1 \in 1 .. n /\ ((a % n) + 1 = k <=> a % n = k - 1)
      BY <1>4, <3>3
    <3>5. On(<<p, i>>) = table[(a % n) + 1]
      <4>1. copies \in Nat /\ <<p, i>>[1] = p /\ <<p, i>>[2] = i
        BY <1>1
      <4>2. Stripe(table, FirstDisk(p, copies, n), copies)[i] = table[(a % n) + 1]
        <5>1. i \in 1 .. copies /\ Len(table) = n /\ n \in Nat \ {0}
          BY <1>4
        <5>2. Stripe(table, FirstDisk(p, copies, n), copies)[i]
                = table[((p * copies + (i - 1)) % n) + 1]
          BY <3>2, <4>1, <5>1, StripeAt, Zenon
        <5> QED
          BY <5>2 DEF a
      <4> QED
        BY <4>1, <4>2
    <3>6. rest(<<p, i>>) = a % n
      BY DEF a
    <3> HIDE DEF On, rest
    <3> QED
      BY <2>3, <3>1, <3>4, <3>5, <3>6
  <2>5. {pi \in Pairs : On(pi) = d} = {pi \in Pairs : rest(pi) = k - 1}
    <3> HIDE DEF Pairs, On, rest
    <3> QED
      BY <2>4
  <2>6. k - 1 \in 0 .. n - 1 /\ first \in Nat
    BY <1>1, <1>4
  <2>7. Cardinality({pi \in Pairs : rest(pi) = k - 1}) = copies
    <3> DEFINE z == k - 1
    <3>1. z \in 0 .. n - 1 /\ n \in Nat \ {0} /\ copies \in Nat \ {0}
      BY <1>1, <1>4, <2>6
    <3> HIDE DEF z
    <3>2. Cardinality({pi \in Pairs : rest(pi) = z}) = copies
      BY <2>6, <3>1, StripesAreEven
    <3> QED
      BY <3>2 DEF z
  <2> QED
    BY <2>5, <2>7
<1> QED
  BY <1>6 DEF RREven, n

--------------------------------------------------------------------------------
(* NearestNeighbour: the positions belong to disks of the list.            *)

NNTable ==
  kind \in NNKinds /\ status # "new" =>
    /\ status \in {"building", "ready", "placing", "crashed"}
    /\ table = [diskDistribution |-> table.diskDistribution, keyFinder |-> table.keyFinder]
    /\ \A p \in DOMAIN table.diskDistribution : table.diskDistribution[p] \in Ids(disks)
    /\ status = "building" =>
         local.disk \in Nat \ {0} /\ local = [disk |-> local.disk, i |-> local.i]

\* A new field of a table
LEMMA NNTableIs ==
  ASSUME NEW D, NEW K, NEW t, t = [diskDistribution |-> D, keyFinder |-> K], NEW x
  PROVE  /\ [t EXCEPT !.diskDistribution = x] = [diskDistribution |-> x, keyFinder |-> K]
         /\ [t EXCEPT !.keyFinder = x] = [diskDistribution |-> D, keyFinder |-> x]
OBVIOUS

\* The steps of NearestNeighbour
LEMMA NNSelects ==
  ASSUME Configured, Selected, NNTable, kind \in NNKinds, NNNext
  PROVE  Configured' /\ Selected' /\ NNTable'
<1>1. ASSUME NEW k \in NNKinds, NEW l \in Lists[kind], NEW c \in 1 .. MaxCopies,
             NNSetDisks(k, l, c)
      PROVE  Configured' /\ Selected' /\ NNTable'
  <2>1. /\ Configure(k, l, c, [disk |-> 1, i |-> 0]) /\ kind' = kind /\ status' = "building"
        /\ disks' = l /\ copies' = c /\ local' = [disk |-> 1, i |-> 0]
        /\ table' = [diskDistribution |-> [p \in {} |-> None], keyFinder |-> {}]
    BY <1>1 DEF NNSetDisks, Configure
  <2>2. Selected'
    BY <2>1, ConfigureSelects, BoundsAssumption
  <2>3. NNTable'
    BY <2>1 DEF NNTable
  <2> QED
    BY <2>1, <2>2, <2>3, StaysConfigured
<1>2. ASSUME NEW k \in NNKinds, NNInsert(k)
      PROVE  Configured' /\ Selected' /\ NNTable'
  <2>1. /\ status = "building" /\ local.disk <= Len(disks)
        /\ UNCHANGED <<kind, disks, copies, status, lent, result>>
    BY <1>2 DEF NNInsert, Building
  <2> DEFINE D == table.diskDistribution
             K == table.keyFinder
             d == local.disk
  <2>2. PICK p \in 0 .. MaxHash :
          table' = [table EXCEPT !.diskDistribution =
                      Inserted(table.diskDistribution, p, disks[local.disk].id)]
    BY <1>2 DEF NNInsert
  <2>3. /\ table = [diskDistribution |-> D, keyFinder |-> K]
        /\ \A x \in DOMAIN D : D[x] \in Ids(disks)
        /\ d \in Nat \ {0} /\ local = [disk |-> d, i |-> local.i]
    BY <2>1 DEF NNTable
  <2>4. disks[d].id \in Ids(disks)
    <3>1. Len(disks) \in Nat /\ DOMAIN disks = 1 .. Len(disks)
      BY <2>1, ListIs DEF Configured
    <3> QED
      BY <2>1, <2>3, <3>1 DEF Ids
  <2> DEFINE E == Inserted(D, p, disks[d].id)
  <2>5. \A x \in DOMAIN E : E[x] \in Ids(disks)
    BY <2>3, <2>4 DEF Inserted
  <2>6. table' = [table EXCEPT !.diskDistribution = E]
    BY <2>2
  <2> HIDE DEF E
  <2>7. table' = [diskDistribution |-> E, keyFinder |-> K]
    <3> HIDE DEF D, K
    <3> QED
      BY <2>3, <2>6, NNTableIs
  <2>8. local'.disk \in Nat \ {0} /\ local' = [disk |-> local'.disk, i |-> local'.i]
    <3>1. \/ local' = [local EXCEPT !.i = @ + 1]
          \/ local' = [disk |-> local.disk + 1, i |-> 0]
      BY <1>2 DEF NNInsert
    <3>2. CASE local' = [local EXCEPT !.i = @ + 1]
      <4>1. local' = [disk |-> d, i |-> local.i + 1]
        BY <2>3, <3>2
      <4> QED
        BY <2>3, <4>1
    <3>3. CASE local' = [disk |-> local.disk + 1, i |-> 0]
      BY <2>3, <3>3
    <3> QED
      BY <3>1, <3>2, <3>3
  <2>9. table'.diskDistribution = E /\ table'.keyFinder = K
    BY <2>7
  <2>10. NNTable'
    BY <2>1, <2>5, <2>7, <2>8, <2>9 DEF NNTable
  <2>11. Selected'
    BY <2>1, SameSelected DEF Selected
  <2> QED
    BY <2>1, <2>10, <2>11, StaysConfigured
<1>3. ASSUME NEW k \in NNKinds, NNReturn(k)
      PROVE  Configured' /\ Selected' /\ NNTable'
  <2>1. /\ status = "building" /\ status' = "ready"
        /\ UNCHANGED <<kind, disks, copies, lent, result>>
        /\ table' = [table EXCEPT !.keyFinder = FinderKeys(table.diskDistribution)]
    BY <1>3 DEF NNReturn, Building, Built
  <2> DEFINE D == table.diskDistribution
             K == table.keyFinder
             F == FinderKeys(table.diskDistribution)
  <2>2. /\ table = [diskDistribution |-> D, keyFinder |-> K]
        /\ \A x \in DOMAIN D : D[x] \in Ids(disks)
    BY <2>1 DEF NNTable
  <2>3. table' = [table EXCEPT !.keyFinder = F]
    BY <2>1
  <2>4. table' = [diskDistribution |-> D, keyFinder |-> F]
    <3> HIDE DEF D, K, F
    <3> QED
      BY <2>2, <2>3, NNTableIs
  <2>5. table'.diskDistribution = D /\ table'.keyFinder = F
    BY <2>4
  <2>6. NNTable'
    BY <2>1, <2>2, <2>4, <2>5 DEF NNTable
  <2>7. Selected'
    BY <2>1, SameSelected DEF Selected
  <2> QED
    BY <2>1, <2>6, <2>7, StaysConfigured
<1>4. ASSUME NEW k \in NNKinds, NNCall(k)
      PROVE  Configured' /\ Selected' /\ NNTable'
  <2>1. /\ status = "ready" /\ status' = "placing" /\ result = <<>>
        /\ UNCHANGED <<kind, disks, copies, table, lent, result>>
    BY <1>4 DEF NNCall, Call
  <2>2. Len(result) <= copies
    BY <2>1, NothingSelected DEF Configured
  <2>3. Selected'
    BY <2>1, <2>2, SameSelected
  <2>4. NNTable'
    BY <2>1 DEF NNTable
  <2> QED
    BY <2>1, <2>3, <2>4, StaysConfigured
<1>5. ASSUME NEW k \in NNKinds, NNStep(k)
      PROVE  Configured' /\ Selected' /\ NNTable'
  <2>1. /\ status = "placing" /\ Len(result) < copies
    BY <1>5 DEF NNStep, Placing
  <2>2. /\ UNCHANGED <<kind, disks, copies, table>> /\ status' \in {"placing", "crashed"}
    BY <1>5, <2>1 DEF NNStep, Crash, Advance, Append1
  <2>3. NNTable'
    BY <2>1, <2>2 DEF NNTable
  <2>4. PICK hash \in 0 .. MaxHash :
          LET pos == RingClosest(table.keyFinder, hash)
          IN  IF pos \notin DOMAIN table.diskDistribution THEN Crash
              ELSE IF table.diskDistribution[pos] \in ToSet(result) THEN Advance(local)
              ELSE Append1(table.diskDistribution[pos], local)
    BY <1>5 DEF NNStep
  <2> DEFINE pos == RingClosest(table.keyFinder, hash)
             id == table.diskDistribution[pos]
  <2>5. CASE Crash \/ Advance(local)
    <3>1. /\ UNCHANGED <<kind, disks, copies, result>>
          /\ status' = "placing" \/ status' = "crashed"
      BY <2>1, <2>5 DEF Crash, Advance
    <3>2. Selected'
      BY <2>1, <3>1, SameSelected DEF Selected
    <3> QED
      BY <2>1, <2>2, <2>3, <3>2, StaysConfigured
  <2>6. CASE /\ pos \in DOMAIN table.diskDistribution /\ id \notin ToSet(result)
             /\ Append1(id, local)
    <3>1. id \in Ids(disks)
      BY <2>1, <2>6 DEF NNTable
    <3>2. id \in Int
      BY <2>1, <3>1, ListIs DEF Configured
    <3> HIDE DEF id
    <3>3. Selected'
      BY <2>1, <2>6, <3>1, <3>2, AppendSelected
    <3> QED
      BY <2>1, <2>2, <2>3, <3>3, StaysConfigured
  <2> QED
    BY <2>4, <2>5, <2>6
<1>6. ASSUME NEW k \in NNKinds, NNFinish(k)
      PROVE  Configured' /\ Selected' /\ NNTable'
  <2>1. /\ status = "placing" /\ status' = "ready" /\ Len(result) = copies
        /\ UNCHANGED <<kind, disks, copies, table, result>>
    BY <1>6 DEF NNFinish, Placing, Finish
  <2>2. Selected'
    BY <2>1, SameSelected
  <2>3. NNTable'
    BY <2>1 DEF NNTable
  <2> QED
    BY <2>1, <2>2, <2>3, StaysConfigured
<1> QED
  BY <1>1, <1>2, <1>3, <1>4, <1>5, <1>6 DEF NNNext

--------------------------------------------------------------------------------
(* RandSlice: every disk of the list has a partition.                      *)

RandSliceTable ==
  kind = "RandSlice" /\ status # "new" =>
    /\ status \in {"ready", "placing", "crashed"}
    /\ table = Ids(disks)

\* The steps of RandSlice
LEMMA RandSliceSelects ==
  ASSUME Configured, Selected, RandSliceTable, kind = "RandSlice", RandSliceNext
  PROVE  Configured' /\ Selected' /\ RandSliceTable'
<1>1. ASSUME NEW l \in Lists[kind], NEW c \in 1 .. MaxCopies, RandSliceSetDisks(l, c)
      PROVE  Configured' /\ Selected' /\ RandSliceTable'
  <2>1. /\ Configure("RandSlice", l, c, None) /\ kind' = kind /\ status' = "ready"
        /\ disks' = l /\ copies' = c /\ table' = Ids(l)
    BY <1>1 DEF RandSliceSetDisks, Configure
  <2>2. Selected'
    BY <2>1, ConfigureSelects, BoundsAssumption
  <2>3. RandSliceTable'
    BY <2>1 DEF RandSliceTable
  <2> QED
    BY <2>1, <2>2, <2>3, StaysConfigured
<1>2. ASSUME RandSliceCall
      PROVE  Configured' /\ Selected' /\ RandSliceTable'
  <2>1. /\ status = "ready" /\ status' = "placing" /\ result = <<>>
        /\ UNCHANGED <<kind, disks, copies, table, result>>
    BY <1>2 DEF RandSliceCall, Call
  <2>2. Len(result) <= copies
    BY <2>1, NothingSelected DEF Configured
  <2>3. Selected'
    BY <2>1, <2>2, SameSelected
  <2>4. RandSliceTable'
    BY <2>1 DEF RandSliceTable
  <2> QED
    BY <2>1, <2>3, <2>4, StaysConfigured
<1>3. ASSUME RandSliceStep
      PROVE  Configured' /\ Selected' /\ RandSliceTable'
  <2>1. /\ status = "placing" /\ Len(result) < copies /\ table = Ids(disks)
    BY <1>3 DEF RandSliceStep, Placing, RandSliceTable
  <2>2. UNCHANGED <<kind, disks, copies, table>> /\ status' \in {"placing", "crashed"}
    BY <1>3, <2>1 DEF RandSliceStep, Crash, Advance, Append1
  <2>3. RandSliceTable'
    BY <2>1, <2>2 DEF RandSliceTable
  <2>4. PICK id \in Ids(disks) :
          \/ id \notin ToSet(result) /\ Append1(id, [idx |-> local.idx + 1])
          \/ Advance([idx |-> local.idx + 1])
          \/ Crash
    BY <1>3, <2>1 DEF RandSliceStep
  <2>5. CASE Crash \/ Advance([idx |-> local.idx + 1])
    <3>1. /\ UNCHANGED <<kind, disks, copies, result>>
          /\ status' = "placing" \/ status' = "crashed"
      BY <2>1, <2>5 DEF Crash, Advance
    <3>2. Selected'
      BY <2>1, <3>1, SameSelected DEF Selected
    <3> QED
      BY <2>1, <2>2, <2>3, <3>2, StaysConfigured
  <2>6. CASE id \notin ToSet(result) /\ Append1(id, [idx |-> local.idx + 1])
    <3>1. id \in Int
      BY <2>1, ListIs DEF Configured
    <3>2. Selected'
      BY <2>1, <2>6, <3>1, AppendSelected
    <3> QED
      BY <2>1, <2>2, <2>3, <3>2, StaysConfigured
  <2> QED
    BY <2>4, <2>5, <2>6
<1>4. ASSUME RandSliceReturn
      PROVE  Configured' /\ Selected' /\ RandSliceTable'
  <2>1. /\ status = "placing" /\ status' = "ready" /\ Len(result) = copies
        /\ UNCHANGED <<kind, disks, copies, table, result>>
    BY <1>4 DEF RandSliceReturn, Placing, Finish
  <2>2. Selected'
    BY <2>1, SameSelected
  <2>3. RandSliceTable'
    BY <2>1 DEF RandSliceTable
  <2> QED
    BY <2>1, <2>2, <2>3, StaysConfigured
<1> QED
  BY <1>1, <1>2, <1>3, <1>4 DEF RandSliceNext

--------------------------------------------------------------------------------
(* Share: every border has a distributor over disks of the list.           *)

ShareTable ==
  kind \in ShareKinds /\ status # "new" =>
    /\ status \in {"building", "ready", "placing", "crashed"}
    /\ status = "building" =>
         /\ local = [starts |-> local.starts, times |-> local.times]
         /\ local.starts \in Seq(0 .. MaxHash) /\ local.times \in Nat
    /\ status \in {"ready", "placing"} =>
         /\ DOMAIN table.distributors # {} /\ DOMAIN table.distributors \subseteq 0 .. MaxHash
         /\ \A b \in DOMAIN table.distributors : DOMAIN table.distributors[b] = DOMAIN disks
    /\ status = "placing" => local.border \in {-1} \cup DOMAIN table.distributors

\* The capacities of a list add up to something.
LEMMA TotalIs ==
  ASSUME NEW k \in Kinds, NEW l \in Lists[k]
  PROVE  TotalCapacity(l) \in Nat \ {0}
<1> DEFINE f == [n \in DOMAIN l |-> l[n].capacity]
           S == DOMAIN l
<1>1. Len(l) \in Nat \ {0} /\ S = 1 .. Len(l) /\ \A n \in S : l[n].capacity \in Nat \ {0}
  BY ListIs
<1>2. IsFiniteSet(S) /\ 1 \in S /\ \A n \in S : f[n] \in Nat \ {0}
  BY <1>1, FS_Interval
<1>3. TotalCapacity(l) = SumFunctionOnSet(f, S)
  BY DEF TotalCapacity, SumFunction
<1> HIDE DEF f, S
<1>4. \A n \in S : f[n] \in Nat
  BY <1>2
<1>5. SumFunctionOnSet(f, S) \in Nat /\ f[1] <= SumFunctionOnSet(f, S)
  BY <1>2, <1>4, SumOfNaturals
<1>6. f[1] \in Nat \ {0}
  BY <1>2
<1> QED
  BY <1>3, <1>5, <1>6

\* An interval on the ring, as long as it says
OnRing(sd) ==
  /\ sd.start \in 0 .. MaxHash /\ sd.length \in Nat
  /\ sd.end = (sd.start + sd.length) % MaxHash
  /\ sd.rounds = IF sd.length > MaxHash THEN sd.length \div MaxHash ELSE 0

\* Intervals start and end on the ring.
LEMMA IntervalIs ==
  ASSUME NEW k \in Kinds, NEW l \in Lists[k], NEW n \in DOMAIN l, NEW start \in 0 .. MaxHash,
         NEW stretch \in Nat
  PROVE  /\ OnRing(Interval(l, n, start, stretch))
         /\ Interval(l, n, start, stretch).end \in 0 .. MaxHash
<1> DEFINE length == Length(l, n, stretch)
           total == TotalCapacity(l)
           product == l[n].capacity * MaxHash * stretch
<1>1. MaxHash \in Nat \ {0} /\ total \in Nat \ {0} /\ l[n].capacity \in Nat
  BY BoundsAssumption, TotalIs, ListIs
<1>2. product \in Nat
  BY <1>1
<1>3. length = product \div total
  BY DEF Length
<1> HIDE DEF product, total, length
<1>4. length \in Nat
  <2>1. product \in Int /\ total \in Nat \ {0}
    BY <1>1, <1>2
  <2>2. product \div total \in Nat
    BY <1>2, <2>1, Division
  <2> QED
    BY <1>3, <2>2
<1>5. start + length \in Int
  BY <1>4
<1>6. (start + length) % MaxHash \in 0 .. MaxHash - 1
  BY <1>1, <1>5, Division
<1>7. (start + length) % MaxHash \in 0 .. MaxHash
  BY <1>1, <1>6
<1> DEFINE sd == Interval(l, n, start, stretch)
<1>8. /\ sd.start = start /\ sd.length = length /\ sd.end = (start + length) % MaxHash
      /\ sd.rounds = IF length > MaxHash THEN length \div MaxHash ELSE 0
  BY DEF Interval, length
<1> HIDE DEF sd
<1>9. OnRing(sd) /\ sd.end \in 0 .. MaxHash
  BY <1>4, <1>7, <1>8 DEF OnRing
<1> QED
  BY <1>9 DEF sd

\* The intervals of the starts drawn are on the ring.
LEMMA IntervalsAre ==
  ASSUME NEW k \in Kinds, NEW l \in Lists[k], NEW c \in Nat, NEW starts \in Seq(0 .. MaxHash),
         NEW times \in Nat, Len(starts) = Len(l) * ShareCopies
  PROVE  /\ 1 \in DOMAIN Intervals(k, l, c, starts, times)
         /\ \A i \in DOMAIN Intervals(k, l, c, starts, times) :
              /\ OnRing(Intervals(k, l, c, starts, times)[i])
              /\ Intervals(k, l, c, starts, times)[i].end \in 0 .. MaxHash
<1> DEFINE n(i) == ((i - 1) \div ShareCopies) + 1
           stretch == Stretch(k, l, c, times)
           s == Intervals(k, l, c, starts, times)
<1>1. /\ Len(l) \in Nat \ {0} /\ DOMAIN l = 1 .. Len(l) /\ l \in AllLists
      /\ ShareCopies \in Nat \ {0}
  BY ListIs, ShareAssumption
<1>2. stretch \in Nat
  <2> DEFINE a == StretchHalves[Len(l)]
             b == Needed(k, c)
             x == a * b * times
  <2>1. a \in Nat /\ b \in Nat
    BY <1>1, ShareAssumption DEF Needed
  <2> HIDE DEF a, b
  <2>2. x \in Nat
    BY <2>1
  <2>3. stretch = x \div 2
    BY DEF Stretch, a, b
  <2> HIDE DEF x, stretch
  <2> QED
    BY <2>2, <2>3
<1>3. DOMAIN starts = 1 .. Len(starts) /\ Len(starts) \in Nat /\ Len(starts) > 0
  <2> DEFINE x == Len(l)
             y == ShareCopies
  <2>1. x * y > 0
    <3> HIDE DEF x, y
    <3>1. x \in Nat \ {0} /\ y \in Nat \ {0}
      BY <1>1 DEF x, y
    <3> QED
      BY <3>1
  <2> QED
    BY <2>1
<1>4. ASSUME NEW i \in DOMAIN starts PROVE n(i) \in DOMAIN l
  <2> DEFINE a == i - 1
             x == Len(l)
             y == ShareCopies
             q == a \div y
             r == a % y
  <2>1. a \in Nat /\ a < x * y
    BY <1>3
  <2>2. x \in Nat /\ y \in Nat \ {0}
    BY <1>1
  <2> HIDE DEF a, x, y
  <2>3. q \in Nat /\ r \in Nat /\ a = y * q + r
    <3>1. a \in Int
      BY <2>1
    <3>2. a \div y \in Nat
      BY <2>1, <2>2, <3>1, Division
    <3>3. a % y \in 0 .. y - 1
      BY <2>2, <3>1, Division
    <3>4. a = y * (a \div y) + (a % y)
      BY <2>2, <3>1, Division
    <3>5. a % y \in Nat
      BY <2>2, <3>3
    <3> QED
      BY <3>2, <3>4, <3>5
  <2> HIDE DEF q, r
  <2>4. y * q < x * y
    <3> DEFINE u == y * q
               v == x * y
    <3>1. u \in Nat /\ v \in Nat
      BY <2>2, <2>3
    <3>2. a = u + r /\ a < v
      BY <2>1, <2>3
    <3> HIDE DEF u, v
    <3>3. u < v
      BY <2>1, <2>3, <3>1, <3>2
    <3> QED
      BY <3>3 DEF u, v
  <2>5. q < x
    <3> SUFFICES ASSUME q >= x PROVE FALSE
      BY <2>2, <2>3
    <3>1. y * q >= y * x /\ y * x = x * y
      BY <2>2, <2>3
    <3> QED
      BY <2>2, <2>3, <2>4, <3>1
  <2>6. q + 1 \in 1 .. Len(l)
    BY <1>1, <2>3, <2>5 DEF x
  <2> QED
    BY <1>1, <2>6 DEF q, a, y
<1>5. s = [i \in DOMAIN starts |-> Interval(l, n(i), starts[i], stretch)]
  BY DEF Intervals
<1> HIDE DEF n, stretch, s
<1>6. \A i \in DOMAIN s : OnRing(s[i]) /\ s[i].end \in 0 .. MaxHash
  <2>1. \A i \in DOMAIN starts : starts[i] \in 0 .. MaxHash
    <3> DEFINE H == 0 .. MaxHash
    <3>1. starts \in Seq(H)
      OBVIOUS
    <3> HIDE DEF H
    <3>2. \A i \in DOMAIN starts : starts[i] \in H
      BY <3>1
    <3> QED
      BY <3>2 DEF H
  <2>2. \A i \in DOMAIN starts :
          /\ OnRing(Interval(l, n(i), starts[i], stretch))
          /\ Interval(l, n(i), starts[i], stretch).end \in 0 .. MaxHash
    BY <1>2, <1>4, <2>1, IntervalIs
  <2> QED
    BY <1>5, <2>2
<1>7. 1 \in DOMAIN s
  BY <1>3, <1>5
<1> QED
  BY <1>6, <1>7 DEF s

\* The intervals' borders are positions on the ring.
LEMMA BordersAre ==
  ASSUME NEW k \in Kinds, NEW l \in Lists[k], NEW c \in Nat, NEW starts \in Seq(0 .. MaxHash),
         NEW times \in Nat, Len(starts) = Len(l) * ShareCopies
  PROVE  /\ Borders(Intervals(k, l, c, starts, times)) # {}
         /\ Borders(Intervals(k, l, c, starts, times)) \subseteq 0 .. MaxHash
<1> DEFINE s == Intervals(k, l, c, starts, times)
<1>1. /\ 1 \in DOMAIN s
      /\ \A i \in DOMAIN s : s[i].start \in 0 .. MaxHash /\ s[i].end \in 0 .. MaxHash
  BY IntervalsAre DEF OnRing
<1> HIDE DEF s
<1> QED
  BY <1>1 DEF Borders, s

\* The closest border is one.
LEMMA ClosestIs ==
  ASSUME DOMAIN table.distributors # {}, DOMAIN table.distributors \subseteq 0 .. MaxHash,
         NEW hash \in 0 .. MaxHash
  PROVE  Closest(hash) \in DOMAIN table.distributors
<1> DEFINE D == DOMAIN table.distributors
           below == {p \in D : p <= hash}
<1>1. MaxHash \in Nat
  BY BoundsAssumption
<1>2. Max(D) \in D
  BY <1>1, MaxIs
<1>3. below # {} => Max(below) \in below
  BY <1>1, MaxIs
<1>4. Closest(hash) = IF below = {} THEN Max(D) ELSE Max(below)
  BY DEF Closest, RingClosest
<1> HIDE DEF below
<1> QED
  BY <1>2, <1>3, <1>4 DEF below

\* The distributor of a border draws a disk of the list.
LEMMA DrawSelects ==
  ASSUME Configured, Selected, ShareTable, kind \in ShareKinds, status = "placing",
         Len(result) < copies, NEW border \in DOMAIN table.distributors, DrawAt(border, local)
  PROVE  Configured' /\ Selected' /\ ShareTable'
<1> DEFINE covering == Covering(table.distributors[border])
<1>1. /\ UNCHANGED <<kind, disks, copies, table>>
      /\ (status' = "placing" /\ local' = local) \/ status' = "crashed"
  BY DEF DrawAt, Crash, Advance, Append1
<1>2. ShareTable'
  BY <1>1 DEF ShareTable
<1>3. \/ Crash
      \/ \E n \in covering : \/ Advance(local)
                             \/ disks[n].id \notin ToSet(result) /\ Append1(disks[n].id, local)
  BY DEF DrawAt
<1>4. CASE Crash \/ Advance(local)
  <2>1. UNCHANGED <<kind, disks, copies, result>> /\ (status' = "placing" \/ status' = "crashed")
    BY <1>4 DEF Crash, Advance
  <2>2. Selected'
    BY <2>1, SameSelected DEF Selected
  <2> QED
    BY <1>1, <1>2, <2>2, StaysConfigured
<1>5. ASSUME NEW n \in covering, disks[n].id \notin ToSet(result), Append1(disks[n].id, local)
      PROVE  Configured' /\ Selected' /\ ShareTable'
  <2> DEFINE id == disks[n].id
  <2>1. n \in DOMAIN disks
    BY DEF ShareTable, Covering
  <2>2. id \in Int /\ id \in Ids(disks)
    BY <2>1, ListIs DEF Configured, Ids
  <2>3. id \notin ToSet(result) /\ Append1(id, local)
    BY <1>5
  <2> HIDE DEF id
  <2>4. Selected'
    BY <2>2, <2>3, AppendSelected
  <2> QED
    BY <1>1, <1>2, <2>4, StaysConfigured
<1> QED
  BY <1>3, <1>4, <1>5

\* The steps of Share
LEMMA ShareSelects ==
  ASSUME Configured, Selected, ShareTable, kind \in ShareKinds, ShareNext
  PROVE  Configured' /\ Selected' /\ ShareTable'
<1>1. ASSUME NEW k \in ShareKinds, NEW l \in Lists[kind], NEW c \in 1 .. MaxCopies,
             ShareSetDisks(k, l, c)
      PROVE  Configured' /\ Selected' /\ ShareTable'
  <2>1. /\ Configure(k, l, c, [starts |-> <<>>, times |-> 1]) /\ kind' = kind
        /\ status' = "building" /\ disks' = l /\ copies' = c
        /\ local' = [starts |-> <<>>, times |-> 1]
    BY <1>1 DEF ShareSetDisks, Configure
  <2>2. Selected'
    BY <2>1, ConfigureSelects, BoundsAssumption
  <2>3. <<>> \in Seq(0 .. MaxHash)
    OBVIOUS
  <2>4. ShareTable'
    BY <2>1, <2>3 DEF ShareTable
  <2> QED
    BY <2>1, <2>2, <2>4, StaysConfigured
<1>2. ASSUME NEW k \in ShareKinds, ShareStart(k)
      PROVE  Configured' /\ Selected' /\ ShareTable'
  <2>1. /\ status = "building" /\ UNCHANGED <<kind, disks, copies, table, status, lent, result>>
    BY <1>2 DEF ShareStart, Building, Advance
  <2>2. PICK start \in 0 .. MaxHash : local' = [local EXCEPT !.starts = Append(@, start)]
    BY <1>2 DEF ShareStart, Advance
  <2> DEFINE s == local.starts
             r == local.times
  <2>3. local = [starts |-> s, times |-> r] /\ s \in Seq(0 .. MaxHash) /\ r \in Nat
    BY <2>1 DEF ShareTable
  <2>4. local' = [starts |-> Append(s, start), times |-> r]
    <3> HIDE DEF s, r
    <3> QED
      BY <2>2, <2>3
  <2>5. Append(s, start) \in Seq(0 .. MaxHash)
    BY <2>3
  <2>6. ShareTable'
    BY <2>1, <2>3, <2>4, <2>5 DEF ShareTable
  <2>7. Selected'
    BY <2>1, SameSelected DEF Selected
  <2> QED
    BY <2>1, <2>6, <2>7, StaysConfigured
<1>3. ASSUME NEW k \in ShareKinds, ShareFill(k)
      PROVE  Configured' /\ Selected' /\ ShareTable'
  <2> DEFINE s == local.starts
             r == local.times
             sDisks == Intervals(k, disks, copies, s, r)
  <2>1. /\ status = "building" /\ kind = k /\ Len(s) = Len(disks) * ShareCopies
        /\ local = [starts |-> s, times |-> r] /\ s \in Seq(0 .. MaxHash) /\ r \in Nat
        /\ UNCHANGED <<kind, disks, copies, lent, result>>
    BY <1>3 DEF ShareFill, Building, Built, Advance, ShareTable
  <2>2. Selected' /\ Configured'
    <3>1. result = <<>> /\ status' \in {"ready", "building"}
      BY <1>3, <2>1 DEF ShareFill, Built, Advance, Selected
    <3> QED
      BY <2>1, <3>1, SameSelected, StaysConfigured DEF Selected
  <2>3. \/ /\ table' = [sDisks |-> sDisks,
                        distributors |-> [b \in Borders(sDisks) |-> Multi(disks, sDisks, b)]]
           /\ status' = "ready"
        \/ /\ local' = [local EXCEPT !.times = IF Len(disks) >= Needed(k, copies) THEN 2 * @
                                               ELSE 2]
           /\ status' = status
    BY <1>3 DEF ShareFill, Built, Advance
  <2>4. CASE /\ table' = [sDisks |-> sDisks,
                          distributors |-> [b \in Borders(sDisks) |-> Multi(disks, sDisks, b)]]
             /\ status' = "ready"
    <3> DEFINE B == Borders(sDisks)
    <3>1. disks \in Lists[k] /\ k \in Kinds /\ copies \in Nat
      BY <2>1, BoundsAssumption DEF Configured
    <3>2. B # {} /\ B \subseteq 0 .. MaxHash
      BY <2>1, <3>1, BordersAre
    <3>3. table'.distributors = [b \in B |-> Multi(disks, sDisks, b)]
      BY <2>4
    <3> HIDE DEF B, sDisks, s, r
    <3>4. \A b \in B : DOMAIN Multi(disks, sDisks, b) = DOMAIN disks
      BY DEF Multi
    <3> QED
      BY <2>1, <2>2, <2>4, <3>2, <3>3, <3>4 DEF ShareTable
  <2>5. CASE /\ local' = [local EXCEPT !.times = IF Len(disks) >= Needed(k, copies) THEN 2 * @
                                                 ELSE 2]
             /\ status' = status
    <3> DEFINE t == IF Len(disks) >= Needed(k, copies) THEN 2 * r ELSE 2
    <3>1. local' = [local EXCEPT !.times = t]
      BY <2>5
    <3>2. t \in Nat
      BY <2>1
    <3> HIDE DEF t, s, r
    <3>3. local' = [starts |-> s, times |-> t]
      BY <2>1, <3>1
    <3>4. ShareTable'
      BY <2>1, <2>5, <3>2, <3>3 DEF ShareTable
    <3> QED
      BY <2>2, <3>4
  <2> QED
    BY <2>3, <2>4, <2>5
<1>4. ASSUME NEW k \in ShareKinds, ShareCall(k)
      PROVE  Configured' /\ Selected' /\ ShareTable'
  <2>1. /\ status = "ready" /\ status' = "placing" /\ result = <<>> /\ local' = [border |-> -1]
        /\ UNCHANGED <<kind, disks, copies, table, result>>
    BY <1>4 DEF ShareCall, Call
  <2>2. Len(result) <= copies
    BY <2>1, NothingSelected DEF Configured
  <2>3. Selected'
    BY <2>1, <2>2, SameSelected
  <2>4. ShareTable'
    BY <2>1 DEF ShareTable
  <2> QED
    BY <2>1, <2>3, <2>4, StaysConfigured
<1>5. ASSUME ShareDraw
      PROVE  Configured' /\ Selected' /\ ShareTable'
  <2>1. status = "placing" /\ Len(result) < copies
    BY <1>5 DEF ShareDraw, Placing
  <2>2. PICK hash \in 0 .. MaxHash : DrawAt(Closest(hash), local)
    BY <1>5 DEF ShareDraw
  <2>3. Closest(hash) \in DOMAIN table.distributors
    BY <2>1, ClosestIs DEF ShareTable
  <2> QED
    BY <2>1, <2>2, <2>3, DrawSelects
<1>6. ASSUME ShareFind
      PROVE  Configured' /\ Selected' /\ ShareTable'
  <2>1. status = "placing" /\ UNCHANGED <<kind, disks, copies, table, status, lent, result>>
    BY <1>6 DEF ShareFind, Placing, Advance
  <2>2. PICK hash \in 0 .. MaxHash : local' = [border |-> Closest(hash)]
    BY <1>6 DEF ShareFind, Advance
  <2>3. Closest(hash) \in DOMAIN table.distributors
    BY <2>1, ClosestIs DEF ShareTable
  <2>4. Selected'
    BY <2>1, SameSelected DEF Selected
  <2>5. ShareTable'
    BY <2>1, <2>2, <2>3 DEF ShareTable
  <2> QED
    BY <2>1, <2>4, <2>5, StaysConfigured
<1>7. ASSUME ShareDrawByNN
      PROVE  Configured' /\ Selected' /\ ShareTable'
  <2>1. /\ status = "placing" /\ Len(result) < copies /\ local.border # -1
        /\ DrawAt(local.border, local)
    BY <1>7 DEF ShareDrawByNN, Placing
  <2>2. local.border \in DOMAIN table.distributors
    BY <2>1 DEF ShareTable
  <2> QED
    BY <2>1, <2>2, DrawSelects
<1>8. ASSUME NEW k \in ShareKinds, ShareReturn(k)
      PROVE  Configured' /\ Selected' /\ ShareTable'
  <2>1. /\ status = "placing" /\ status' = "ready" /\ Len(result) = copies
        /\ UNCHANGED <<kind, disks, copies, table, result>>
    BY <1>8 DEF ShareReturn, Placing, Finish
  <2>2. Selected'
    BY <2>1, SameSelected
  <2>3. ShareTable'
    BY <2>1 DEF ShareTable
  <2> QED
    BY <2>1, <2>2, <2>3, StaysConfigured
<1> QED
  BY <1>1, <1>2, <1>3, <1>4, <1>5, <1>6, <1>7, <1>8 DEF ShareNext

--------------------------------------------------------------------------------
(* RedundantShare: the walk along the sorted disks never comes back.       *)

\* The disks of a table are numbers, and different ones.
InOrder(t) ==
  /\ \A i \in DOMAIN t.disks : i \in Nat /\ t.disks[i].id \in Int
  /\ \A i, j \in DOMAIN t.disks : t.disks[i].id = t.disks[j].id => i = j

\* The walk has passed the disks of the result.
Passed(r, t, next) ==
  \A x \in ToSet(r) : \E i \in DOMAIN t.disks : i < next /\ t.disks[i].id = x

RSTable ==
  kind \in RSKinds =>
    /\ status \in {"new", "ready", "placing", "crashed"}
    /\ status = "new" => table = None
    /\ table # None =>
         /\ InOrder(table)
         /\ TooFew \/ \A i \in DOMAIN table.disks : table.disks[i].id \in Ids(disks)
    /\ status = "placing" =>
         /\ local = [i |-> local.i, toPlace |-> local.toPlace, first |-> local.first]
         /\ local.i \in Nat /\ local.toPlace \in Nat /\ local.first \in BOOLEAN
         /\ local.toPlace + Len(result) = copies
         /\ Passed(result, table, local.i)

\* The table of a list
LEMMA AligningIs ==
  ASSUME NEW k \in Kinds, NEW l \in Lists[k], NEW c, NEW revert \in BOOLEAN,
         NEW t, t.disks = Aligning(l, c, revert).disks
  PROVE  InOrder(t) /\ \A i \in DOMAIN t.disks : t.disks[i].id \in Ids(l)
<1>1. t.disks = Sorted(l, revert)
  BY DEF Aligning
<1>2. \A d \in ToSet(l) : d.id \in Ids(l)
  BY DEF ToSet, Ids
<1>3. Len(l) \in Nat /\ Ids(l) \subseteq Int
  BY ListIs
<1>4. \A i \in DOMAIN t.disks : i \in Nat /\ t.disks[i].id \in Ids(l)
  BY <1>1, <1>2, <1>3, SortedIs
<1>5. \A i, j \in DOMAIN t.disks : t.disks[i].id = t.disks[j].id => i = j
  BY <1>1, SortedIs
<1> QED
  BY <1>3, <1>4, <1>5 DEF InOrder

\* A disk from where the walk is is a new one.
LEMMA AheadIsNew ==
  ASSUME InOrder(table), NEW next \in Nat, Passed(result, table, next),
         NEW i \in DOMAIN table.disks, i >= next, result \in Seq(Int)
  PROVE  /\ table.disks[i].id \in Int /\ table.disks[i].id \notin ToSet(result)
         /\ \A s : ToSet(s) = ToSet(result) \cup {table.disks[i].id} =>
              \A x \in ToSet(s) : \E j \in DOMAIN table.disks :
                j < i + 1 /\ table.disks[j].id = x
<1>1. \A j \in DOMAIN table.disks : j \in Nat /\ table.disks[j].id \in Int
  BY DEF InOrder
<1>2. \A x \in ToSet(result) : \E j \in DOMAIN table.disks : j < next /\ table.disks[j].id = x
  BY DEF Passed
<1>3. \A j \in DOMAIN table.disks : table.disks[j].id = table.disks[i].id => j = i
  BY DEF InOrder
<1>4. table.disks[i].id \notin ToSet(result)
  <2> SUFFICES ASSUME table.disks[i].id \in ToSet(result) PROVE FALSE
    OBVIOUS
  <2>1. PICK j \in DOMAIN table.disks : j < next /\ table.disks[j].id = table.disks[i].id
    BY <1>2
  <2> QED
    BY <1>1, <1>3, <2>1
<1>5. ASSUME NEW s, ToSet(s) = ToSet(result) \cup {table.disks[i].id}, NEW x \in ToSet(s)
      PROVE  \E j \in DOMAIN table.disks : j < i + 1 /\ table.disks[j].id = x
  <2>1. CASE x = table.disks[i].id
    BY <1>1, <2>1
  <2>2. CASE x \in ToSet(result)
    <3>1. PICK j \in DOMAIN table.disks : j < next /\ table.disks[j].id = x
      BY <1>2, <2>2
    <3>2. j < i + 1
      BY <1>1, <3>1
    <3> QED
      BY <3>1, <3>2
  <2> QED
    BY <1>5, <2>1, <2>2
<1> QED
  BY <1>1, <1>4, <1>5

\* The steps of RedundantShare
LEMMA RSSelects ==
  ASSUME Configured, Selected, RSTable, kind \in RSKinds, RSNext
  PROVE  Configured' /\ Selected' /\ RSTable'
<1>1. ASSUME NEW k \in RSKinds, NEW l \in Lists[kind], NEW c \in 1 .. MaxCopies,
             RSSetDisks(k, l, c)
      PROVE  Configured' /\ Selected' /\ RSTable'
  <2>1. /\ Configure(k, l, c, None) /\ kind' = kind /\ kind = k
        /\ disks' = l /\ copies' = c
    BY <1>1 DEF RSSetDisks, Configure
  <2>2. Selected'
    BY <2>1, ConfigureSelects, BoundsAssumption
  <2> DEFINE revert == k # "RedundantShare"
             t == Aligning(l, c, revert)
  <2>3. \/ Len(l) < c /\ status' = "ready" /\ table' = table
        \/ status' = "crashed" /\ table' = None
        \/ status' = "ready" /\ table' = Tables(t, c)
    BY <1>1, Zenon DEF RSSetDisks
  <2>4. /\ status' \in {"ready", "crashed"}
        /\ table' # None => InOrder(table')
        /\ table' # None =>
             TooFew' \/ \A i \in DOMAIN table'.disks : table'.disks[i].id \in Ids(l)
    <3>1. CASE Len(l) < c /\ status' = "ready" /\ table' = table
      <4>1. TooFew'
        BY <2>1, <3>1 DEF TooFew
      <4>2. table # None => InOrder(table)
        BY DEF RSTable
      <4> QED
        BY <3>1, <4>1, <4>2
    <3>2. CASE status' = "crashed" /\ table' = None
      BY <3>2
    <3>3. CASE status' = "ready" /\ table' = Tables(t, c)
      <4>1. revert \in BOOLEAN /\ kind \in Kinds
        BY DEF Configured
      <4>2. table'.disks = t.disks
        BY <3>3 DEF Tables
      <4> HIDE DEF revert
      <4>3. InOrder(table') /\ \A i \in DOMAIN table'.disks : table'.disks[i].id \in Ids(l)
        BY <4>1, <4>2, AligningIs
      <4> QED
        BY <3>3, <4>3
    <3> QED
      BY <2>3, <3>1, <3>2, <3>3
  <2>5. status' # "new" /\ status' # "placing"
    BY <2>4
  <2> HIDE DEF t
  <2>7. RSTable'
    <3>1. ASSUME table' # None
          PROVE  /\ InOrder(table')
                 /\ TooFew' \/ \A i \in DOMAIN table'.disks : table'.disks[i].id \in Ids(disks)'
      BY <2>1, <2>4, <3>1
    <3> QED
      BY <2>4, <2>5, <3>1, Zenon DEF RSTable, InOrder, TooFew
  <2> QED
    BY <2>1, <2>2, <2>7, StaysConfigured
<1>2. ASSUME NEW k \in RSKinds, RSCall(k)
      PROVE  Configured' /\ Selected' /\ RSTable'
  <2>1. /\ status = "ready" /\ status' = "placing" /\ result = <<>>
        /\ local' = [i |-> 0, toPlace |-> copies, first |-> TRUE]
        /\ UNCHANGED <<kind, disks, copies, table, result>>
    BY <1>2 DEF RSCall, Call
  <2>2. Len(result) <= copies /\ copies \in Nat /\ Len(result) = 0 /\ ToSet(result) = {}
    BY <2>1, NothingSelected DEF Configured
  <2>3. Selected'
    BY <2>1, <2>2, SameSelected
  <2>4. Passed(result', table', 0)
    BY <2>1, <2>2 DEF Passed
  <2>5. RSTable'
    BY <2>1, <2>2, <2>4 DEF RSTable, InOrder, TooFew
  <2> QED
    BY <2>1, <2>3, <2>5, StaysConfigured
<1>3. ASSUME NEW k \in RSKinds, RSStep(k)
      PROVE  Configured' /\ Selected' /\ RSTable'
  <2> DEFINE i == local.i
             p == local.toPlace
             f == local.first
  <2>1. /\ status = "placing" /\ p > 0 /\ i \in Nat /\ p \in Nat
        /\ local = [i |-> i, toPlace |-> p, first |-> f]
        /\ p + Len(result) = copies /\ Passed(result, table, i)
    BY <1>3 DEF RSStep, Placing, RSTable
  <2>2. UNCHANGED <<kind, disks, copies, table>> /\ status' \in {"placing", "crashed"}
    BY <1>3, <2>1 DEF RSStep, Crash, Advance, Append1
  <2>3. \/ Crash
        \/ table # None /\ Advance([local EXCEPT !.i = @ + 1, !.first = FALSE])
        \/ /\ table # None /\ i \in DOMAIN table.disks
           /\ Append1(table.disks[i].id, [i |-> i + 1, toPlace |-> p - 1, first |-> TRUE])
    BY <1>3 DEF RSStep
  <2> HIDE DEF i, p, f
  <2>4. CASE Crash
    <3>1. UNCHANGED <<kind, disks, copies, result>> /\ status' = "crashed"
      BY <2>4 DEF Crash
    <3>2. Selected'
      BY <3>1, SameSelected
    <3>3. RSTable'
      BY <2>2, <3>1 DEF RSTable, InOrder, TooFew
    <3> QED
      BY <2>1, <2>2, <3>1, <3>2, <3>3, StaysConfigured
  <2>5. CASE table # None /\ Advance([local EXCEPT !.i = @ + 1, !.first = FALSE])
    <3>1. /\ UNCHANGED <<kind, disks, copies, result, status, table>>
          /\ local' = [i |-> i + 1, toPlace |-> p, first |-> FALSE]
      BY <2>1, <2>5 DEF Advance
    <3>2. Selected'
      BY <2>1, <3>1, SameSelected DEF Selected
    <3>3. Passed(result', table', i + 1)
      <4>1. \A j \in DOMAIN table.disks : j < i => j < i + 1
        BY <2>1, <2>5 DEF RSTable, InOrder
      <4>2. Passed(result, table, i + 1)
        BY <2>1, <4>1 DEF Passed
      <4> QED
        BY <3>1, <4>2
    <3>4. RSTable'
      <4>1. local'.i = i + 1 /\ i + 1 \in Nat /\ local'.toPlace = p /\ local'.first = FALSE
        BY <2>1, <3>1
      <4>2. Passed(result', table', local'.i)
        BY <3>3, <4>1
      <4> QED
        BY <2>1, <3>1, <4>1, <4>2 DEF RSTable, InOrder, TooFew
    <3> QED
      BY <2>1, <2>2, <3>1, <3>2, <3>4, StaysConfigured
  <2>6. CASE /\ table # None /\ i \in DOMAIN table.disks
             /\ Append1(table.disks[i].id, [i |-> i + 1, toPlace |-> p - 1, first |-> TRUE])
    <3> DEFINE id == table.disks[i].id
               next == [i |-> i + 1, toPlace |-> p - 1, first |-> TRUE]
    <3>1. /\ InOrder(table) /\ (TooFew \/ id \in Ids(disks)) /\ result \in Seq(Int)
      BY <2>6 DEF RSTable, Selected
    <3>2. /\ id \in Int /\ id \notin ToSet(result)
          /\ \A s : ToSet(s) = ToSet(result) \cup {id} =>
               \A x \in ToSet(s) : \E j \in DOMAIN table.disks :
                 j < i + 1 /\ table.disks[j].id = x
      BY <2>1, <2>6, <3>1, AheadIsNew
    <3>3. /\ result' = Append(result, id) /\ local' = next
          /\ UNCHANGED <<kind, disks, copies, table, status>> /\ Append1(id, next)
      BY <2>6 DEF Append1
    <3> HIDE DEF id
    <3>4. Len(result') = Len(result) + 1 /\ ToSet(result') = ToSet(result) \cup {id}
      BY <3>1, <3>2, <3>3, AppendNew
    <3>5. Len(result) \in Nat /\ copies \in Nat
      BY <2>1, <3>1
    <3>6. Selected'
      <4>1. Len(result) < copies
        BY <2>1, <3>5
      <4> QED
        BY <2>1, <3>1, <3>2, <3>3, <4>1, AppendSelected
    <3>7. Passed(result', table', i + 1)
      BY <2>6, <3>2, <3>3, <3>4 DEF Passed
    <3>8. RSTable'
      <4>1. /\ local'.i = i + 1 /\ i + 1 \in Nat /\ local'.toPlace = p - 1 /\ p - 1 \in Nat
            /\ local'.first = TRUE
        BY <2>1, <3>3
      <4>2. Passed(result', table', local'.i)
        BY <3>7, <4>1
      <4>3. (p - 1) + Len(result') = copies
        BY <2>1, <3>4, <3>5
      <4> QED
        BY <2>1, <3>3, <4>1, <4>2, <4>3 DEF RSTable, InOrder, TooFew
    <3> QED
      BY <2>1, <2>2, <3>3, <3>6, <3>8, StaysConfigured
  <2> QED
    BY <2>3, <2>4, <2>5, <2>6
<1>4. ASSUME NEW k \in RSKinds, RSReturn(k)
      PROVE  Configured' /\ Selected' /\ RSTable'
  <2>1. /\ status = "placing" /\ status' = "ready" /\ local.toPlace = 0
        /\ UNCHANGED <<kind, disks, copies, table, result>>
    BY <1>4 DEF RSReturn, Placing, Finish
  <2>2. Len(result) = copies
    BY <2>1 DEF RSTable, Selected
  <2>3. Selected'
    BY <2>1, <2>2, SameSelected
  <2>4. RSTable'
    BY <2>1 DEF RSTable, InOrder, TooFew
  <2> QED
    BY <2>1, <2>3, <2>4, StaysConfigured
<1> QED
  BY <1>1, <1>2, <1>3, <1>4 DEF RSNext

--------------------------------------------------------------------------------
(* The walk of RedundantShare and FastRedundantShare reaches its last copy *)
(* on the last disk at the latest.                                         *)

\* As many copies left as disks are placed for certain, one on each.
Sure(t, c) ==
  \E n \in Nat \ {0} :
    /\ DOMAIN t.disks = 0 .. n - 1 /\ c <= n
    /\ \A i \in 0 .. n - 1, first \in BOOLEAN :
         n - i <= c => Threshold(t, i, n - i, first) = MaxHash

LEMMA TablesAreSure ==
  ASSUME NEW a, NEW n, NEW c, Alignment(a, n, c)
  PROVE  Sure(Tables(a, c), c)
<1> DEFINE t == Tables(a, c)
           pos == a.cPosition
           d(i) == pos[i] - pos[i + 1]
           left == Left(a.check, n, c)
<1>1. /\ n \in Nat \ {0} /\ c \in 1 .. n /\ DOMAIN a.disks = 0 .. n - 1
      /\ Tapered(pos, n, c) /\ a.check = Checks(pos, n)
      /\ a.kError = KError(a.check, n, c) /\ Dropping(left, n, c)
  BY DEF Alignment
<1>2. /\ t.disks = a.disks /\ t.kError = a.kError
      /\ t.hashValues = [i \in DOMAIN a.disks |-> [k \in 1 .. c |-> HashValue(a.check[i], k)]]
  BY DEF Tables
<1> HIDE DEF t
<1>3. ASSUME NEW i \in 0 .. n - 1, NEW first \in BOOLEAN, n - i <= c
      PROVE  Threshold(t, i, n - i, first) = MaxHash
  <2> DEFINE m == n - i
  <2>1. m \in 1 .. c /\ m \in Nat \ {0}
    BY <1>1, <1>3
  <2>2. pos[i] \in Nat \ {0} /\ d(i) \in Nat \ {0} /\ pos[i] <= m * d(i)
    <3>1. i \in 0 .. n /\ i + 1 \in 0 .. n
      BY <1>1
    <3>2. pos[i] \in Nat /\ pos[i + 1] \in Nat /\ pos[i] > pos[i + 1] /\ pos[i] <= m * d(i)
      BY <1>1, <3>1 DEF Tapered
    <3> QED
      BY <3>2
  <2>3. a.check[i] = Ratio(d(i), pos[i])
    BY <1>1 DEF Checks
  <2>4. left[i] \in Nat /\ left[i] <= m
    <3>1. i \in 0 .. n
      BY <1>1
    <3> QED
      BY <1>1, <3>1 DEF Dropping
  <2> HIDE DEF m, d, pos, left
  <2>5. ~Less(Scaled(m, a.check[i]), One)
    <3>1. ~(m * d(i) < pos[i])
      BY <2>1, <2>2
    <3>2. m \in Int /\ d(i) \in Int
      BY <2>1, <2>2
    <3>3. Less(Scaled(m, Ratio(d(i), pos[i])), One) <=> m * d(i) < pos[i]
      BY <2>2, <3>2, ScaledIs
    <3> QED
      BY <2>3, <3>1, <3>3
  <2>6. HashValue(a.check[i], m) = MaxHash
    BY <2>5 DEF HashValue
  <2>7. t.hashValues[i][m] = MaxHash
    BY <1>1, <1>2, <2>1, <2>6
  <2>8. t.kError[i] # m
    <3>1. t.kError[i] = left[i] - 1 \/ t.kError[i] = -1
      BY <1>1, <1>2 DEF KError, left
    <3> QED
      BY <2>1, <2>4, <3>1
  <2> QED
    BY <2>7, <2>8 DEF Threshold, m
<1>4. DOMAIN t.disks = 0 .. n - 1 /\ c <= n
  BY <1>1, <1>2
<1> QED
  BY <1>1, <1>3, <1>4 DEF Sure, t

(* RedundantShare with a table never fails: there are disks for the copies *)
(* left, and on the last ones each takes its copy.                         *)
RSWalk ==
  kind \in RSKinds /\ table # None =>
    /\ status # "crashed" /\ Sure(table, copies)
    /\ status = "placing" =>
         local.toPlace = 0 \/ local.i + local.toPlace - 1 \in DOMAIN table.disks

LEMMA RSWalks ==
  ASSUME Configured, Selected, RSTable, RSWalk, kind \in RSKinds, RSNext
  PROVE  RSWalk'
<1>1. ASSUME NEW k \in RSKinds, NEW l \in Lists[kind], NEW c \in 1 .. MaxCopies,
             RSSetDisks(k, l, c), table' # None
      PROVE  status' = "ready" /\ Sure(table', copies')
  <2>1. /\ Configure(k, l, c, None) /\ copies' = c /\ (status = "new" \/ c = copies)
    BY <1>1 DEF RSSetDisks, Configure
  <2> DEFINE revert == k # "RedundantShare"
             t == Aligning(l, c, revert)
  <2>2. \/ status' = "ready" /\ table' = table
        \/ status' = "crashed" /\ table' = None
        \/ status' = "ready" /\ table' = Tables(t, c) /\ ~(Len(l) < c)
    BY <1>1, Zenon DEF RSSetDisks
  <2>3. CASE status' = "ready" /\ table' = table
    <3>1. status # "new" /\ Sure(table, copies)
      BY <1>1, <2>3 DEF RSTable, RSWalk
    <3> QED
      BY <2>1, <2>3, <3>1
  <2>4. CASE status' = "ready" /\ table' = Tables(t, c) /\ ~(Len(l) < c)
    <3>1. revert \in BOOLEAN /\ kind \in Kinds
      BY DEF Configured
    <3>2. Len(l) \in Nat
      BY <3>1, ListIs
    <3>3. c \in 1 .. Len(l)
      BY <2>4, <3>2, BoundsAssumption
    <3> HIDE DEF revert
    <3>4. Alignment(t, Len(l), c)
      BY <3>1, <3>3, AlignmentIs
    <3> HIDE DEF t
    <3>5. Sure(Tables(t, c), c)
      BY <3>4, TablesAreSure
    <3> QED
      BY <2>1, <2>4, <3>5
  <2> QED
    BY <1>1, <2>2, <2>3, <2>4
<1>2. ASSUME NEW k \in RSKinds, RSCall(k), table # None
      PROVE  /\ UNCHANGED <<kind, table, copies>> /\ status' = "placing"
             /\ local'.toPlace = 0 \/ local'.i + local'.toPlace - 1 \in DOMAIN table.disks
  <2>1. /\ UNCHANGED <<kind, table, copies>> /\ status' = "placing"
        /\ local' = [i |-> 0, toPlace |-> copies, first |-> TRUE]
    BY <1>2 DEF RSCall, Call
  <2>2. PICK n \in Nat : DOMAIN table.disks = 0 .. n - 1 /\ copies <= n
    BY <1>2 DEF RSWalk, Sure
  <2>3. copies \in Nat
    BY <1>2, BoundsAssumption DEF RSCall, Call, Configured
  <2>4. copies = 0 \/ 0 + copies - 1 \in 0 .. n - 1
    BY <2>2, <2>3
  <2> QED
    BY <2>1, <2>2, <2>4
<1>3. ASSUME NEW k \in RSKinds, RSStep(k), table # None
      PROVE  /\ UNCHANGED <<kind, table, copies>> /\ status' = "placing"
             /\ local'.toPlace = 0 \/ local'.i + local'.toPlace - 1 \in DOMAIN table.disks
  <2> DEFINE i == local.i
             p == local.toPlace
             f == local.first
             T == Threshold(table, i, p, f)
  <2>1. /\ status = "placing" /\ p > 0 /\ i \in Nat /\ p \in Nat
        /\ local = [i |-> i, toPlace |-> p, first |-> f]
        /\ p + Len(result) = copies /\ i + p - 1 \in DOMAIN table.disks
    BY <1>3 DEF RSStep, Placing, RSTable, RSWalk
  <2>2. PICK n \in Nat \ {0} :
          /\ DOMAIN table.disks = 0 .. n - 1 /\ copies <= n
          /\ \A j \in 0 .. n - 1, first \in BOOLEAN :
               n - j <= copies => Threshold(table, j, n - j, first) = MaxHash
    BY <1>3 DEF RSWalk, Sure
  <2>3. i \in 0 .. n - 1 /\ i + p <= n
    BY <2>1, <2>2
  <2>4. p <= copies
    <3>1. Len(result) \in Nat
      BY DEF Selected
    <3> HIDE DEF i, p
    <3> QED
      BY <2>1, <3>1
  <2>5. f \in BOOLEAN
    BY <2>1 DEF RSTable
  <2>6. \/ \E dice \in 0 .. MaxHash :
             dice > T /\ Advance([local EXCEPT !.i = @ + 1, !.first = FALSE])
        \/ Append1(table.disks[i].id, [i |-> i + 1, toPlace |-> p - 1, first |-> TRUE])
    BY <1>3, <2>2, <2>3 DEF RSStep
  <2> HIDE DEF i, p, f, T
  <2>7. CASE \E dice \in 0 .. MaxHash :
               dice > T /\ Advance([local EXCEPT !.i = @ + 1, !.first = FALSE])
    <3>1. T # MaxHash /\ Advance([local EXCEPT !.i = @ + 1, !.first = FALSE])
      BY <2>7, BoundsAssumption
    <3>2. p # n - i
      <4>1. n - i <= copies => Threshold(table, i, n - i, f) = MaxHash
        BY <2>2, <2>3, <2>5
      <4>2. p = n - i => n - i <= copies
        BY <2>4
      <4> QED
        BY <3>1, <4>1, <4>2 DEF T
    <3>3. i + p < n
      BY <2>1, <2>3, <3>2
    <3>4. /\ UNCHANGED <<kind, table, copies>> /\ status' = "placing"
          /\ local' = [i |-> i + 1, toPlace |-> p, first |-> FALSE]
      BY <2>1, <3>1 DEF Advance
    <3>5. (i + 1) + p - 1 \in 0 .. n - 1
      BY <2>1, <2>2, <3>3
    <3> QED
      BY <2>2, <3>4, <3>5
  <2>8. CASE Append1(table.disks[i].id, [i |-> i + 1, toPlace |-> p - 1, first |-> TRUE])
    <3>1. /\ UNCHANGED <<kind, table, copies>> /\ status' = "placing"
          /\ local' = [i |-> i + 1, toPlace |-> p - 1, first |-> TRUE]
      BY <2>1, <2>8 DEF Append1
    <3>2. (i + 1) + (p - 1) - 1 \in 0 .. n - 1
      BY <2>1, <2>2, <2>3
    <3> QED
      BY <2>2, <3>1, <3>2
  <2> QED
    BY <2>6, <2>7, <2>8
<1>4. ASSUME NEW k \in RSKinds, RSReturn(k)
      PROVE  UNCHANGED <<kind, table, copies>> /\ status' = "ready"
  BY <1>4 DEF RSReturn, Finish
<1>5. CASE \E k \in RSKinds, l \in Lists[kind], c \in 1 .. MaxCopies : RSSetDisks(k, l, c)
  BY <1>1, <1>5 DEF RSWalk
<1>6. CASE \E k \in RSKinds : RSCall(k) \/ RSStep(k)
  <2>1. ASSUME table' # None
        PROVE  /\ UNCHANGED <<kind, table, copies>> /\ status' = "placing"
               /\ local'.toPlace = 0 \/ local'.i + local'.toPlace - 1 \in DOMAIN table.disks
    <3>1. UNCHANGED table
      BY <1>6 DEF RSCall, Call, RSStep, Crash, Advance, Append1
    <3> QED
      BY <1>2, <1>3, <1>6, <2>1, <3>1
  <2> QED
    BY <2>1 DEF RSWalk
<1>7. CASE \E k \in RSKinds : RSReturn(k)
  BY <1>4, <1>7 DEF RSWalk
<1> QED
  BY <1>5, <1>6, <1>7 DEF RSNext

--------------------------------------------------------------------------------
(* FastRedundantShare: a share leads on to a share for one copy less.      *)

\* From the disk of a copy there is a share for the next copy, of the disks behind it.
SharesLeadOn(t, c) ==
  /\ 0 \in DOMAIN t.shares[c]
  /\ \A l \in 1 .. c : \A i \in DOMAIN t.shares[l] :
       /\ i \in Nat
       /\ \A j \in DOMAIN t.shares[l][i] :
            /\ j \in DOMAIN t.disks /\ j >= i
            /\ l > 1 => j + 1 \in DOMAIN t.shares[l - 1]

LEMMA SharesAre ==
  ASSUME NEW a, NEW n, NEW c, Alignment(a, n, c),
         NEW t, t.disks = a.disks, t.shares = Shares(a, c)
  PROVE  SharesLeadOn(t, c)
<1> DEFINE last == LastDisk(a.check, n, c)
           first(l) == IF l = c THEN {0} ELSE c - l .. last[l - 1]
<1>1. /\ n \in Nat \ {0} /\ c \in 1 .. n /\ DOMAIN t.disks = 0 .. n - 1
      /\ Dropping(Left(a.check, n, c), n, c)
  BY DEF Alignment
<1>2. Cardinality(DOMAIN a.disks) = n
  <2>1. DOMAIN a.disks = 0 .. n - 1 /\ n \in Nat
    BY DEF Alignment
  <2>2. Cardinality(0 .. n - 1) = n
    BY <2>1, FS_Interval
  <2> QED
    BY <2>1, <2>2
<1>3. /\ last \in [0 .. c - 1 -> 0 .. n - 1]
      /\ \A m \in 1 .. c - 1 : last[m] < last[m - 1]
  BY <1>1, LastDiskIs
<1>4. t.shares = [l \in 1 .. c |-> [i \in first(l) |-> Areas(a.check, i, last[l - 1], l)]]
  BY <1>2 DEF Shares
<1> HIDE DEF last
<1>5. ASSUME NEW l \in 1 .. c
      PROVE  /\ l - 1 \in 0 .. c - 1 /\ last[l - 1] \in 0 .. n - 1
             /\ DOMAIN t.shares[l] = first(l)
             /\ \A i \in first(l) :
                  /\ i \in Nat /\ i >= c - l
                  /\ DOMAIN t.shares[l][i] = i .. last[l - 1]
  <2>1. l - 1 \in 0 .. c - 1
    BY <1>1
  <2>2. last[l - 1] \in 0 .. n - 1
    BY <1>3, <2>1
  <2> DEFINE e == last[l - 1]
             F == first(l)
  <2>3. t.shares[l] = [i \in F |-> Areas(a.check, i, e, l)]
    BY <1>4
  <2>4. \A i \in F : i \in Nat /\ i >= c - l
    BY <1>1, <2>2
  <2> HIDE DEF F
  <2>5. \A i \in F : DOMAIN t.shares[l][i] = i .. e
    BY <2>3 DEF Areas
  <2> QED
    BY <2>1, <2>2, <2>3, <2>4, <2>5 DEF F
<1>6. 0 \in DOMAIN t.shares[c]
  BY <1>1, <1>5
<1>7. ASSUME NEW l \in 1 .. c, NEW i \in DOMAIN t.shares[l], NEW j \in DOMAIN t.shares[l][i]
      PROVE  /\ i \in Nat /\ j \in DOMAIN t.disks /\ j >= i
             /\ l > 1 => j + 1 \in DOMAIN t.shares[l - 1]
  <2>1. i \in first(l)
    BY <1>5
  <2>2. i \in Nat /\ i >= c - l /\ j \in i .. last[l - 1] /\ last[l - 1] \in 0 .. n - 1
    BY <1>5, <2>1
  <2>3. j \in DOMAIN t.disks /\ j >= i
    BY <1>1, <2>2
  <2>4. ASSUME l > 1 PROVE j + 1 \in DOMAIN t.shares[l - 1]
    <3>1. l - 1 \in 1 .. c - 1 /\ l - 1 \in 1 .. c /\ l - 1 # c
      BY <1>1, <2>4
    <3>2. last[l - 1] < last[(l - 1) - 1] /\ last[(l - 1) - 1] \in 0 .. n - 1
      BY <1>3, <1>5, <3>1
    <3>3. DOMAIN t.shares[l - 1] = c - (l - 1) .. last[(l - 1) - 1]
      BY <1>5, <3>1
    <3> DEFINE x == last[l - 1]
               y == last[(l - 1) - 1]
    <3>4. x \in Int /\ y \in Int /\ x < y /\ j \in Int /\ j <= x /\ j >= c - l /\ c \in Int
      BY <1>1, <2>2, <3>2
    <3> HIDE DEF x, y
    <3>5. j + 1 \in c - (l - 1) .. y
      BY <3>4
    <3> QED
      BY <3>3, <3>5 DEF y
  <2> QED
    BY <2>2, <2>3, <2>4
<1>8. \A l \in 1 .. c : \A i \in DOMAIN t.shares[l] : i \in Nat
  BY <1>5
<1> QED
  BY <1>6, <1>7, <1>8 DEF SharesLeadOn

FRSTable ==
  kind = "FastRedundantShare" =>
    /\ status \in {"new", "ready", "placing", "crashed"}
    /\ status = "crashed" => table = None
    /\ status \in {"ready", "placing"} =>
         /\ InOrder(table) /\ SharesLeadOn(table, copies)
         /\ \A i \in DOMAIN table.disks : table.disks[i].id \in Ids(disks)
    /\ status = "placing" =>
         /\ local = [l |-> local.l, i |-> local.i]
         /\ local.l \in Nat /\ local.i \in Nat
         /\ local.l + Len(result) = copies
         /\ Passed(result, table, local.i)
         /\ local.l > 0 => local.i \in DOMAIN table.shares[local.l]

\* The steps of FastRedundantShare
LEMMA FRSSelects ==
  ASSUME Configured, Selected, FRSTable, kind = "FastRedundantShare", FRSNext
  PROVE  Configured' /\ Selected' /\ FRSTable'
<1>1. ASSUME NEW l \in Lists[kind], NEW c \in 1 .. MaxCopies, FRSSetDisks(l, c)
      PROVE  Configured' /\ Selected' /\ FRSTable'
  <2> DEFINE t == Aligning(l, c, FALSE)
             new == [disks |-> t.disks, cPosition |-> t.cPosition,
                     kError |-> t.kError, shares |-> Shares(t, c)]
  <2>1. /\ Configure("FastRedundantShare", l, c, None) /\ kind' = kind
        /\ disks' = l /\ copies' = c
    BY <1>1 DEF FRSSetDisks, Configure
  <2>2. Selected'
    BY <2>1, ConfigureSelects, BoundsAssumption
  <2>3. \/ status' = "crashed" /\ table' = None
        \/ status' = "ready" /\ table' = new /\ ~(Len(l) < c)
    BY <1>1, Zenon DEF FRSSetDisks
  <2>4. ASSUME status' = "ready", table' = new, ~(Len(l) < c)
        PROVE  /\ InOrder(table') /\ SharesLeadOn(table', c)
               /\ \A i \in DOMAIN table'.disks : table'.disks[i].id \in Ids(l)
    <3>1. FALSE \in BOOLEAN /\ kind \in Kinds
      BY DEF Configured
    <3>2. Len(l) \in Nat
      BY <3>1, ListIs
    <3>3. c \in 1 .. Len(l)
      BY <2>4, <3>2, BoundsAssumption
    <3>4. Alignment(t, Len(l), c)
      BY <3>1, <3>3, AlignmentIs
    <3>5. table'.disks = Aligning(l, c, FALSE).disks /\ table'.shares = Shares(t, c)
      BY <2>4
    <3>6. InOrder(table') /\ \A i \in DOMAIN table'.disks : table'.disks[i].id \in Ids(l)
      BY <3>1, <3>5, AligningIs
    <3>7. SharesLeadOn(table', c)
      <4>1. table'.disks = t.disks
        BY <3>5
      <4> HIDE DEF t
      <4> QED
        BY <3>4, <3>5, <4>1, SharesAre
    <3> QED
      BY <3>6, <3>7
  <2> HIDE DEF new, t
  <2>5. FRSTable'
    <3>1. /\ status' \in {"ready", "crashed"}
          /\ status' = "crashed" => table' = None
          /\ status' \in {"ready", "placing"} =>
               /\ InOrder(table') /\ SharesLeadOn(table', copies')
               /\ \A i \in DOMAIN table'.disks : table'.disks[i].id \in Ids(disks')
      BY <2>1, <2>3, <2>4
    <3> QED
      BY <3>1, Zenon DEF FRSTable, InOrder, SharesLeadOn, Ids
  <2> QED
    BY <2>1, <2>2, <2>5, StaysConfigured
<1>2. ASSUME FRSCall
      PROVE  Configured' /\ Selected' /\ FRSTable'
  <2>1. /\ status = "ready" /\ status' = "placing" /\ result = <<>>
        /\ local' = [l |-> copies, i |-> 0]
        /\ UNCHANGED <<kind, disks, copies, table, result>>
    BY <1>2 DEF FRSCall, Call
  <2>2. Len(result) <= copies /\ copies \in Nat /\ Len(result) = 0 /\ ToSet(result) = {}
    BY <2>1, NothingSelected DEF Configured
  <2>3. Selected'
    BY <2>1, <2>2, SameSelected
  <2>4. Passed(result', table', 0)
    BY <2>1, <2>2 DEF Passed
  <2>5. 0 \in DOMAIN table.shares[copies]
    BY <2>1 DEF FRSTable, SharesLeadOn
  <2>6. FRSTable'
    BY <2>1, <2>2, <2>4, <2>5 DEF FRSTable, InOrder, SharesLeadOn
  <2> QED
    BY <2>1, <2>3, <2>6, StaysConfigured
<1>3. ASSUME FRSStep
      PROVE  Configured' /\ Selected' /\ FRSTable'
  <2> DEFINE b == local.i
             l == local.l
  <2>1. /\ status = "placing" /\ l > 0 /\ b \in Nat /\ l \in Nat
        /\ l + Len(result) = copies /\ Passed(result, table, b)
        /\ b \in DOMAIN table.shares[l]
    BY <1>3 DEF FRSStep, Placing, FRSTable
  <2>2. PICK i \in DOMAIN table.shares[l][b] :
          Append1(table.disks[i].id, [l |-> l - 1, i |-> i + 1])
    BY <1>3, <2>1 DEF FRSStep
  <2> HIDE DEF b, l
  <2>3. /\ InOrder(table) /\ SharesLeadOn(table, copies) /\ result \in Seq(Int)
        /\ \A j \in DOMAIN table.disks : table.disks[j].id \in Ids(disks)
    BY <2>1 DEF FRSTable, Selected
  <2>4. Len(result) \in Nat /\ copies \in Nat /\ l \in 1 .. copies
    BY <2>1, <2>3
  <2>5. /\ i \in DOMAIN table.disks /\ i \in Nat /\ i >= b
        /\ l > 1 => i + 1 \in DOMAIN table.shares[l - 1]
    <3>1. /\ i \in DOMAIN table.disks /\ i >= b
          /\ l > 1 => i + 1 \in DOMAIN table.shares[l - 1]
      BY <2>1, <2>2, <2>3, <2>4 DEF SharesLeadOn
    <3> QED
      BY <2>3, <3>1 DEF InOrder
  <2> DEFINE id == table.disks[i].id
             next == [l |-> l - 1, i |-> i + 1]
  <2>6. /\ id \in Int /\ id \notin ToSet(result)
        /\ \A s : ToSet(s) = ToSet(result) \cup {id} =>
             \A x \in ToSet(s) : \E j \in DOMAIN table.disks :
               j < i + 1 /\ table.disks[j].id = x
    BY <2>1, <2>3, <2>5, AheadIsNew
  <2>7. /\ result' = Append(result, id) /\ local' = next /\ id \in Ids(disks)
        /\ UNCHANGED <<kind, disks, copies, table, status>> /\ Append1(id, next)
    BY <2>2, <2>3, <2>5 DEF Append1
  <2> HIDE DEF id
  <2>8. Len(result') = Len(result) + 1 /\ ToSet(result') = ToSet(result) \cup {id}
    BY <2>3, <2>6, <2>7, AppendNew
  <2>9. Selected'
    <3>1. Len(result) < copies
      BY <2>1, <2>4
    <3> QED
      BY <2>1, <2>3, <2>6, <2>7, <3>1, AppendSelected
  <2>10. Passed(result', table', i + 1)
    BY <2>6, <2>7, <2>8 DEF Passed
  <2>11. FRSTable'
    <3>1. /\ local'.i = i + 1 /\ i + 1 \in Nat /\ local'.l = l - 1 /\ l - 1 \in Nat
          /\ local' = [l |-> l - 1, i |-> i + 1]
      BY <2>4, <2>5, <2>7
    <3>2. Passed(result', table', local'.i)
      BY <2>10, <3>1
    <3>3. (l - 1) + Len(result') = copies
      BY <2>1, <2>4, <2>8
    <3>4. l - 1 > 0 => i + 1 \in DOMAIN table.shares[l - 1]
      BY <2>4, <2>5
    <3> QED
      BY <2>1, <2>3, <2>7, <3>1, <3>2, <3>3, <3>4 DEF FRSTable, InOrder, SharesLeadOn
  <2> QED
    BY <2>1, <2>7, <2>9, <2>11, StaysConfigured
<1>4. ASSUME FRSReturn
      PROVE  Configured' /\ Selected' /\ FRSTable'
  <2>1. /\ status = "placing" /\ status' = "ready" /\ local.l = 0
        /\ UNCHANGED <<kind, disks, copies, table, result>>
    BY <1>4 DEF FRSReturn, Placing, Finish
  <2>2. Len(result) = copies
    BY <2>1 DEF FRSTable, Selected
  <2>3. Selected'
    BY <2>1, <2>2, SameSelected
  <2>4. FRSTable'
    BY <2>1 DEF FRSTable, InOrder, SharesLeadOn
  <2> QED
    BY <2>1, <2>3, <2>4, StaysConfigured
<1> QED
  BY <1>1, <1>2, <1>3, <1>4 DEF FRSNext

--------------------------------------------------------------------------------
(* RUSH: primes.                                                           *)

\* A prime above n and n combine to 1.
LEMMA PrimeCombines ==
  ASSUME NEW m \in DOMAIN Primes, NEW n \in Nat \ {0}, n < Primes[m]
  PROVE  Primes[m] \in Nat /\ \E s, t \in Int : 1 = s * Primes[m] + t * n
<1> DEFINE p == Primes[m]
           q == <<p, n>>
           g == gcd[q]
<1>1. p \in Nat /\ p > 1 /\ \A d \in 2 .. p - 1 : p % d # 0
  BY PrimesAssumption
<1> HIDE DEF p
<1>2. q \in Nat \X Nat /\ q[1] = p /\ q[2] = n
  BY <1>1
<1>3. Divides(g, q) /\ Combines(g, q)
  BY <1>2, GcdIs, GcdCombines
<1> HIDE DEF g
<1>4. g \in Nat \ {0}
  BY <1>2, <1>3 DEF Divides
<1>5. PICK x \in Nat, y \in Nat : p = g * x /\ n = g * y
  BY <1>2, <1>3 DEF Divides
<1>6. g <= n
  <2>1. y >= 1
    BY <1>4, <1>5
  <2>2. g * 1 <= g * y
    BY <1>4, <2>1, ProductOrder
  <2> QED
    BY <1>4, <1>5, <2>2
<1>7. g < 2
  <2> SUFFICES ASSUME g >= 2 PROVE FALSE
    BY <1>4
  <2>1. g \in 2 .. p - 1
    BY <1>1, <1>4, <1>6 DEF p
  <2> DEFINE r == p % g
             d == p \div g
             w == g * d
  <2>2. d = x
    BY <1>4, <1>5, QuotientOfMultiple
  <2>3. p \in Int
    BY <1>1
  <2>4. p = w + r /\ r \in 0 .. g - 1
    BY <1>4, <2>3, Division
  <2>5. w = p
    BY <1>5, <2>2
  <2> HIDE DEF w, r
  <2>6. r = 0
    BY <1>1, <1>4, <2>4, <2>5
  <2> QED
    BY <1>1, <2>1, <2>6 DEF r
<1>8. g = 1
  BY <1>4, <1>7
<1> QED
  BY <1>1, <1>2, <1>3, <1>8 DEF Combines, p

\* Fewer than n steps of a prime above n lead to different rests.
LEMMA PrimeSteps ==
  ASSUME NEW m \in DOMAIN Primes, NEW n \in Nat \ {0}, n < Primes[m],
         NEW a \in Int, NEW b \in Int, NEW c \in Int, b - c < n, c - b < n,
         (a + b * Primes[m]) % n = (a + c * Primes[m]) % n
  PROVE  b = c
<1> DEFINE p == Primes[m]
           e == b - c
<1>1. PICK s \in Int, t \in Int : 1 = s * p + t * n
  BY PrimeCombines
<1>2. p \in Nat
  BY PrimeCombines
<1> HIDE DEF p
<1> DEFINE x == a + b * p
           y == a + c * p
<1>3. x \in Int /\ y \in Int /\ x % n = y % n
  BY <1>2 DEF p
<1>4. x - y = e * p
  BY <1>2
<1> HIDE DEF x, y
<1>5. PICK d \in Int : x - y = n * d
  BY <1>3, SameRest
<1>6. e \in Int /\ e < n /\ e > -n
  OBVIOUS
<1> HIDE DEF e
<1>7. e = n * (s * d + e * t)
  <2>1. e = e * (s * p + t * n)
    BY <1>1, <1>6
  <2>2. e * (s * p + t * n) = s * (e * p) + e * (t * n)
    BY <1>2, <1>6
  <2>3. e * p = n * d
    BY <1>4, <1>5
  <2>4. e = s * (n * d) + e * (t * n)
    BY <2>1, <2>2, <2>3
  <2>5. s * (n * d) = n * (s * d) /\ e * (t * n) = n * (e * t)
    BY <1>6
  <2> DEFINE u == s * d
             v == e * t
  <2>6. u \in Int /\ v \in Int /\ e = n * u + n * v
    BY <1>6, <2>4, <2>5
  <2> HIDE DEF u, v
  <2>7. e = n * (u + v)
    BY <2>6
  <2> QED
    BY <2>7 DEF u, v
<1> DEFINE k == s * d + e * t
<1>8. k \in Int
  BY <1>6
<1> HIDE DEF k
<1>9. e = n * k
  BY <1>7 DEF k
<1>10. k = 0
  BY <1>6, <1>8, <1>9, SmallMultiple
<1>11. e = 0
  BY <1>9, <1>10
<1> QED
  BY <1>11 DEF e

--------------------------------------------------------------------------------
(* RUSH: clusters.                                                         *)

\* Ordered lists each number of a set once.
LEMMA OrderedIs ==
  ASSUME NEW S \in SUBSET Nat, IsFiniteSet(S)
  PROVE  /\ Cardinality(S) \in Nat /\ Ordered(S) \in [1 .. Cardinality(S) -> S]
         /\ \A i, j \in 1 .. Cardinality(S) : Ordered(S)[i] = Ordered(S)[j] => i = j
<1> DEFINE N == Cardinality(S)
           before(n) == Cardinality({m \in S : m < n})
<1>1. N \in Nat
  BY FS_CardinalityType
<1>2. ASSUME NEW i \in 1 .. N PROVE Ordered(S)[i] \in S /\ before(Ordered(S)[i]) = i - 1
  <2>1. \E n \in S : Rank(S, n) = i
    BY Ranks
  <2>2. \A n \in S : before(n) \in Nat
    <3> TAKE n \in S
    <3>1. {m \in S : m < n} \in SUBSET S
      OBVIOUS
    <3> QED
      BY <3>1, FS_Subset, FS_CardinalityType
  <2>3. \A n \in S : Rank(S, n) = before(n) + 1
    BY DEF Rank
  <2> HIDE DEF before
  <2>4. \E n \in S : before(n) = i - 1
    BY <2>1, <2>2, <2>3
  <2>5. Ordered(S)[i] = CHOOSE n \in S : before(n) = i - 1
    BY DEF Ordered, before
  <2> QED
    BY <2>4, <2>5
<1> HIDE DEF before
<1>3. Ordered(S) \in [1 .. N -> S]
  BY <1>2 DEF Ordered
<1>4. \A i, j \in 1 .. N : Ordered(S)[i] = Ordered(S)[j] => i = j
  <2> TAKE i, j \in 1 .. N
  <2>1. before(Ordered(S)[i]) = i - 1 /\ before(Ordered(S)[j]) = j - 1
    BY <1>2
  <2> QED
    BY <2>1
<1> QED
  BY <1>1, <1>3, <1>4

\* The clusters part the list: a disk is in one, and they are in all as long as it.
ClustersOf(cl, l) ==
  /\ Len(cl) \in Nat /\ DOMAIN cl = 1 .. Len(cl)
  /\ \A j \in DOMAIN cl :
       /\ Len(cl[j]) \in Nat \ {0} /\ DOMAIN cl[j] = 1 .. Len(cl[j])
       /\ \E n \in DOMAIN l : Len(cl[j]) = Cardinality(SameCapacity(l, l[n].capacity))
       /\ \A i \in DOMAIN cl[j] : cl[j][i].id \in Ids(l)
  /\ \A j, m \in DOMAIN cl : \A i \in DOMAIN cl[j], n \in DOMAIN cl[m] :
       cl[j][i].id = cl[m][n].id => j = m /\ i = n
  /\ ServersBefore(cl, 1) = 0
  /\ \A j \in DOMAIN cl :
       /\ ServersBefore(cl, j) \in Nat
       /\ ServersBefore(cl, j) + Len(cl[j]) <= Len(l)
       /\ ServersBefore(cl, j + 1) = ServersBefore(cl, j) + Len(cl[j])

LEMMA ClustersAre ==
  ASSUME NEW k \in Kinds, NEW l \in Lists[k]
  PROVE  /\ ClustersOf(Clusters(l), l) /\ Len(Clusters(l)) > 0
         /\ DOMAIN Capacities(l) = DOMAIN Clusters(l)
         /\ \A j \in DOMAIN Clusters(l) : Capacities(l)[j] \in Nat \ {0}
<1> DEFINE firsts == {n \in DOMAIN l : \A m \in 1 .. n - 1 : l[m].capacity # l[n].capacity}
           K == Cardinality(firsts)
           place == Ordered(firsts)
           cap(j) == l[place[j]].capacity
           members(j) == SameCapacity(l, cap(j))
           cl == Clusters(l)
<1>1. /\ Len(l) \in Nat \ {0} /\ DOMAIN l = 1 .. Len(l)
      /\ \A n \in DOMAIN l : l[n].id \in Int /\ l[n].capacity \in Nat \ {0}
      /\ \A m, n \in DOMAIN l : l[m].id = l[n].id => m = n
  BY ListIs
<1>2. ASSUME NEW S \in SUBSET (DOMAIN l)
      PROVE  /\ S \in SUBSET Nat /\ IsFiniteSet(S) /\ Cardinality(S) \in Nat
             /\ Ordered(S) \in [1 .. Cardinality(S) -> S]
             /\ \A i, j \in 1 .. Cardinality(S) : Ordered(S)[i] = Ordered(S)[j] => i = j
  <2>1. IsFiniteSet(1 .. Len(l)) /\ S \in SUBSET (1 .. Len(l))
    BY <1>1, FS_Interval
  <2>2. S \in SUBSET Nat /\ IsFiniteSet(S)
    BY <2>1, FS_Subset
  <2> QED
    BY <2>2, OrderedIs
<1>3. firsts \in SUBSET (DOMAIN l)
  OBVIOUS
<1>4. 1 \in firsts
  BY <1>1
<1> HIDE DEF firsts
<1>5. /\ K \in Nat /\ place \in [1 .. K -> firsts]
      /\ \A i, j \in 1 .. K : place[i] = place[j] => i = j
  BY <1>2, <1>3
<1>6. K > 0
  <2>1. IsFiniteSet(firsts)
    BY <1>2, <1>3
  <2>2. K # 0
    BY <1>4, <2>1, FS_EmptySet
  <2> QED
    BY <1>5, <2>2
<1>7. \A i, j \in 1 .. K : cap(i) = cap(j) => i = j
  <2> SUFFICES ASSUME NEW i \in 1 .. K, NEW j \in 1 .. K, cap(i) = cap(j) PROVE i = j
    OBVIOUS
  <2>1. place[i] \in firsts /\ place[j] \in firsts
    BY <1>5
  <2>2. /\ place[i] \in 1 .. Len(l) /\ place[j] \in 1 .. Len(l)
        /\ \A m \in 1 .. place[i] - 1 : l[m].capacity # l[place[i]].capacity
        /\ \A m \in 1 .. place[j] - 1 : l[m].capacity # l[place[j]].capacity
    BY <1>1, <2>1 DEF firsts
  <2>3. place[i] = place[j]
    BY <1>1, <2>2
  <2> QED
    BY <1>5, <2>3
<1>8. cl = [j \in 1 .. K |-> [i \in DOMAIN Ordered(members(j)) |-> l[Ordered(members(j))[i]]]]
  <2>1. DOMAIN place = 1 .. K
    BY <1>5
  <2>2. Capacities(l) = [j \in 1 .. K |-> cap(j)]
    BY <2>1 DEF Capacities, firsts
  <2> QED
    BY <2>2 DEF Clusters
<1> HIDE DEF place, cl
<1>9. ASSUME NEW j \in 1 .. K
      PROVE  /\ place[j] \in DOMAIN l /\ place[j] \in members(j)
             /\ members(j) \in SUBSET (DOMAIN l)
  <2>1. place[j] \in DOMAIN l
    BY <1>3, <1>5
  <2> QED
    BY <2>1 DEF SameCapacity
<1> DEFINE size(j) == Cardinality(members(j))
<1>10. ASSUME NEW j \in 1 .. K
       PROVE  /\ Len(cl[j]) = size(j) /\ size(j) \in Nat \ {0} /\ DOMAIN cl[j] = 1 .. size(j)
              /\ \A i \in 1 .. size(j) :
                   /\ Ordered(members(j))[i] \in members(j)
                   /\ cl[j][i] = l[Ordered(members(j))[i]]
              /\ \A i, n \in 1 .. size(j) :
                   Ordered(members(j))[i] = Ordered(members(j))[n] => i = n
  <2> DEFINE M == members(j)
             N == Cardinality(M)
             order == Ordered(M)
  <2>1. M \in SUBSET (DOMAIN l) /\ place[j] \in M
    BY <1>9
  <2> HIDE DEF members
  <2>2. /\ N \in Nat /\ IsFiniteSet(M) /\ order \in [1 .. N -> M]
        /\ \A i, n \in 1 .. N : order[i] = order[n] => i = n
    BY <1>2, <2>1
  <2>3. N # 0
    BY <2>1, <2>2, FS_EmptySet
  <2>4. cl[j] = [i \in DOMAIN order |-> l[order[i]]]
    BY <1>8
  <2> HIDE DEF order, M
  <2>5. cl[j] = [i \in 1 .. N |-> l[order[i]]]
    BY <2>2, <2>4
  <2> DEFINE E == {l[n] : n \in DOMAIN l}
  <2>6. cl[j] \in Seq(E) /\ Len(cl[j]) = N
    <3>1. \A i \in 1 .. N : l[order[i]] \in E
      BY <2>1, <2>2
    <3> HIDE DEF E
    <3> QED
      BY <2>2, <2>5, <3>1
  <2> QED
    BY <2>2, <2>3, <2>5, <2>6 DEF order, M
<1> HIDE DEF members, size
<1>11. Len(cl) = K /\ DOMAIN cl = 1 .. K
  <2> DEFINE E == {cl[j] : j \in 1 .. K}
  <2>1. DOMAIN cl = 1 .. K /\ cl = [j \in 1 .. K |-> cl[j]]
    BY <1>8
  <2>2. \A j \in 1 .. K : cl[j] \in E
    OBVIOUS
  <2> HIDE DEF E
  <2>3. cl \in [1 .. K -> E]
    BY <2>1, <2>2
  <2>4. cl \in Seq(E)
    BY <1>5, <2>3
  <2> QED
    BY <1>5, <2>1, <2>4
<1>12. ASSUME NEW j \in 1 .. K, NEW i \in 1 .. size(j)
       PROVE  /\ Ordered(members(j))[i] \in DOMAIN l
              /\ l[Ordered(members(j))[i]].capacity = cap(j)
              /\ cl[j][i] = l[Ordered(members(j))[i]]
  <2>1. Ordered(members(j))[i] \in members(j) /\ cl[j][i] = l[Ordered(members(j))[i]]
    BY <1>10
  <2> QED
    BY <1>9, <2>1 DEF members, SameCapacity
<1>13. ASSUME NEW j \in 1 .. K
       PROVE  /\ Len(cl[j]) \in Nat \ {0} /\ DOMAIN cl[j] = 1 .. Len(cl[j])
              /\ \E n \in DOMAIN l : Len(cl[j]) = Cardinality(SameCapacity(l, l[n].capacity))
              /\ \A i \in DOMAIN cl[j] : cl[j][i].id \in Ids(l)
  <2>1. Len(cl[j]) = size(j) /\ size(j) \in Nat \ {0} /\ DOMAIN cl[j] = 1 .. size(j)
    BY <1>10
  <2>2. place[j] \in DOMAIN l /\ size(j) = Cardinality(SameCapacity(l, l[place[j]].capacity))
    BY <1>9 DEF size, members
  <2>3. \A i \in 1 .. size(j) : cl[j][i].id \in Ids(l)
    BY <1>12 DEF Ids
  <2> QED
    BY <2>1, <2>2, <2>3
<1>14. ASSUME NEW j \in 1 .. K, NEW m \in 1 .. K, NEW i \in 1 .. size(j), NEW n \in 1 .. size(m),
              cl[j][i].id = cl[m][n].id
       PROVE  j = m /\ i = n
  <2> DEFINE x == Ordered(members(j))[i]
             y == Ordered(members(m))[n]
  <2>1. x \in DOMAIN l /\ l[x].capacity = cap(j) /\ cl[j][i] = l[x]
    BY <1>12
  <2>2. y \in DOMAIN l /\ l[y].capacity = cap(m) /\ cl[m][n] = l[y]
    BY <1>12
  <2> HIDE DEF x, y
  <2>3. x = y
    BY <1>1, <1>14, <2>1, <2>2
  <2>4. j = m
    BY <1>7, <2>1, <2>2, <2>3
  <2>5. i = n
    BY <1>10, <2>3, <2>4 DEF x, y
  <2> QED
    BY <2>4, <2>5
<1> DEFINE f == [j \in DOMAIN cl |-> Len(cl[j])]
<1>15. \A j \in 1 .. K + 1 : ServersBefore(cl, j) = SumFunctionOnSet(f, 1 .. j - 1)
  BY DEF ServersBefore
<1> HIDE DEF K
<1>16. \A j \in 1 .. K : f[j] = size(j) /\ f[j] \in Nat
  BY <1>10, <1>11
<1> HIDE DEF f
<1>22. ASSUME NEW D \in SUBSET (1 .. K)
       PROVE  SumFunctionOnSet(f, D) \in Nat /\ SumFunctionOnSet(f, D) <= Len(l)
  <2> DEFINE B == DOMAIN l
             class == [n \in B |-> IF \E m \in 1 .. K : n \in members(m)
                                     THEN CHOOSE m \in 1 .. K : n \in members(m) ELSE 0]
  <2>1. IsFiniteSet(D)
    <3> DEFINE I == 1 .. K
    <3>1. IsFiniteSet(I)
      BY <1>5, FS_Interval
    <3>2. D \in SUBSET I
      OBVIOUS
    <3> HIDE DEF I
    <3> QED
      BY <3>1, <3>2, FS_Subset
  <2>2. IsFiniteSet(B) /\ Cardinality(B) = Len(l)
    BY <1>1, FS_Interval
  <2>3. \A m \in 1 .. K : members(m) = {n \in B : class[n] = m}
    <3>1. ASSUME NEW m \in 1 .. K, NEW n \in members(m) PROVE n \in B /\ class[n] = m
      <4>1. n \in B /\ l[n].capacity = cap(m)
        BY <3>1 DEF members, SameCapacity
      <4>2. \A e \in 1 .. K : n \in members(e) => e = m
        BY <1>7, <4>1 DEF members, SameCapacity
      <4> HIDE DEF cap
      <4> QED
        BY <3>1, <4>1, <4>2
    <3>2. ASSUME NEW m \in 1 .. K, NEW n \in B, class[n] = m PROVE n \in members(m)
      <4>1. \E e \in 1 .. K : n \in members(e)
        <5> SUFFICES ASSUME ~(\E e \in 1 .. K : n \in members(e)) PROVE FALSE
          OBVIOUS
        <5>1. class[n] = 0
          OBVIOUS
        <5> QED
          BY <3>2, <5>1
      <4>2. class[n] = CHOOSE e \in 1 .. K : n \in members(e)
        BY <4>1
      <4> HIDE DEF class
      <4> QED
        BY <3>2, <4>1, <4>2
    <3> HIDE DEF class, B
    <3> QED
      BY <3>1, <3>2
  <2> HIDE DEF class, B
  <2>4. \A d \in D : f[d] = Cardinality({x \in B : class[x] = d})
    <3> TAKE d \in D
    <3>1. d \in 1 .. K
      OBVIOUS
    <3> QED
      BY <1>16, <2>3, <3>1 DEF size
  <2> DEFINE T == {x \in B : class[x] \in D}
  <2>5. SumFunctionOnSet(f, D) = Cardinality(T)
    <3> HIDE DEF T
    <3>1. T = {x \in B : class[x] \in D}
      BY DEF T
    <3>2. IsFiniteSet(B)
      BY <2>2
    <3>3. \A d \in D : f[d] = Cardinality(InClasses(B, class, {d}))
      <4> TAKE d \in D
      <4>1. InClasses(B, class, {d}) = {x \in B : class[x] = d}
        BY DEF InClasses
      <4> QED
        BY <2>4, <4>1
    <3>4. SumFunctionOnSet(f, D) = Cardinality(InClasses(B, class, D))
      BY <2>1, <3>2, <3>3, CountedClasses
    <3> QED
      BY <3>1, <3>4 DEF InClasses
  <2>6. T \in SUBSET B
    OBVIOUS
  <2>7. Cardinality(T) <= Cardinality(B) /\ Cardinality(T) \in Nat
    <3> HIDE DEF T
    <3> QED
      BY <2>2, <2>6, FS_Subset, FS_CardinalityType
  <2> HIDE DEF T
  <2> QED
    BY <2>2, <2>5, <2>7
<1>17. ASSUME NEW j \in 1 .. K + 1
       PROVE  ServersBefore(cl, j) \in Nat /\ ServersBefore(cl, j) <= Len(l)
  <2>1. 1 .. j - 1 \in SUBSET (1 .. K)
    BY <1>5
  <2> DEFINE D == 1 .. j - 1
  <2>2. ServersBefore(cl, j) = SumFunctionOnSet(f, D) /\ D \in SUBSET (1 .. K)
    BY <1>15, <2>1
  <2> HIDE DEF D
  <2> QED
    BY <1>22, <2>2
<1>18. ASSUME NEW j \in 1 .. K
       PROVE  ServersBefore(cl, j + 1) = ServersBefore(cl, j) + Len(cl[j])
  <2> DEFINE D == 1 .. j - 1
  <2>1. IsFiniteSet(D) /\ D \subseteq 1 .. K /\ 1 .. (j + 1) - 1 = D \cup {j} /\ j \notin D
    <3>1. j - 1 \in Int /\ D \subseteq 1 .. K
      BY <1>5
    <3>2. IsFiniteSet(D)
      BY <3>1, FS_Interval
    <3>3. 1 .. (j + 1) - 1 = D \cup {j} /\ j \notin D
      BY <1>5
    <3> QED
      BY <3>1, <3>2, <3>3
  <2>2. \A m \in 1 .. K : f[m] \in Int
    BY <1>16
  <2>3. j \in 1 .. K + 1 /\ j + 1 \in 1 .. K + 1
    BY <1>5
  <2>4. /\ ServersBefore(cl, j) = SumFunctionOnSet(f, D)
        /\ ServersBefore(cl, j + 1) = SumFunctionOnSet(f, D \cup {j})
    BY <1>15, <2>1, <2>3
  <2> HIDE DEF D
  <2>5. SumFunctionOnSet(f, D \cup {j}) = f[j] + SumFunctionOnSet(f, D)
    BY <2>1, <2>2, SumAdd
  <2>6. f[j] = Len(cl[j]) /\ f[j] \in Nat
    BY <1>10, <1>16
  <2>7. ServersBefore(cl, j) \in Nat
    BY <1>17, <2>3
  <2> QED
    BY <2>4, <2>5, <2>6, <2>7
<1>19. ASSUME NEW j \in 1 .. K
       PROVE  /\ ServersBefore(cl, j) \in Nat
              /\ ServersBefore(cl, j) + Len(cl[j]) <= Len(l)
              /\ ServersBefore(cl, j + 1) = ServersBefore(cl, j) + Len(cl[j])
  <2>1. j \in 1 .. K + 1 /\ j + 1 \in 1 .. K + 1
    BY <1>5
  <2>2. ServersBefore(cl, j) \in Nat /\ ServersBefore(cl, j + 1) <= Len(l)
    BY <1>17, <2>1
  <2>3. ServersBefore(cl, j + 1) = ServersBefore(cl, j) + Len(cl[j])
    BY <1>18
  <2> QED
    BY <2>2, <2>3
<1>20. \A j \in 1 .. K : DOMAIN cl[j] = 1 .. size(j)
  BY <1>10
<1>21. \A j, m \in 1 .. K : \A i \in DOMAIN cl[j] : \A n \in DOMAIN cl[m] :
         cl[j][i].id = cl[m][n].id => j = m /\ i = n
  <2> SUFFICES ASSUME NEW j \in 1 .. K, NEW m \in 1 .. K, NEW i \in DOMAIN cl[j],
                      NEW n \in DOMAIN cl[m], cl[j][i].id = cl[m][n].id
               PROVE  j = m /\ i = n
    OBVIOUS
  <2>1. i \in 1 .. size(j) /\ n \in 1 .. size(m)
    BY <1>20
  <2> QED
    BY <1>14, <2>1
<1>24. ServersBefore(cl, 1) = 0
  <2> DEFINE D == 1 .. 1 - 1
  <2>1. D = {} /\ IsFiniteSet(D)
    BY FS_EmptySet
  <2>2. ServersBefore(cl, 1) = SumFunctionOnSet(f, D)
    BY <1>5, <1>15
  <2>3. \A d \in D : f[d] \in Int
    BY <2>1
  <2> HIDE DEF D
  <2> QED
    BY <2>1, <2>2, <2>3, SumIs
<1>25. DOMAIN Capacities(l) = 1 .. K /\ \A j \in 1 .. K : Capacities(l)[j] \in Nat \ {0}
  <2>1. DOMAIN place = 1 .. K
    BY <1>5
  <2>2. Capacities(l) = [j \in 1 .. K |-> cap(j)]
    BY <2>1 DEF Capacities, firsts, place, K
  <2>3. \A j \in 1 .. K : cap(j) \in Nat \ {0}
    BY <1>1, <1>9
  <2> HIDE DEF cap
  <2> QED
    BY <2>2, <2>3
<1> HIDE DEF cap
<1>26. /\ Len(cl) \in Nat /\ Len(cl) > 0 /\ DOMAIN cl = 1 .. Len(cl)
       /\ \A j \in DOMAIN cl : j \in 1 .. K
  BY <1>5, <1>6, <1>11
<1>27. ClustersOf(cl, l)
  BY <1>13, <1>19, <1>21, <1>24, <1>26 DEF ClustersOf
<1> QED
  BY <1>11, <1>25, <1>26, <1>27 DEF cl

\* A cluster of a RUSH list is smaller than each prime the program hashes to.
LEMMA ClusterIsSmall ==
  ASSUME NEW k \in Kinds, k \in RUSHKinds, NEW l \in Lists[k], NEW j \in DOMAIN Clusters(l),
         NEW m \in DOMAIN Primes, m >= (Len(Primes) \div 2) + 1
  PROVE  Len(Clusters(l)[j]) < Primes[m]
<1> DEFINE h == (Len(Primes) \div 2) + 1
<1>1. PICK n \in DOMAIN l : Len(Clusters(l)[j]) = Cardinality(SameCapacity(l, l[n].capacity))
  BY ClustersAre DEF ClustersOf
<1>2. Len(Clusters(l)[j]) \in Nat /\ Len(Clusters(l)[j]) < Primes[h]
  <2>1. k \in Kinds \cap RUSHKinds
    OBVIOUS
  <2>2. Cardinality(SameCapacity(l, l[n].capacity)) < Primes[h]
    BY <2>1, ClustersAssumption
  <2> QED
    BY <1>1, <2>2, ClustersAre DEF ClustersOf
<1>3. h \in DOMAIN Primes
  <2>1. Primes \in Seq(Nat) /\ Len(Primes) > 0 /\ Len(Primes) % 2 = 0
    BY PrimesAssumption
  <2> DEFINE len == Len(Primes)
  <2>2. len \in Nat /\ len > 0 /\ len % 2 = 0 /\ DOMAIN Primes = 1 .. len
    BY <2>1
  <2> HIDE DEF len
  <2>3. (len \div 2) + 1 \in 1 .. len
    BY <2>2
  <2> QED
    BY <2>2, <2>3 DEF len
<1>4. Primes[h] \in Nat /\ Primes[m] \in Nat
  BY <1>3, PrimesAssumption
<1>5. Primes[h] <= Primes[m]
  <2>1. h \in Nat /\ m \in Nat
    BY <1>3, PrimesAssumption
  <2> HIDE DEF h
  <2>2. CASE h = m
    BY <1>4, <2>2
  <2>3. CASE h < m
    BY <1>3, <1>4, <2>3, PrimesAssumption
  <2>4. m >= h
    BY DEF h
  <2> QED
    BY <2>1, <2>2, <2>3, <2>4
<1> HIDE DEF h
<1> QED
  BY <1>2, <1>4, <1>5

\* What the weights of the clusters add to their m': a fraction, never negative
MPrimes(l) == [j \in DOMAIN Clusters(l) |-> MPrime(Clusters(l), Weights(l), j)]

LEMMA MPrimesAre ==
  ASSUME NEW k \in Kinds, NEW l \in Lists[k], NEW j \in DOMAIN Clusters(l)
  PROVE  MPrimes(l)[j][1] \in Nat /\ MPrimes(l)[j][2] \in Nat \ {0}
<1> DEFINE u == Capacities(l)[j] * Len(l)
           v == TotalCapacity(l)
           w == Ratio(u, v)
           n == Len(Clusters(l)[j])
<1>1. u \in Nat /\ v \in Nat \ {0}
  <2>1. Capacities(l)[j] \in Nat /\ Len(l) \in Nat
    BY ClustersAre, ListIs
  <2>2. v \in Nat \ {0}
    BY TotalIs
  <2> QED
    BY <2>1, <2>2
<1>2. Weights(l)[j] = w
  BY ClustersAre DEF Weights
<1> HIDE DEF u, v
<1>3. w[1] \in Nat /\ w[2] \in Nat \ {0}
  BY <1>1, RatioIsNatural
<1>4. n \in Nat
  BY ClustersAre DEF ClustersOf
<1>5. MPrimes(l)[j] = Ratio(n * w[1], w[2])
  BY <1>2 DEF MPrimes, MPrime, Scaled
<1> HIDE DEF w, n
<1>6. n * w[1] \in Nat
  BY <1>3, <1>4
<1> QED
  BY <1>3, <1>5, <1>6, RatioIsNatural

\* Nothing is before the first cluster: its modulus is the integer part of its m'.
LEMMA FirstModulus ==
  ASSUME NEW mPrime
  PROVE  Modulus(mPrime, 1) = Truncated(1, Plus(<<0, 1>>, mPrime[1]))
<1> DEFINE Sums(s) ==
             [i \in 0 .. 0 |->
                IF i = 0 THEN 0 ELSE Truncated(1, Plus(<<s[i - 1], 1>>, mPrime[i]))]
           sum == CHOOSE s : s = Sums(s)
<1>1. \A s : Sums(s) = [i \in 0 .. 0 |-> 0]
  OBVIOUS
<1> DEFINE z == [i \in 0 .. 0 |-> 0]
<1>2. sum = Sums(sum)
  <2>1. \A s : Sums(s) = z
    BY <1>1
  <2> HIDE DEF Sums, z
  <2>2. z = Sums(z)
    BY <2>1
  <2> QED
    BY <2>2
<1>3. sum[0] = 0
  <2>1. sum = z
    BY <1>1, <1>2
  <2> HIDE DEF sum
  <2> QED
    BY <2>1
<1>4. NPrime(mPrime, 1) = sum[0]
  BY DEF NPrime
<1> HIDE DEF sum
<1> QED
  BY <1>3, <1>4 DEF Modulus

\* So a copy that reaches the first cluster gets a disk of it.
LEMMA FirstClusterTakes ==
  ASSUME NEW mPrime, mPrime[1][1] \in Nat, mPrime[1][2] \in Nat \ {0}, NEW x \in Nat,
         Modulus(mPrime, 1) # 0
  PROVE  Less(<<x % Modulus(mPrime, 1), 1>>, mPrime[1])
<1> DEFINE a == mPrime[1][1]
           b == mPrime[1][2]
           q == Ratio(a, b)
           u == q[1]
           v == q[2]
           M == u \div v
<1>1. Modulus(mPrime, 1) = M
  <2>1. Plus(<<0, 1>>, mPrime[1]) = Ratio(0 * b + a * 1, 1 * b)
    BY DEF Plus
  <2>2. 0 * b + a * 1 = a /\ 1 * b = b
    OBVIOUS
  <2>3. Plus(<<0, 1>>, mPrime[1]) = q
    BY <2>1, <2>2
  <2> HIDE DEF q
  <2>4. Modulus(mPrime, 1) = (1 * u) \div v
    BY <2>3, FirstModulus DEF Truncated
  <2>5. u \in Nat
    BY RatioIsNatural DEF q
  <2> QED
    BY <2>4, <2>5
<1>2. u \in Nat /\ v \in Nat \ {0} /\ u * b = a * v
  BY RatioIsNatural
<1> HIDE DEF q, u, v
<1>3. M \in Nat /\ v * M <= u
  <2>1. u \in Int
    BY <1>2
  <2> QED
    BY <1>2, <2>1, Division, QuotientIs
<1>4. M \in Nat \ {0}
  BY <1>1, <1>3
<1> HIDE DEF M, a, b
<1> DEFINE r == x % M
<1>5. r \in Nat /\ r < M
  <2>1. x \in Int
    OBVIOUS
  <2>2. r \in 0 .. M - 1
    BY <1>4, <2>1, Division
  <2> QED
    BY <1>4, <2>2
<1> HIDE DEF r
<1>6. r * v < u
  <2>1. v * r < v * M
    BY <1>2, <1>4, <1>5, ProductOrder
  <2> DEFINE y == v * r
             z == v * M
  <2>2. y \in Int /\ z \in Int /\ y < z /\ z <= u
    BY <1>2, <1>3, <1>5, <2>1
  <2> HIDE DEF y, z
  <2>3. y < u
    BY <1>2, <2>2
  <2> QED
    BY <1>2, <1>5, <2>3 DEF y
<1>7. r * b < a
  <2>0. a \in Nat /\ b \in Nat \ {0}
    BY DEF a, b
  <2>1. b * (r * v) < b * u
    <3> DEFINE y == r * v
    <3>1. y \in Int /\ y < u
      BY <1>2, <1>5, <1>6
    <3> HIDE DEF y
    <3>2. b * y < b * u
      BY <1>2, <2>0, <3>1, ProductOrder
    <3> QED
      BY <3>2 DEF y
  <2>2. b * (r * v) = v * (r * b) /\ b * u = v * a
    BY <1>2, <1>5, <2>0
  <2> DEFINE y == r * b
  <2>3. y \in Int /\ v * y < v * a
    BY <1>5, <2>0, <2>1, <2>2
  <2> HIDE DEF y
  <2>4. y < a
    BY <1>2, <2>0, <2>3, ProductOrder
  <2> QED
    BY <2>4 DEF y
<1>8. Less(<<r, 1>>, mPrime[1])
  <2>1. r * b < a * 1
    <3>1. a \in Nat
      BY DEF a
    <3> QED
      BY <1>7, <3>1
  <2> QED
    BY <2>1 DEF Less, a, b
<1> QED
  BY <1>1, <1>8 DEF r

--------------------------------------------------------------------------------
(* RUSH: the table, and what a call has selected so far.                   *)

RUSHBuilt(l, choices) ==
  [clusters |-> Clusters(l), mPrime |-> MPrimes(l),
   modulus |-> [j \in DOMAIN Clusters(l) |-> Modulus(MPrimes(l), j)],
   alldisks |-> l, choices |-> choices]

\* The table of a list, whichever instance set the choices; no cluster is too small.
RUSHReady(t, l, c) ==
  /\ \E n \in Nat : t = RUSHBuilt(l, Identity(n))
  /\ \A j \in DOMAIN Clusters(l) : c <= Len(Clusters(l)[j])

\* What RUSHp takes from cluster j for copy r, if it takes one
Taken(lo, cl, j, r) ==
  cl[j][((lo.x + lo.dice[j].z + lo.dice[j].up + r * lo.dice[j].p) % Len(cl[j])) + 1].id

RUSHpLocal(lo, cl, s) ==
  /\ lo = [x |-> lo.x, r |-> Len(s), j |-> lo.j, dice |-> lo.dice]
  /\ lo.x \in Nat /\ lo.j \in DOMAIN cl
  /\ \A j \in DOMAIN lo.dice : j \in DOMAIN cl /\ lo.dice[j] \in Dice
  /\ \A m \in DOMAIN s : \E j \in DOMAIN lo.dice : s[m] = Taken(lo, cl, j, m - 1)

RUSHrLocal(lo, cl, l, s, c) ==
  /\ lo = [j |-> lo.j, remaining |-> lo.remaining]
  /\ lo.remaining \in Nat /\ lo.remaining + Len(s) = c
  /\ lo.j \in Nat /\ lo.j <= Len(cl) /\ (lo.remaining > 0 => lo.j > 0)
  /\ \A m \in DOMAIN s : \E q \in DOMAIN l :
       q > ServersBefore(cl, lo.j + 1) /\ s[m] = l[q].id

\* level is the tree of construct_tree, from its leaves up.
LevelsOf(level, t) ==
  /\ DOMAIN level = Nat /\ level[0] = Leaves(t)
  /\ \A n \in Nat : level[n + 1] = Parents(level[n])

RUSHtLocal(lo, t) ==
  /\ lo = [node |-> lo.node]
  /\ \E level : /\ LevelsOf(level, t)
                /\ \E n \in Nat : \E i \in DOMAIN level[n] : lo.node = level[n][i]

RUSHTable ==
  kind \in RUSHKinds =>
    /\ status \in {"new", "ready", "placing", "crashed", "exited"}
    /\ IF status \in {"new", "exited"} THEN table = None ELSE RUSHReady(table, disks, copies)
    /\ status = "placing" =>
         \/ kind = "RUSHp" /\ RUSHpLocal(local, Clusters(disks), result)
         \/ kind = "RUSHr" /\ RUSHrLocal(local, Clusters(disks), disks, result, copies)
         \/ kind = "RUSHt" /\ RUSHtLocal(local, table) /\ result = <<>>

\* The fields of a table
LEMMA ReadyIs ==
  ASSUME NEW t, NEW l, NEW c, RUSHReady(t, l, c)
  PROVE  /\ t.clusters = Clusters(l) /\ t.mPrime = MPrimes(l) /\ t.alldisks = l
         /\ t.modulus = [j \in DOMAIN Clusters(l) |-> Modulus(MPrimes(l), j)]
         /\ \E n \in Nat : t.choices = Identity(n)
         /\ \A n \in Nat : RUSHReady([t EXCEPT !.choices = Identity(n)], l, c)
         /\ \A j \in DOMAIN Clusters(l) : c <= Len(Clusters(l)[j])
<1>1. PICK n \in Nat : t = RUSHBuilt(l, Identity(n))
  BY DEF RUSHReady
<1>2. \A m \in Nat : [t EXCEPT !.choices = Identity(m)] = RUSHBuilt(l, Identity(m))
  BY <1>1 DEF RUSHBuilt
<1> QED
  BY <1>1, <1>2 DEF RUSHReady, RUSHBuilt

\* setDisks
LEMMA RUSHConfigures ==
  ASSUME Configured, Selected, RUSHTable, NEW k \in RUSHKinds, NEW l \in Lists[kind],
         NEW c \in 1 .. MaxCopies, RUSHSetDisks(k, l, c)
  PROVE  Configured' /\ Selected' /\ RUSHTable'
<1>1. /\ Configure(k, l, c, None) /\ kind = k /\ kind' = k
      /\ disks' = l /\ copies' = c /\ local' = None /\ result' = <<>>
  BY DEF RUSHSetDisks, Configure
<1>2. Selected'
  BY <1>1, ConfigureSelects, BoundsAssumption
<1>3. CASE TooSmall(l, c)
  <2>1. status' = "exited" /\ table' = None
    BY <1>3 DEF RUSHSetDisks
  <2> QED
    BY <1>1, <1>2, <2>1, StaysConfigured, Zenon DEF RUSHTable
<1>4. CASE ~TooSmall(l, c)
  <2>1. status' = "ready" /\ table' = RUSHBuilt(l, Identity(Len(l)))
    BY <1>4 DEF RUSHSetDisks, RUSHBuilt, MPrimes
  <2>2. \A j \in DOMAIN Clusters(l) : c <= Len(Clusters(l)[j])
    <3>1. kind \in Kinds /\ c \in Nat
      BY BoundsAssumption DEF Configured
    <3>2. \A j \in DOMAIN Clusters(l) : Len(Clusters(l)[j]) \in Nat
      BY <3>1, ClustersAre DEF ClustersOf
    <3> QED
      BY <1>4, <3>1, <3>2 DEF TooSmall
  <2>3. Len(l) \in Nat
    BY ListIs DEF Configured
  <2>4. RUSHReady(table', disks', copies')
    BY <1>1, <2>1, <2>2, <2>3 DEF RUSHReady
  <2>5. RUSHTable'
    BY <2>1, <2>4, Zenon DEF RUSHTable, RUSHReady, RUSHBuilt
  <2> QED
    BY <1>1, <1>2, <2>5, StaysConfigured
<1> QED
  BY <1>3, <1>4

\* RUSHp takes a disk for copy r that no copy before it has.
LEMMA TakenIsNew ==
  ASSUME NEW k \in Kinds, k \in RUSHKinds, NEW l \in Lists[k], NEW c \in Nat,
         \A j \in DOMAIN Clusters(l) : c <= Len(Clusters(l)[j]),
         NEW s \in Seq(Int), Len(s) < c,
         NEW lo, RUSHpLocal(lo, Clusters(l), s), lo.j \in DOMAIN lo.dice
  PROVE  /\ Taken(lo, Clusters(l), lo.j, Len(s)) \in Ids(l)
         /\ Taken(lo, Clusters(l), lo.j, Len(s)) \notin ToSet(s)
<1> DEFINE cl == Clusters(l)
           a(j) == lo.x + lo.dice[j].z + lo.dice[j].up
           p(j) == lo.dice[j].p
           at(j, r) == (a(j) + r * p(j)) % Len(cl[j])
<1>1. /\ ClustersOf(cl, l) /\ \A j \in DOMAIN cl : c <= Len(cl[j])
      /\ lo.x \in Nat /\ \A j \in DOMAIN lo.dice : j \in DOMAIN cl /\ lo.dice[j] \in Dice
      /\ \A m \in DOMAIN s : \E j \in DOMAIN lo.dice : s[m] = cl[j][at(j, m - 1) + 1].id
  BY ClustersAre DEF RUSHpLocal, Taken
<1>2. ASSUME NEW j \in DOMAIN lo.dice
      PROVE  /\ a(j) \in Nat /\ p(j) \in HashedPrimes
             /\ \E m \in DOMAIN Primes : p(j) = Primes[m] /\ Len(cl[j]) < p(j)
             /\ p(j) \in Nat
  <2>1. /\ lo.dice[j].z \in 0 .. MaxHash /\ lo.dice[j].up \in {0, 1}
        /\ p(j) \in HashedPrimes
    BY <1>1 DEF Dice
  <2>2. a(j) \in Nat
    BY <1>1, <2>1, BoundsAssumption
  <2>3. PICK m \in (Len(Primes) \div 2) + 1 .. Len(Primes) : p(j) = Primes[m]
    BY <2>1 DEF HashedPrimes
  <2> DEFINE n == Len(Primes)
  <2>4. n \in Nat /\ DOMAIN Primes = 1 .. n /\ Primes \in Seq(Nat)
    BY PrimesAssumption
  <2>5. m \in DOMAIN Primes /\ m >= (n \div 2) + 1
    <3>1. m \in (n \div 2) + 1 .. n
      BY <2>3
    <3> HIDE DEF n
    <3> QED
      BY <2>4, <3>1
  <2>6. Len(cl[j]) < p(j)
    BY <1>1, <2>3, <2>5, ClusterIsSmall
  <2>7. p(j) \in Nat
    BY <2>3, <2>4, <2>5
  <2> QED
    BY <2>1, <2>2, <2>3, <2>5, <2>6, <2>7
<1> HIDE DEF a, p
<1>3. ASSUME NEW j \in DOMAIN lo.dice, NEW r \in Nat
      PROVE  at(j, r) + 1 \in DOMAIN cl[j] /\ at(j, r) \in Nat
  <2> DEFINE v == a(j) + r * p(j)
             n == Len(cl[j])
  <2>1. v \in Int
    BY <1>2
  <2>2. n \in Nat \ {0} /\ DOMAIN cl[j] = 1 .. n
    BY <1>1 DEF ClustersOf
  <2> HIDE DEF v, n
  <2>3. v % n \in 0 .. n - 1
    BY <2>1, <2>2, Division
  <2>4. v % n \in Nat /\ (v % n) + 1 \in DOMAIN cl[j]
    BY <2>2, <2>3
  <2> QED
    BY <2>4 DEF v, n
<1> DEFINE g == lo.j
           r == Len(s)
<1>4. g \in DOMAIN lo.dice /\ r \in Nat /\ DOMAIN s = 1 .. r
  OBVIOUS
<1> HIDE DEF g, cl
<1>5. cl[g][at(g, r) + 1].id \in Ids(l)
  BY <1>1, <1>3, <1>4 DEF ClustersOf
<1>6. ASSUME NEW m \in DOMAIN s, s[m] = cl[g][at(g, r) + 1].id PROVE FALSE
  <2>1. PICK j \in DOMAIN lo.dice : s[m] = cl[j][at(j, m - 1) + 1].id
    BY <1>1
  <2>2. m - 1 \in Nat /\ m - 1 < r
    BY <1>4
  <2> DEFINE e == m - 1
  <2> HIDE DEF e, r
  <2>3. e \in Nat /\ r \in Nat
    BY <1>4, <2>2 DEF e
  <2>4. /\ at(j, e) + 1 \in DOMAIN cl[j] /\ at(j, e) \in Nat
        /\ at(g, r) + 1 \in DOMAIN cl[g] /\ at(g, r) \in Nat
    BY <1>3, <1>4, <2>3
  <2>5. cl[j][at(j, e) + 1].id = cl[g][at(g, r) + 1].id
    BY <1>6, <2>1 DEF e
  <2> HIDE DEF at
  <2>6. j = g /\ at(j, e) + 1 = at(g, r) + 1
    <3> DEFINE x == at(j, e) + 1
               y == at(g, r) + 1
    <3>1. x \in DOMAIN cl[j] /\ y \in DOMAIN cl[g] /\ cl[j][x].id = cl[g][y].id
      BY <2>4, <2>5
    <3>2. j \in DOMAIN cl /\ g \in DOMAIN cl
      BY <1>1, <1>4
    <3> HIDE DEF x, y
    <3>3. \A d, f \in DOMAIN cl : \A i \in DOMAIN cl[d], n \in DOMAIN cl[f] :
            cl[d][i].id = cl[f][n].id => d = f /\ i = n
      BY <1>1 DEF ClustersOf
    <3>4. j = g /\ x = y
      BY <3>1, <3>2, <3>3
    <3> QED
      BY <3>4 DEF x, y
  <2>7. at(g, e) = at(g, r)
    BY <2>4, <2>6
  <2>8. PICK n \in DOMAIN Primes : p(g) = Primes[n] /\ Len(cl[g]) < p(g)
    BY <1>2, <1>4
  <2> DEFINE w == Len(cl[g])
  <2>9. w \in Nat \ {0} /\ c <= w /\ w < Primes[n]
    BY <1>1, <1>4, <2>8 DEF ClustersOf
  <2>10. e < r /\ r < c
    BY <2>2 DEF e, r
  <2> HIDE DEF w
  <2>11. e - r < w /\ r - e < w /\ e \in Int /\ r \in Int
    BY <2>3, <2>9, <2>10
  <2>12. (a(g) + e * Primes[n]) % w = (a(g) + r * Primes[n]) % w
    BY <2>7, <2>8 DEF at, w
  <2>13. a(g) \in Int
    BY <1>2, <1>4
  <2>14. e = r
    BY <2>9, <2>11, <2>12, <2>13, PrimeSteps
  <2> QED
    BY <2>3, <2>10, <2>14
<1>7. Taken(lo, cl, g, r) = cl[g][at(g, r) + 1].id
  BY DEF Taken, a, p
<1> QED
  BY <1>5, <1>6, <1>7 DEF g, cl, ToSet

\* The steps of RUSHp
LEMMA RUSHpSelects ==
  ASSUME Configured, Selected, RUSHTable, kind = "RUSHp",
         RUSHpCall \/ RUSHpRoll \/ RUSHpStep \/ (Placing("RUSHp") /\ local.r = copies /\ Finish)
  PROVE  Configured' /\ Selected' /\ RUSHTable'
<1> DEFINE cl == Clusters(disks)
<1>1. kind \in Kinds /\ kind \in RUSHKinds /\ kind # "RUSHr" /\ kind # "RUSHt"
  BY DEF Configured, RUSHKinds
<1>2. ASSUME status \in {"ready", "placing"}
      PROVE  /\ RUSHReady(table, disks, copies) /\ disks \in Lists[kind] /\ copies \in Nat
             /\ \A j \in DOMAIN cl : copies <= Len(cl[j])
             /\ ClustersOf(cl, disks)
             /\ Len(cl) > 0 /\ DOMAIN cl = 1 .. Len(cl) /\ Len(cl) \in Nat
             /\ table.clusters = cl /\ table.mPrime = MPrimes(disks)
             /\ table.modulus = [j \in DOMAIN cl |-> Modulus(MPrimes(disks), j)]
  <2>1. RUSHReady(table, disks, copies)
    BY <1>1, <1>2 DEF RUSHTable
  <2>2. disks \in Lists[kind] /\ copies \in Nat
    BY <1>2, BoundsAssumption DEF Configured
  <2>3. ClustersOf(cl, disks) /\ Len(cl) > 0
    BY <1>1, <2>2, ClustersAre
  <2> QED
    BY <2>1, <2>2, <2>3, ReadyIs DEF ClustersOf
<1>3. ASSUME status = "placing"
      PROVE  /\ RUSHpLocal(local, cl, result) /\ local.r = Len(result) /\ result \in Seq(Int)
             /\ Len(result) \in Nat
  BY <1>1, <1>3 DEF RUSHTable, RUSHpLocal, Selected
<1>4. ASSUME status' \in {"ready", "placing", "crashed"},
             UNCHANGED <<kind, disks, copies, table>>, RUSHReady(table, disks, copies),
             status' = "placing" => RUSHpLocal(local', cl, result')
      PROVE  RUSHTable'
  <2>1. RUSHReady(table', disks', copies')
    BY <1>4
  <2>2. status' = "placing" => RUSHpLocal(local', Clusters(disks'), result')
    BY <1>4
  <2>3. kind' = "RUSHp"
    BY <1>4
  <2> QED
    BY <1>4, <2>1, <2>2, <2>3, Zenon
       DEF RUSHTable, RUSHReady, RUSHBuilt, RUSHpLocal, Taken
<1> HIDE DEF cl
<1>5. ASSUME RUSHpCall PROVE Configured' /\ Selected' /\ RUSHTable'
  <2>1. /\ status = "ready" /\ status' = "placing" /\ result = <<>>
        /\ UNCHANGED <<kind, disks, copies, table, result>>
    BY <1>5 DEF RUSHpCall, Call
  <2>2. PICK x \in 0 .. MaxHash :
          local' = [x |-> x, r |-> 0, j |-> Len(table.clusters), dice |-> [j \in {} |-> 0]]
    BY <1>5 DEF RUSHpCall, Call
  <2>3. Selected'
    <3>1. Len(result) <= copies
      BY <1>2, <2>1
    <3> QED
      BY <2>1, <3>1, SameSelected
  <2>4. RUSHpLocal(local', cl, result')
    <3>1. Len(result') = 0 /\ DOMAIN result' = {}
      BY <2>1
    <3>2. x \in Nat
      BY BoundsAssumption
    <3>3. Len(table.clusters) \in DOMAIN cl
      BY <1>2, <2>1
    <3> QED
      BY <2>2, <3>1, <3>2, <3>3 DEF RUSHpLocal
  <2> QED
    BY <1>2, <1>4, <2>1, <2>3, <2>4, StaysConfigured
<1>6. ASSUME RUSHpRoll PROVE Configured' /\ Selected' /\ RUSHTable'
  <2>1. /\ status = "placing" /\ local.j \notin DOMAIN local.dice
        /\ UNCHANGED <<kind, disks, copies, table, status, result>>
    BY <1>6 DEF RUSHpRoll, Placing, Advance
  <2>2. PICK dice \in Dice :
          local' = [local EXCEPT !.dice = [j \in DOMAIN @ \cup {local.j} |->
                                             IF j = local.j THEN dice ELSE @[j]]]
    BY <1>6 DEF RUSHpRoll, Advance
  <2> DEFINE all == [j \in DOMAIN local.dice \cup {local.j} |->
                       IF j = local.j THEN dice ELSE local.dice[j]]
  <2>3. /\ local = [x |-> local.x, r |-> Len(result), j |-> local.j, dice |-> local.dice]
        /\ local.x \in Nat /\ local.j \in DOMAIN cl
        /\ \A j \in DOMAIN local.dice : j \in DOMAIN cl /\ local.dice[j] \in Dice
        /\ \A m \in DOMAIN result : \E j \in DOMAIN local.dice :
             result[m] = Taken(local, cl, j, m - 1)
    BY <1>3, <2>1 DEF RUSHpLocal
  <2>4. local' = [x |-> local.x, r |-> Len(result), j |-> local.j, dice |-> all]
    BY <2>2, <2>3
  <2>5. /\ \A j \in DOMAIN all : j \in DOMAIN cl /\ all[j] \in Dice
        /\ \A j \in DOMAIN local.dice : j \in DOMAIN all /\ all[j] = local.dice[j]
    BY <2>1, <2>3
  <2> HIDE DEF all
  <2>6. local'.x = local.x /\ local'.dice = all /\ local'.j = local.j /\ result' = result
    BY <2>1, <2>4
  <2>7. \A j \in DOMAIN local.dice : \A n : Taken(local', cl, j, n) = Taken(local, cl, j, n)
    BY <2>5, <2>6 DEF Taken
  <2>8. RUSHpLocal(local', cl, result')
    <3>1. local' = [x |-> local'.x, r |-> Len(result'), j |-> local'.j, dice |-> local'.dice]
      BY <2>4, <2>6
    <3>2. \A m \in DOMAIN result' : \E j \in DOMAIN local'.dice :
            result'[m] = Taken(local', cl, j, m - 1)
      BY <2>3, <2>5, <2>6, <2>7
    <3>3. /\ local'.x \in Nat /\ local'.j \in DOMAIN cl
          /\ \A j \in DOMAIN local'.dice : j \in DOMAIN cl /\ local'.dice[j] \in Dice
      BY <2>3, <2>5, <2>6
    <3> QED
      BY <3>1, <3>2, <3>3 DEF RUSHpLocal
  <2>9. Selected'
    <3>1. Len(result) <= copies
      BY <2>1 DEF Selected
    <3> QED
      BY <2>1, <3>1, SameSelected
  <2> QED
    BY <1>2, <1>4, <2>1, <2>8, <2>9, StaysConfigured
<1>7. ASSUME RUSHpStep PROVE Configured' /\ Selected' /\ RUSHTable'
  <2> DEFINE j == local.j
             d == local.dice[j]
             rest == d.z + local.r * d.p
             id == Taken(local, cl, j, Len(result))
             next == [local EXCEPT !.r = @ + 1, !.j = Len(cl)]
  <2>1. /\ status = "placing" /\ Len(result) < copies /\ j \in DOMAIN local.dice
        /\ local.r = Len(result)
    BY <1>3, <1>7 DEF RUSHpStep, Placing
  <2>2. /\ local = [x |-> local.x, r |-> Len(result), j |-> local.j, dice |-> local.dice]
        /\ local.x \in Nat /\ local.j \in DOMAIN cl
        /\ \A m \in DOMAIN local.dice : m \in DOMAIN cl /\ local.dice[m] \in Dice
        /\ \A m \in DOMAIN result : \E g \in DOMAIN local.dice :
             result[m] = Taken(local, cl, g, m - 1)
    BY <1>3, <2>1 DEF RUSHpLocal
  <2>3. \/ Crash
        \/ /\ table.modulus[j] # 0
           /\ ~Less(<<rest % table.modulus[j], 1>>, table.mPrime[j])
           /\ Advance(NextCluster)
        \/ Append1(id, next)
    <3>1. table.clusters = cl
      BY <1>2, <2>1
    <3>2. id = table.clusters[j][((local.x + d.z + d.up + local.r * d.p)
                                    % Len(table.clusters[j])) + 1].id
      BY <2>1, <3>1 DEF Taken
    <3>3. next = [local EXCEPT !.r = @ + 1, !.j = Len(table.clusters)]
      BY <3>1
    <3> HIDE DEF next, id
    <3> QED
      BY <1>7, <3>2, <3>3 DEF RUSHpStep
  <2>4. CASE Crash
    <3>1. UNCHANGED <<kind, disks, copies, table, result>> /\ status' = "crashed"
      BY <2>4 DEF Crash
    <3>2. Selected'
      BY <3>1, SameSelected
    <3> QED
      BY <1>2, <1>4, <2>1, <3>1, <3>2, StaysConfigured
  <2>5. CASE /\ table.modulus[j] # 0
             /\ ~Less(<<rest % table.modulus[j], 1>>, table.mPrime[j])
             /\ Advance(NextCluster)
    <3>1. j # 1
      <4> SUFFICES ASSUME j = 1 PROVE FALSE
        OBVIOUS
      <4> DEFINE mPrime == MPrimes(disks)
      <4>1. /\ 1 \in DOMAIN cl /\ table.mPrime = mPrime
            /\ table.modulus[1] = Modulus(mPrime, 1)
        BY <1>2, <2>1, <2>2
      <4>2. mPrime[1][1] \in Nat /\ mPrime[1][2] \in Nat \ {0}
        BY <1>1, <1>2, <2>1, <4>1, MPrimesAre DEF cl
      <4>3. rest \in Nat
        <5>1. d \in Dice
          BY <2>1, <2>2
        <5>2. d.z \in 0 .. MaxHash /\ d.p \in HashedPrimes
          BY <5>1 DEF Dice
        <5>3. d.z \in Nat
          BY <5>2, BoundsAssumption
        <5>4. d.p \in Nat
          <6>1. PICK n \in (Len(Primes) \div 2) + 1 .. Len(Primes) : d.p = Primes[n]
            BY <5>2 DEF HashedPrimes
          <6> DEFINE N == Len(Primes)
          <6>2. N \in Nat /\ N > 0 /\ DOMAIN Primes = 1 .. N /\ Primes \in Seq(Nat)
            BY PrimesAssumption
          <6>3. n \in DOMAIN Primes
            <7>1. n \in (N \div 2) + 1 .. N
              BY <6>1
            <7> HIDE DEF N
            <7> QED
              BY <6>2, <7>1
          <6> QED
            BY <6>1, <6>2, <6>3
        <5>5. local.r \in Nat
          BY <1>3, <2>1
        <5> HIDE DEF d
        <5> QED
          BY <5>3, <5>4, <5>5
      <4> HIDE DEF mPrime, rest
      <4>4. Less(<<rest % Modulus(mPrime, 1), 1>>, mPrime[1])
        BY <2>5, <4>1, <4>2, <4>3, FirstClusterTakes
      <4> QED
        BY <2>5, <4>1, <4>4
    <3>2. j \in Nat /\ j > 1 /\ j - 1 \in DOMAIN cl
      <4>1. j \in 1 .. Len(cl) /\ Len(cl) \in Nat /\ DOMAIN cl = 1 .. Len(cl)
        BY <1>2, <2>1, <2>2
      <4> QED
        BY <3>1, <4>1
    <3>3. /\ local' = [local EXCEPT !.j = @ - 1]
          /\ UNCHANGED <<kind, disks, copies, table, status, result>>
      BY <2>5, <3>2 DEF Advance, NextCluster
    <3>4. local' = [x |-> local.x, r |-> Len(result), j |-> j - 1, dice |-> local.dice]
      BY <2>2, <3>3
    <3> HIDE DEF j
    <3>5. local'.x = local.x /\ local'.dice = local.dice /\ local'.j = j - 1 /\ result' = result
      BY <3>3, <3>4
    <3>6. \A g, n : Taken(local', cl, g, n) = Taken(local, cl, g, n)
      BY <3>5 DEF Taken
    <3>7. RUSHpLocal(local', cl, result')
      <4>1. local' = [x |-> local'.x, r |-> Len(result'), j |-> local'.j, dice |-> local'.dice]
        BY <3>4, <3>5
      <4>2. \A m \in DOMAIN result' : \E g \in DOMAIN local'.dice :
              result'[m] = Taken(local', cl, g, m - 1)
        BY <2>2, <3>5, <3>6
      <4>3. /\ local'.x \in Nat /\ local'.j \in DOMAIN cl
            /\ \A m \in DOMAIN local'.dice : m \in DOMAIN cl /\ local'.dice[m] \in Dice
        BY <2>2, <3>2, <3>5
      <4> QED
        BY <4>1, <4>2, <4>3 DEF RUSHpLocal
    <3>8. Selected'
      <4>1. Len(result) <= copies
        BY <2>1 DEF Selected
      <4> QED
        BY <2>1, <3>3, <4>1, SameSelected
    <3> QED
      BY <1>2, <1>4, <2>1, <3>3, <3>7, <3>8, StaysConfigured
  <2>6. CASE Append1(id, next)
    <3>1. id \in Ids(disks) /\ id \notin ToSet(result)
      BY <1>1, <1>2, <1>3, <2>1, TakenIsNew DEF cl
    <3>2. id \in Int
      BY <1>1, <1>2, <2>1, <3>1, ListIs
    <3>3. Selected'
      <4> HIDE DEF id, next
      <4> QED
        BY <2>1, <2>6, <3>1, <3>2, AppendSelected
    <3>4. /\ result' = Append(result, id) /\ local' = next
          /\ UNCHANGED <<kind, disks, copies, table, status>>
      BY <2>6 DEF Append1
    <3>5. next = [x |-> local.x, r |-> Len(result) + 1, j |-> Len(cl), dice |-> local.dice]
      <4> DEFINE n == Len(result)
                 w == Len(cl)
                 y == local.x
                 e == local.dice
                 g == local.j
      <4>1. local = [x |-> y, r |-> n, j |-> g, dice |-> e]
        BY <2>2
      <4> HIDE DEF n, w, y, e, g
      <4> DEFINE u == [local EXCEPT !.r = @ + 1]
                 m == n + 1
      <4>2. u = [x |-> y, r |-> m, j |-> g, dice |-> e]
        BY <4>1
      <4>3. next = [u EXCEPT !.j = w]
        BY DEF w
      <4> HIDE DEF u, m, next
      <4>4. [u EXCEPT !.j = w] = [x |-> y, r |-> m, j |-> w, dice |-> e]
        BY <4>2
      <4> QED
        BY <4>3, <4>4 DEF n, w, y, e, m
    <3> HIDE DEF next
    <3>6. local'.x = local.x /\ local'.dice = local.dice /\ local'.j = Len(cl)
      BY <3>4, <3>5
    <3>7. \A g, n : Taken(local', cl, g, n) = Taken(local, cl, g, n)
      BY <3>6 DEF Taken
    <3> DEFINE n == Len(result)
    <3>8. n \in Nat /\ result \in Seq(Int) /\ DOMAIN result = 1 .. n
      BY <1>3, <2>1
    <3>9. id = Taken(local, cl, j, n)
      OBVIOUS
    <3> HIDE DEF n, id, j
    <3>10. /\ Len(result') = n + 1 /\ DOMAIN result' = 1 .. n + 1
           /\ result'[n + 1] = id /\ \A m \in 1 .. n : result'[m] = result[m]
      BY <3>2, <3>4, <3>8 DEF n
    <3>11. \A m \in DOMAIN result' : \E g \in DOMAIN local'.dice :
             result'[m] = Taken(local', cl, g, m - 1)
      <4> SUFFICES ASSUME NEW m \in 1 .. n + 1
                   PROVE  \E g \in DOMAIN local.dice : result'[m] = Taken(local, cl, g, m - 1)
        BY <3>6, <3>7, <3>10
      <4>1. CASE m \in 1 .. n
        BY <2>2, <3>8, <3>10, <4>1
      <4>2. CASE m = n + 1
        <5>1. m - 1 = n
          BY <3>8, <4>2
        <5> QED
          BY <2>1, <3>9, <3>10, <4>2, <5>1 DEF j
      <4> QED
        BY <3>8, <4>1, <4>2
    <3>12. RUSHpLocal(local', cl, result')
      <4>1. local' = [x |-> local'.x, r |-> Len(result'), j |-> local'.j, dice |-> local'.dice]
        BY <3>4, <3>5, <3>6, <3>10 DEF n
      <4>2. Len(cl) \in DOMAIN cl
        BY <1>2, <2>1
      <4> QED
        BY <2>2, <3>6, <3>11, <4>1, <4>2 DEF RUSHpLocal
    <3> QED
      BY <1>2, <1>4, <2>1, <3>3, <3>4, <3>12, StaysConfigured
  <2> QED
    BY <2>3, <2>4, <2>5, <2>6
<1>8. ASSUME Placing("RUSHp"), local.r = copies, Finish
      PROVE  Configured' /\ Selected' /\ RUSHTable'
  <2>1. /\ status = "placing" /\ status' = "ready"
        /\ UNCHANGED <<kind, disks, copies, table, result>>
    BY <1>8 DEF Placing, Finish
  <2>2. Len(result) = copies
    BY <1>3, <1>8, <2>1
  <2>3. Selected'
    BY <2>1, <2>2, SameSelected
  <2> QED
    BY <1>2, <1>4, <2>1, <2>3, StaysConfigured
<1> QED
  BY <1>5, <1>6, <1>7, <1>8

--------------------------------------------------------------------------------
(* RUSH: draws without replacement.                                        *)

Swapped(u, a, b) == [u EXCEPT ![a] = u[b], ![b] = u[a]]

\* The swaps of draw_k_of_n, one after the other
DrawnBy(f, u, k, n, choice) ==
  /\ f[0] = u
  /\ \A i \in 0 .. k - 1 : f[i + 1] = Swapped(f[i], n - (i + 1), choice[i])

Draws(D, u, k, n, choice) ==
  {f \in [0 .. k -> [D -> D]] : DrawnBy(f, u, k, n, choice) /\ Drawn(u, k, n, choice) = f[k]}

\* k places of the first n are chosen, each out of those left.
Chosen(D, k, n, choice) ==
  /\ n \in Nat /\ k \in 0 .. n /\ 0 .. n - 1 \subseteq D
  /\ \A i \in 0 .. k - 1 : choice[i] \in 0 .. n - i - 1

\* Drawn is a sequence of swaps.
LEMMA DrawnIs ==
  ASSUME NEW D, NEW n, NEW k, NEW u \in [D -> D], NEW choice, Chosen(D, k, n, choice)
  PROVE  Draws(D, u, k, n, choice) # {}
<1>0. n \in Nat /\ k \in Nat /\ k <= n /\ 0 .. n - 1 \subseteq D
      /\ \A i \in 0 .. k - 1 : choice[i] \in 0 .. n - 1
  BY DEF Chosen
<1> DEFINE S == [D -> D]
           G == [i \in 0 .. k - 1 |-> [v \in S |-> Swapped(v, n - (i + 1), choice[i])]]
           Up(g) == [i \in 0 .. k |-> IF i = 0 THEN u
                                      ELSE Swapped(g[i - 1], n - i, choice[i - 1])]
           drawn == CHOOSE g : g = Up(g)
<1>1. G \in [0 .. k - 1 -> [S -> S]]
  <2>1. ASSUME NEW i \in 0 .. k - 1, NEW v \in S PROVE Swapped(v, n - (i + 1), choice[i]) \in S
    <3> DEFINE a == n - (i + 1)
               b == choice[i]
    <3>1. a \in D /\ b \in D /\ v \in [D -> D]
      BY <1>0
    <3> HIDE DEF a, b, S
    <3>2. Swapped(v, a, b) \in [D -> D]
      BY <3>1 DEF Swapped
    <3> QED
      BY <3>2 DEF a, b, S
  <2> HIDE DEF S
  <2> QED
    BY <2>1
<1>2. PICK f \in [0 .. k -> S] : f[0] = u /\ \A i \in 0 .. k - 1 : f[i + 1] = G[i][f[i]]
  <2>1. UpSequences(k, S, u, G) # {}
    <3>1. u \in S
      OBVIOUS
    <3> HIDE DEF G, S
    <3> QED
      BY <1>0, <1>1, <3>1, UpSequence
  <2> QED
    BY <2>1 DEF UpSequences
<1>3. \A i \in 0 .. k - 1 : f[i + 1] = Swapped(f[i], n - (i + 1), choice[i]) /\ f[i] \in S
  <2> TAKE i \in 0 .. k - 1
  <2>1. i \in 0 .. k
    BY <1>0
  <2> HIDE DEF S
  <2> QED
    BY <1>2, <2>1
<1> HIDE DEF S
<1>4. f = Up(f)
  <2>1. ASSUME NEW i \in 0 .. k PROVE f[i] = Up(f)[i]
    <3>1. CASE i = 0
      BY <1>0, <1>2, <3>1
    <3>2. CASE i # 0
      <4> DEFINE j == i - 1
      <4>1. j \in 0 .. k - 1 /\ j + 1 = i /\ n - (j + 1) = n - i
        BY <1>0, <3>2
      <4>2. f[i] = Swapped(f[j], n - (j + 1), choice[j])
        BY <1>3, <4>1
      <4>3. Up(f)[i] = Swapped(f[j], n - i, choice[j])
        BY <3>2
      <4> QED
        BY <4>1, <4>2, <4>3
    <3> QED
      BY <3>1, <3>2
  <2> HIDE DEF Up
  <2>2. DOMAIN Up(f) = 0 .. k /\ Up(f) = [i \in 0 .. k |-> Up(f)[i]]
    BY DEF Up
  <2>3. DOMAIN f = 0 .. k /\ f = [i \in 0 .. k |-> f[i]]
    BY <1>2
  <2> QED
    BY <2>1, <2>2, <2>3
<1>5. Drawn(u, k, n, choice) = drawn[k]
  BY DEF Drawn, Swapped
<1>6. drawn = Up(drawn)
  <2> HIDE DEF Up
  <2> QED
    BY <1>4
<1>7. \A i \in 0 .. k : drawn[i] = f[i]
  <2> DEFINE Good == {i \in Nat : i <= k => drawn[i] = f[i]}
  <2> HIDE DEF drawn
  <2>1. 0 \in Good
    BY <1>0, <1>2, <1>6
  <2>2. ASSUME NEW i \in Good PROVE i + 1 \in Good
    <3>1. SUFFICES ASSUME i + 1 <= k PROVE drawn[i + 1] = f[i + 1]
      OBVIOUS
    <3> DEFINE j == i + 1
    <3>2. j \in 0 .. k /\ j # 0 /\ j - 1 = i /\ i \in 0 .. k - 1 /\ drawn[i] = f[i]
      BY <1>0, <3>1
    <3>3. drawn[j] = Swapped(drawn[j - 1], n - j, choice[j - 1])
      BY <1>6, <3>2
    <3>4. f[i + 1] = Swapped(f[i], n - (i + 1), choice[i])
      BY <1>3, <3>2
    <3> QED
      BY <3>2, <3>3, <3>4
  <2>3. Good \in SUBSET Nat
    OBVIOUS
  <2>4. Good = Nat
    <3> HIDE DEF Good
    <3> QED
      BY <2>1, <2>2, <2>3, InductionSet
  <2> QED
    BY <2>4
<1>8. k \in 0 .. k
  BY <1>0
<1> HIDE DEF drawn
<1>9. DrawnBy(f, u, k, n, choice)
  BY <1>2, <1>3 DEF DrawnBy
<1>10. Drawn(u, k, n, choice) = f[k]
  BY <1>5, <1>7, <1>8
<1> QED
  BY <1>2, <1>9, <1>10 DEF S, Draws

\* A table of choices after i of its first n places were drawn: those left hold their
\* own number or that of a drawn place.
DrawnSo(u, D, n, i) ==
  /\ u \in [D -> D]
  /\ \A p, q \in D : u[p] = u[q] => p = q
  /\ \A v \in 0 .. n - 1 : \E p \in 0 .. n - 1 : u[p] = v
  /\ \A q \in D : q >= n => u[q] = q
  /\ \A q \in 0 .. n - i - 1 : u[q] = q \/ u[q] >= n - i

LEMMA SwapDraws ==
  ASSUME NEW D \in SUBSET Nat, NEW n \in Nat, 0 .. n - 1 \subseteq D, NEW i \in Nat, i < n,
         NEW u, DrawnSo(u, D, n, i), NEW b \in 0 .. n - i - 1
  PROVE  DrawnSo(Swapped(u, n - (i + 1), b), D, n, i + 1)
<1> DEFINE a == n - (i + 1)
           w == Swapped(u, a, b)
<1>1. a \in Nat /\ a \in 0 .. n - 1 /\ a \in D /\ b \in D /\ b <= a /\ a = n - i - 1 /\ b \in Nat
      /\ n - (i + 1) = a /\ n - (i + 1) - 1 = a - 1 /\ n - i = a + 1 /\ a < n
  OBVIOUS
<1>2. /\ u \in [D -> D]
      /\ \A p, q \in D : u[p] = u[q] => p = q
      /\ \A v \in 0 .. n - 1 : \E p \in 0 .. n - 1 : u[p] = v
      /\ \A q \in D : q >= n => u[q] = q
      /\ \A q \in 0 .. a : u[q] = q \/ u[q] >= a + 1
  BY <1>1 DEF DrawnSo
<1>3. /\ w \in [D -> D]
      /\ \A q \in D : w[q] = IF q = b THEN u[a] ELSE IF q = a THEN u[b] ELSE u[q]
  <2> HIDE DEF a
  <2>1. a \in D /\ b \in D /\ u \in [D -> D]
    BY <1>1, <1>2
  <2> QED
    BY <2>1 DEF Swapped
<1> HIDE DEF a, w
<1>4. \A p, q \in D : w[p] = w[q] => p = q
  BY <1>1, <1>2, <1>3
<1>5. ASSUME NEW v \in 0 .. n - 1 PROVE \E p \in 0 .. n - 1 : w[p] = v
  <2>1. PICK p \in 0 .. n - 1 : u[p] = v
    BY <1>2
  <2>2. p \in D /\ a \in 0 .. n - 1 /\ b \in 0 .. n - 1
    BY <1>1
  <2>3. CASE p = a
    <3>1. w[b] = v
      BY <1>1, <1>3, <2>1, <2>3
    <3> QED
      BY <2>2, <3>1
  <2>4. CASE p = b
    <3>1. w[a] = v
      BY <1>1, <1>3, <2>1, <2>4
    <3> QED
      BY <2>2, <3>1
  <2>5. CASE p # a /\ p # b
    BY <1>3, <2>1, <2>2, <2>5
  <2> QED
    BY <2>3, <2>4, <2>5
<1>6. \A q \in D : q >= n => w[q] = q
  <2> SUFFICES ASSUME NEW q \in D, q >= n PROVE w[q] = q
    OBVIOUS
  <2>1. q # a /\ q # b
    BY <1>1
  <2> QED
    BY <1>2, <1>3, <2>1
<1>7. ASSUME NEW q \in 0 .. a - 1 PROVE w[q] = q \/ w[q] >= a
  <2>1. q \in D /\ q # a /\ q \in 0 .. a /\ a \in 0 .. a
    BY <1>1
  <2>2. CASE q = b
    <3>1. w[q] = u[a]
      BY <1>3, <2>1, <2>2
    <3>2. u[a] = a \/ u[a] >= a + 1
      BY <1>2, <2>1
    <3>3. u[a] \in Nat
      BY <1>1, <1>2
    <3> QED
      BY <1>1, <3>1, <3>2, <3>3
  <2>3. CASE q # b
    <3>1. w[q] = u[q]
      BY <1>3, <2>1, <2>3
    <3>2. u[q] = q \/ u[q] >= a + 1
      BY <1>2, <2>1
    <3>3. u[q] \in Nat
      BY <1>2, <2>1
    <3> QED
      BY <1>1, <3>1, <3>2, <3>3
  <2> QED
    BY <2>2, <2>3
<1>8. DrawnSo(w, D, n, i + 1)
  BY <1>1, <1>3, <1>4, <1>5, <1>6, <1>7 DEF DrawnSo
<1> QED
  BY <1>8 DEF w, a

\* So draw_k_of_n leaves k different numbers below n in the drawn places.
LEMMA DrawnDraws ==
  ASSUME NEW D \in SUBSET Nat, NEW n, NEW k, NEW choice, Chosen(D, k, n, choice)
  PROVE  DrawnSo(Drawn([q \in D |-> q], k, n, choice), D, n, k)
<1> DEFINE u == [q \in D |-> q]
<1>0. n \in Nat /\ k \in 0 .. n /\ 0 .. n - 1 \subseteq D
      /\ \A i \in 0 .. k - 1 : choice[i] \in 0 .. n - i - 1
  BY DEF Chosen
<1>1. PICK f \in [0 .. k -> [D -> D]] :
        DrawnBy(f, u, k, n, choice) /\ Drawn(u, k, n, choice) = f[k]
  <2>1. u \in [D -> D]
    OBVIOUS
  <2> HIDE DEF u
  <2>2. Draws(D, u, k, n, choice) # {}
    BY <2>1, DrawnIs
  <2> QED
    BY <2>2 DEF Draws
<1>2. DrawnSo(u, D, n, 0)
  <2>1. u \in [D -> D] /\ \A p \in D : u[p] = p
    OBVIOUS
  <2> HIDE DEF u
  <2>2. \A q \in 0 .. n - 0 - 1 : q \in D /\ q \in 0 .. n - 1
    BY <1>0
  <2> QED
    BY <1>0, <2>1, <2>2 DEF DrawnSo
<1> HIDE DEF u
<1> DEFINE Good == {i \in Nat : i <= k => DrawnSo(f[i], D, n, i)}
<1>3. 0 \in Good
  BY <1>1, <1>2 DEF DrawnBy
<1>4. ASSUME NEW i \in Good PROVE i + 1 \in Good
  <2>1. SUFFICES ASSUME i + 1 <= k PROVE DrawnSo(f[i + 1], D, n, i + 1)
    OBVIOUS
  <2>2. i \in Nat /\ i \in 0 .. k - 1 /\ i < n /\ DrawnSo(f[i], D, n, i)
    BY <1>0, <2>1
  <2>3. f[i + 1] = Swapped(f[i], n - (i + 1), choice[i])
    BY <1>1, <2>2 DEF DrawnBy
  <2>4. choice[i] \in 0 .. n - i - 1
    BY <1>0, <2>2
  <2> DEFINE v == f[i]
             b == choice[i]
  <2>5. DrawnSo(v, D, n, i) /\ b \in 0 .. n - i - 1
    BY <2>2, <2>4
  <2> HIDE DEF v, b
  <2>6. DrawnSo(Swapped(v, n - (i + 1), b), D, n, i + 1)
    BY <1>0, <2>2, <2>5, SwapDraws
  <2> QED
    BY <2>3, <2>6 DEF v, b
<1>5. Good \in SUBSET Nat
  OBVIOUS
<1>6. Good = Nat
  <2> HIDE DEF Good
  <2> QED
    BY <1>3, <1>4, <1>5, InductionSet
<1>7. k \in Nat
  BY <1>0
<1> QED
  BY <1>1, <1>6, <1>7 DEF u

\* One round of the loop that brings back the identity
Reset(u, p, m) == [(IF u[p] < m THEN [u EXCEPT ![u[p]] = u[p]] ELSE u) EXCEPT ![p] = p]

RestoredBy(f, u, k, n) ==
  /\ f[0] = u
  /\ \A i \in 0 .. k - 1 : f[i + 1] = Reset(f[i], n - k + i, n - k)

Restores(D, u, k, n) ==
  {f \in [0 .. k -> [D -> D]] : RestoredBy(f, u, k, n) /\ Restored(u, k, n) = f[k]}

LEMMA ResetIs ==
  ASSUME NEW D \in SUBSET Nat, NEW u \in [D -> D], NEW p \in D, NEW m \in Nat
  PROVE  /\ Reset(u, p, m) \in [D -> D] /\ Reset(u, p, m)[p] = p
         /\ \A q \in D : q # p =>
              Reset(u, p, m)[q] = IF q = u[p] /\ u[p] < m THEN q ELSE u[q]
<1> DEFINE v == IF u[p] < m THEN [u EXCEPT ![u[p]] = u[p]] ELSE u
<1>1. u[p] \in D
  OBVIOUS
<1>2. /\ v \in [D -> D]
      /\ \A q \in D : v[q] = IF q = u[p] /\ u[p] < m THEN q ELSE u[q]
  BY <1>1
<1>3. Reset(u, p, m) = [v EXCEPT ![p] = p]
  BY DEF Reset
<1> HIDE DEF v
<1> QED
  BY <1>2, <1>3

\* Restored is a sequence of such rounds.
LEMMA RestoredIs ==
  ASSUME NEW D \in SUBSET Nat, NEW n \in Nat, NEW k \in 0 .. n, 0 .. n - 1 \subseteq D,
         NEW u \in [D -> D]
  PROVE  Restores(D, u, k, n) # {}
<1> DEFINE S == [D -> D]
           m == n - k
           G == [i \in 0 .. k - 1 |-> [v \in S |-> Reset(v, m + i, m)]]
           Up(g) == [i \in 0 .. k |-> IF i = 0 THEN u ELSE Reset(g[i - 1], m + i - 1, m)]
           restored == CHOOSE g : g = Up(g)
<1>0. k \in Nat /\ m \in Nat /\ \A i \in 0 .. k - 1 : m + i \in D
  OBVIOUS
<1> HIDE DEF m
<1>1. G \in [0 .. k - 1 -> [S -> S]]
  <2>1. ASSUME NEW i \in 0 .. k - 1, NEW v \in S PROVE Reset(v, m + i, m) \in S
    <3> DEFINE p == m + i
    <3>1. p \in D /\ v \in [D -> D]
      BY <1>0
    <3> HIDE DEF p, S
    <3>2. Reset(v, p, m) \in [D -> D]
      BY <1>0, <3>1, ResetIs
    <3> QED
      BY <3>2 DEF p, S
  <2> HIDE DEF S
  <2> QED
    BY <2>1
<1>2. PICK f \in [0 .. k -> S] : f[0] = u /\ \A i \in 0 .. k - 1 : f[i + 1] = G[i][f[i]]
  <2>1. UpSequences(k, S, u, G) # {}
    <3>1. u \in S
      OBVIOUS
    <3> HIDE DEF G, S
    <3> QED
      BY <1>0, <1>1, <3>1, UpSequence
  <2> QED
    BY <2>1 DEF UpSequences
<1>3. \A i \in 0 .. k - 1 : f[i + 1] = Reset(f[i], m + i, m) /\ f[i] \in S
  <2> TAKE i \in 0 .. k - 1
  <2>1. i \in 0 .. k
    BY <1>0
  <2> HIDE DEF S
  <2> QED
    BY <1>2, <2>1
<1> HIDE DEF S
<1>4. f = Up(f)
  <2>1. ASSUME NEW i \in 0 .. k PROVE f[i] = Up(f)[i]
    <3>1. CASE i = 0
      BY <1>0, <1>2, <3>1
    <3>2. CASE i # 0
      <4> DEFINE j == i - 1
      <4>1. j \in 0 .. k - 1 /\ j + 1 = i /\ m + j = m + i - 1
        BY <1>0, <3>2
      <4>2. f[i] = Reset(f[j], m + j, m)
        BY <1>3, <4>1
      <4>3. Up(f)[i] = Reset(f[j], m + i - 1, m)
        BY <3>2
      <4> QED
        BY <4>1, <4>2, <4>3
    <3> QED
      BY <3>1, <3>2
  <2> HIDE DEF Up
  <2>2. DOMAIN Up(f) = 0 .. k /\ Up(f) = [i \in 0 .. k |-> Up(f)[i]]
    BY DEF Up
  <2>3. DOMAIN f = 0 .. k /\ f = [i \in 0 .. k |-> f[i]]
    BY <1>2
  <2> QED
    BY <2>1, <2>2, <2>3
<1>5. Restored(u, k, n) = restored[k]
  BY DEF Restored, Reset, m
<1>6. restored = Up(restored)
  <2> HIDE DEF Up
  <2> QED
    BY <1>4
<1>7. \A i \in 0 .. k : restored[i] = f[i]
  <2> DEFINE Good == {i \in Nat : i <= k => restored[i] = f[i]}
  <2> HIDE DEF restored
  <2>1. 0 \in Good
    BY <1>0, <1>2, <1>6
  <2>2. ASSUME NEW i \in Good PROVE i + 1 \in Good
    <3>1. SUFFICES ASSUME i + 1 <= k PROVE restored[i + 1] = f[i + 1]
      OBVIOUS
    <3> DEFINE j == i + 1
    <3>2. /\ j \in 0 .. k /\ j # 0 /\ j - 1 = i /\ i \in 0 .. k - 1 /\ restored[i] = f[i]
          /\ m + j - 1 = m + i
      BY <1>0, <3>1
    <3>3. restored[j] = Reset(restored[j - 1], m + j - 1, m)
      BY <1>6, <3>2
    <3>4. f[i + 1] = Reset(f[i], m + i, m)
      BY <1>3, <3>2
    <3> QED
      BY <3>2, <3>3, <3>4
  <2>3. Good \in SUBSET Nat
    OBVIOUS
  <2>4. Good = Nat
    <3> HIDE DEF Good
    <3> QED
      BY <2>1, <2>2, <2>3, InductionSet
  <2> QED
    BY <2>4
<1>8. k \in 0 .. k
  BY <1>0
<1> HIDE DEF restored
<1>9. RestoredBy(f, u, k, n)
  BY <1>2, <1>3 DEF RestoredBy, m
<1>10. Restored(u, k, n) = f[k]
  BY <1>5, <1>7, <1>8
<1> QED
  BY <1>2, <1>9, <1>10 DEF S, Restores

\* The places from m up to p hold their numbers again, and those below m that one of them had.
RestoredSo(v, u, D, m, p) ==
  /\ v \in [D -> D]
  /\ \A q \in D : q >= p => v[q] = u[q]
  /\ \A q \in D : q >= m /\ q < p => v[q] = q
  /\ \A q \in D : q < m =>
       v[q] = q \/ (v[q] = u[q] /\ \A r \in D : r >= m /\ r < p => u[r] # q)

LEMMA ResetRestores ==
  ASSUME NEW D \in SUBSET Nat, NEW u \in [D -> D], NEW m \in Nat, NEW p \in D, p >= m,
         NEW v, RestoredSo(v, u, D, m, p)
  PROVE  RestoredSo(Reset(v, p, m), u, D, m, p + 1)
<1> DEFINE w == Reset(v, p, m)
<1>1. /\ v \in [D -> D]
      /\ \A q \in D : q >= p => v[q] = u[q]
      /\ \A q \in D : q >= m /\ q < p => v[q] = q
      /\ \A q \in D : q < m =>
           v[q] = q \/ (v[q] = u[q] /\ \A r \in D : r >= m /\ r < p => u[r] # q)
  BY DEF RestoredSo
<1>2. /\ w \in [D -> D] /\ w[p] = p
      /\ \A q \in D : q # p => w[q] = IF q = v[p] /\ v[p] < m THEN q ELSE v[q]
  <2> HIDE DEF w
  <2> QED
    BY <1>1, ResetIs DEF w
<1>3. v[p] = u[p] /\ u[p] \in Nat /\ p \in Nat
  <2>1. p \in Nat /\ p >= p /\ u[p] \in D
    OBVIOUS
  <2>2. u[p] \in Nat
    BY <2>1
  <2> QED
    BY <1>1, <2>1, <2>2
<1> HIDE DEF w
<1>4. \A q \in D : q >= p + 1 => w[q] = u[q]
  BY <1>1, <1>2, <1>3
<1>5. \A q \in D : q >= m /\ q < p + 1 => w[q] = q
  BY <1>1, <1>2, <1>3
<1>6. ASSUME NEW q \in D, q < m
      PROVE  w[q] = q \/ (w[q] = u[q] /\ \A r \in D : r >= m /\ r < p + 1 => u[r] # q)
  <2>1. q # p /\ q \in Nat
    BY <1>3, <1>6
  <2>2. CASE u[p] = q
    BY <1>2, <1>3, <1>6, <2>1, <2>2
  <2>3. CASE u[p] # q
    <3>1. w[q] = v[q]
      BY <1>2, <1>3, <2>1, <2>3
    <3>2. \A r \in D : r < p + 1 => r < p \/ r = p
      BY <1>3
    <3> QED
      BY <1>1, <1>6, <2>3, <3>1, <3>2
  <2> QED
    BY <2>2, <2>3
<1>7. RestoredSo(w, u, D, m, p + 1)
  BY <1>2, <1>4, <1>5, <1>6 DEF RestoredSo
<1> QED
  BY <1>7 DEF w

\* So draw_k_of_n leaves the table as it found it.
LEMMA RestoredRestores ==
  ASSUME NEW D \in SUBSET Nat, NEW n \in Nat, 0 .. n - 1 \subseteq D, NEW k \in 0 .. n,
         NEW u, DrawnSo(u, D, n, k)
  PROVE  Restored(u, k, n) = [q \in D |-> q]
<1> DEFINE m == n - k
<1>1. /\ k \in Nat /\ m \in Nat /\ m + k = n /\ u \in [D -> D] /\ n - k = m
      /\ \A p, q \in D : u[p] = u[q] => p = q
      /\ \A v \in 0 .. n - 1 : \E p \in 0 .. n - 1 : u[p] = v
      /\ \A q \in D : q >= n => u[q] = q
      /\ \A q \in 0 .. m - 1 : u[q] = q \/ u[q] >= m
  BY DEF DrawnSo
<1>2. PICK f \in [0 .. k -> [D -> D]] : RestoredBy(f, u, k, n) /\ Restored(u, k, n) = f[k]
  <2>1. Restores(D, u, k, n) # {}
    BY <1>1, RestoredIs
  <2> QED
    BY <2>1 DEF Restores
<1>3. f[0] = u /\ \A i \in 0 .. k - 1 : f[i + 1] = Reset(f[i], m + i, m)
  BY <1>2 DEF RestoredBy
<1> HIDE DEF m
<1> DEFINE Good == {i \in Nat : i <= k => RestoredSo(f[i], u, D, m, m + i)}
<1>4. 0 \in Good
  <2>1. m + 0 = m
    BY <1>1
  <2>2. RestoredSo(u, u, D, m, m)
    <3>1. \A q \in D : q \in Nat
      OBVIOUS
    <3> QED
      BY <1>1, <3>1 DEF RestoredSo
  <2> QED
    BY <1>3, <2>1, <2>2
<1>5. ASSUME NEW i \in Good PROVE i + 1 \in Good
  <2>1. SUFFICES ASSUME i + 1 <= k PROVE RestoredSo(f[i + 1], u, D, m, m + (i + 1))
    OBVIOUS
  <2> DEFINE p == m + i
             v == f[i]
  <2>2. i \in 0 .. k - 1 /\ RestoredSo(v, u, D, m, p) /\ p \in D /\ p >= m /\ m + (i + 1) = p + 1
    BY <1>1, <2>1
  <2>3. f[i + 1] = Reset(v, p, m)
    BY <1>3, <2>2
  <2> HIDE DEF p, v
  <2>4. RestoredSo(Reset(v, p, m), u, D, m, p + 1)
    BY <1>1, <2>2, ResetRestores
  <2> QED
    BY <2>2, <2>3, <2>4
<1>6. Good \in SUBSET Nat
  OBVIOUS
<1>7. Good = Nat
  <2> HIDE DEF Good
  <2> QED
    BY <1>4, <1>5, <1>6, InductionSet
<1>8. RestoredSo(f[k], u, D, m, n)
  BY <1>1, <1>7
<1> DEFINE w == f[k]
<1>9. ASSUME NEW q \in D PROVE w[q] = q
  <2>0. /\ q \in Nat
        /\ q >= n => w[q] = u[q]
        /\ q >= m /\ q < n => w[q] = q
        /\ q < m => w[q] = q \/ (w[q] = u[q] /\ \A r \in D : r >= m /\ r < n => u[r] # q)
    BY <1>8 DEF RestoredSo
  <2>1. CASE q >= n
    BY <1>1, <2>0, <2>1
  <2>2. CASE q >= m /\ q < n
    BY <2>0, <2>2
  <2>3. CASE q < m
    <3>1. SUFFICES ASSUME w[q] # q PROVE FALSE
      OBVIOUS
    <3>2. w[q] = u[q] /\ \A r \in D : r >= m /\ r < n => u[r] # q
      BY <2>0, <2>3, <3>1
    <3>3. PICK p \in 0 .. n - 1 : u[p] = q
      BY <1>1, <2>0, <2>3
    <3>4. p \in D /\ p < m /\ p \in 0 .. m - 1
      BY <1>1, <3>2, <3>3
    <3>5. u[p] = p
      <4>1. u[p] = p \/ u[p] >= m
        BY <1>1, <3>4
      <4>2. ~(q >= m)
        BY <1>1, <2>0, <2>3
      <4> QED
        BY <3>3, <4>1, <4>2
    <3> QED
      BY <3>1, <3>2, <3>3, <3>5
  <2> QED
    BY <1>1, <2>0, <2>1, <2>2, <2>3
<1>10. w \in [D -> D]
  BY <1>8 DEF RestoredSo
<1> HIDE DEF w
<1>11. w = [q \in D |-> q]
  BY <1>9, <1>10
<1> QED
  BY <1>2, <1>11 DEF w

\* Nothing is drawn from a cluster that is passed over.
LEMMA NothingDrawn ==
  ASSUME NEW u, NEW n, NEW choice
  PROVE  Drawn(u, 0, n, choice) = u /\ Restored(u, 0, n) = u
<1> DEFINE z == [i \in 0 .. 0 |-> u]
           A(g) == [i \in 0 .. 0 |->
                      IF i = 0 THEN u
                      ELSE LET c == g[i - 1]
                           IN  [c EXCEPT ![n - i] = c[choice[i - 1]],
                                          ![choice[i - 1]] = c[n - i]]]
           B(g) == [i \in 0 .. 0 |->
                      IF i = 0 THEN u
                      ELSE LET c == g[i - 1]
                               place == n - 0 + i - 1
                               clean == IF c[place] < n - 0 THEN [c EXCEPT ![c[place]] = c[place]]
                                        ELSE c
                           IN  [clean EXCEPT ![place] = place]]
<1>1. \A g : A(g) = z /\ B(g) = z
  OBVIOUS
<1>2. z[0] = u
  OBVIOUS
<1>3. Drawn(u, 0, n, choice) = (CHOOSE g : g = A(g))[0]
  BY DEF Drawn
<1>4. Restored(u, 0, n) = (CHOOSE g : g = B(g))[0]
  BY DEF Restored
<1> HIDE DEF A, B, z
<1>5. (CHOOSE g : g = A(g)) = z
  <2>1. z = A(z)
    BY <1>1
  <2>2. A(CHOOSE g : g = A(g)) = CHOOSE g : g = A(g)
    BY <2>1
  <2> QED
    BY <1>1, <2>2
<1>6. (CHOOSE g : g = B(g)) = z
  <2>1. z = B(z)
    BY <1>1
  <2>2. B(CHOOSE g : g = B(g)) = CHOOSE g : g = B(g)
    BY <2>1
  <2> QED
    BY <1>1, <2>2
<1> QED
  BY <1>2, <1>3, <1>4, <1>5, <1>6

\* Disks that are not in the list yet are appended to it.
LEMMA AppendSome ==
  ASSUME NEW r \in Seq(Int), NEW n \in Nat, NEW s \in [1 .. n -> Int]
  PROVE  /\ r \o s \in Seq(Int) /\ Len(r \o s) = Len(r) + n
         /\ \A m \in DOMAIN (r \o s) :
              (m \in DOMAIN r /\ (r \o s)[m] = r[m]) \/ \E i \in 1 .. n : (r \o s)[m] = s[i]
         /\ ToSet(r \o s) = ToSet(r) \cup {s[i] : i \in 1 .. n}
         /\ IsInjective(r) /\ (\A i, j \in 1 .. n : s[i] = s[j] => i = j)
              /\ (\A i \in 1 .. n : s[i] \notin ToSet(r)) => IsInjective(r \o s)
<1> DEFINE w == r \o s
           k == Len(r)
<1>1. s \in Seq(Int) /\ Len(s) = n /\ DOMAIN s = 1 .. n
  OBVIOUS
<1>2. /\ w \in Seq(Int) /\ k \in Nat /\ Len(w) = k + n
      /\ DOMAIN r = 1 .. k /\ DOMAIN w = 1 .. k + n
      /\ \A m \in 1 .. k + n : w[m] = IF m <= k THEN r[m] ELSE s[m - k]
  <2>1. k \in Nat /\ DOMAIN r = 1 .. k
    OBVIOUS
  <2>2. w \in Seq(Int) /\ Len(w) = k + n
    BY <1>1
  <2>3. ASSUME NEW m \in 1 .. k + n PROVE w[m] = IF m <= k THEN r[m] ELSE s[m - k]
    BY <1>1
  <2> HIDE DEF w, k
  <2>4. DOMAIN w = 1 .. k + n
    BY <2>2
  <2> QED
    BY <2>1, <2>2, <2>3, <2>4
<1> HIDE DEF w, k
<1>3. ASSUME NEW m \in 1 .. k + n
      PROVE  (m \in 1 .. k /\ w[m] = r[m]) \/ (m - k \in 1 .. n /\ w[m] = s[m - k])
  BY <1>2
<1>4. \A m \in 1 .. k : m \in 1 .. k + n /\ w[m] = r[m]
  BY <1>2
<1>5. \A i \in 1 .. n : i + k \in 1 .. k + n /\ w[i + k] = s[i]
  <2> TAKE i \in 1 .. n
  <2>1. i + k \in 1 .. k + n /\ ~(i + k <= k) /\ (i + k) - k = i
    BY <1>2
  <2> QED
    BY <1>2, <2>1
<1>6. ToSet(w) = ToSet(r) \cup {s[i] : i \in 1 .. n}
  <2>1. ASSUME NEW x \in ToSet(w) PROVE x \in ToSet(r) \cup {s[i] : i \in 1 .. n}
    <3>1. PICK m \in 1 .. k + n : x = w[m]
      BY <1>2, <2>1 DEF ToSet
    <3>2. CASE m \in 1 .. k /\ w[m] = r[m]
      BY <1>2, <3>1, <3>2 DEF ToSet
    <3>3. CASE m - k \in 1 .. n /\ w[m] = s[m - k]
      BY <3>1, <3>3
    <3> QED
      BY <1>3, <3>2, <3>3
  <2>2. ASSUME NEW x \in ToSet(r) PROVE x \in ToSet(w)
    BY <1>2, <1>4, <2>2 DEF ToSet
  <2>3. ASSUME NEW i \in 1 .. n PROVE s[i] \in ToSet(w)
    BY <1>2, <1>5 DEF ToSet
  <2> QED
    BY <2>1, <2>2, <2>3
<1>7. ASSUME IsInjective(r), \A i, j \in 1 .. n : s[i] = s[j] => i = j,
             \A i \in 1 .. n : s[i] \notin ToSet(r)
      PROVE  IsInjective(w)
  <2> SUFFICES ASSUME NEW a \in 1 .. k + n, NEW b \in 1 .. k + n, w[a] = w[b] PROVE a = b
    BY <1>2 DEF IsInjective
  <2>0. \A m \in 1 .. k : r[m] \in ToSet(r)
    BY <1>2 DEF ToSet
  <2>1. CASE a \in 1 .. k /\ b \in 1 .. k
    BY <1>2, <1>4, <1>7, <2>1 DEF IsInjective
  <2>2. CASE a \in 1 .. k /\ b - k \in 1 .. n /\ w[b] = s[b - k]
    BY <1>4, <1>7, <2>0, <2>2
  <2>3. CASE b \in 1 .. k /\ a - k \in 1 .. n /\ w[a] = s[a - k]
    BY <1>4, <1>7, <2>0, <2>3
  <2>4. CASE a - k \in 1 .. n /\ w[a] = s[a - k] /\ b - k \in 1 .. n /\ w[b] = s[b - k]
    <3>1. a - k = b - k
      BY <1>7, <2>4
    <3> QED
      BY <1>2, <3>1
  <2> QED
    BY <1>3, <2>1, <2>2, <2>3, <2>4
<1>8. \A m \in DOMAIN w : (m \in DOMAIN r /\ w[m] = r[m]) \/ \E i \in 1 .. n : w[m] = s[i]
  BY <1>2, <1>3
<1> QED
  BY <1>2, <1>6, <1>7, <1>8 DEF w, k

\* What draw_k_of_n leaves, also when it draws nothing: different server numbers, and
\* the table it found
LEMMA DrawIs ==
  ASSUME NEW N \in Nat, NEW n \in Nat, NEW k \in 0 .. n,
         k > 0 => 0 .. n - 1 \subseteq 0 .. N - 1,
         NEW choice \in [0 .. k - 1 -> 0 .. n - 1], \A i \in 0 .. k - 1 : choice[i] < n - i
  PROVE  /\ \A i \in 1 .. k : Drawn(Identity(N), k, n, choice)[n - k + i - 1] \in 0 .. n - 1
         /\ \A i, j \in 1 .. k :
              Drawn(Identity(N), k, n, choice)[n - k + i - 1]
                = Drawn(Identity(N), k, n, choice)[n - k + j - 1] => i = j
         /\ Restored(Drawn(Identity(N), k, n, choice), k, n) = Identity(N)
<1> DEFINE D == 0 .. N - 1
           u == Drawn(Identity(N), k, n, choice)
<1>1. CASE k = 0
  <2>1. u = Identity(N) /\ Restored(u, k, n) = Identity(N)
    BY <1>1, NothingDrawn
  <2> HIDE DEF u
  <2>2. 1 .. k = {}
    BY <1>1
  <2> QED
    BY <2>1, <2>2 DEF u
<1>2. CASE k # 0
  <2>1. D \in SUBSET Nat /\ 0 .. n - 1 \subseteq D /\ Identity(N) = [q \in D |-> q]
    BY <1>2 DEF Identity
  <2> HIDE DEF D
  <2>2. Chosen(D, k, n, choice)
    <3>1. \A i \in 0 .. k - 1 : choice[i] \in 0 .. n - i - 1
      OBVIOUS
    <3> QED
      BY <2>1, <3>1 DEF Chosen
  <2>3. DrawnSo(u, D, n, k)
    BY <2>1, <2>2, DrawnDraws
  <2> HIDE DEF u
  <2>4. Restored(u, k, n) = Identity(N)
    BY <2>1, <2>3, RestoredRestores
  <2>5. /\ u \in [D -> D]
        /\ \A p, q \in D : u[p] = u[q] => p = q
        /\ \A q \in D : q >= n => u[q] = q
    BY <2>3 DEF DrawnSo
  <2>6. ASSUME NEW q \in D, q < n PROVE u[q] \in 0 .. n - 1
    <3> DEFINE v == u[q]
    <3>1. v \in D /\ v \in Nat
      BY <2>1, <2>5
    <3>2. v >= n => u[v] = v
      BY <2>5, <3>1
    <3>3. u[v] = v => v = q
      BY <2>5, <3>1
    <3> HIDE DEF v
    <3>4. ~(v >= n)
      BY <2>1, <2>6, <3>2, <3>3
    <3>5. v \in 0 .. n - 1
      BY <3>1, <3>4
    <3> QED
      BY <3>5 DEF v
  <2>7. \A i \in 1 .. k : n - k + i - 1 \in D /\ n - k + i - 1 < n
    <3> TAKE i \in 1 .. k
    <3>1. n - k + i - 1 \in 0 .. n - 1
      OBVIOUS
    <3> QED
      BY <2>1, <3>1
  <2>8. \A i \in 1 .. k : u[n - k + i - 1] \in 0 .. n - 1
    BY <2>6, <2>7
  <2>9. \A i, j \in 1 .. k : u[n - k + i - 1] = u[n - k + j - 1] => i = j
    <3> TAKE i, j \in 1 .. k
    <3> DEFINE p == n - k + i - 1
               q == n - k + j - 1
    <3>1. p \in D /\ q \in D
      BY <2>7
    <3>0. p = q => i = j
      OBVIOUS
    <3> HIDE DEF p, q
    <3>2. u[p] = u[q] => i = j
      BY <2>5, <3>0, <3>1
    <3> QED
      BY <3>2 DEF p, q
  <2> QED
    BY <2>4, <2>8, <2>9 DEF u
<1> QED
  BY <1>1, <1>2

\* What clusters before j cannot take has to come from cluster j.
LEMMA MandatoryIs ==
  ASSUME NEW remaining \in Nat, NEW before \in Nat
  PROVE  /\ Max({0, remaining - before}) \in Nat
         /\ before = 0 => Max({0, remaining - before}) = remaining
<1> DEFINE x == remaining - before
<1>1. x \in Int
  OBVIOUS
<1>2. before = 0 => x = remaining /\ x >= 0
  OBVIOUS
<1> HIDE DEF x
<1>3. CASE x >= 0
  <2>1. Max({0, x}) = x
    BY <1>1, <1>3, MaxUnique
  <2> QED
    BY <1>1, <1>2, <1>3, <2>1 DEF x
<1>4. CASE ~(x >= 0)
  <2>1. Max({0, x}) = 0
    BY <1>1, <1>4, MaxUnique
  <2> QED
    BY <1>2, <1>4, <2>1 DEF x
<1> QED
  BY <1>3, <1>4

\* The steps of RUSHr
LEMMA RUSHrSelects ==
  ASSUME Configured, Selected, RUSHTable, kind = "RUSHr",
         \/ RUSHrCall \/ RUSHrStep \/ RUSHrOther
         \/ Placing("RUSHr") /\ local.remaining = 0 /\ Finish
  PROVE  Configured' /\ Selected' /\ RUSHTable'
<1> DEFINE cl == Clusters(disks)
<1>1. kind \in Kinds /\ kind \in RUSHKinds /\ kind # "RUSHp" /\ kind # "RUSHt"
  BY DEF Configured, RUSHKinds
<1>2. ASSUME status \in {"ready", "placing"}
      PROVE  /\ RUSHReady(table, disks, copies) /\ disks \in Lists[kind] /\ copies \in Nat
             /\ \A j \in DOMAIN cl : copies <= Len(cl[j])
             /\ ClustersOf(cl, disks)
             /\ Len(cl) > 0 /\ DOMAIN cl = 1 .. Len(cl) /\ Len(cl) \in Nat
             /\ table.clusters = cl /\ table.alldisks = disks
             /\ \E n \in Nat : table.choices = Identity(n)
             /\ \A n \in Nat : RUSHReady([table EXCEPT !.choices = Identity(n)], disks, copies)
  <2>1. RUSHReady(table, disks, copies)
    BY <1>1, <1>2 DEF RUSHTable
  <2>2. disks \in Lists[kind] /\ copies \in Nat
    BY <1>2, BoundsAssumption DEF Configured
  <2>3. ClustersOf(cl, disks) /\ Len(cl) > 0
    BY <1>1, <2>2, ClustersAre
  <2> QED
    BY <2>1, <2>2, <2>3, ReadyIs DEF ClustersOf
<1>3. ASSUME status = "placing"
      PROVE  /\ RUSHrLocal(local, cl, disks, result, copies) /\ result \in Seq(Int)
             /\ Len(result) \in Nat
  BY <1>1, <1>3 DEF RUSHTable, Selected
<1>4. ASSUME status' \in {"ready", "placing", "crashed"},
             UNCHANGED <<kind, disks, copies>>, RUSHReady(table', disks, copies),
             status' = "placing" => RUSHrLocal(local', cl, disks, result', copies)
      PROVE  RUSHTable'
  <2>1. RUSHReady(table', disks', copies')
    BY <1>4
  <2>2. status' = "placing" => RUSHrLocal(local', Clusters(disks'), disks', result', copies')
    BY <1>4
  <2>3. kind' = "RUSHr"
    BY <1>4
  <2> QED
    BY <1>4, <2>1, <2>2, <2>3, Zenon DEF RUSHTable, RUSHReady, RUSHBuilt, RUSHrLocal
<1> HIDE DEF cl
<1>5. ASSUME RUSHrCall PROVE Configured' /\ Selected' /\ RUSHTable'
  <2>1. /\ status = "ready" /\ status' = "placing" /\ result = <<>>
        /\ local' = [j |-> Len(table.clusters), remaining |-> copies]
        /\ UNCHANGED <<kind, disks, copies, table, result>>
    BY <1>5 DEF RUSHrCall, Call
  <2>2. Selected'
    <3>1. Len(result) <= copies
      BY <1>2, <2>1
    <3> QED
      BY <2>1, <3>1, SameSelected
  <2>3. RUSHrLocal(local', cl, disks, result', copies)
    <3>1. Len(result') = 0 /\ DOMAIN result' = {}
      BY <2>1
    <3> QED
      BY <1>2, <2>1, <3>1 DEF RUSHrLocal
  <2> QED
    BY <1>2, <1>4, <2>1, <2>2, <2>3, StaysConfigured
<1>6. ASSUME RUSHrOther PROVE Configured' /\ Selected' /\ RUSHTable'
  <2>1. /\ status \in {"ready", "placing"}
        /\ UNCHANGED <<kind, disks, copies, status, local, result>>
    BY <1>6 DEF RUSHrOther
  <2>2. PICK n \in {0} \cup {Len(l) : l \in Lists[kind]} :
          table' = [table EXCEPT !.choices = Identity(n)]
    BY <1>6 DEF RUSHrOther
  <2>3. n \in Nat
    BY <1>1, ListIs
  <2>4. RUSHReady(table', disks, copies)
    BY <1>2, <2>1, <2>2, <2>3
  <2>5. Selected'
    BY <2>1, SameSelected DEF Selected
  <2> QED
    BY <1>3, <1>4, <2>1, <2>4, <2>5, StaysConfigured
<1>7. ASSUME RUSHrStep PROVE Configured' /\ Selected' /\ RUSHTable'
  <2> DEFINE j == local.j
             before == ServersBefore(table.clusters, j)
             servers == Len(table.clusters[j])
             mandatory == Max({0, local.remaining - before})
  <2>1. /\ status = "placing" /\ local.remaining > 0
        /\ local = [j |-> j, remaining |-> local.remaining]
        /\ local.remaining \in Nat /\ local.remaining + Len(result) = copies
        /\ j \in Nat /\ j <= Len(cl) /\ j > 0
        /\ \A m \in DOMAIN result : \E q \in DOMAIN disks :
             q > ServersBefore(cl, j + 1) /\ result[m] = disks[q].id
    BY <1>3, <1>7 DEF RUSHrStep, Placing, RUSHrLocal
  <2>2. /\ j \in DOMAIN cl /\ servers \in Nat \ {0} /\ before \in Nat
        /\ before + servers <= Len(disks) /\ ServersBefore(cl, j + 1) = before + servers
        /\ copies <= servers /\ (j = 1 => before = 0) /\ before = ServersBefore(cl, j)
    <3>1. table.clusters = cl
      BY <1>2, <2>1
    <3> QED
      BY <1>2, <2>1, <3>1 DEF ClustersOf
  <2>3. PICK number \in mandatory .. local.remaining :
          IF number > 0 /\ ~(0 .. servers - 1 \subseteq DOMAIN table.choices)
            THEN Crash
            ELSE \E choice \in {f \in [0 .. number - 1 -> 0 .. servers - 1] :
                                  \A i \in DOMAIN f : f[i] < servers - i} :
                   LET drawn == Drawn(table.choices, number, servers, choice)
                       disk(i) == table.alldisks[before + drawn[servers - number + i - 1] + 1]
                   IN  /\ result' = result \o [i \in 1 .. number |-> disk(i).id]
                       /\ table' = [table EXCEPT
                                      !.choices = Restored(drawn, number, servers)]
                       /\ local' = [j |-> j - 1, remaining |-> local.remaining - number]
                       /\ UNCHANGED <<kind, disks, copies, status, lent>>
    BY <1>7, Zenon DEF RUSHrStep
  <2>4. CASE number > 0 /\ ~(0 .. servers - 1 \subseteq DOMAIN table.choices)
    <3>1. UNCHANGED <<kind, disks, copies, table, result>> /\ status' = "crashed"
      BY <2>3, <2>4 DEF Crash
    <3>2. Selected'
      BY <3>1, SameSelected
    <3> QED
      BY <1>2, <1>4, <2>1, <3>1, <3>2, StaysConfigured
  <2>5. CASE ~(number > 0 /\ ~(0 .. servers - 1 \subseteq DOMAIN table.choices))
    <3>1. PICK choice \in {f \in [0 .. number - 1 -> 0 .. servers - 1] :
                             \A i \in DOMAIN f : f[i] < servers - i} :
                 LET drawn == Drawn(table.choices, number, servers, choice)
                     disk(i) == table.alldisks[before + drawn[servers - number + i - 1] + 1]
                 IN  /\ result' = result \o [i \in 1 .. number |-> disk(i).id]
                     /\ table' = [table EXCEPT
                                    !.choices = Restored(drawn, number, servers)]
                     /\ local' = [j |-> j - 1, remaining |-> local.remaining - number]
                     /\ UNCHANGED <<kind, disks, copies, status, lent>>
      BY <2>3, <2>5, Zenon
    <3> DEFINE drawn == Drawn(table.choices, number, servers, choice)
               at(i) == before + drawn[servers - number + i - 1] + 1
               new == [i \in 1 .. number |-> disks[at(i)].id]
               left == local.remaining - number
    <3>2. /\ result' = result \o new
          /\ table' = [table EXCEPT !.choices = Restored(drawn, number, servers)]
          /\ local' = [j |-> j - 1, remaining |-> left]
          /\ UNCHANGED <<kind, disks, copies, status, lent>>
      BY <1>2, <2>1, <3>1
    <3>3. /\ number \in Nat /\ number <= local.remaining /\ left \in Nat
          /\ number \in 0 .. servers /\ (j = 1 => left = 0)
      <4> DEFINE x == local.remaining
                 y == mandatory
      <4>1. y \in Nat /\ (j = 1 => y = x) /\ x \in Nat
        BY <2>1, <2>2, MandatoryIs
      <4> HIDE DEF y
      <4>2. number \in y .. x
        BY DEF y
      <4>3. x <= copies /\ copies \in Nat
        BY <1>2, <1>3, <2>1
      <4> HIDE DEF x, j, servers
      <4>4. number \in Nat /\ number <= x /\ x - number \in Nat /\ (j = 1 => x - number = 0)
        BY <4>1, <4>2
      <4>5. number <= servers
        BY <2>2, <4>1, <4>3, <4>4
      <4>6. number \in 0 .. servers
        BY <2>2, <4>4, <4>5
      <4> QED
        BY <4>4, <4>6 DEF x
    <3>4. PICK N \in Nat : table.choices = Identity(N)
      BY <1>2, <2>1
    <3>5. /\ \A i \in 1 .. number : drawn[servers - number + i - 1] \in 0 .. servers - 1
          /\ \A i, m \in 1 .. number :
               drawn[servers - number + i - 1] = drawn[servers - number + m - 1] => i = m
          /\ Restored(drawn, number, servers) = Identity(N)
      <4>1. /\ choice \in [0 .. number - 1 -> 0 .. servers - 1]
            /\ \A i \in 0 .. number - 1 : choice[i] < servers - i
        <5>1. choice \in [0 .. number - 1 -> 0 .. servers - 1]
          OBVIOUS
        <5>2. \A i \in DOMAIN choice : choice[i] < servers - i
          OBVIOUS
        <5> QED
          BY <5>1, <5>2
      <4>2. number > 0 => 0 .. servers - 1 \subseteq 0 .. N - 1
        BY <2>5, <3>4 DEF Identity
      <4> DEFINE n == servers
                 w == Drawn(Identity(N), number, n, choice)
      <4>3. /\ n \in Nat /\ number \in 0 .. n
            /\ number > 0 => 0 .. n - 1 \subseteq 0 .. N - 1
            /\ choice \in [0 .. number - 1 -> 0 .. n - 1]
            /\ \A i \in 0 .. number - 1 : choice[i] < n - i
        BY <2>2, <3>3, <4>1, <4>2
      <4>4. drawn = w
        BY <3>4
      <4> HIDE DEF n
      <4>5. \A i \in 1 .. number : w[n - number + i - 1] \in 0 .. n - 1
        BY <4>3, DrawIs
      <4>6. \A i, m \in 1 .. number : w[n - number + i - 1] = w[n - number + m - 1] => i = m
        BY <4>3, DrawIs
      <4>7. Restored(w, number, n) = Identity(N)
        BY <4>3, DrawIs
      <4> HIDE DEF w, drawn
      <4> QED
        BY <4>4, <4>5, <4>6, <4>7 DEF n
    <3> HIDE DEF drawn
    <3>6. ASSUME NEW i \in 1 .. number
          PROVE  at(i) \in DOMAIN disks /\ at(i) > before /\ at(i) <= before + servers
                 /\ disks[at(i)].id \in Ids(disks) /\ disks[at(i)].id \in Int
      <4> DEFINE v == drawn[servers - number + i - 1]
      <4>1. v \in 0 .. servers - 1
        BY <3>5
      <4> HIDE DEF v, servers, before
      <4>2. v + 1 \in 1 .. servers /\ before \in Nat /\ before + v + 1 > before
            /\ before + v + 1 <= before + servers
        BY <2>2, <4>1
      <4>3. before + v + 1 \in 1 .. Len(disks)
        <5>1. Len(disks) \in Nat
          BY <1>1, <1>2, <2>1, ListIs
        <5> QED
          BY <2>2, <4>1, <5>1
      <4>4. DOMAIN disks = 1 .. Len(disks) /\ \A n \in DOMAIN disks : disks[n].id \in Int
        BY <1>1, <1>2, <2>1, ListIs
      <4> QED
        BY <4>2, <4>3, <4>4 DEF v, Ids
    <3>7. \A m, n \in DOMAIN disks : disks[m].id = disks[n].id => m = n
      BY <1>1, <1>2, <2>1, ListIs
    <3>8. \A i, m \in 1 .. number : at(i) = at(m) => i = m
      <4> TAKE i, m \in 1 .. number
      <4> DEFINE v == drawn[servers - number + i - 1]
                 w == drawn[servers - number + m - 1]
      <4>0. v = w => i = m
        BY <3>5
      <4>1. v \in 0 .. servers - 1 /\ w \in 0 .. servers - 1
        BY <3>5
      <4> HIDE DEF v, w, before, servers
      <4>2. before + v + 1 = before + w + 1 => v = w
        BY <2>2, <4>1
      <4> QED
        BY <4>0, <4>2 DEF v, w
    <3> HIDE DEF at
    <3>9. new \in [1 .. number -> Int] /\ \A i \in 1 .. number : new[i] = disks[at(i)].id
      BY <3>6
    <3> HIDE DEF new
    <3>10. \A i, m \in 1 .. number : new[i] = new[m] => i = m
      <4> SUFFICES ASSUME NEW i \in 1 .. number, NEW m \in 1 .. number, new[i] = new[m]
                   PROVE  i = m
        OBVIOUS
      <4>1. disks[at(i)].id = disks[at(m)].id
        BY <3>9
      <4>2. at(i) = at(m)
        BY <3>6, <3>7, <4>1
      <4> QED
        BY <3>8, <4>2
    <3>11. \A i \in 1 .. number : new[i] \notin ToSet(result)
      <4> SUFFICES ASSUME NEW i \in 1 .. number, NEW m \in DOMAIN result, new[i] = result[m]
                   PROVE  FALSE
        BY DEF ToSet
      <4>1. PICK q \in DOMAIN disks : q > before + servers /\ result[m] = disks[q].id
        BY <2>1, <2>2
      <4> DEFINE p == at(i)
      <4>2. p \in DOMAIN disks /\ p <= before + servers /\ new[i] = disks[p].id
        BY <3>6, <3>9
      <4> HIDE DEF p
      <4>3. p = q
        BY <3>7, <4>1, <4>2
      <4>4. p \in Nat
        <5>1. DOMAIN disks = 1 .. Len(disks)
          BY <1>1, <1>2, <2>1, ListIs
        <5> QED
          BY <4>2, <5>1
      <4> DEFINE e == before + servers
      <4>5. e \in Nat
        <5>1. before \in Nat /\ servers \in Nat
          BY <2>2
        <5> HIDE DEF before, servers
        <5> QED
          BY <5>1
      <4> HIDE DEF e
      <4>6. p <= e /\ q > e
        BY <4>1, <4>2 DEF e
      <4> QED
        BY <4>3, <4>4, <4>5, <4>6
    <3>12. /\ result' \in Seq(Int) /\ Len(result') = Len(result) + number
           /\ \A m \in DOMAIN result' :
                (m \in DOMAIN result /\ result'[m] = result[m])
                  \/ \E i \in 1 .. number : result'[m] = new[i]
           /\ ToSet(result') = ToSet(result) \cup {new[i] : i \in 1 .. number}
           /\ IsInjective(result) => IsInjective(result')
      <4> DEFINE r == result
                 w == r \o new
      <4>1. r \in Seq(Int) /\ number \in Nat /\ new \in [1 .. number -> Int]
        BY <1>3, <2>1, <3>3, <3>9
      <4>2. \A i \in 1 .. number : new[i] \notin ToSet(r)
        BY <3>11
      <4>3. result' = w
        BY <3>2
      <4> HIDE DEF r
      <4>4. /\ w \in Seq(Int) /\ Len(w) = Len(r) + number
            /\ \A m \in DOMAIN w :
                 (m \in DOMAIN r /\ w[m] = r[m]) \/ \E i \in 1 .. number : w[m] = new[i]
            /\ ToSet(w) = ToSet(r) \cup {new[i] : i \in 1 .. number}
        BY <4>1, AppendSome
      <4>5. IsInjective(r) => IsInjective(w)
        BY <3>10, <4>1, <4>2, AppendSome
      <4> HIDE DEF w
      <4> QED
        BY <4>3, <4>4, <4>5 DEF r
    <3>13. left + Len(result') = copies /\ Len(result') <= copies
      <4> DEFINE x == local.remaining
                 y == Len(result)
      <4>1. x \in Nat /\ y \in Nat /\ x + y = copies /\ Len(result') = y + number
            /\ left = x - number
        BY <1>3, <2>1, <3>12
      <4> HIDE DEF x, y, left
      <4> QED
        BY <3>3, <4>1
    <3>14. Selected'
      <4>1. IsInjective(result) /\ ToSet(result) \subseteq Ids(disks)
        BY <1>1, KindsDiffer DEF Selected
      <4>2. ToSet(result') \subseteq Ids(disks)
        BY <3>6, <3>9, <3>12, <4>1
      <4>3. status' = "placing" /\ disks' = disks /\ copies' = copies
        BY <2>1, <3>2
      <4> QED
        BY <3>12, <3>13, <4>1, <4>2, <4>3 DEF Selected
    <3>15. RUSHrLocal(local', cl, disks, result', copies)
      <4> DEFINE i == j - 1
      <4>1. i \in Nat /\ i <= Len(cl) /\ (left > 0 => i > 0) /\ i + 1 = j
        <5>1. j \in Nat /\ j <= Len(cl) /\ j > 0 /\ Len(cl) \in Nat
          BY <1>2, <2>1
        <5>2. left \in Nat /\ (j = 1 => left = 0)
          BY <3>3
        <5> HIDE DEF j, left
        <5> QED
          BY <5>1, <5>2
      <4> HIDE DEF i, left, j
      <4>2. local' = [j |-> i, remaining |-> left] /\ local'.j = i /\ local'.remaining = left
        BY <3>2 DEF i
      <4>3. ASSUME NEW m \in DOMAIN result'
            PROVE  \E q \in DOMAIN disks : q > before /\ result'[m] = disks[q].id
        <5>1. CASE m \in DOMAIN result /\ result'[m] = result[m]
          <6>1. PICK q \in DOMAIN disks : q > before + servers /\ result[m] = disks[q].id
            BY <2>1, <2>2, <5>1
          <6>2. q \in Nat
            <7>1. DOMAIN disks = 1 .. Len(disks)
              BY <1>1, <1>2, <2>1, ListIs
            <7> QED
              BY <7>1
          <6>3. q > before
            <7> HIDE DEF before, servers
            <7> QED
              BY <2>2, <6>1, <6>2
          <6> QED
            BY <5>1, <6>1, <6>3
        <5>2. CASE \E n \in 1 .. number : result'[m] = new[n]
          BY <3>6, <3>9, <5>2
        <5> QED
          BY <3>12, <5>1, <5>2
      <4>4. before = ServersBefore(cl, i + 1)
        BY <2>2, <4>1
      <4> HIDE DEF before
      <4> QED
        BY <3>3, <3>13, <4>1, <4>2, <4>3, <4>4 DEF RUSHrLocal
    <3>16. RUSHReady(table', disks, copies)
      BY <1>2, <2>1, <3>2, <3>4, <3>5
    <3> QED
      BY <1>2, <1>4, <2>1, <3>2, <3>14, <3>15, <3>16, StaysConfigured
  <2> QED
    BY <2>4, <2>5
<1>8. ASSUME Placing("RUSHr"), local.remaining = 0, Finish
      PROVE  Configured' /\ Selected' /\ RUSHTable'
  <2>1. /\ status = "placing" /\ status' = "ready"
        /\ UNCHANGED <<kind, disks, copies, table, result>>
    BY <1>8 DEF Placing, Finish
  <2>2. Len(result) = copies
    BY <1>3, <1>8, <2>1 DEF RUSHrLocal
  <2>3. Selected'
    BY <2>1, <2>2, SameSelected
  <2> QED
    BY <1>2, <1>4, <2>1, <2>3, StaysConfigured
<1> QED
  BY <1>5, <1>6, <1>7, <1>8

--------------------------------------------------------------------------------
(* RUSH: the tree of RUSHt.                                                *)

\* A level has at least one node.
Nonempty(nodes) == Len(nodes) \in Nat \ {0} /\ DOMAIN nodes = 1 .. Len(nodes)

\* A level above has half of the nodes, the odd one included.
LEMMA ParentsAre ==
  ASSUME NEW nodes, Nonempty(nodes)
  PROVE  /\ Nonempty(Parents(nodes))
         /\ Len(nodes) > 1 => Len(Parents(nodes)) < Len(nodes)
         /\ Len(nodes) = 1 => Len(Parents(nodes)) = 1
         /\ \A i \in DOMAIN Parents(nodes) :
              LET node == Parents(nodes)[i]
              IN  /\ node = [left |-> node.left, right |-> node.right, weight |-> node.weight]
                  /\ \E m \in DOMAIN nodes : node.left = nodes[m]
                  /\ node.right = None \/ \E m \in DOMAIN nodes : node.right = nodes[m]
<1> DEFINE n == Len(nodes)
           k == (n + 1) \div 2
           up == Parents(nodes)
           E == {up[i] : i \in 1 .. k}
<1>1. n \in Nat \ {0} /\ DOMAIN nodes = 1 .. n
  BY DEF Nonempty
<1>2. DOMAIN up = 1 .. k /\ up = [i \in 1 .. k |-> up[i]]
  BY DEF Parents
<1>3. ASSUME NEW i \in 1 .. k
      PROVE  /\ up[i] = [left |-> up[i].left, right |-> up[i].right, weight |-> up[i].weight]
             /\ \E m \in DOMAIN nodes : up[i].left = nodes[m]
             /\ up[i].right = None \/ \E m \in DOMAIN nodes : up[i].right = nodes[m]
  <2>1. up[i] = IF 2 * i <= n
                  THEN [left |-> nodes[2 * i - 1], right |-> nodes[2 * i],
                        weight |-> Plus(nodes[2 * i - 1].weight, nodes[2 * i].weight)]
                  ELSE [left |-> nodes[2 * i - 1], right |-> None,
                        weight |-> nodes[2 * i - 1].weight]
    BY DEF Parents
  <2>2. 2 * i - 1 \in 1 .. n /\ (2 * i <= n => 2 * i \in 1 .. n)
    BY <1>1
  <2> DEFINE a == 2 * i - 1
             b == 2 * i
             w == Plus(nodes[a].weight, nodes[b].weight)
  <2> HIDE DEF w
  <2>3. CASE b <= n
    <3>1. up[i] = [left |-> nodes[a], right |-> nodes[b], weight |-> w]
      BY <2>1, <2>3 DEF w
    <3>2. a \in DOMAIN nodes /\ b \in DOMAIN nodes
      BY <1>1, <2>2, <2>3
    <3> HIDE DEF a, b, up
    <3> QED
      BY <3>1, <3>2
  <2>4. CASE ~(b <= n)
    <3>1. up[i] = [left |-> nodes[a], right |-> None, weight |-> nodes[a].weight]
      BY <2>1, <2>4
    <3>2. a \in DOMAIN nodes
      BY <1>1, <2>2
    <3> HIDE DEF a, b, up
    <3> QED
      BY <3>1, <3>2
  <2> QED
    BY <2>3, <2>4
<1> HIDE DEF up
<1>4. k \in Nat \ {0} /\ (n > 1 => k < n) /\ (n = 1 => k = 1)
  <2> HIDE DEF n
  <2> QED
    BY <1>1
<1> HIDE DEF k, n
<1>5. Len(up) = k
  <2>1. \A i \in 1 .. k : up[i] \in E
    OBVIOUS
  <2> HIDE DEF E
  <2>2. up \in Seq(E)
    BY <1>2, <1>4, <2>1
  <2> QED
    BY <1>2, <1>4, <2>2
<1>6. Nonempty(up)
  BY <1>2, <1>4, <1>5 DEF Nonempty
<1> QED
  BY <1>2, <1>3, <1>4, <1>5, <1>6 DEF up, n

\* The first levels of the tree
Climb(f, n, t) ==
  /\ DOMAIN f = 0 .. n /\ f[0] = Leaves(t)
  /\ \A m \in 0 .. n - 1 : f[m + 1] = Parents(f[m])

\* There are levels without end, whose function Root defines recursively.
LEMMA LevelsExist ==
  ASSUME NEW t
  PROVE  LevelsOf([n \in Nat |-> (CHOOSE f : Climb(f, n, t))[n]], t)
<1> DEFINE climb(n) == CHOOSE f : Climb(f, n, t)
           Good == {n \in Nat : \E f : Climb(f, n, t)}
<1>1. 0 \in Good
  <2> DEFINE f == [n \in 0 .. 0 |-> Leaves(t)]
  <2>1. Climb(f, 0, t)
    BY DEF Climb
  <2> QED
    BY <2>1
<1>2. ASSUME NEW n \in Good PROVE n + 1 \in Good
  <2>1. PICK f : Climb(f, n, t)
    OBVIOUS
  <2> DEFINE g == [m \in 0 .. n + 1 |-> IF m = n + 1 THEN Parents(f[n]) ELSE f[m]]
  <2>2. DOMAIN g = 0 .. n + 1 /\ g[n + 1] = Parents(f[n]) /\ \A m \in 0 .. n : g[m] = f[m]
    OBVIOUS
  <2> HIDE DEF g
  <2>3. \A m \in 0 .. (n + 1) - 1 : g[m + 1] = Parents(g[m])
    <3> TAKE m \in 0 .. (n + 1) - 1
    <3>1. CASE m = n
      <4>1. g[n] = f[n]
        BY <2>2
      <4> QED
        BY <2>2, <3>1, <4>1
    <3>2. CASE m # n
      <4>1. m \in 0 .. n - 1 /\ m \in 0 .. n /\ m + 1 \in 0 .. n
        BY <3>2
      <4> QED
        BY <2>1, <2>2, <4>1 DEF Climb
    <3> QED
      BY <3>1, <3>2
  <2>4. Climb(g, n + 1, t)
    BY <2>1, <2>2, <2>3 DEF Climb
  <2> QED
    BY <2>4
<1>3. Good = Nat
  <2>1. Good \in SUBSET Nat
    OBVIOUS
  <2> HIDE DEF Good
  <2> QED
    BY <1>1, <1>2, <2>1, InductionSet
<1>4. ASSUME NEW n \in Nat PROVE Climb(climb(n), n, t)
  <2>1. \E f : Climb(f, n, t)
    BY <1>3
  <2> QED
    BY <2>1
<1> HIDE DEF climb
<1> DEFINE Same == {n \in Nat : \A k \in Nat : n <= k => climb(k)[n] = climb(n)[n]}
<1>5. 0 \in Same
  BY <1>4 DEF Climb
<1>6. ASSUME NEW n \in Same PROVE n + 1 \in Same
  <2> SUFFICES ASSUME NEW k \in Nat, n + 1 <= k PROVE climb(k)[n + 1] = climb(n + 1)[n + 1]
    OBVIOUS
  <2>1. n \in 0 .. k - 1 /\ n \in 0 .. (n + 1) - 1 /\ n <= k /\ n <= n + 1 /\ n + 1 \in Nat
    OBVIOUS
  <2>2. climb(k)[n + 1] = Parents(climb(k)[n])
    BY <1>4, <2>1 DEF Climb
  <2>3. climb(n + 1)[n + 1] = Parents(climb(n + 1)[n])
    BY <1>4, <2>1 DEF Climb
  <2>4. climb(k)[n] = climb(n)[n] /\ climb(n + 1)[n] = climb(n)[n]
    BY <2>1
  <2> QED
    BY <2>2, <2>3, <2>4
<1>7. Same = Nat
  <2>1. Same \in SUBSET Nat
    OBVIOUS
  <2> HIDE DEF Same
  <2> QED
    BY <1>5, <1>6, <2>1, InductionSet
<1> DEFINE level == [n \in Nat |-> climb(n)[n]]
<1>8. level[0] = Leaves(t)
  BY <1>4 DEF Climb
<1>9. ASSUME NEW n \in Nat PROVE level[n + 1] = Parents(level[n])
  <2>1. n \in 0 .. (n + 1) - 1 /\ n <= n + 1 /\ n + 1 \in Nat
    OBVIOUS
  <2>2. climb(n + 1)[n + 1] = Parents(climb(n + 1)[n])
    BY <1>4, <2>1 DEF Climb
  <2>3. climb(n + 1)[n] = climb(n)[n]
    BY <1>7, <2>1
  <2> QED
    BY <2>1, <2>2, <2>3
<1>10. LevelsOf(level, t)
  <2> HIDE DEF level
  <2>1. DOMAIN level = Nat
    BY DEF level
  <2> QED
    BY <1>8, <1>9, <2>1 DEF LevelsOf
<1> QED
  BY <1>10 DEF climb

\* Root is the one node of a level.
LEMMA RootIs ==
  ASSUME NEW t, Nonempty(t.clusters)
  PROVE  RUSHtLocal([node |-> Root(t)], t)
<1> DEFINE Up(g) == [n \in Nat |-> IF n = 0 THEN Leaves(t) ELSE Parents(g[n - 1])]
           level == CHOOSE g : g = Up(g)
           K == Len(t.clusters)
           top == CHOOSE n \in 0 .. K : Len(level[n]) = 1
<1>1. Root(t) = level[top][1]
  BY DEF Root
<1>2. level = Up(level)
  <2> DEFINE f == [n \in Nat |-> (CHOOSE f : Climb(f, n, t))[n]]
  <2>1. DOMAIN f = Nat /\ LevelsOf(f, t)
    BY LevelsExist
  <2> HIDE DEF f
  <2>2. f = Up(f)
    <3>1. ASSUME NEW n \in Nat PROVE f[n] = Up(f)[n]
      <4>1. CASE n = 0
        BY <2>1, <4>1 DEF LevelsOf
      <4>2. CASE n # 0
        <5>1. n - 1 \in Nat /\ (n - 1) + 1 = n
          BY <4>2
        <5>2. f[n] = Parents(f[n - 1])
          BY <2>1, <5>1 DEF LevelsOf
        <5> QED
          BY <4>2, <5>2
      <4> QED
        BY <4>1, <4>2
    <3> HIDE DEF Up
    <3>2. DOMAIN Up(f) = Nat /\ Up(f) = [n \in Nat |-> Up(f)[n]]
      BY DEF Up
    <3>3. f = [n \in Nat |-> f[n]]
      BY <2>1 DEF f
    <3> QED
      BY <3>1, <3>2, <3>3
  <2> HIDE DEF Up
  <2> QED
    BY <2>2
<1> HIDE DEF level
<1>3. LevelsOf(level, t)
  <2>1. DOMAIN level = Nat /\ level[0] = Leaves(t)
    BY <1>2
  <2>2. ASSUME NEW n \in Nat PROVE level[n + 1] = Parents(level[n])
    <3>1. n + 1 \in Nat /\ n + 1 # 0 /\ (n + 1) - 1 = n
      OBVIOUS
    <3> QED
      BY <1>2, <3>1
  <2> QED
    BY <2>1, <2>2 DEF LevelsOf
<1>4. Nonempty(level[0]) /\ Len(level[0]) = K
  <2> DEFINE E == {Leaves(t)[j] : j \in 1 .. K}
  <2>1. K \in Nat \ {0} /\ DOMAIN t.clusters = 1 .. K
    BY DEF Nonempty
  <2> HIDE DEF K
  <2>2. DOMAIN Leaves(t) = 1 .. K /\ Leaves(t) = [j \in 1 .. K |-> Leaves(t)[j]]
    BY <2>1 DEF Leaves
  <2>3. \A j \in 1 .. K : Leaves(t)[j] \in E
    OBVIOUS
  <2> HIDE DEF E
  <2>4. Leaves(t) \in Seq(E)
    BY <2>1, <2>2, <2>3
  <2>5. Len(Leaves(t)) = K
    BY <2>1, <2>2, <2>4
  <2> QED
    BY <1>3, <2>1, <2>2, <2>5 DEF LevelsOf, Nonempty
<1>5. K \in Nat \ {0}
  BY DEF Nonempty
<1> HIDE DEF K
<1> DEFINE size(n) == Len(level[n])
           Good == {n \in Nat : Nonempty(level[n]) /\ (size(n) = 1 \/ size(n) + n <= K)}
<1>6. 0 \in Good
  BY <1>4, <1>5
<1>7. ASSUME NEW n \in Good PROVE n + 1 \in Good
  <2>1. n \in Nat /\ Nonempty(level[n]) /\ (size(n) = 1 \/ size(n) + n <= K)
    OBVIOUS
  <2>2. level[n + 1] = Parents(level[n])
    BY <1>3, <2>1 DEF LevelsOf
  <2>3. /\ Nonempty(level[n + 1])
        /\ size(n) > 1 => size(n + 1) < size(n)
        /\ size(n) = 1 => size(n + 1) = 1
    BY <2>1, <2>2, ParentsAre
  <2>4. size(n) \in Nat \ {0} /\ size(n + 1) \in Nat \ {0}
    BY <2>1, <2>3 DEF Nonempty
  <2> DEFINE a == size(n)
             b == size(n + 1)
  <2>5. b = 1 \/ b + (n + 1) <= K
    <3>1. /\ a \in Nat \ {0} /\ b \in Nat \ {0} /\ (a = 1 \/ a + n <= K)
          /\ (a > 1 => b < a) /\ (a = 1 => b = 1)
      BY <2>1, <2>3, <2>4
    <3> HIDE DEF a, b
    <3> QED
      BY <1>5, <2>1, <3>1
  <2> DEFINE m == n + 1
  <2>61. m \in Nat
    BY <2>1
  <2>62. Nonempty(level[m])
    BY <2>3
  <2>63. size(m) = 1 \/ size(m) + m <= K
    BY <2>5
  <2> HIDE DEF m
  <2>6. m \in Nat /\ Nonempty(level[m]) /\ (size(m) = 1 \/ size(m) + m <= K)
    BY <2>61, <2>62, <2>63
  <2>7. m \in Good
    BY <2>6
  <2> QED
    BY <2>7 DEF m
<1>8. Good = Nat
  <2>1. Good \in SUBSET Nat
    OBVIOUS
  <2> HIDE DEF Good
  <2> QED
    BY <1>6, <1>7, <2>1, InductionSet
<1>9. Nonempty(level[K]) /\ size(K) = 1
  <2>1. Nonempty(level[K]) /\ (size(K) = 1 \/ size(K) + K <= K)
    BY <1>5, <1>8
  <2>2. size(K) \in Nat \ {0}
    BY <2>1 DEF Nonempty
  <2> DEFINE a == size(K)
  <2>3. a \in Nat \ {0} /\ (a = 1 \/ a + K <= K)
    BY <2>1, <2>2
  <2> HIDE DEF a
  <2>4. a = 1
    BY <1>5, <2>3
  <2> QED
    BY <2>1, <2>4 DEF a
<1>10. top \in 0 .. K /\ Len(level[top]) = 1
  <2>1. K \in 0 .. K /\ Len(level[K]) = 1
    BY <1>5, <1>9
  <2> QED
    BY <2>1
<1> HIDE DEF top
<1>11. top \in Nat /\ 1 \in DOMAIN level[top]
  <2>1. top \in Nat
    BY <1>5, <1>10
  <2>2. Nonempty(level[top])
    BY <1>8, <2>1
  <2> QED
    BY <1>10, <2>1, <2>2 DEF Nonempty
<1> QED
  BY <1>1, <1>3, <1>11 DEF RUSHtLocal

\* The first prime above the clusters, and those after it
LEMMA LowestPrimeIs ==
  ASSUME NEW k \in Kinds, k \in RUSHKinds, NEW l \in Lists[k], NEW t, t.clusters = Clusters(l),
         NEW n \in LowestPrime(t) .. Len(Primes), NEW j \in DOMAIN Clusters(l)
  PROVE  n \in DOMAIN Primes /\ Len(Clusters(l)[j]) < Primes[n]
<1> DEFINE cl == Clusters(l)
           S == {m \in DOMAIN Primes : \A i \in DOMAIN cl : Primes[m] > Len(cl[i])}
           N == Len(Primes)
           h == (N \div 2) + 1
           low == LowestPrime(t)
<1>1. /\ N \in Nat /\ DOMAIN Primes = 1 .. N
      /\ \A m \in 1 .. N : Primes[m] \in Nat
      /\ \A m, i \in 1 .. N : m < i => Primes[m] < Primes[i]
  <2>1. Primes \in Seq(Nat) /\ \A m, i \in DOMAIN Primes : m < i => Primes[m] < Primes[i]
    BY PrimesAssumption
  <2> QED
    BY <2>1
<1>2. h \in 1 .. N
  <2>1. N > 0 /\ N % 2 = 0
    BY PrimesAssumption
  <2> HIDE DEF N
  <2> QED
    BY <1>1, <2>1
<1>3. \A i \in DOMAIN cl : Len(cl[i]) \in Nat
  BY ClustersAre DEF ClustersOf
<1>4. h \in S
  <2>1. h \in DOMAIN Primes /\ h >= (Len(Primes) \div 2) + 1 /\ h \in Nat
    BY <1>1, <1>2
  <2> DEFINE g == h
  <2>2. g \in DOMAIN Primes /\ g >= (Len(Primes) \div 2) + 1 /\ g = h
    BY <2>1
  <2> HIDE DEF g
  <2>3. \A i \in DOMAIN cl : Len(cl[i]) < Primes[g]
    BY <2>2, ClusterIsSmall
  <2>4. Primes[g] \in Nat
    BY <1>1, <2>2
  <2>5. \A i \in DOMAIN cl : Primes[g] > Len(cl[i])
    BY <1>3, <2>3, <2>4
  <2>6. g \in S
    BY <2>2, <2>5
  <2> QED
    BY <2>2, <2>6
<1>5. low \in S
  <2>1. S \in SUBSET Nat /\ S # {}
    BY <1>1, <1>4
  <2>2. low = Min(S)
    BY DEF LowestPrime
  <2> HIDE DEF S, low
  <2> QED
    BY <2>1, <2>2, MinIs
<1>6. low \in 1 .. N /\ Primes[low] > Len(cl[j])
  BY <1>1, <1>5
<1> HIDE DEF low, S
<1>7. n \in 1 .. N /\ n >= low
  <2>1. n \in low .. N
    BY DEF low
  <2> HIDE DEF N
  <2> QED
    BY <1>1, <1>6, <2>1
<1>8. Primes[low] <= Primes[n]
  <2>1. CASE n = low
    BY <1>1, <1>7, <2>1
  <2>2. CASE n # low
    <3>1. low < n
      BY <1>6, <1>7, <2>2
    <3> HIDE DEF N
    <3> QED
      BY <1>1, <1>6, <1>7, <3>1
  <2> QED
    BY <2>1, <2>2
<1>9. Primes[low] \in Nat /\ Primes[n] \in Nat /\ Len(cl[j]) \in Nat
  BY <1>1, <1>3, <1>6, <1>7
<1> QED
  BY <1>1, <1>6, <1>7, <1>8, <1>9

\* The steps of RUSHt
LEMMA RUSHtSelects ==
  ASSUME Configured, Selected, RUSHTable, kind = "RUSHt",
         RUSHtCall \/ RUSHtDescend \/ RUSHtPlace
  PROVE  Configured' /\ Selected' /\ RUSHTable'
<1> DEFINE cl == Clusters(disks)
<1>1. kind \in Kinds /\ kind \in RUSHKinds /\ kind # "RUSHp" /\ kind # "RUSHr"
  BY DEF Configured, RUSHKinds
<1>2. ASSUME status \in {"ready", "placing"}
      PROVE  /\ RUSHReady(table, disks, copies) /\ disks \in Lists[kind] /\ copies \in Nat
             /\ \A j \in DOMAIN cl : copies <= Len(cl[j])
             /\ ClustersOf(cl, disks) /\ Nonempty(cl)
             /\ table.clusters = cl /\ table.alldisks = disks
  <2>1. RUSHReady(table, disks, copies)
    BY <1>1, <1>2 DEF RUSHTable
  <2>2. disks \in Lists[kind] /\ copies \in Nat
    BY <1>2, BoundsAssumption DEF Configured
  <2>3. ClustersOf(cl, disks) /\ Len(cl) > 0
    BY <1>1, <2>2, ClustersAre
  <2>4. Nonempty(cl)
    BY <2>3 DEF ClustersOf, Nonempty
  <2> QED
    BY <2>1, <2>2, <2>3, <2>4, ReadyIs
<1>3. ASSUME status = "placing"
      PROVE  RUSHtLocal(local, table) /\ result = <<>>
  BY <1>1, <1>3 DEF RUSHTable
<1>4. ASSUME status' \in {"ready", "placing", "crashed"},
             UNCHANGED <<kind, disks, copies, table>>, RUSHReady(table, disks, copies),
             status' = "placing" => RUSHtLocal(local', table) /\ result' = <<>>
      PROVE  RUSHTable'
  <2>1. RUSHReady(table', disks', copies')
    BY <1>4
  <2>2. status' = "placing" => RUSHtLocal(local', table') /\ result' = <<>>
    BY <1>4
  <2>3. kind' = "RUSHt"
    BY <1>4
  <2> QED
    BY <1>4, <2>1, <2>2, <2>3, Zenon
       DEF RUSHTable, RUSHReady, RUSHBuilt, RUSHtLocal, LevelsOf, Leaves
<1> HIDE DEF cl
<1>5. ASSUME RUSHtCall PROVE Configured' /\ Selected' /\ RUSHTable'
  <2>1. /\ status = "ready" /\ status' = "placing" /\ result = <<>>
        /\ local' = [node |-> Root(table)]
        /\ UNCHANGED <<kind, disks, copies, table, result>>
    BY <1>5 DEF RUSHtCall, Call
  <2>2. Selected'
    <3>1. Len(result) <= copies
      BY <1>2, <2>1
    <3> QED
      BY <2>1, <3>1, SameSelected
  <2>3. RUSHtLocal(local', table)
    BY <1>2, <2>1, RootIs
  <2> QED
    BY <1>2, <1>4, <2>1, <2>2, <2>3, StaysConfigured
<1>6. ASSUME status = "placing"
      PROVE  LET node == local.node
             IN  /\ "cluster" \in DOMAIN node => node.cluster \in DOMAIN cl
                 /\ "left" \in DOMAIN node =>
                      /\ RUSHtLocal([node |-> node.left], table)
                      /\ node.right # None => RUSHtLocal([node |-> node.right], table)
  <2> DEFINE node == local.node
  <2>1. PICK level : LevelsOf(level, table)
                     /\ \E n \in Nat : \E i \in DOMAIN level[n] : node = level[n][i]
    BY <1>3, <1>6 DEF RUSHtLocal
  <2>2. PICK n \in Nat : \E i \in DOMAIN level[n] : node = level[n][i]
    BY <2>1
  <2>3. PICK i \in DOMAIN level[n] : node = level[n][i]
    BY <2>2
  <2> HIDE DEF node
  <2>4. table.clusters = cl /\ Nonempty(cl)
    BY <1>2, <1>6
  <2>5. CASE n = 0
    <3>1. level[0] = [j \in DOMAIN cl |-> [cluster |-> j, weight |-> table.mPrime[j]]]
      BY <2>1, <2>4 DEF LevelsOf, Leaves
    <3>2. i \in DOMAIN cl /\ node = [cluster |-> i, weight |-> table.mPrime[i]]
      BY <2>3, <2>5, <3>1
    <3>3. node.cluster = i /\ "left" \notin DOMAIN node
      BY <3>2
    <3> QED
      BY <3>2, <3>3 DEF node
  <2>6. CASE n # 0
    <3> DEFINE below == level[n - 1]
    <3>1. n - 1 \in Nat /\ (n - 1) + 1 = n
      BY <2>6
    <3>2. level[n] = Parents(below)
      BY <2>1, <3>1 DEF LevelsOf
    <3>3. Nonempty(below)
      <4> DEFINE Good == {m \in Nat : Nonempty(level[m])}
      <4>1. 0 \in Good
        <5> DEFINE E == {Leaves(table)[j] : j \in 1 .. Len(cl)}
        <5>1. Len(cl) \in Nat \ {0} /\ DOMAIN Leaves(table) = 1 .. Len(cl)
              /\ Leaves(table) = [j \in 1 .. Len(cl) |-> Leaves(table)[j]]
          BY <2>4 DEF Leaves, Nonempty
        <5>2. \A j \in 1 .. Len(cl) : Leaves(table)[j] \in E
          OBVIOUS
        <5> HIDE DEF E
        <5>3. Leaves(table) \in Seq(E)
          BY <5>1, <5>2
        <5>4. Nonempty(Leaves(table))
          BY <5>1, <5>3 DEF Nonempty
        <5> QED
          BY <2>1, <5>4 DEF LevelsOf
      <4>2. ASSUME NEW m \in Good PROVE m + 1 \in Good
        <5>1. level[m + 1] = Parents(level[m])
          BY <2>1 DEF LevelsOf
        <5> QED
          BY <5>1, ParentsAre
      <4>3. Good \in SUBSET Nat
        OBVIOUS
      <4>4. Good = Nat
        <5> HIDE DEF Good
        <5> QED
          BY <4>1, <4>2, <4>3, InductionSet
      <4> QED
        BY <3>1, <4>4
    <3> HIDE DEF below
    <3>4. /\ node = [left |-> node.left, right |-> node.right, weight |-> node.weight]
          /\ \E m \in DOMAIN below : node.left = below[m]
          /\ node.right = None \/ \E m \in DOMAIN below : node.right = below[m]
      <4>1. i \in DOMAIN Parents(below) /\ node = Parents(below)[i]
        BY <2>3, <3>2
      <4> QED
        BY <3>3, <4>1, ParentsAre
    <3>5. "cluster" \notin DOMAIN node
      BY <3>4
    <3>6. ASSUME NEW next, \E m \in DOMAIN below : next = below[m]
          PROVE  RUSHtLocal([node |-> next], table)
      BY <2>1, <3>1, <3>6 DEF RUSHtLocal, below
    <3> QED
      BY <3>4, <3>5, <3>6 DEF node
  <2> QED
    BY <2>5, <2>6
<1>7. ASSUME RUSHtDescend PROVE Configured' /\ Selected' /\ RUSHTable'
  <2>1. status = "placing" /\ "left" \in DOMAIN local.node
    BY <1>7 DEF RUSHtDescend, Placing
  <2>2. \/ Crash
        \/ \E next : RUSHtLocal([node |-> next], table) /\ Advance([node |-> next])
    BY <1>6, <1>7, <2>1 DEF RUSHtDescend
  <2>3. CASE Crash
    <3>1. UNCHANGED <<kind, disks, copies, table, result>> /\ status' = "crashed"
      BY <2>3 DEF Crash
    <3>2. Selected'
      BY <3>1, SameSelected
    <3> QED
      BY <1>2, <1>4, <2>1, <3>1, <3>2, StaysConfigured
  <2>4. ASSUME NEW next, RUSHtLocal([node |-> next], table), Advance([node |-> next])
        PROVE  Configured' /\ Selected' /\ RUSHTable'
    <3>1. local' = [node |-> next] /\ UNCHANGED <<kind, disks, copies, table, status, result>>
      BY <2>4 DEF Advance
    <3>2. RUSHtLocal(local', table)
      BY <2>4, <3>1
    <3>3. Selected'
      BY <2>1, <3>1, SameSelected DEF Selected
    <3> QED
      BY <1>2, <1>3, <1>4, <2>1, <3>1, <3>2, <3>3, StaysConfigured
  <2> QED
    BY <2>2, <2>3, <2>4
<1>8. ASSUME RUSHtPlace PROVE Configured' /\ Selected' /\ RUSHTable'
  <2> DEFINE j == local.node.cluster
             before == ServersBefore(table.clusters, j)
             size == Len(table.clusters[j])
  <2>1. /\ status = "placing" /\ "cluster" \in DOMAIN local.node
        /\ status' = "ready" /\ UNCHANGED <<kind, disks, copies, table>>
    BY <1>8 DEF RUSHtPlace, Placing
  <2>2. PICK key \in 0 .. MaxHash, n \in LowestPrime(table) .. Len(Primes) :
          result' = [r \in 1 .. copies |->
                       table.alldisks[before + ((key + (r - 1) * Primes[n]) % size) + 1].id]
    BY <1>8, Zenon DEF RUSHtPlace
  <2> DEFINE rest(r) == (key + (r - 1) * Primes[n]) % size
             at(r) == before + rest(r) + 1
  <2>3. j \in DOMAIN cl
    BY <1>6, <2>1
  <2>4. /\ size \in Nat \ {0} /\ before \in Nat /\ before + size <= Len(disks)
        /\ copies <= size /\ copies \in Nat /\ table.alldisks = disks
        /\ table.clusters = cl /\ disks \in Lists[kind]
    <3>1. table.clusters = cl
      BY <1>2, <2>1
    <3> QED
      BY <1>2, <2>1, <2>3, <3>1 DEF ClustersOf
  <2>5. n \in DOMAIN Primes /\ size < Primes[n]
    <3>1. n \in LowestPrime(table) .. Len(Primes) /\ table.clusters = Clusters(disks)
          /\ j \in DOMAIN Clusters(disks)
      BY <2>3, <2>4 DEF cl
    <3>2. n \in DOMAIN Primes /\ Len(Clusters(disks)[j]) < Primes[n]
      BY <1>1, <2>4, <3>1, LowestPrimeIs
    <3> QED
      BY <2>4, <3>2 DEF cl
  <2>6. key \in Nat /\ Primes[n] \in Nat
    BY <2>5, BoundsAssumption, PrimesAssumption
  <2> HIDE DEF j, before, size
  <2>7. ASSUME NEW r \in 1 .. copies
        PROVE  rest(r) \in 0 .. size - 1
    <3> DEFINE v == key + (r - 1) * Primes[n]
    <3>1. v \in Int
      BY <2>6
    <3> HIDE DEF v
    <3>2. v % size \in 0 .. size - 1
      BY <2>4, <3>1, Division
    <3> QED
      BY <3>2 DEF v
  <2>8. ASSUME NEW r \in 1 .. copies, NEW s \in 1 .. copies, rest(r) = rest(s)
        PROVE  r = s
    <3> DEFINE b == r - 1
               c == s - 1
    <3>1. b \in Int /\ c \in Int /\ b - c < size /\ c - b < size /\ (b = c => r = s)
      BY <2>4
    <3>2. (key + b * Primes[n]) % size = (key + c * Primes[n]) % size
      BY <2>8
    <3> HIDE DEF b, c
    <3>3. key \in Int
      BY <2>6
    <3>4. b = c
      BY <2>4, <2>5, <3>1, <3>2, <3>3, PrimeSteps
    <3> QED
      BY <3>1, <3>4
  <2>9. result' = [r \in 1 .. copies |-> disks[at(r)].id]
    BY <2>2, <2>4
  <2> HIDE DEF rest
  <2>10. /\ Len(disks) \in Nat /\ DOMAIN disks = 1 .. Len(disks)
         /\ \A m \in DOMAIN disks : disks[m].id \in Int
         /\ \A m, i \in DOMAIN disks : disks[m].id = disks[i].id => m = i
    BY <1>1, <2>4, ListIs
  <2>11. ASSUME NEW r \in 1 .. copies
         PROVE  /\ at(r) \in DOMAIN disks
                /\ disks[at(r)].id \in Int /\ disks[at(r)].id \in Ids(disks)
    <3>1. rest(r) \in 0 .. size - 1
      BY <2>7
    <3> DEFINE v == rest(r)
    <3> HIDE DEF v
    <3>2. before + v + 1 \in 1 .. Len(disks)
      BY <2>4, <2>10, <3>1 DEF v
    <3>3. at(r) \in DOMAIN disks
      BY <2>10, <3>2 DEF v
    <3> HIDE DEF at
    <3> QED
      BY <2>10, <3>3 DEF Ids
  <2>12. ASSUME NEW r \in 1 .. copies, NEW s \in 1 .. copies, at(r) = at(s) PROVE r = s
    <3> DEFINE v == rest(r)
               w == rest(s)
    <3>1. v \in 0 .. size - 1 /\ w \in 0 .. size - 1 /\ before + v + 1 = before + w + 1
      BY <2>7, <2>12
    <3> HIDE DEF v, w
    <3>2. v = w
      BY <2>4, <3>1
    <3> QED
      BY <2>8, <3>2 DEF v, w
  <2> HIDE DEF at
  <2>13. result' \in Seq(Int) /\ Len(result') = copies /\ DOMAIN result' = 1 .. copies
         /\ \A r \in 1 .. copies : result'[r] = disks[at(r)].id
    BY <2>4, <2>9, <2>11
  <2>14. IsInjective(result')
    <3>1. ASSUME NEW r \in 1 .. copies, NEW s \in 1 .. copies, result'[r] = result'[s] PROVE r = s
      <4>1. at(r) = at(s)
        BY <2>10, <2>11, <2>13, <3>1
      <4> QED
        BY <2>12, <4>1
    <3> QED
      BY <2>13, <3>1 DEF IsInjective
  <2>15. ToSet(result') \subseteq Ids(disks)
    BY <2>11, <2>13 DEF ToSet
  <2>16. Selected'
    BY <2>1, <2>13, <2>14, <2>15 DEF Selected, Ids
  <2> QED
    BY <1>2, <1>4, <2>1, <2>16, StaysConfigured
<1> QED
  BY <1>5, <1>7, <1>8

\* The steps of all three
LEMMA RUSHSelects ==
  ASSUME Configured, Selected, RUSHTable, kind \in RUSHKinds, RUSHNext
  PROVE  Configured' /\ Selected' /\ RUSHTable'
<1>1. ASSUME NEW k \in RUSHKinds, NEW l \in Lists[kind], NEW c \in 1 .. MaxCopies,
             RUSHSetDisks(k, l, c)
      PROVE  Configured' /\ Selected' /\ RUSHTable'
  BY <1>1, RUSHConfigures
<1>2. ASSUME \/ RUSHpCall \/ RUSHpRoll \/ RUSHpStep
             \/ Placing("RUSHp") /\ local.r = copies /\ Finish
      PROVE  Configured' /\ Selected' /\ RUSHTable'
  <2>1. kind = "RUSHp"
    BY <1>2 DEF RUSHpCall, RUSHpRoll, RUSHpStep, Placing, Call
  <2> QED
    BY <1>2, <2>1, RUSHpSelects
<1>3. ASSUME \/ RUSHrCall \/ RUSHrStep \/ RUSHrOther
             \/ Placing("RUSHr") /\ local.remaining = 0 /\ Finish
      PROVE  Configured' /\ Selected' /\ RUSHTable'
  <2>1. kind = "RUSHr"
    BY <1>3 DEF RUSHrCall, RUSHrStep, RUSHrOther, Placing, Call
  <2> QED
    BY <1>3, <2>1, RUSHrSelects
<1>4. ASSUME RUSHtCall \/ RUSHtDescend \/ RUSHtPlace
      PROVE  Configured' /\ Selected' /\ RUSHTable'
  <2>1. kind = "RUSHt"
    BY <1>4 DEF RUSHtCall, RUSHtDescend, RUSHtPlace, Placing, Call
  <2> QED
    BY <1>4, <2>1, RUSHtSelects
<1> QED
  BY <1>1, <1>2, <1>3, <1>4 DEF RUSHNext, RUSHReturn

--------------------------------------------------------------------------------
(* The strategies together.                                                *)

\* What each strategy keeps of its tables: all but the object's own say nothing.
TablesHold ==
  /\ RRTable /\ NNTable /\ ShareTable
  /\ RSTable /\ RSWalk /\ FRSTable
  /\ RUSHTable /\ RandSliceTable

PlacementInvariant == Configured /\ Selected /\ TablesHold

\* A new object
LEMMA NewHolds ==
  Init => PlacementInvariant
<1> SUFFICES ASSUME Init PROVE PlacementInvariant
  OBVIOUS
<1>1. kind \in Kinds /\ status = "new" /\ table = None /\ result = <<>>
  BY DEF Init
<1>2. Configured /\ Selected
  BY <1>1, NothingSelected DEF Configured, Selected
<1>3. RRTable /\ NNTable /\ ShareTable /\ RandSliceTable
  BY <1>1 DEF RRTable, NNTable, ShareTable, RandSliceTable
<1>4. RSTable /\ RSWalk /\ FRSTable /\ RUSHTable
  BY <1>1 DEF RSTable, RSWalk, FRSTable, RUSHTable
<1> QED
  BY <1>2, <1>3, <1>4 DEF PlacementInvariant, TablesHold

\* The caller's own steps and those of nobody leave the tables alone.
LEMMA CallerHolds ==
  ASSUME PlacementInvariant, Forget \/ DeleteList \/ Ended \/ UNCHANGED vars
  PROVE  PlacementInvariant'
<1>1. /\ UNCHANGED <<kind, disks, copies, table, status, local>>
      /\ result' = result \/ (status = "ready" /\ result' = <<>>)
  BY DEF Forget, DeleteList, Ended, vars
<1>2. Configured'
  BY <1>1 DEF PlacementInvariant, Configured
<1>3. Selected'
  <2>1. CASE result' = result
    BY <1>1, <2>1 DEF PlacementInvariant, Selected, TooFew
  <2>2. CASE status = "ready" /\ result' = <<>>
    BY <1>1, <2>2, NothingSelected DEF Selected
  <2> QED
    BY <1>1, <2>1, <2>2
<1>4. RRTable' /\ NNTable' /\ ShareTable' /\ RandSliceTable'
  <2>1. RRTable /\ NNTable /\ ShareTable /\ RandSliceTable
    BY DEF PlacementInvariant, TablesHold
  <2>2. RRTable'
    BY <1>1, <2>1, Zenon DEF RRTable
  <2>3. NNTable'
    BY <1>1, <2>1, Zenon DEF NNTable
  <2>4. ShareTable'
    BY <1>1, <2>1, Zenon DEF ShareTable
  <2>5. RandSliceTable'
    BY <1>1, <2>1, Zenon DEF RandSliceTable
  <2> QED
    BY <2>2, <2>3, <2>4, <2>5
<1>5. RSTable' /\ RSWalk' /\ FRSTable' /\ RUSHTable'
  <2>1. CASE result' = result
    BY <1>1, <2>1, Zenon
    DEF PlacementInvariant, TablesHold, RSTable, RSWalk, FRSTable, RUSHTable, TooFew
  <2>2. CASE status = "ready"
    <3>1. status' # "placing"
      BY <1>1, <2>2
    <3> QED
      BY <1>1, <2>2, <3>1, Zenon
      DEF PlacementInvariant, TablesHold, RSTable, RSWalk, FRSTable, RUSHTable, TooFew
  <2> QED
    BY <1>1, <2>1, <2>2
<1> QED
  BY <1>2, <1>3, <1>4, <1>5 DEF PlacementInvariant, TablesHold

\* The tables of the strategies the object is not of say nothing.
LEMMA OthersHold ==
  ASSUME kind' = kind
  PROVE  /\ kind \notin RRKinds => RRTable'
         /\ kind \notin NNKinds => NNTable'
         /\ kind \notin ShareKinds => ShareTable'
         /\ kind \notin RSKinds => RSTable' /\ RSWalk'
         /\ kind # "FastRedundantShare" => FRSTable'
         /\ kind \notin RUSHKinds => RUSHTable'
         /\ kind # "RandSlice" => RandSliceTable'
<1>1. kind \notin RRKinds => RRTable'
  BY DEF RRTable
<1>2. kind \notin NNKinds => NNTable'
  BY DEF NNTable
<1>3. kind \notin ShareKinds => ShareTable'
  BY DEF ShareTable
<1>4. kind \notin RSKinds => RSTable' /\ RSWalk'
  BY DEF RSTable, RSWalk
<1>5. kind # "FastRedundantShare" => FRSTable'
  BY DEF FRSTable
<1>6. kind \notin RUSHKinds => RUSHTable'
  BY DEF RUSHTable
<1>7. kind # "RandSlice" => RandSliceTable'
  BY DEF RandSliceTable
<1> QED
  BY <1>1, <1>2, <1>3, <1>4, <1>5, <1>6, <1>7

\* Each step of a strategy keeps its own table.
LEMMA StrategyHolds ==
  ASSUME PlacementInvariant, Next
  PROVE  PlacementInvariant'
<1>1. Configured /\ Selected /\ TablesHold
  BY DEF PlacementInvariant
<1>2. kind' = kind
  BY OwnSteps
<1>3. ASSUME kind \in RRKinds, RRNext PROVE PlacementInvariant'
  <2>1. Configured' /\ Selected' /\ RRTable'
    BY <1>1, <1>3, RRSelects DEF TablesHold
  <2> QED
    BY <1>2, <1>3, <2>1, OthersHold, KindsDiffer, Zenon DEF PlacementInvariant, TablesHold
<1>4. ASSUME kind \in NNKinds, NNNext PROVE PlacementInvariant'
  <2>1. Configured' /\ Selected' /\ NNTable'
    BY <1>1, <1>4, NNSelects DEF TablesHold
  <2> QED
    BY <1>2, <1>4, <2>1, OthersHold, KindsDiffer, Zenon DEF PlacementInvariant, TablesHold
<1>5. ASSUME kind \in ShareKinds, ShareNext PROVE PlacementInvariant'
  <2>1. Configured' /\ Selected' /\ ShareTable'
    BY <1>1, <1>5, ShareSelects DEF TablesHold
  <2> QED
    BY <1>2, <1>5, <2>1, OthersHold, KindsDiffer, Zenon DEF PlacementInvariant, TablesHold
<1>6. ASSUME kind \in RSKinds, RSNext PROVE PlacementInvariant'
  <2>1. Configured' /\ Selected' /\ RSTable'
    BY <1>1, <1>6, RSSelects DEF TablesHold
  <2>2. RSWalk'
    BY <1>1, <1>6, RSWalks DEF TablesHold
  <2> QED
    BY <1>2, <1>6, <2>1, <2>2, OthersHold, KindsDiffer, Zenon DEF PlacementInvariant, TablesHold
<1>7. ASSUME kind = "FastRedundantShare", FRSNext PROVE PlacementInvariant'
  <2>1. Configured' /\ Selected' /\ FRSTable'
    BY <1>1, <1>7, FRSSelects DEF TablesHold
  <2> QED
    BY <1>2, <1>7, <2>1, OthersHold, KindsDiffer, Zenon DEF PlacementInvariant, TablesHold
<1>8. ASSUME kind \in RUSHKinds, RUSHNext PROVE PlacementInvariant'
  <2>1. Configured' /\ Selected' /\ RUSHTable'
    BY <1>1, <1>8, RUSHSelects DEF TablesHold
  <2> QED
    BY <1>2, <1>8, <2>1, OthersHold, KindsDiffer, Zenon DEF PlacementInvariant, TablesHold
<1>9. ASSUME kind = "RandSlice", RandSliceNext PROVE PlacementInvariant'
  <2>1. Configured' /\ Selected' /\ RandSliceTable'
    BY <1>1, <1>9, RandSliceSelects DEF TablesHold
  <2>2. kind \notin RRKinds \cup NNKinds \cup ShareKinds \cup RSKinds \cup RUSHKinds
    BY <1>9, KindsDiffer
  <2>3. kind # "FastRedundantShare"
    BY <1>9
  <2> QED
    BY <1>2, <2>1, <2>2, <2>3, OthersHold, Zenon DEF PlacementInvariant, TablesHold
<1>10. ASSUME Forget \/ DeleteList \/ Ended PROVE PlacementInvariant'
  BY <1>10, CallerHolds
<1> QED
  BY <1>3, <1>4, <1>5, <1>6, <1>7, <1>8, <1>9, <1>10, OwnSteps

\* The tables are those of the list and copies set last, and the disks selected are different.
THEOREM PlacementIsInvariant ==
  Spec => []PlacementInvariant
<1>1. Init => PlacementInvariant
  BY NewHolds
<1>2. PlacementInvariant /\ [Next]_vars => PlacementInvariant'
  BY StrategyHolds, CallerHolds
<1> QED
  BY <1>1, <1>2, PTL DEF Spec

(* placeExtent of every strategy returns one disk per copy, all different  *)
(* and of the list set last; see PlacesDistinctDisks for those that may    *)
(* repeat disks or keep old ones.                                          *)
THEOREM DistinctDisks ==
  Spec => []PlacesDistinctDisks
<1>1. PlacementInvariant => PlacesDistinctDisks
  BY SelectedIsDistinct DEF PlacementInvariant
<1> QED
  BY <1>1, PlacementIsInvariant, PTL

(* Random slicing: each disk selected, but the first, is found by an input *)
(* after the last retry at most one further on.                            *)
RandSliceInputs ==
  kind = "RandSlice" =>
    /\ status \in {"new", "ready"} => local = None
    /\ status \in {"placing", "crashed"} =>
         /\ local = [idx |-> local.idx] /\ local.idx \in Nat
         /\ Len(result) <= copies
         /\ IF result = <<>> THEN local.idx = 0 ELSE local.idx <= Offset + Len(result) - 1
    /\ status = "crashed" => local.idx >= Offset

LEMMA RandSliceCounts ==
  ASSUME Configured, Selected, RandSliceTable, RandSliceInputs, kind = "RandSlice", RandSliceNext
  PROVE  RandSliceInputs'
<1>1. ASSUME NEW l \in Lists[kind], NEW c \in 1 .. MaxCopies, RandSliceSetDisks(l, c)
      PROVE  RandSliceInputs'
  <2>1. status' = "ready" /\ local' = None
    BY <1>1 DEF RandSliceSetDisks, Configure
  <2> QED
    BY <2>1 DEF RandSliceInputs
<1>2. ASSUME RandSliceCall PROVE RandSliceInputs'
  <2>1. /\ status' = "placing" /\ local' = [idx |-> 0]
        /\ status = "ready" /\ result' = <<>> /\ copies' = copies
    BY <1>2 DEF RandSliceCall, Call
  <2>2. copies \in Nat /\ Len(<<>>) = 0
    BY <2>1, BoundsAssumption DEF Configured
  <2> QED
    BY <2>1, <2>2 DEF RandSliceInputs
<1>3. ASSUME RandSliceStep PROVE RandSliceInputs'
  <2>1. /\ status = "placing" /\ Len(result) < copies
        /\ local = [idx |-> local.idx] /\ local.idx \in Nat
        /\ IF result = <<>> THEN local.idx = 0 ELSE local.idx <= Offset + Len(result) - 1
        /\ result \in Seq(Int) /\ copies \in Nat /\ Offset \in Nat \ {0}
    BY <1>3, BoundsAssumption, OffsetAssumption
    DEF RandSliceStep, Placing, RandSliceInputs, Selected, Configured
  <2> DEFINE n == Len(result)
             next == local.idx + 1
  <2>2. n \in Nat /\ next \in Nat /\ local.idx = next - 1 /\ (n = 0 <=> result = <<>>)
    BY <2>1
  <2>3. PICK id \in table :
          IF id \notin ToSet(result) THEN Append1(id, [idx |-> next])
          ELSE IF MayRetry(local.idx) THEN Advance([idx |-> next])
          ELSE Crash
    BY <1>3 DEF RandSliceStep
  <2>4. id \in Int
    <3>1. Ids(disks) \subseteq Int
      BY <2>1, ListIs DEF Configured
    <3> QED
      BY <2>1, <2>3, <3>1 DEF RandSliceTable
  <2>5. CASE id \notin ToSet(result)
    <3>1. /\ result' = Append(result, id) /\ local' = [idx |-> next]
          /\ status' = "placing" /\ copies' = copies
      BY <2>1, <2>3, <2>5 DEF Append1
    <3>2. Len(result') = n + 1 /\ result' # <<>>
      BY <2>1, <2>4, <3>1, AppendNew
    <3>3. next <= Offset + (n + 1) - 1
      BY <2>1, <2>2
    <3>4. n + 1 <= copies
      BY <2>1, <2>2
    <3> HIDE DEF n, next
    <3> QED
      BY <2>2, <3>1, <3>2, <3>3, <3>4 DEF RandSliceInputs
  <2>6. CASE id \in ToSet(result) /\ MayRetry(local.idx)
    <3>1. /\ result' = result /\ local' = [idx |-> next]
          /\ status' = "placing" /\ copies' = copies
      BY <2>1, <2>3, <2>6 DEF Advance
    <3>2. result # <<>>
      BY <2>6 DEF ToSet
    <3>3. next <= Offset + n - 1
      <4>1. next <= Offset
        BY <2>6 DEF MayRetry
      <4> QED
        BY <2>1, <2>2, <3>2, <4>1
    <3>4. n <= copies
      BY <2>1, <2>2
    <3> HIDE DEF next
    <3> QED
      BY <2>2, <3>1, <3>2, <3>3, <3>4 DEF RandSliceInputs
  <2>7. CASE id \in ToSet(result) /\ ~MayRetry(local.idx)
    <3>1. status' = "crashed" /\ UNCHANGED <<local, result, copies>>
      BY <2>3, <2>7 DEF Crash
    <3>2. local.idx >= Offset
      BY <2>1, <2>7 DEF MayRetry
    <3>3. n <= copies
      BY <2>1, <2>2
    <3> QED
      BY <2>1, <3>1, <3>2, <3>3 DEF RandSliceInputs
  <2> QED
    BY <2>5, <2>6, <2>7
<1>4. ASSUME RandSliceReturn PROVE RandSliceInputs'
  <2>1. status' = "ready" /\ local' = None
    BY <1>4 DEF RandSliceReturn, Finish
  <2> QED
    BY <2>1 DEF RandSliceInputs
<1> QED
  BY <1>1, <1>2, <1>3, <1>4 DEF RandSliceNext

--------------------------------------------------------------------------------
(* RUSH: the clusters a list has, and where a draw lands.                  *)

\* The numbers of an interval, in order
LEMMA OrderedInterval ==
  ASSUME NEW a \in Nat, NEW b \in Int, NEW S, S = a .. b, NEW i \in 1 .. Cardinality(S)
  PROVE  Ordered(S)[i] = a + i - 1
<1> DEFINE N == Cardinality(S)
           before(n) == Cardinality({m \in S : m < n})
<1>1. IsFiniteSet(S) /\ S \in SUBSET Nat /\ N \in Nat
  <2>1. IsFiniteSet(S) /\ S \in SUBSET Nat
    BY FS_Interval
  <2> QED
    BY <2>1, FS_CardinalityType
<1>2. \A n \in S : before(n) = n - a
  <2> TAKE n \in S
  <2>1. n \in Nat /\ a <= n /\ n <= b
    BY <1>1
  <2> DEFINE T == {m \in S : m < n}
  <2>2. T = a .. n - 1
    BY <2>1
  <2>3. Cardinality(a .. n - 1) = n - a
    <3>1. n - 1 \in Int
      BY <2>1
    <3>2. Cardinality(a .. n - 1) = IF a > n - 1 THEN 0 ELSE n - 1 - a + 1
      BY <3>1, FS_Interval
    <3> QED
      BY <2>1, <3>2
  <2> HIDE DEF T
  <2>4. Cardinality(T) = n - a
    BY <2>2, <2>3
  <2> QED
    BY <2>4 DEF T
<1>3. Ordered(S)[i] \in S /\ \E n \in S : before(n) = i - 1
  <2>1. Ordered(S) \in [1 .. N -> S]
    BY <1>1, OrderedIs
  <2>2. Ordered(S)[i] \in S
    BY <2>1
  <2>3. N = IF a > b THEN 0 ELSE b - a + 1
    BY FS_Interval
  <2>4. i \in Nat /\ 1 <= i /\ i <= N
    BY <1>1
  <2>5. a + i - 1 \in S
    BY <2>3, <2>4
  <2> HIDE DEF before
  <2>6. before(a + i - 1) = i - 1
    BY <1>2, <2>4, <2>5
  <2> QED
    BY <2>2, <2>5, <2>6
<1>4. Ordered(S)[i] = CHOOSE n \in S : before(n) = i - 1
  BY DEF Ordered
<1> HIDE DEF before
<1>5. before(Ordered(S)[i]) = i - 1
  BY <1>3, <1>4
<1> QED
  BY <1>1, <1>2, <1>3, <1>5

\* Ordered lists the numbers from the least to the greatest, none left out.
LEMMA OrderedRises ==
  ASSUME NEW S \in SUBSET Nat, IsFiniteSet(S)
  PROVE  /\ \A i, j \in 1 .. Cardinality(S) : i < j => Ordered(S)[i] < Ordered(S)[j]
         /\ \A n \in S : \E i \in 1 .. Cardinality(S) : Ordered(S)[i] = n
<1> DEFINE N == Cardinality(S)
           before(n) == Cardinality({m \in S : m < n})
<1>1. /\ N \in Nat /\ Ordered(S) \in [1 .. N -> S]
      /\ \A i, j \in 1 .. N : Ordered(S)[i] = Ordered(S)[j] => i = j
  BY OrderedIs
<1>2. /\ \A n \in S : Rank(S, n) \in 1 .. N
      /\ \A n, m \in S : n < m => Rank(S, n) < Rank(S, m)
      /\ \A i \in 1 .. N : \E n \in S : Rank(S, n) = i
  BY Ranks
<1>3. \A n \in S : before(n) \in Nat /\ Rank(S, n) = before(n) + 1
  <2> TAKE n \in S
  <2>1. {m \in S : m < n} \in SUBSET S
    OBVIOUS
  <2>2. before(n) \in Nat
    BY <2>1, FS_Subset, FS_CardinalityType
  <2> QED
    BY <2>2 DEF Rank
<1>4. \A i \in 1 .. N : Ordered(S)[i] = CHOOSE n \in S : before(n) = i - 1
  BY DEF Ordered
<1> HIDE DEF before
<1>5. \A i \in 1 .. N : Ordered(S)[i] \in S /\ Rank(S, Ordered(S)[i]) = i
  <2> TAKE i \in 1 .. N
  <2>1. \E n \in S : before(n) = i - 1
    BY <1>1, <1>2, <1>3
  <2>2. before(Ordered(S)[i]) = i - 1
    BY <1>4, <2>1
  <2>3. Ordered(S)[i] \in S
    BY <1>1
  <2>4. i - 1 + 1 = i
    BY <1>1
  <2> QED
    BY <1>3, <2>2, <2>3, <2>4
<1>6. \A n, m \in S : Rank(S, n) = Rank(S, m) => n = m
  BY <1>2
<1>7. ASSUME NEW i \in 1 .. N, NEW j \in 1 .. N, i < j PROVE Ordered(S)[i] < Ordered(S)[j]
  <2>1. Ordered(S)[i] \in Nat /\ Ordered(S)[j] \in Nat
    BY <1>5
  <2>2. CASE Ordered(S)[j] < Ordered(S)[i]
    <3>1. Rank(S, Ordered(S)[j]) < Rank(S, Ordered(S)[i])
      BY <1>2, <1>5, <2>2
    <3> QED
      BY <1>1, <1>5, <1>7, <3>1
  <2>3. CASE Ordered(S)[j] = Ordered(S)[i]
    BY <1>1, <1>7, <2>3
  <2> QED
    BY <2>1, <2>2, <2>3
<1>8. \A n \in S : Ordered(S)[Rank(S, n)] = n
  BY <1>2, <1>5, <1>6
<1> QED
  BY <1>2, <1>7, <1>8

\* In a grouped list the disks of a cluster follow those of the clusters before.
LEMMA GroupedClusters ==
  ASSUME NEW k \in Kinds, NEW l \in Lists[k], Grouped(l), NEW h \in DOMAIN Clusters(l),
         NEW g \in DOMAIN Clusters(l)[h]
  PROVE  l[ServersBefore(Clusters(l), h) + g] = Clusters(l)[h][g]
<1> DEFINE firsts == {n \in DOMAIN l : \A m \in 1 .. n - 1 : l[m].capacity # l[n].capacity}
           K == Cardinality(firsts)
           place == Ordered(firsts)
           cap(j) == l[place[j]].capacity
           members(j) == SameCapacity(l, cap(j))
           cl == Clusters(l)
           end(j) == IF j = K THEN Len(l) ELSE place[j + 1] - 1
<1>1. Len(l) \in Nat \ {0} /\ DOMAIN l = 1 .. Len(l)
  BY ListIs
<1>2. firsts \in SUBSET Nat /\ IsFiniteSet(firsts)
  <2>1. IsFiniteSet(1 .. Len(l)) /\ firsts \in SUBSET (1 .. Len(l))
    BY <1>1, FS_Interval
  <2>2. firsts \in SUBSET Nat
    BY <2>1
  <2> DEFINE I == 1 .. Len(l)
  <2>3. IsFiniteSet(I) /\ firsts \in SUBSET I
    BY <2>1
  <2> HIDE DEF firsts, I
  <2> QED
    BY <2>2, <2>3, FS_Subset
<1>3. 1 \in firsts
  BY <1>1
<1>4. \A n \in firsts : n \in DOMAIN l /\ \A m \in 1 .. n - 1 : l[m].capacity # l[n].capacity
  OBVIOUS
<1>5. ASSUME NEW n \in DOMAIN l
      PROVE  \E m \in firsts : m <= n /\ l[m].capacity = l[n].capacity
  <2> DEFINE S == {m \in 1 .. n : l[m].capacity = l[n].capacity}
  <2>1. S \in SUBSET Nat /\ n \in S
    BY <1>1
  <2>2. PICK m \in S : \A y \in S : m <= y
    BY <2>1, LeastElement
  <2>3. m \in 1 .. n /\ l[m].capacity = l[n].capacity /\ m \in DOMAIN l
    BY <1>1
  <2>4. ASSUME NEW y \in 1 .. m - 1, l[y].capacity = l[m].capacity PROVE FALSE
    <3>1. n \in Nat /\ m \in Nat /\ y \in 1 .. n
      BY <1>1, <2>3
    <3>2. y \in S
      BY <2>3, <2>4, <3>1
    <3>3. m <= y
      BY <2>2, <3>2
    <3> QED
      BY <3>1, <3>3
  <2> HIDE DEF S
  <2>5. m \in firsts
    BY <2>3, <2>4
  <2> QED
    BY <1>1, <2>3, <2>5
<1>6. DOMAIN place = 1 .. K
  BY <1>2, OrderedIs
<1>7. cl = [j \in 1 .. K |-> [i \in DOMAIN Ordered(members(j)) |-> l[Ordered(members(j))[i]]]]
  <2>1. Capacities(l) = [j \in 1 .. K |-> cap(j)]
    BY <1>6 DEF Capacities
  <2> QED
    BY <2>1 DEF Clusters
<1> HIDE DEF firsts
<1>8. /\ K \in Nat /\ \A j \in 1 .. K : place[j] \in firsts
      /\ \A i, j \in 1 .. K : i < j => place[i] < place[j]
      /\ \A n \in firsts : \E j \in 1 .. K : place[j] = n
  BY <1>2, OrderedIs, OrderedRises
<1> HIDE DEF K, place, cl
<1>9. \A j \in 1 .. K : /\ place[j] \in 1 .. Len(l)
                        /\ \A m \in 1 .. place[j] - 1 : l[m].capacity # l[place[j]].capacity
  BY <1>1, <1>4, <1>8
<1>10. ASSUME NEW j \in 1 .. K
       PROVE  members(j) = place[j] .. end(j) /\ place[j] <= end(j)
  <2>1. place[j] \in 1 .. Len(l)
    BY <1>9
  <2>2. j < K => j + 1 \in 1 .. K /\ place[j + 1] \in 1 .. Len(l) /\ place[j] < place[j + 1]
    <3>1. j < K => j + 1 \in 1 .. K /\ j < j + 1
      BY <1>8
    <3> QED
      BY <1>8, <1>9, <3>1
  <2>3. end(j) \in Nat /\ place[j] <= end(j) /\ end(j) <= Len(l)
    BY <1>1, <1>8, <2>1, <2>2
  <2>4. ASSUME NEW x \in members(j) PROVE x \in place[j] .. end(j)
    <3>1. x \in 1 .. Len(l) /\ l[x].capacity = l[place[j]].capacity
      BY <1>1 DEF SameCapacity
    <3>2. x >= place[j]
      BY <1>9, <3>1
    <3>3. ASSUME j < K, x >= place[j + 1] PROVE FALSE
      <4>1. l[place[j]].capacity # l[place[j + 1]].capacity
        BY <1>9, <2>1, <2>2, <3>3
      <4>2. l[place[j + 1]].capacity = l[place[j]].capacity
        <5>1. CASE x = place[j + 1]
          BY <3>1, <5>1
        <5>2. CASE x > place[j + 1]
          BY <1>1, <2>1, <2>2, <3>1, <3>3, <5>2 DEF Grouped
        <5> QED
          BY <2>2, <3>1, <3>3, <5>1, <5>2
      <4> QED
        BY <4>1, <4>2
    <3> QED
      BY <1>1, <1>8, <2>1, <2>2, <3>1, <3>2, <3>3
  <2>5. ASSUME NEW x \in place[j] .. end(j) PROVE x \in members(j)
    <3>1. x \in 1 .. Len(l) /\ place[j] <= x /\ x <= end(j)
      BY <2>1, <2>3
    <3>2. PICK f \in firsts : f <= x /\ l[f].capacity = l[x].capacity
      BY <1>1, <1>5, <3>1
    <3>3. PICK m \in 1 .. K : place[m] = f
      BY <1>8
    <3>4. place[m] \in 1 .. Len(l) /\ place[m] <= x /\ l[place[m]].capacity = l[x].capacity
      BY <1>9, <3>2, <3>3
    <3>5. ASSUME m > j PROVE FALSE
      <4>1. j < K /\ (m = j + 1 \/ j + 1 < m)
        BY <1>8, <3>5
      <4>2. place[j + 1] <= place[m]
        BY <1>8, <2>2, <3>4, <4>1
      <4>3. end(j) = place[j + 1] - 1
        BY <1>8, <4>1
      <4> QED
        BY <2>2, <3>1, <3>4, <4>1, <4>2, <4>3
    <3>6. ASSUME m < j PROVE FALSE
      <4>1. place[m] < place[j]
        BY <1>8, <3>6
      <4>2. l[place[m]].capacity # l[place[j]].capacity
        <5>1. place[m] \in 1 .. place[j] - 1
          BY <2>1, <3>4, <4>1
        <5> QED
          BY <1>9, <5>1
      <4>3. l[place[j]].capacity = l[place[m]].capacity
        <5>1. CASE x = place[j]
          BY <3>4, <5>1
        <5>2. CASE x > place[j]
          BY <1>1, <2>1, <3>1, <3>4, <4>1, <5>2 DEF Grouped
        <5> QED
          BY <2>1, <3>1, <5>1, <5>2
      <4> QED
        BY <4>2, <4>3
    <3>7. m = j
      BY <1>8, <3>5, <3>6
    <3> QED
      BY <1>1, <3>1, <3>4, <3>7 DEF SameCapacity
  <2> QED
    BY <2>3, <2>4, <2>5
<1>11. \A j \in 1 .. K : end(j) \in Nat /\ place[j] \in Nat \ {0}
  <2> TAKE j \in 1 .. K
  <2>1. j # K => j + 1 \in 1 .. K
    BY <1>8
  <2> QED
    BY <1>1, <1>8, <1>9, <2>1
<1>12. ASSUME NEW j \in 1 .. K
       PROVE  /\ DOMAIN cl[j] = 1 .. (end(j) - place[j] + 1)
              /\ \A i \in DOMAIN cl[j] : cl[j][i] = l[place[j] + i - 1]
  <2> DEFINE S == members(j)
  <2>1. S = place[j] .. end(j) /\ place[j] \in Nat /\ end(j) \in Int /\ place[j] <= end(j)
    BY <1>10, <1>11
  <2>2. cl[j] = [i \in DOMAIN Ordered(S) |-> l[Ordered(S)[i]]]
    BY <1>7
  <2> HIDE DEF S, end
  <2>3. IsFiniteSet(S) /\ S \in SUBSET Nat /\ Cardinality(S) = end(j) - place[j] + 1
    <3> DEFINE a == place[j]
               b == end(j)
    <3>1. a \in Int /\ b \in Int /\ S = a .. b
      BY <2>1
    <3> HIDE DEF a, b
    <3>2. IsFiniteSet(S) /\ Cardinality(S) = IF a > b THEN 0 ELSE b - a + 1
      BY <3>1, FS_Interval
    <3>3. S \in SUBSET Nat
      BY <2>1
    <3> QED
      BY <2>1, <3>2, <3>3 DEF a, b
  <2>4. DOMAIN Ordered(S) = 1 .. Cardinality(S)
    BY <2>3, OrderedIs
  <2>5. \A i \in 1 .. Cardinality(S) : Ordered(S)[i] = place[j] + i - 1
    <3> DEFINE a == place[j]
               b == end(j)
    <3>1. a \in Nat /\ b \in Int /\ S = a .. b
      BY <2>1
    <3> HIDE DEF a, b, S
    <3>2. \A i \in 1 .. Cardinality(S) : Ordered(S)[i] = a + i - 1
      BY <3>1, OrderedInterval
    <3> QED
      BY <3>2 DEF a
  <2> QED
    BY <2>2, <2>3, <2>4, <2>5
<1>13. /\ ClustersOf(cl, l) /\ DOMAIN cl = 1 .. K
  BY <1>7, ClustersAre DEF cl
<1>14. ASSUME NEW j \in 1 .. K
       PROVE  /\ Len(cl[j]) = end(j) - place[j] + 1
              /\ ServersBefore(cl, j) \in Nat
              /\ ServersBefore(cl, j + 1) = ServersBefore(cl, j) + Len(cl[j])
  <2>1. Len(cl[j]) \in Nat /\ DOMAIN cl[j] = 1 .. Len(cl[j])
    BY <1>13 DEF ClustersOf
  <2>2. DOMAIN cl[j] = 1 .. (end(j) - place[j] + 1)
    BY <1>12
  <2> DEFINE e == end(j) - place[j] + 1
  <2>3. e \in Nat
    BY <1>10, <1>11
  <2> HIDE DEF e
  <2>4. Len(cl[j]) = e
    BY <2>1, <2>2, <2>3 DEF e
  <2> QED
    BY <1>13, <2>4 DEF e, ClustersOf
<1> DEFINE Good == {j \in Nat : j + 1 \in 1 .. K => ServersBefore(cl, j + 1) = place[j + 1] - 1}
<1>15. Good = Nat
  <2>1. Good \in SUBSET Nat
    OBVIOUS
  <2>2. 0 \in Good
    <3>1. ServersBefore(cl, 1) = 0
      BY <1>13 DEF ClustersOf
    <3>2. PICK j \in 1 .. K : place[j] = 1
      BY <1>3, <1>8
    <3>3. 1 \in 1 .. K /\ (j = 1 \/ 1 < j)
      BY <1>8
    <3>4. place[1] = 1
      BY <1>8, <1>11, <3>2, <3>3
    <3> QED
      BY <3>1, <3>4
  <2>3. ASSUME NEW n \in Good PROVE n + 1 \in Good
    <3> SUFFICES ASSUME n + 2 \in 1 .. K PROVE ServersBefore(cl, n + 2) = place[n + 2] - 1
      OBVIOUS
    <3> DEFINE j == n + 1
    <3>1. j \in 1 .. K /\ j # K /\ j + 1 = n + 2
      BY <1>8
    <3>2. ServersBefore(cl, j) = place[j] - 1
      BY <3>1
    <3> HIDE DEF j
    <3>3. end(j) = place[j + 1] - 1
      BY <3>1
    <3>4. ServersBefore(cl, j + 1) = place[j] - 1 + (end(j) - place[j] + 1)
      BY <1>14, <3>1, <3>2
    <3>5. end(j) \in Nat /\ place[j] \in Nat
      BY <1>11, <3>1
    <3> QED
      BY <3>1, <3>3, <3>4, <3>5
  <2> HIDE DEF Good
  <2> QED
    BY <2>1, <2>2, <2>3, InductionSet
<1>16. h \in 1 .. K /\ g \in DOMAIN cl[h]
  BY <1>13 DEF cl
<1>17. ServersBefore(cl, h) = place[h] - 1
  <2>1. h - 1 \in Nat /\ (h - 1) + 1 = h
    BY <1>8, <1>16
  <2>2. h - 1 \in Good
    BY <1>15, <2>1
  <2> QED
    BY <1>16, <2>1, <2>2
<1>18. cl[h][g] = l[place[h] + g - 1]
  BY <1>12, <1>16
<1>19. place[h] - 1 + g = place[h] + g - 1
  <2>1. place[h] \in Nat /\ g \in Int
    BY <1>11, <1>12, <1>16
  <2> QED
    BY <2>1
<1> QED
  BY <1>17, <1>18, <1>19 DEF cl

\* A fraction that is not negative, reduced or not; two that are equal
Fraction(p) == p[1] \in Nat /\ p[2] \in Nat \ {0}

SameValue(p, q) == p[1] * q[2] = q[1] * p[2]

IntegerPart(p) == p[1] \div p[2]

\* Equal fractions have the same integer part.
LEMMA SameQuotient ==
  ASSUME NEW p, NEW q, Fraction(p), Fraction(q), SameValue(p, q)
  PROVE  IntegerPart(p) = IntegerPart(q)
<1> DEFINE a == p[1]
           u == p[2]
           b == q[1]
           v == q[2]
<1>4. a \in Nat /\ u \in Nat \ {0} /\ b \in Nat /\ v \in Nat \ {0} /\ a * v = b * u
  BY DEF Fraction, SameValue
<1> HIDE DEF a, b, u, v
<1>1. ASSUME NEW c \in Nat, NEW x \in Nat \ {0}, NEW e \in Nat, NEW y \in Nat \ {0}, c * y = e * x
      PROVE  c \div x <= e \div y
  <2> DEFINE d == c \div x
  <2>1. d \in Nat /\ x * d <= c
    <3>1. c \in Int
      OBVIOUS
    <3> QED
      BY <3>1, Division, QuotientIs
  <2> HIDE DEF d
  <2>2. y * (x * d) <= y * c
    <3> DEFINE z == x * d
    <3>1. z \in Int /\ z <= c
      BY <2>1
    <3> HIDE DEF z
    <3>2. y * z <= y * c
      BY <3>1, ProductOrder
    <3> QED
      BY <3>2 DEF z
  <2>3. y * (x * d) = x * (y * d) /\ y * c = x * e
    BY <1>1, <2>1
  <2> DEFINE z == y * d
  <2>4. z \in Int /\ x * z <= x * e
    BY <2>1, <2>2, <2>3
  <2> HIDE DEF z
  <2>5. z <= e
    BY <2>4, ProductOrder
  <2>6. y * d <= e
    BY <2>5 DEF z
  <2>7. d <= e \div y
    <3>1. \A w \in Int : y * w <= e => w <= e \div y
      BY QuotientIs
    <3> QED
      BY <2>1, <2>6, <3>1
  <2> QED
    BY <2>7 DEF d
<1>2. a \div u <= b \div v /\ b \div v <= a \div u
  BY <1>1, <1>4
<1>3. a \div u \in Int /\ b \div v \in Int
  <2>1. a \in Int /\ b \in Int
    BY <1>4
  <2> QED
    BY <1>4, <2>1, Division
<1> QED
  BY <1>2, <1>3 DEF IntegerPart, a, b, u, v

\* The integer part of a number and a fraction
LEMMA TruncatedSum ==
  ASSUME NEW x \in Nat, NEW p, p[1] \in Nat, p[2] \in Nat \ {0}
  PROVE  /\ Truncated(1, Plus(<<x, 1>>, p)) = x + (p[1] \div p[2])
         /\ p[1] \div p[2] \in Nat /\ p[2] * (p[1] \div p[2]) <= p[1]
<1> DEFINE a == p[1]
           b == p[2]
           e == x * b + a
           q == Ratio(e, b)
           u == q[1]
           v == q[2]
<1>1. a \in Nat /\ b \in Nat \ {0} /\ a \in Int
  OBVIOUS
<1>2. Plus(<<x, 1>>, p) = q
  <2>1. Plus(<<x, 1>>, p) = Ratio(x * b + a * 1, 1 * b)
    BY DEF Plus
  <2> HIDE DEF a, b
  <2>2. x * b + a * 1 = e /\ 1 * b = b
    BY <1>1
  <2> QED
    BY <2>1, <2>2
<1> HIDE DEF a, b
<1>3. e \in Nat
  BY <1>1
<1> HIDE DEF e
<1>4. u \in Nat /\ v \in Nat \ {0} /\ u * b = e * v
  BY <1>1, <1>3, RatioIsNatural
<1>5. Truncated(1, Plus(<<x, 1>>, p)) = u \div v
  <2>1. Truncated(1, Plus(<<x, 1>>, p)) = (1 * u) \div v
    BY <1>2 DEF Truncated
  <2> HIDE DEF q
  <2>2. 1 * u = u
    BY <1>4
  <2> QED
    BY <2>1, <2>2
<1> HIDE DEF q, u, v
<1>6. u \div v = e \div b
  <2> DEFINE f == <<u, v>>
             g == <<e, b>>
  <2>1. Fraction(f) /\ Fraction(g) /\ SameValue(f, g)
    BY <1>1, <1>3, <1>4 DEF Fraction, SameValue
  <2>2. IntegerPart(f) = u \div v /\ IntegerPart(g) = e \div b
    BY DEF IntegerPart
  <2> HIDE DEF f, g
  <2> QED
    BY <2>1, <2>2, SameQuotient
<1> DEFINE f == a \div b
           m == a % b
<1>7. f \in Nat /\ m \in 0 .. b - 1 /\ a = b * f + m /\ b * f <= a
  BY <1>1, Division, QuotientIs
<1> HIDE DEF f, m
<1>8. e \div b = x + f
  <2> DEFINE g == e \div b
             r == e % b
  <2>1. e \in Int
    BY <1>3
  <2>2. g \in Int /\ r \in 0 .. b - 1 /\ e = b * g + r
    BY <1>1, <2>1, Division
  <2> HIDE DEF g, r
  <2>3. e = b * (x + f) + m
    BY <1>1, <1>7 DEF e
  <2> DEFINE h == g - (x + f)
             w == b * h
  <2>4. h \in Int /\ w = m - r
    BY <1>1, <1>7, <2>2, <2>3
  <2> HIDE DEF h
  <2>5. m - r < b /\ m - r > -b
    BY <1>1, <1>7, <2>2
  <2>6. h = 0
    BY <1>1, <2>4, <2>5, SmallMultiple
  <2> QED
    BY <1>7, <2>2, <2>6 DEF h, g
<1> QED
  BY <1>5, <1>6, <1>7, <1>8 DEF f, a, b

\* Every disk's capacity is that of a cluster.
LEMMA EveryCapacity ==
  ASSUME NEW k \in Kinds, NEW l \in Lists[k], NEW n \in DOMAIN l
  PROVE  \E j \in DOMAIN Clusters(l) : Capacities(l)[j] = l[n].capacity
<1> DEFINE firsts == {i \in DOMAIN l : \A m \in 1 .. i - 1 : l[m].capacity # l[i].capacity}
           K == Cardinality(firsts)
           place == Ordered(firsts)
           S == {m \in 1 .. n : l[m].capacity = l[n].capacity}
<1>1. Len(l) \in Nat \ {0} /\ DOMAIN l = 1 .. Len(l)
  BY ListIs
<1>2. firsts \in SUBSET Nat /\ IsFiniteSet(firsts)
  <2>1. IsFiniteSet(1 .. Len(l)) /\ firsts \in SUBSET (1 .. Len(l))
    BY <1>1, FS_Interval
  <2>2. firsts \in SUBSET Nat
    BY <2>1
  <2> DEFINE I == 1 .. Len(l)
  <2>3. IsFiniteSet(I) /\ firsts \in SUBSET I
    BY <2>1
  <2> HIDE DEF firsts, I
  <2> QED
    BY <2>2, <2>3, FS_Subset
<1>3. S \in SUBSET Nat /\ n \in S
  BY <1>1
<1>4. PICK m \in S : \A y \in S : m <= y
  BY <1>3, LeastElement
<1>5. m \in 1 .. n /\ l[m].capacity = l[n].capacity /\ m \in DOMAIN l
  BY <1>1
<1>6. ASSUME NEW y \in 1 .. m - 1, l[y].capacity = l[m].capacity PROVE FALSE
  <2>1. n \in Nat /\ m \in Nat /\ y \in 1 .. n
    BY <1>1, <1>5
  <2>2. y \in S
    BY <1>5, <1>6, <2>1
  <2>3. m <= y
    BY <1>4, <2>2
  <2> QED
    BY <2>1, <2>3
<1> HIDE DEF S
<1>7. m \in firsts
  BY <1>5, <1>6
<1>8. DOMAIN place = 1 .. K
  BY <1>2, OrderedIs
<1>9. Capacities(l) = [j \in 1 .. K |-> l[place[j]].capacity]
  BY <1>8 DEF Capacities
<1> HIDE DEF firsts
<1>10. PICK j \in 1 .. K : place[j] = m
  BY <1>2, <1>7, OrderedRises
<1>11. j \in DOMAIN Capacities(l) /\ Capacities(l)[j] = l[m].capacity
  BY <1>9, <1>10
<1> QED
  BY <1>5, <1>11, ClustersAre

\* The moduli add up the integer parts of the weights of the clusters.
LEMMA ModulusIs ==
  ASSUME NEW K \in Nat \ {0}, NEW m, \A j \in 1 .. K : Fraction(m[j])
  PROVE  /\ \A j \in 1 .. K :
              /\ NPrime(m, j) \in Nat /\ IntegerPart(m[j]) \in Nat
              /\ Modulus(m, j) = NPrime(m, j) + IntegerPart(m[j])
              /\ m[j][2] * IntegerPart(m[j]) <= m[j][1]
         /\ NPrime(m, 1) = 0
         /\ \A j \in 1 .. K - 1 : NPrime(m, j + 1) = Modulus(m, j)
<1> DEFINE add(i, x) == Truncated(1, Plus(<<x, 1>>, m[i]))
           part(i) == IntegerPart(m[i])
           G == [i \in 0 .. K - 1 |-> [x \in Nat |-> add(i + 1, x)]]
<1>1. ASSUME NEW i \in 1 .. K, NEW x \in Nat
      PROVE  /\ add(i, x) = x + part(i) /\ part(i) \in Nat /\ add(i, x) \in Nat
             /\ m[i][2] * part(i) <= m[i][1]
  <2> DEFINE p == m[i]
  <2>1. p[1] \in Nat /\ p[2] \in Nat \ {0}
    BY DEF Fraction
  <2> HIDE DEF p
  <2>2. /\ Truncated(1, Plus(<<x, 1>>, p)) = x + (p[1] \div p[2])
        /\ p[1] \div p[2] \in Nat /\ p[2] * (p[1] \div p[2]) <= p[1]
    BY <2>1, TruncatedSum
  <2>3. IntegerPart(p) = p[1] \div p[2]
    BY DEF IntegerPart
  <2> QED
    BY <2>2, <2>3 DEF p
<1> HIDE DEF add, part
<1>2. G \in [0 .. K - 1 -> [Nat -> Nat]]
  <2>1. \A i \in 0 .. K - 1 : i + 1 \in 1 .. K
    OBVIOUS
  <2>2. \A i \in 0 .. K - 1 : \A x \in Nat : add(i + 1, x) \in Nat
    BY <1>1, <2>1
  <2> QED
    BY <2>2
<1>3. PICK s \in [0 .. K -> Nat] : s[0] = 0 /\ \A i \in 0 .. K - 1 : s[i + 1] = G[i][s[i]]
  <2>1. UpSequences(K, Nat, 0, G) # {}
    <3>1. 0 \in Nat /\ K \in Nat
      OBVIOUS
    <3> HIDE DEF G
    <3> QED
      BY <1>2, <3>1, UpSequence
  <2> QED
    BY <2>1 DEF UpSequences
<1>4. \A i \in 1 .. K : s[i] = add(i, s[i - 1]) /\ s[i - 1] \in Nat /\ s[i] \in Nat
  <2> TAKE i \in 1 .. K
  <2>1. i - 1 \in 0 .. K - 1 /\ (i - 1) + 1 = i /\ i - 1 \in 0 .. K /\ i \in 0 .. K
    OBVIOUS
  <2>2. s[i - 1] \in Nat /\ s[i] \in Nat
    BY <2>1
  <2>3. s[(i - 1) + 1] = G[i - 1][s[i - 1]]
    BY <1>3, <2>1
  <2> QED
    BY <2>1, <2>2, <2>3
<1> HIDE DEF G
<1>5. ASSUME NEW j \in 1 .. K PROVE NPrime(m, j) = s[j - 1]
  <2> DEFINE Up(g) == [i \in 0 .. j - 1 |-> IF i = 0 THEN 0 ELSE add(i, g[i - 1])]
             sum == CHOOSE g : g = Up(g)
             r == [i \in 0 .. j - 1 |-> s[i]]
  <2>1. r = Up(r)
    <3>1. ASSUME NEW i \in 0 .. j - 1 PROVE r[i] = Up(r)[i]
      <4>1. CASE i = 0
        BY <1>3, <4>1
      <4>2. CASE i # 0
        <5>1. i \in 1 .. K /\ i - 1 \in 0 .. j - 1
          BY <4>2
        <5>2. s[i] = add(i, s[i - 1])
          BY <1>4, <5>1
        <5> QED
          BY <4>2, <5>1, <5>2
      <4> QED
        BY <4>1, <4>2
    <3>2. DOMAIN Up(r) = 0 .. j - 1 /\ Up(r) = [i \in 0 .. j - 1 |-> Up(r)[i]]
      OBVIOUS
    <3>3. DOMAIN r = 0 .. j - 1 /\ r = [i \in 0 .. j - 1 |-> r[i]]
      OBVIOUS
    <3> HIDE DEF Up, r
    <3> QED
      BY <3>1, <3>2, <3>3
  <2>2. sum = Up(sum)
    <3> HIDE DEF Up, r
    <3> QED
      BY <2>1
  <2>3. NPrime(m, j) = sum[j - 1]
    BY DEF NPrime, add
  <2> HIDE DEF sum
  <2>4. sum[0] = 0 /\ \A i \in 1 .. j - 1 : sum[i] = add(i, sum[i - 1])
    BY <2>2
  <2> HIDE DEF Up, r
  <2> DEFINE Good == {i \in Nat : i <= j - 1 => sum[i] = s[i]}
  <2>5. 0 \in Good
    BY <1>3, <2>4
  <2>6. ASSUME NEW i \in Good PROVE i + 1 \in Good
    <3> SUFFICES ASSUME i + 1 <= j - 1 PROVE sum[i + 1] = s[i + 1]
      OBVIOUS
    <3>1. i + 1 \in 1 .. j - 1 /\ i + 1 \in 1 .. K /\ (i + 1) - 1 = i /\ sum[i] = s[i]
      OBVIOUS
    <3>2. sum[i + 1] = add(i + 1, sum[i]) /\ s[i + 1] = add(i + 1, s[i])
      BY <1>4, <2>4, <3>1
    <3> QED
      BY <3>1, <3>2
  <2>7. Good \in SUBSET Nat
    OBVIOUS
  <2>8. Good = Nat
    <3> HIDE DEF Good
    <3> QED
      BY <2>5, <2>6, <2>7, InductionSet
  <2>9. j - 1 \in Good
    <3>1. j - 1 \in Nat
      OBVIOUS
    <3> QED
      BY <2>8, <3>1
  <2> QED
    BY <2>3, <2>9
<1>6. ASSUME NEW j \in 1 .. K PROVE Modulus(m, j) = s[j]
  <2>1. Modulus(m, j) = add(j, NPrime(m, j))
    BY DEF Modulus, add
  <2> QED
    BY <1>4, <1>5, <2>1
<1>7. ASSUME NEW j \in 1 .. K
      PROVE  /\ NPrime(m, j) \in Nat /\ part(j) \in Nat
             /\ Modulus(m, j) = NPrime(m, j) + part(j)
             /\ m[j][2] * part(j) <= m[j][1]
  <2>1. s[j - 1] \in Nat /\ s[j] = add(j, s[j - 1])
    BY <1>4
  <2>2. add(j, s[j - 1]) = s[j - 1] + part(j) /\ part(j) \in Nat /\ m[j][2] * part(j) <= m[j][1]
    BY <1>1, <2>1
  <2> QED
    BY <1>5, <1>6, <2>1, <2>2
<1>8. NPrime(m, 1) = 0
  <2>1. 1 \in 1 .. K
    OBVIOUS
  <2> QED
    BY <1>3, <1>5, <2>1
<1>9. ASSUME NEW j \in 1 .. K - 1 PROVE NPrime(m, j + 1) = Modulus(m, j)
  <2>1. j \in 1 .. K /\ j + 1 \in 1 .. K /\ (j + 1) - 1 = j
    OBVIOUS
  <2> QED
    BY <1>5, <1>6, <2>1
<1> QED
  BY <1>7, <1>8, <1>9 DEF part

\* Some disk has the average capacity or more.
LEMMA AverageIsReached ==
  ASSUME NEW k \in Kinds, NEW l \in Lists[k]
  PROVE  \E n \in DOMAIN l : l[n].capacity * Len(l) >= TotalCapacity(l)
<1> DEFINE D == DOMAIN l
           N == Len(l)
           T == TotalCapacity(l)
           f == [n \in D |-> l[n].capacity]
           one == [n \in D |-> 1]
           g == [n \in D |-> N * f[n]]
           h == [n \in D |-> T * one[n]]
<1>1. N \in Nat \ {0} /\ D = 1 .. N /\ \A n \in D : f[n] \in Nat
  BY ListIs
<1>2. IsFiniteSet(D) /\ Cardinality(D) = N
  BY <1>1, FS_Interval
<1>3. T = SumFunctionOnSet(f, D)
  <2>1. DOMAIN f = D
    OBVIOUS
  <2>2. T = SumFunction(f)
    BY DEF TotalCapacity
  <2> HIDE DEF f, D, T
  <2> QED
    BY <2>1, <2>2 DEF SumFunction, SumFunctionOnSet, FoldFunction
<1>4. T \in Nat \ {0}
  BY TotalIs
<1> HIDE DEF D, N, T
<1>5. SumFunctionOnSet(g, D) = N * T
  <2>1. \A n \in D : f[n] \in Int /\ g[n] = N * f[n]
    BY <1>1
  <2> HIDE DEF f, g
  <2> QED
    BY <1>1, <1>2, <1>3, <2>1, SumScaled
<1>6. SumFunctionOnSet(h, D) = T * N
  <2>1. \A n \in D : one[n] \in Int /\ h[n] = T * one[n]
    OBVIOUS
  <2>2. SumFunctionOnSet(one, D) = N
    BY <1>2, SumOfOnes
  <2> HIDE DEF one, h
  <2> QED
    BY <1>2, <1>4, <2>1, <2>2, SumScaled
<1>7. \A n \in D : g[n] = f[n] * N /\ h[n] = T /\ g[n] \in Int /\ h[n] \in Int
  <2> TAKE n \in D
  <2>1. f[n] \in Nat
    BY <1>1
  <2> HIDE DEF f
  <2> QED
    BY <1>1, <1>4, <2>1
<1>8. 1 \in D
  BY <1>1
<1> HIDE DEF f, g, h
<1>9. SUFFICES ASSUME \A n \in D : f[n] * N < T PROVE FALSE
  <2>1. \E n \in D : ~(f[n] * N < T)
    BY <1>9
  <2>2. PICK n \in D : ~(f[n] * N < T)
    BY <2>1
  <2>3. f[n] * N >= T /\ f[n] = l[n].capacity
    <3>1. f[n] \in Nat
      BY <1>1
    <3> DEFINE x == f[n] * N
    <3>2. x \in Int /\ ~(x < T)
      BY <1>1, <2>2, <3>1
    <3> HIDE DEF x
    <3>3. x >= T
      BY <1>4, <3>2
    <3> QED
      BY <3>3 DEF x, f
  <2> QED
    BY <2>3 DEF D, N, T
<1>10. \A n \in D : g[n] \in Int /\ h[n] \in Int /\ g[n] <= h[n] /\ g[n] < h[n]
  BY <1>7, <1>9
<1>11. SumFunctionOnSet(g, D) < SumFunctionOnSet(h, D)
  BY <1>2, <1>8, <1>10, SumCompare
<1>12. N * T = T * N /\ N * T \in Int
  BY <1>1, <1>4
<1> QED
  BY <1>5, <1>6, <1>11, <1>12

\* So the weights of one cluster amount to 1 at least.
LEMMA HeavyCluster ==
  ASSUME NEW k \in Kinds, NEW l \in Lists[k]
  PROVE  \E j \in DOMAIN Clusters(l) :
           /\ IntegerPart(MPrimes(l)[j]) >= 1
           /\ IntegerPart(MPrimes(l)[j]) \in Nat
<1>1. PICK i \in DOMAIN l : l[i].capacity * Len(l) >= TotalCapacity(l)
  BY AverageIsReached
<1>2. PICK j \in DOMAIN Clusters(l) : Capacities(l)[j] = l[i].capacity
  BY EveryCapacity
<1> DEFINE u == Capacities(l)[j] * Len(l)
           v == TotalCapacity(l)
           w == Ratio(u, v)
           n == Len(Clusters(l)[j])
           e == n * w[1]
           q == Ratio(e, w[2])
<1>3. u \in Nat /\ v \in Nat \ {0} /\ u >= v
  <2>1. Capacities(l)[j] \in Nat /\ Len(l) \in Nat
    BY ClustersAre, ListIs
  <2>2. v \in Nat \ {0}
    BY TotalIs
  <2>3. u = l[i].capacity * Len(l)
    BY <1>2
  <2> QED
    BY <1>1, <2>1, <2>2, <2>3
<1>4. Weights(l)[j] = w
  BY ClustersAre DEF Weights
<1> HIDE DEF u, v
<1>5. w[1] \in Nat /\ w[2] \in Nat \ {0} /\ w[1] * v = u * w[2]
  BY <1>3, RatioIsNatural
<1>6. n \in Nat \ {0}
  BY ClustersAre DEF ClustersOf
<1>7. MPrimes(l)[j] = q
  BY <1>4 DEF MPrimes, MPrime, Scaled
<1> HIDE DEF w, n
<1>8. w[1] >= w[2]
  <2> DEFINE x == w[2] * v
             y == w[2] * u
  <2>1. x <= y
    BY <1>3, <1>5, ProductOrder
  <2>2. v * w[2] <= v * w[1]
    <3>1. x = v * w[2] /\ y = v * w[1]
      BY <1>3, <1>5
    <3> HIDE DEF x, y
    <3> QED
      BY <2>1, <3>1
  <2> QED
    BY <1>3, <1>5, <2>2, ProductOrder
<1>9. e \in Nat /\ e >= w[2]
  <2>1. w[1] * 1 <= w[1] * n
    BY <1>5, <1>6, ProductOrder
  <2>2. w[1] * n = e /\ w[1] * 1 = w[1] /\ e \in Nat
    BY <1>5, <1>6
  <2> HIDE DEF e
  <2> QED
    BY <1>5, <1>8, <2>1, <2>2
<1> HIDE DEF e
<1>10. q[1] \in Nat /\ q[2] \in Nat \ {0} /\ q[1] * w[2] = e * q[2]
  BY <1>5, <1>9, RatioIsNatural
<1> HIDE DEF q
<1>11. q[1] >= q[2]
  <2> DEFINE x == q[2] * w[2]
             y == q[2] * e
  <2>1. x <= y
    BY <1>5, <1>9, <1>10, ProductOrder
  <2>2. w[2] * q[2] <= w[2] * q[1]
    <3>1. x = w[2] * q[2] /\ y = w[2] * q[1]
      BY <1>5, <1>9, <1>10
    <3> HIDE DEF x, y
    <3> QED
      BY <2>1, <3>1
  <2> QED
    BY <1>5, <1>10, <2>2, ProductOrder
<1>12. IntegerPart(q) \in Nat /\ IntegerPart(q) >= 1
  <2> DEFINE a == q[1]
             b == q[2]
  <2>1. a \in Nat /\ b \in Nat \ {0} /\ b * 1 <= a /\ a \in Int
    BY <1>10, <1>11
  <2> HIDE DEF a, b
  <2>2. a \div b \in Nat /\ 1 <= a \div b
    BY <2>1, Division, QuotientIs
  <2> QED
    BY <2>2 DEF IntegerPart, a, b
<1> QED
  BY <1>7, <1>12

\* From the heaviest cluster on the moduli are not 0, the last one's among them.
LEMMA LastModulus ==
  ASSUME NEW k \in Kinds, NEW l \in Lists[k]
  PROVE  Modulus(MPrimes(l), Len(Clusters(l))) # 0
<1> DEFINE K == Len(Clusters(l))
           m == MPrimes(l)
           M(j) == Modulus(m, j)
<1>1. K \in Nat \ {0} /\ DOMAIN Clusters(l) = 1 .. K /\ \A j \in 1 .. K : Fraction(m[j])
  BY ClustersAre, MPrimesAre DEF ClustersOf, Fraction
<1>2. PICK j \in 1 .. K : IntegerPart(m[j]) >= 1
  BY <1>1, HeavyCluster
<1> HIDE DEF K, m
<1>3. /\ \A i \in 1 .. K : /\ NPrime(m, i) \in Nat /\ IntegerPart(m[i]) \in Nat
                           /\ M(i) = NPrime(m, i) + IntegerPart(m[i])
      /\ \A i \in 1 .. K - 1 : NPrime(m, i + 1) = M(i)
  BY <1>1, ModulusIs
<1> HIDE DEF M
<1> DEFINE Good == {d \in Nat : j + d <= K => M(j + d) >= 1}
<1>4. 0 \in Good
  BY <1>2, <1>3
<1>5. ASSUME NEW d \in Good PROVE d + 1 \in Good
  <2> SUFFICES ASSUME j + (d + 1) <= K PROVE M(j + (d + 1)) >= 1
    OBVIOUS
  <2> DEFINE i == j + d
  <2>1. i \in 1 .. K - 1 /\ i + 1 \in 1 .. K /\ j + (d + 1) = i + 1 /\ M(i) >= 1
    BY <1>1
  <2> HIDE DEF i
  <2>2. M(i + 1) = M(i) + IntegerPart(m[i + 1]) /\ IntegerPart(m[i + 1]) \in Nat /\ M(i) \in Nat
    BY <1>3, <2>1
  <2> QED
    BY <2>1, <2>2
<1>6. Good \in SUBSET Nat
  OBVIOUS
<1>7. Good = Nat
  <2> HIDE DEF Good
  <2> QED
    BY <1>4, <1>5, <1>6, InductionSet
<1>8. K - j \in Good /\ j + (K - j) = K
  <2>1. K - j \in Nat /\ j + (K - j) = K
    BY <1>1
  <2> QED
    BY <1>7, <2>1
<1>9. M(K) >= 1 /\ M(K) \in Nat
  <2>1. K \in 1 .. K
    BY <1>1
  <2> QED
    BY <1>1, <1>3, <1>8, <2>1
<1> QED
  BY <1>9 DEF M, K, m

\* A copy leaves a cluster only if there is something to take before it.
LEMMA NextModulus ==
  ASSUME NEW k \in Kinds, NEW l \in Lists[k], NEW j \in DOMAIN Clusters(l), j > 1,
         Modulus(MPrimes(l), j) # 0, NEW v \in Nat,
         ~Less(<<v % Modulus(MPrimes(l), j), 1>>, MPrimes(l)[j])
  PROVE  Modulus(MPrimes(l), j - 1) # 0
<1> DEFINE K == Len(Clusters(l))
           m == MPrimes(l)
           M == Modulus(m, j)
           N == NPrime(m, j)
           F == IntegerPart(m[j])
           a == m[j][1]
           b == m[j][2]
<1>1. K \in Nat \ {0} /\ DOMAIN Clusters(l) = 1 .. K /\ \A i \in 1 .. K : Fraction(m[i])
  BY ClustersAre, MPrimesAre DEF ClustersOf, Fraction
<1> HIDE DEF K, m
<1>2. /\ \A i \in 1 .. K : /\ NPrime(m, i) \in Nat /\ IntegerPart(m[i]) \in Nat
                           /\ Modulus(m, i) = NPrime(m, i) + IntegerPart(m[i])
                           /\ m[i][2] * IntegerPart(m[i]) <= m[i][1]
      /\ \A i \in 1 .. K - 1 : NPrime(m, i + 1) = Modulus(m, i)
  BY <1>1, ModulusIs
<1>3. j - 1 \in 1 .. K - 1 /\ (j - 1) + 1 = j /\ j \in 1 .. K
  BY <1>1
<1>4. N = Modulus(m, j - 1)
  BY <1>2, <1>3
<1>5. N \in Nat /\ F \in Nat /\ M = N + F /\ b * F <= a /\ a \in Nat /\ b \in Nat \ {0}
  BY <1>1, <1>2, <1>3 DEF Fraction
<1>6. M # 0
  BY DEF m
<1>7. ~((v % M) * b < a * 1)
  BY DEF Less, m
<1> HIDE DEF M, N, F, a, b
<1>8. SUFFICES ASSUME N = 0 PROVE FALSE
  BY <1>4, <1>8 DEF m
<1> DEFINE r == v % M
<1>9. M \in Nat \ {0} /\ M = F
  BY <1>5, <1>6, <1>8
<1>10. r \in Nat /\ r < M
  <2>1. v \in Int
    OBVIOUS
  <2>2. r \in 0 .. M - 1
    BY <1>9, <2>1, Division
  <2> QED
    BY <1>9, <2>2
<1>11. ~(r * b < a * 1)
  BY <1>7
<1> HIDE DEF r
<1>12. b * r < b * F
  BY <1>5, <1>9, <1>10, ProductOrder
<1> DEFINE x == b * r
           y == b * F
<1>13. x \in Int /\ y \in Int /\ x = r * b /\ a * 1 = a /\ x < y /\ y <= a
  BY <1>5, <1>10, <1>12
<1> HIDE DEF x, y
<1> QED
  BY <1>5, <1>11, <1>13

\* A capacity of too few disks
SmallClass(l, c) ==
  \E d \in ToSet(l) : Cardinality({n \in DOMAIN l : l[n].capacity = d.capacity}) < c

(* RUSH: RUSHp is at a cluster it can take a rest by; a call fails where   *)
(* the table has no disk or child for it, or the disks are gone.           *)
RUSHFailures ==
  kind \in RUSHKinds =>
    /\ status = "exited" => SmallClass(disks, copies)
    /\ status = "crashed" =>
         \/ kind = "RUSHp" /\ ~lent
         \/ kind = "RUSHr" /\ Cardinality(DOMAIN table.choices) < Len(table.clusters[local.j])
         \/ kind = "RUSHt" /\ local.node.right = None
    /\ status = "placing" /\ kind = "RUSHp" => table.modulus[local.j] # 0

\* The clusters of a table
LEMMA TableIsReady ==
  ASSUME Configured, RUSHTable, kind \in RUSHKinds, status \in {"ready", "placing"}
  PROVE  /\ RUSHReady(table, disks, copies) /\ disks \in Lists[kind] /\ kind \in Kinds
         /\ ClustersOf(Clusters(disks), disks) /\ Len(Clusters(disks)) > 0
         /\ table.clusters = Clusters(disks) /\ table.mPrime = MPrimes(disks)
         /\ table.alldisks = disks
         /\ \A j \in DOMAIN Clusters(disks) : table.modulus[j] = Modulus(MPrimes(disks), j)
         /\ \E n \in Nat : table.choices = Identity(n)
<1>1. RUSHReady(table, disks, copies)
  BY DEF RUSHTable
<1>2. disks \in Lists[kind] /\ kind \in Kinds
  BY DEF Configured
<1>3. ClustersOf(Clusters(disks), disks) /\ Len(Clusters(disks)) > 0
  BY <1>2, ClustersAre
<1> DEFINE cl == Clusters(disks)
           m == MPrimes(disks)
<1>4. /\ table.clusters = cl /\ table.mPrime = m /\ table.alldisks = disks
      /\ table.modulus = [j \in DOMAIN cl |-> Modulus(m, j)]
      /\ \E n \in Nat : table.choices = Identity(n)
  BY <1>1, ReadyIs
<1> HIDE DEF cl, m
<1>5. \A j \in DOMAIN cl : table.modulus[j] = Modulus(m, j)
  BY <1>4
<1> QED
  BY <1>1, <1>2, <1>3, <1>4, <1>5 DEF cl, m

\* The steps of RUSHp
LEMMA RUSHpFailsSo ==
  ASSUME Configured, Selected, RUSHTable, RUSHFailures, kind = "RUSHp",
         RUSHpCall \/ RUSHpRoll \/ RUSHpStep \/ (Placing("RUSHp") /\ local.r = copies /\ Finish)
  PROVE  RUSHFailures'
<1> DEFINE cl == Clusters(disks)
           last == Len(table.clusters)
<1>1. kind \in RUSHKinds /\ kind' = kind /\ status \in {"ready", "placing"} /\ table' = table
  <2>1. kind' = kind /\ status \in {"ready", "placing"} /\ table' = table
    BY DEF RUSHpCall, RUSHpRoll, RUSHpStep, Placing, Call, Crash, Advance, Append1, Finish
  <2> QED
    BY <2>1 DEF RUSHKinds
<1>2. /\ disks \in Lists[kind] /\ kind \in Kinds
      /\ ClustersOf(cl, disks) /\ Len(cl) > 0 /\ Len(cl) \in Nat /\ DOMAIN cl = 1 .. Len(cl)
      /\ table.clusters = cl /\ table.mPrime = MPrimes(disks)
      /\ \A j \in DOMAIN cl : table.modulus[j] = Modulus(MPrimes(disks), j)
  <2>1. ClustersOf(cl, disks) /\ Len(cl) > 0
    BY <1>1, TableIsReady
  <2> QED
    BY <1>1, <2>1, TableIsReady DEF ClustersOf
<1> HIDE DEF cl
<1>3. table.modulus[last] # 0
  <2>1. Modulus(MPrimes(disks), Len(cl)) # 0
    BY <1>2, LastModulus DEF cl
  <2>2. last = Len(cl) /\ Len(cl) \in DOMAIN cl
    BY <1>2
  <2> QED
    BY <1>2, <2>1, <2>2
<1>4. ASSUME status' = "placing", local'.j = last PROVE RUSHFailures'
  BY <1>1, <1>3, <1>4 DEF RUSHFailures, RUSHKinds
<1>5. CASE RUSHpCall
  <2>1. status' = "placing" /\ local'.j = last
    BY <1>5 DEF RUSHpCall, Call
  <2> QED
    BY <1>4, <2>1
<1>6. CASE RUSHpRoll
  <2>1. status = "placing" /\ status' = "placing"
    BY <1>6 DEF RUSHpRoll, Placing, Advance
  <2>2. local = [x |-> local.x, r |-> Len(result), j |-> local.j, dice |-> local.dice]
    BY <1>1, <2>1 DEF RUSHTable, RUSHpLocal
  <2>3. PICK dice \in Dice :
          local' = [local EXCEPT !.dice = [j \in DOMAIN @ \cup {local.j} |->
                                             IF j = local.j THEN dice ELSE @[j]]]
    BY <1>6 DEF RUSHpRoll, Advance
  <2> DEFINE all == [j \in DOMAIN local.dice \cup {local.j} |->
                       IF j = local.j THEN dice ELSE local.dice[j]]
  <2>4. local' = [local EXCEPT !.dice = all]
    BY <2>3
  <2> HIDE DEF all
  <2>5. local'.j = local.j
    BY <2>2, <2>4
  <2>6. table.modulus[local.j] # 0
    BY <1>1, <2>1 DEF RUSHFailures
  <2> QED
    BY <1>1, <2>1, <2>5, <2>6 DEF RUSHFailures, RUSHKinds
<1>7. CASE RUSHpStep
  <2> DEFINE j == local.j
             d == local.dice[j]
             z == d.z + local.r * d.p
  <2>1. status = "placing" /\ j \in DOMAIN local.dice /\ table.modulus[j] # 0
    BY <1>1, <1>7 DEF RUSHpStep, Placing, RUSHFailures
  <2>2. /\ local = [x |-> local.x, r |-> Len(result), j |-> local.j, dice |-> local.dice]
        /\ j \in DOMAIN cl /\ d \in Dice /\ local.r \in Nat
    <3>1. RUSHpLocal(local, cl, result) /\ result \in Seq(Int)
      BY <1>1, <2>1 DEF RUSHTable, Selected, cl
    <3>2. /\ local = [x |-> local.x, r |-> Len(result), j |-> local.j, dice |-> local.dice]
          /\ j \in DOMAIN cl /\ d \in Dice
      BY <2>1, <3>1 DEF RUSHpLocal
    <3> QED
      BY <3>1, <3>2
  <2>3. z \in Nat
    <3>1. d.z \in Nat /\ d.p \in HashedPrimes
      BY <2>2, BoundsAssumption DEF Dice
    <3>2. d.p \in Nat
      <4>1. PICK m \in (Len(Primes) \div 2) + 1 .. Len(Primes) : d.p = Primes[m]
        BY <3>1 DEF HashedPrimes
      <4> DEFINE n == Len(Primes)
                 h == n \div 2
      <4>2. n \in Nat /\ n \in Int /\ DOMAIN Primes = 1 .. n /\ Primes \in Seq(Nat)
        BY PrimesAssumption
      <4>3. h \in Nat /\ m \in h + 1 .. n
        <5>1. m \in h + 1 .. n
          BY <4>1
        <5> HIDE DEF n
        <5>2. h \in Nat
          BY <4>2, Division
        <5> QED
          BY <5>1, <5>2
      <4> HIDE DEF n, h
      <4>4. m \in DOMAIN Primes
        BY <4>2, <4>3
      <4> QED
        BY <4>1, <4>2, <4>4
    <3> DEFINE a == d.z
               b == local.r
               e == d.p
    <3>3. a \in Nat /\ b \in Nat /\ e \in Nat
      BY <2>2, <3>1, <3>2
    <3> HIDE DEF a, b, e
    <3>4. a + b * e \in Nat
      BY <3>3
    <3> QED
      BY <3>4 DEF a, b, e
  <2>4. CASE ~Less(<<z % table.modulus[j], 1>>, table.mPrime[j])
    <3>1. Advance(NextCluster)
      BY <1>7, <2>1, <2>4 DEF RUSHpStep
    <3>2. status' = "placing" /\ local' = NextCluster
      BY <2>1, <3>1 DEF Advance
    <3>3. CASE j > 1
      <4>1. local'.j = j - 1
        BY <2>2, <3>2, <3>3 DEF NextCluster
      <4>2. table.modulus[j] = Modulus(MPrimes(disks), j) /\ table.mPrime = MPrimes(disks)
        BY <1>2, <2>2
      <4>3. Modulus(MPrimes(disks), j - 1) # 0
        <5> DEFINE M == Modulus(MPrimes(disks), j)
        <5>1. ~Less(<<z % M, 1>>, MPrimes(disks)[j]) /\ M # 0
          BY <2>1, <2>4, <4>2
        <5> HIDE DEF z, j
        <5> QED
          BY <1>2, <2>2, <2>3, <3>3, <5>1, NextModulus DEF cl
      <4>4. j - 1 \in DOMAIN cl
        BY <1>2, <2>2, <3>3
      <4>5. table.modulus[j - 1] # 0
        BY <1>2, <4>3, <4>4
      <4> HIDE DEF j
      <4>6. table'.modulus[local'.j] # 0
        BY <1>1, <4>1, <4>5
      <4> QED
        BY <1>1, <3>2, <4>6 DEF RUSHFailures, RUSHKinds
    <3>4. CASE ~(j > 1)
      <4>1. local'.j = last
        BY <2>2, <3>2, <3>4 DEF NextCluster
      <4> QED
        BY <1>4, <3>2, <4>1
    <3> QED
      BY <3>3, <3>4
  <2>5. CASE Less(<<z % table.modulus[j], 1>>, table.mPrime[j]) /\ ~lent
    <3>1. Crash
      BY <1>7, <2>1, <2>5 DEF RUSHpStep
    <3>2. status' = "crashed" /\ lent' = lent
      BY <3>1 DEF Crash
    <3> QED
      BY <1>1, <2>5, <3>2 DEF RUSHFailures, RUSHKinds
  <2>6. CASE Less(<<z % table.modulus[j], 1>>, table.mPrime[j]) /\ lent
    <3>1. \E id : Append1(id, [local EXCEPT !.r = @ + 1, !.j = last])
      BY <1>7, <2>1, <2>6 DEF RUSHpStep
    <3>2. status' = "placing" /\ local' = [local EXCEPT !.r = @ + 1, !.j = last]
      BY <2>1, <3>1 DEF Append1
    <3>3. local'.j = last
      BY <2>2, <3>2
    <3> QED
      BY <1>4, <3>2, <3>3
  <2> QED
    BY <2>4, <2>5, <2>6
<1>8. CASE Placing("RUSHp") /\ local.r = copies /\ Finish
  <2>1. status' = "ready"
    BY <1>8 DEF Finish
  <2> QED
    BY <2>1 DEF RUSHFailures
<1> QED
  BY <1>5, <1>6, <1>7, <1>8

\* The steps of all three
LEMMA RUSHFailsSo ==
  ASSUME Configured, Selected, RUSHTable, RUSHFailures, kind \in RUSHKinds, RUSHNext
  PROVE  RUSHFailures'
<1>1. ASSUME NEW k \in RUSHKinds, NEW l \in Lists[kind], NEW c \in 1 .. MaxCopies,
             RUSHSetDisks(k, l, c)
      PROVE  RUSHFailures'
  <2>1. kind \in Kinds /\ disks' = l /\ copies' = c
    BY <1>1 DEF RUSHSetDisks, Configure, Configured
  <2>2. CASE TooSmall(l, c)
    <3>1. PICK j \in DOMAIN Clusters(l) : Len(Clusters(l)[j]) < c
      BY <2>2 DEF TooSmall
    <3>2. PICK n \in DOMAIN l : Len(Clusters(l)[j]) = Cardinality(SameCapacity(l, l[n].capacity))
      BY <2>1, ClustersAre DEF ClustersOf
    <3>3. SmallClass(l, c)
      <4>1. l[n] \in ToSet(l)
        BY DEF ToSet
      <4>2. Cardinality({m \in DOMAIN l : l[m].capacity = l[n].capacity}) < c
        BY <3>1, <3>2 DEF SameCapacity
      <4> QED
        BY <4>1, <4>2 DEF SmallClass
    <3>4. status' = "exited"
      BY <1>1, <2>2 DEF RUSHSetDisks
    <3> QED
      BY <2>1, <3>3, <3>4, Zenon DEF RUSHFailures, SmallClass
  <2>3. CASE ~TooSmall(l, c)
    <3>1. status' = "ready"
      BY <1>1, <2>3 DEF RUSHSetDisks
    <3> QED
      BY <3>1 DEF RUSHFailures
  <2> QED
    BY <2>2, <2>3
<1>2. ASSUME \/ RUSHpCall \/ RUSHpRoll \/ RUSHpStep
             \/ Placing("RUSHp") /\ local.r = copies /\ Finish
      PROVE  RUSHFailures'
  <2>1. kind = "RUSHp"
    BY <1>2 DEF RUSHpCall, RUSHpRoll, RUSHpStep, Placing, Call
  <2> QED
    BY <1>2, <2>1, RUSHpFailsSo
<1>3. ASSUME RUSHrCall \/ RUSHrOther \/ (Placing("RUSHr") /\ local.remaining = 0 /\ Finish)
      PROVE  RUSHFailures'
  <2>1. kind = "RUSHr" /\ kind' = kind /\ status' \in {"ready", "placing"}
    BY <1>3 DEF RUSHrCall, RUSHrOther, Placing, Call, Finish
  <2> QED
    BY <2>1 DEF RUSHFailures
<1>4. ASSUME RUSHrStep PROVE RUSHFailures'
  <2>1. kind = "RUSHr" /\ status = "placing"
    BY <1>4 DEF RUSHrStep, Placing
  <2> DEFINE servers == Len(table.clusters[local.j])
  <2>2. \/ Crash /\ ~(0 .. servers - 1 \subseteq DOMAIN table.choices)
        \/ kind' = kind /\ status' = status
    BY <1>4 DEF RUSHrStep
  <2>3. CASE Crash /\ ~(0 .. servers - 1 \subseteq DOMAIN table.choices)
    <3>1. PICK n \in Nat : table.choices = Identity(n)
      BY <2>1, TableIsReady
    <3>2. DOMAIN table.choices = 0 .. n - 1
      BY <3>1 DEF Identity
    <3>3. Cardinality(0 .. n - 1) = n
      BY <3>1, FS_Interval
    <3>4. servers \in Nat
      <4>1. RUSHrLocal(local, Clusters(disks), disks, result, copies)
        BY <2>1 DEF RUSHTable
      <4>2. local.j \in Nat /\ local.j <= Len(Clusters(disks)) /\ local.j > 0
        BY <1>4, <4>1 DEF RUSHrLocal, RUSHrStep
      <4>3. ClustersOf(Clusters(disks), disks) /\ table.clusters = Clusters(disks)
        BY <2>1, TableIsReady
      <4>4. local.j \in DOMAIN Clusters(disks)
        BY <4>2, <4>3 DEF ClustersOf
      <4> QED
        BY <4>3, <4>4 DEF ClustersOf
    <3>5. Cardinality(DOMAIN table.choices) < servers
      <4> HIDE DEF servers
      <4>1. n < servers
        BY <2>3, <3>1, <3>2, <3>4
      <4> QED
        BY <3>2, <3>3, <4>1
    <3>6. status' = "crashed" /\ kind' = kind /\ table' = table /\ local' = local
      BY <2>3 DEF Crash
    <3> QED
      BY <2>1, <3>5, <3>6 DEF RUSHFailures
  <2>4. CASE kind' = kind /\ status' = status
    BY <2>1, <2>4 DEF RUSHFailures
  <2> QED
    BY <2>2, <2>3, <2>4
<1>5. ASSUME RUSHtCall \/ RUSHtPlace PROVE RUSHFailures'
  <2>1. kind = "RUSHt" /\ kind' = kind /\ status' \in {"ready", "placing"}
    BY <1>5 DEF RUSHtCall, RUSHtPlace, Placing, Call
  <2> QED
    BY <2>1 DEF RUSHFailures
<1>6. ASSUME RUSHtDescend PROVE RUSHFailures'
  <2>1. kind = "RUSHt" /\ status = "placing"
    BY <1>6 DEF RUSHtDescend, Placing
  <2>2. \/ local.node.right = None /\ Crash
        \/ kind' = kind /\ status' = status
    BY <1>6 DEF RUSHtDescend, Advance
  <2>3. CASE local.node.right = None /\ Crash
    <3>1. status' = "crashed" /\ kind' = kind /\ local' = local
      BY <2>3 DEF Crash
    <3> QED
      BY <2>1, <2>3, <3>1 DEF RUSHFailures
  <2>4. CASE kind' = kind /\ status' = status
    BY <2>1, <2>4 DEF RUSHFailures
  <2> QED
    BY <2>2, <2>3, <2>4
<1> QED
  BY <1>1, <1>2, <1>3, <1>4, <1>5, <1>6 DEF RUSHNext, RUSHReturn

\* The position closest to a key is one of the ring.
LEMMA RingClosestIs ==
  ASSUME NEW D, D # {}, D \subseteq 0 .. MaxHash, NEW hash \in 0 .. MaxHash
  PROVE  RingClosest(D, hash) \in D
<1> DEFINE below == {p \in D : p <= hash}
<1>1. MaxHash \in Nat
  BY BoundsAssumption
<1>2. Max(D) \in D
  BY <1>1, MaxIs
<1>3. below # {} => Max(below) \in below
  BY <1>1, MaxIs
<1>4. RingClosest(D, hash) = IF below = {} THEN Max(D) ELSE Max(below)
  BY DEF RingClosest
<1> HIDE DEF below
<1> QED
  BY <1>2, <1>3, <1>4 DEF below

(* NearestNeighbour: the key finder has the positions of all disks, and    *)
(* there is one.                                                           *)
NNRing ==
  kind \in NNKinds /\ status # "new" =>
    /\ status # "crashed"
    /\ DOMAIN table.diskDistribution \subseteq 0 .. MaxHash
    /\ status = "building" => DOMAIN table.diskDistribution # {} \/ local.disk = 1
    /\ status \in {"ready", "placing"} =>
         /\ table.keyFinder = DOMAIN table.diskDistribution
         /\ DOMAIN table.diskDistribution # {}

LEMMA NNNeverFails ==
  ASSUME Configured, NNTable, NNRing, kind \in NNKinds, NNNext
  PROVE  NNRing'
<1>1. ASSUME NEW k \in NNKinds, NEW l \in Lists[kind], NEW c \in 1 .. MaxCopies,
             NNSetDisks(k, l, c)
      PROVE  NNRing'
  <2>1. /\ status' = "building" /\ local' = [disk |-> 1, i |-> 0]
        /\ table' = [diskDistribution |-> [p \in {} |-> None], keyFinder |-> {}]
    BY <1>1 DEF NNSetDisks, Configure
  <2>2. DOMAIN table'.diskDistribution = {} /\ local'.disk = 1
    BY <2>1
  <2> QED
    BY <2>1, <2>2 DEF NNRing
<1>2. ASSUME NEW k \in NNKinds, NNInsert(k)
      PROVE  NNRing'
  <2>1. status = "building" /\ kind' = kind /\ status' = status
    BY <1>2 DEF NNInsert, Building
  <2> DEFINE D == table.diskDistribution
             K == table.keyFinder
             id == disks[local.disk].id
  <2>2. PICK p \in 0 .. MaxHash :
          table' = [table EXCEPT !.diskDistribution =
                      Inserted(table.diskDistribution, p, disks[local.disk].id)]
    BY <1>2 DEF NNInsert
  <2> DEFINE E == Inserted(D, p, id)
  <2>3. table = [diskDistribution |-> D, keyFinder |-> K] /\ DOMAIN D \subseteq 0 .. MaxHash
    BY <1>2, <2>1 DEF NNTable, NNRing
  <2>4. DOMAIN E = DOMAIN D \cup {p}
    BY DEF Inserted
  <2>5. table' = [table EXCEPT !.diskDistribution = E]
    BY <2>2
  <2> HIDE DEF E
  <2>6. table' = [diskDistribution |-> E, keyFinder |-> K]
    <3> HIDE DEF D, K
    <3> QED
      BY <2>3, <2>5, NNTableIs
  <2>7. table'.diskDistribution = E
    BY <2>6
  <2> QED
    BY <2>1, <2>3, <2>4, <2>7 DEF NNRing
<1>3. ASSUME NEW k \in NNKinds, NNReturn(k)
      PROVE  NNRing'
  <2>1. /\ status = "building" /\ status' = "ready" /\ local.disk > Len(disks)
        /\ table' = [table EXCEPT !.keyFinder = FinderKeys(table.diskDistribution)]
    BY <1>3 DEF NNReturn, Building, Built
  <2> DEFINE D == table.diskDistribution
             K == table.keyFinder
             F == FinderKeys(table.diskDistribution)
  <2>2. /\ table = [diskDistribution |-> D, keyFinder |-> K]
        /\ DOMAIN D \subseteq 0 .. MaxHash /\ F = DOMAIN D
    BY <2>1 DEF NNTable, NNRing, FinderKeys
  <2>3. DOMAIN D # {}
    <3>1. Len(disks) \in Nat \ {0} /\ local.disk \in Nat
      BY <2>1, ListIs DEF Configured, NNTable
    <3> QED
      BY <2>1, <3>1 DEF NNRing
  <2>4. table' = [table EXCEPT !.keyFinder = F]
    BY <2>1
  <2>5. table' = [diskDistribution |-> D, keyFinder |-> F]
    <3> HIDE DEF D, K, F
    <3> QED
      BY <2>2, <2>4, NNTableIs
  <2>6. table'.diskDistribution = D /\ table'.keyFinder = F
    BY <2>5
  <2> QED
    BY <2>1, <2>2, <2>3, <2>6 DEF NNRing
<1>4. ASSUME NEW k \in NNKinds, NNCall(k) \/ NNFinish(k)
      PROVE  NNRing'
  <2>1. /\ status \in {"ready", "placing"} /\ status' \in {"ready", "placing"}
        /\ kind' = kind /\ table' = table
    BY <1>4 DEF NNCall, Call, NNFinish, Placing, Finish
  <2> QED
    BY <2>1 DEF NNRing
<1>5. ASSUME NEW k \in NNKinds, NNStep(k)
      PROVE  NNRing'
  <2> DEFINE D == table.diskDistribution
  <2>1. /\ status = "placing" /\ table.keyFinder = DOMAIN D /\ DOMAIN D # {}
        /\ DOMAIN D \subseteq 0 .. MaxHash
    BY <1>5 DEF NNStep, Placing, NNRing
  <2>2. \A hash \in 0 .. MaxHash : RingClosest(table.keyFinder, hash) \in DOMAIN D
    <3> TAKE hash \in 0 .. MaxHash
    <3> DEFINE S == DOMAIN D
    <3> HIDE DEF D
    <3>1. S # {} /\ S \subseteq 0 .. MaxHash /\ table.keyFinder = S
      BY <2>1
    <3> HIDE DEF S
    <3>2. RingClosest(S, hash) \in S
      BY <3>1, RingClosestIs
    <3> QED
      BY <3>1, <3>2 DEF S
  <2>3. kind' = kind /\ table' = table /\ status' = "placing"
    BY <1>5, <2>1, <2>2 DEF NNStep, Advance, Append1
  <2> QED
    BY <2>1, <2>3 DEF NNRing
<1> QED
  BY <1>1, <1>2, <1>3, <1>4, <1>5 DEF NNNext

\* The rounds in which an interval of r rounds and e more, from f, passes a point
RoundsPast(M, q, f, r, e) == {k \in 0 .. r + 1 : f <= q + k * M /\ q + k * M < f + (M * r + e)}

\* They are the r, or one more.
LEMMA PassesAre ==
  ASSUME NEW M \in Nat \ {0}, NEW q \in 0 .. M - 1, NEW f \in 0 .. M - 1, NEW r \in Nat,
         NEW e \in 1 .. M - 1
  PROVE  Cardinality(RoundsPast(M, q, f, r, e)) =
           IF (f <= q /\ q < f + e) \/ (q < f /\ q + M < f + e) THEN r + 1 ELSE r
<1> DEFINE S == RoundsPast(M, q, f, r, e)
           lo == IF f <= q THEN 0 ELSE 1
           hi == IF q + M < f + e THEN r + 1 ELSE IF q < f + e THEN r ELSE r - 1
<1>1. ASSUME NEW k \in 0 .. r + 1
      PROVE  (f <= q + k * M /\ q + k * M < f + (M * r + e)) <=> k \in lo .. hi
  <2> DEFINE u == k * M
             v == M * r
  <2>1. k \in Nat /\ u \in Nat /\ v \in Nat
    OBVIOUS
  <2>2. (k = 0 => u = 0) /\ (k >= 1 => u >= M)
    <3>1. k >= 1 => k * M >= M
      OBVIOUS
    <3> QED
      BY <3>1
  <2>3. k <= r - 1 => u <= v - M
    <3>1. k <= r - 1 => k * M <= (r - 1) * M
      OBVIOUS
    <3>2. (r - 1) * M = v - M
      OBVIOUS
    <3> QED
      BY <3>1, <3>2
  <2>4. (k = r => u = v) /\ (k = r + 1 => u = v + M)
    <3>1. (r + 1) * M = v + M
      OBVIOUS
    <3> QED
      BY <3>1
  <2>5. k <= r - 1 \/ k = r \/ k = r + 1
    OBVIOUS
  <2> HIDE DEF u, v
  <2>6. (f <= q + u /\ q + u < f + (v + e)) <=> k \in lo .. hi
    BY <2>1, <2>2, <2>3, <2>4, <2>5
  <2> QED
    BY <2>6 DEF u, v
<1>2. lo \in Int /\ hi \in Int /\ lo >= 0 /\ hi <= r + 1
  OBVIOUS
<1>3. S = lo .. hi
  <2> HIDE DEF lo, hi
  <2>1. \A k \in lo .. hi : k \in 0 .. r + 1
    BY <1>2
  <2> QED
    BY <1>1, <2>1 DEF RoundsPast
<1>4. Cardinality(S) = IF lo > hi THEN 0 ELSE hi - lo + 1
  <2> HIDE DEF lo, hi, S
  <2> QED
    BY <1>2, <1>3, FS_Interval
<1>5. (IF lo > hi THEN 0 ELSE hi - lo + 1) =
        IF (f <= q /\ q < f + e) \/ (q < f /\ q + M < f + e) THEN r + 1 ELSE r
  OBVIOUS
<1> QED
  BY <1>4, <1>5

\* The end of an interval of r rounds and e more
LEMMA EndIs ==
  ASSUME NEW M \in Nat \ {0}, NEW a \in 0 .. M, NEW r \in Nat, NEW e \in 1 .. M - 1
  PROVE  (a + (M * r + e)) % M = IF a + e < M THEN a + e ELSE a + e - M
<1> DEFINE x == a + (M * r + e)
           d == x \div M
           m == x % M
<1>1. x \in Int
  OBVIOUS
<1>2. d \in Int /\ m \in 0 .. M - 1 /\ x = M * d + m
  <2> HIDE DEF x
  <2> QED
    BY <1>1, Division
<1> DEFINE y == IF a + e < M THEN a + e ELSE a + e - M
           k == IF a + e < M THEN r ELSE r + 1
<1>3. x = M * k + y /\ y \in 0 .. M - 1 /\ k \in Int
  <2>1. M * (r + 1) = M * r + M
    OBVIOUS
  <2> QED
    BY <2>1
<1> HIDE DEF x, d, m, y, k
<1>4. M * (d - k) = y - m
  <2>1. M * (d - k) = M * d - M * k
    BY <1>2, <1>3
  <2> DEFINE u == M * d
             v == M * k
  <2>2. u \in Int /\ v \in Int
    BY <1>2, <1>3
  <2>3. x = u + m /\ x = v + y
    BY <1>2, <1>3
  <2> HIDE DEF u, v
  <2>4. u - v = y - m
    BY <1>2, <1>3, <2>2, <2>3
  <2> QED
    BY <2>1, <2>4 DEF u, v
<1>5. y = m
  <2> DEFINE c == d - k
             w == M * c
  <2>1. c \in Int /\ w = y - m
    BY <1>2, <1>3, <1>4
  <2>2. w < M /\ w > -M
    <3> HIDE DEF w
    <3> QED
      BY <1>2, <1>3, <2>1
  <2> HIDE DEF c
  <2>3. c = 0
    BY <2>1, <2>2, SmallMultiple
  <2>4. w = 0
    BY <2>3
  <2> HIDE DEF w
  <2> QED
    BY <1>2, <1>3, <2>1, <2>4
<1> QED
  BY <1>5 DEF m, y, x

\* The count of an interval at the point before a border
LEMMA CountIsPasses ==
  ASSUME NEW sd, OnRing(sd), NEW b \in 0 .. MaxHash,
         sd.length % MaxHash # 0, PointBefore(b) # sd.start
  PROVE  CountCoversPoint(sd, PointBefore(b)) =
           Passes(sd, IF b = 0 THEN MaxHash - 1 ELSE b - 1)
<1> DEFINE M == MaxHash
           L == sd.length
           a == sd.start
           r == L \div M
           e == L % M
           f == IF a = M THEN 0 ELSE a
           q == IF b = 0 THEN M - 1 ELSE b - 1
           p == PointBefore(b)
           more == (f <= q /\ q < f + e) \/ (q < f /\ q + M < f + e)
<1>1. M \in Nat \ {0} /\ L \in Nat /\ a \in 0 .. M /\ b \in 0 .. M
  BY BoundsAssumption DEF OnRing
<1>2. r \in Nat /\ e \in 1 .. M - 1 /\ L = M * r + e
  <2>1. L \in Int
    BY <1>1
  <2> HIDE DEF L, M
  <2>2. L \div M \in Nat /\ L % M \in 0 .. M - 1 /\ L = M * (L \div M) + (L % M)
    BY <1>1, <2>1, Division
  <2>3. L % M # 0
    BY DEF L, M
  <2> HIDE DEF r, e
  <2>4. r \in Nat /\ e \in 0 .. M - 1 /\ L = M * r + e /\ e # 0
    BY <2>2, <2>3 DEF r, e
  <2> QED
    BY <1>1, <2>4
<1>3. f \in 0 .. M - 1 /\ q \in 0 .. M - 1 /\ p = IF b = 0 THEN M ELSE b - 1
  <2>1. p = IF b = 0 THEN M ELSE b - 1
    BY DEF PointBefore
  <2> HIDE DEF M, a
  <2> QED
    BY <1>1, <2>1
<1>4. sd.rounds = r /\ sd.end = (a + L) % M
  <2>1. ~(L > M) => r = 0
    <3> HIDE DEF L, M, r, e
    <3>1. ~(L > M) /\ r # 0 => M * r >= M
      BY <1>1, <1>2
    <3> DEFINE u == M * r
    <3>2. u \in Nat /\ L = u + e /\ (~(L > M) /\ r # 0 => u >= M)
      BY <1>1, <1>2, <3>1
    <3> HIDE DEF u
    <3> QED
      BY <1>1, <1>2, <3>2
  <2>2. sd.rounds = IF L > M THEN r ELSE 0
    BY DEF OnRing
  <2> HIDE DEF L, r
  <2> QED
    BY <2>1, <2>2 DEF OnRing, L
<1>5. sd.end = IF a + e < M THEN a + e ELSE a + e - M
  <2> HIDE DEF L, M, r, e, a
  <2>1. (a + (M * r + e)) % M = IF a + e < M THEN a + e ELSE a + e - M
    BY <1>1, <1>2, EndIs
  <2> QED
    BY <1>2, <1>4, <2>1
<1>6. Passes(sd, q) = IF more THEN r + 1 ELSE r
  <2> DEFINE S == RoundsPast(M, q, f, r, e)
  <2>1. q % M = q /\ a % M = f
    <3> HIDE DEF M, a, q, f
    <3>1. q % M = q
      BY <1>1, <1>3
    <3>2. a # M => a % M = a
      BY <1>1
    <3>3. a = M => a % M = 0
      BY <1>1
    <3> QED
      BY <3>1, <3>2, <3>3 DEF f
  <2>2. Passes(sd, q) =
          Cardinality({k \in 0 .. r + 1 :
                         LET at == (q % M) + k * M
                             from == a % M
                         IN  from <= at /\ at < from + L})
    <3> HIDE DEF q, r
    <3> QED
      BY <1>4 DEF Passes
  <2>3. Passes(sd, q) = Cardinality(S)
    <3> HIDE DEF M, a, q, f, r, e, L
    <3>1. {k \in 0 .. r + 1 : LET at == (q % M) + k * M
                                  from == a % M
                              IN  from <= at /\ at < from + L} = S
      BY <1>2, <2>1, Zenon DEF RoundsPast
    <3> QED
      BY <2>2, <3>1
  <2> HIDE DEF M, a, q, f, r, e, L
  <2>4. Cardinality(S) = IF more THEN r + 1 ELSE r
    BY <1>1, <1>2, <1>3, PassesAre
  <2> QED
    BY <2>3, <2>4
<1>7. CountCoversPoint(sd, p) = IF more THEN r + 1 ELSE r
  <2> DEFINE z == sd.end
  <2>1. CountCoversPoint(sd, p) =
          IF \/ a < z /\ p > a /\ p < z
             \/ a >= z /\ (p < z \/ p > a)
            THEN r + 1 ELSE r
    BY <1>4 DEF CountCoversPoint
  <2>2. p # a /\ z = IF a + e < M THEN a + e ELSE a + e - M
    BY <1>5
  <2>3. f = (IF a = M THEN 0 ELSE a) /\ q = IF b = 0 THEN M - 1 ELSE b - 1
    OBVIOUS
  <2> HIDE DEF M, a, q, f, r, e, L, z, p
  <2>4. (\/ a < z /\ p > a /\ p < z
         \/ a >= z /\ (p < z \/ p > a)) <=> more
    BY <1>1, <1>2, <1>3, <2>2, <2>3
  <2> QED
    BY <2>1, <2>4
<1> QED
  BY <1>6, <1>7

(* Share: no draw fails, since every border is covered; the distributors   *)
(* count the intervals of the table.                                       *)
ShareCounts ==
  kind \in ShareKinds =>
    /\ status # "crashed"
    /\ status \in {"new", "building"} => table = None
    /\ status \in {"ready", "placing"} =>
         /\ DOMAIN table.distributors \subseteq 0 .. MaxHash
         /\ \A i \in DOMAIN table.sDisks : OnRing(table.sDisks[i])
         /\ \A b \in DOMAIN table.distributors : Covering(table.distributors[b]) # {}

\* A draw at a border of the table does not fail.
LEMMA DrawKeepsCounts ==
  ASSUME ShareCounts, kind \in ShareKinds, status = "placing",
         NEW border \in DOMAIN table.distributors, DrawAt(border, local)
  PROVE  ShareCounts'
<1>1. Covering(table.distributors[border]) # {}
  BY DEF ShareCounts
<1>2. UNCHANGED <<kind, table, status>>
  BY <1>1 DEF DrawAt, Advance, Append1
<1> QED
  BY <1>2, Zenon DEF ShareCounts

LEMMA ShareKeepsCounts ==
  ASSUME Configured, ShareTable, ShareCounts, kind \in ShareKinds, ShareNext
  PROVE  ShareCounts'
<1>1. ASSUME NEW k \in ShareKinds, NEW l \in Lists[kind], NEW c \in 1 .. MaxCopies,
             ShareSetDisks(k, l, c)
      PROVE  ShareCounts'
  BY <1>1 DEF ShareSetDisks, ShareCounts
<1>2. ASSUME NEW k \in ShareKinds, ShareStart(k)
      PROVE  ShareCounts'
  <2>1. status = "building" /\ UNCHANGED <<kind, table, status>>
    BY <1>2 DEF ShareStart, Building, Advance
  <2> QED
    BY <2>1 DEF ShareCounts
<1>3. ASSUME NEW k \in ShareKinds, ShareFill(k)
      PROVE  ShareCounts'
  <2> DEFINE s == local.starts
             r == local.times
             sDisks == Intervals(k, disks, copies, s, r)
             B == Borders(sDisks)
             all == [b \in B |-> Multi(disks, sDisks, b)]
  <2>1. /\ status = "building" /\ kind = k /\ kind' = kind
        /\ Len(s) = Len(disks) * ShareCopies /\ s \in Seq(0 .. MaxHash) /\ r \in Nat
    BY <1>3 DEF ShareFill, Building, Built, Advance, ShareTable
  <2>2. \/ /\ table' = [sDisks |-> sDisks, distributors |-> all]
           /\ status' = "ready" /\ AllFilled(disks, sDisks, Needed(k, copies))
        \/ table' = table /\ status' = status
    BY <1>3 DEF ShareFill, Built, Advance
  <2>3. CASE table' = table /\ status' = status
    BY <2>1, <2>3 DEF ShareCounts
  <2>4. CASE /\ table' = [sDisks |-> sDisks, distributors |-> all]
             /\ status' = "ready" /\ AllFilled(disks, sDisks, Needed(k, copies))
    <3>1. disks \in Lists[k] /\ k \in Kinds /\ copies \in Nat \ {0}
      BY <2>1, BoundsAssumption DEF Configured
    <3>2. copies \in Nat
      BY <3>1
    <3>3. B \subseteq 0 .. MaxHash
      BY <2>1, <3>1, <3>2, BordersAre
    <3>4. \A i \in DOMAIN sDisks : OnRing(sDisks[i])
      BY <2>1, <3>1, <3>2, IntervalsAre
    <3>5. \A b \in B : Covering(all[b]) # {}
      <4> SUFFICES ASSUME NEW b \in B PROVE Covering(Multi(disks, sDisks, b)) # {}
        OBVIOUS
      <4>1. Cardinality(Covering(Multi(disks, sDisks, b))) >= Needed(k, copies)
        BY <2>4 DEF AllFilled
      <4>2. Needed(k, copies) \in Nat \ {0}
        <5>1. 1 \in Nat \ {0}
          OBVIOUS
        <5> QED
          BY <3>1, <5>1, Zenon DEF Needed
      <4> HIDE DEF sDisks
      <4> QED
        BY <4>1, <4>2, FS_EmptySet
    <3>6. table'.sDisks = sDisks /\ table'.distributors = all /\ DOMAIN all = B
      BY <2>4
    <3> HIDE DEF all, B, sDisks
    <3> QED
      BY <2>4, <3>3, <3>4, <3>5, <3>6 DEF ShareCounts
  <2> QED
    BY <2>2, <2>3, <2>4
<1>4. ASSUME NEW k \in ShareKinds, ShareCall(k)
      PROVE  ShareCounts'
  <2>1. status = "ready" /\ status' = "placing" /\ kind' = kind /\ table' = table
    BY <1>4 DEF ShareCall, Call
  <2> QED
    BY <2>1, Zenon DEF ShareCounts
<1>5. ASSUME ShareDraw PROVE ShareCounts'
  <2>1. status = "placing"
    BY <1>5 DEF ShareDraw, Placing
  <2>2. PICK hash \in 0 .. MaxHash : DrawAt(Closest(hash), local)
    BY <1>5 DEF ShareDraw
  <2>3. Closest(hash) \in DOMAIN table.distributors
    BY <2>1, ClosestIs DEF ShareTable
  <2> QED
    BY <2>1, <2>2, <2>3, DrawKeepsCounts
<1>6. ASSUME ShareFind PROVE ShareCounts'
  <2>1. UNCHANGED <<kind, table, status>>
    BY <1>6 DEF ShareFind, Advance
  <2> QED
    BY <2>1, Zenon DEF ShareCounts
<1>7. ASSUME ShareDrawByNN PROVE ShareCounts'
  <2>1. status = "placing" /\ local.border # -1 /\ DrawAt(local.border, local)
    BY <1>7 DEF ShareDrawByNN, Placing
  <2>2. local.border \in DOMAIN table.distributors
    BY <2>1 DEF ShareTable
  <2> QED
    BY <2>1, <2>2, DrawKeepsCounts
<1>8. ASSUME NEW k \in ShareKinds, ShareReturn(k)
      PROVE  ShareCounts'
  <2>1. status = "placing" /\ status' = "ready" /\ kind' = kind /\ table' = table
    BY <1>8 DEF ShareReturn, Placing, Finish
  <2> QED
    BY <2>1, Zenon DEF ShareCounts
<1> QED
  BY <1>1, <1>2, <1>3, <1>4, <1>5, <1>6, <1>7, <1>8 DEF ShareNext

\* What the distributors count is how often the intervals pass.
LEMMA CountsArePasses ==
  ASSUME Configured, ShareTable, ShareCounts
  PROVE  ShareCountsPasses
<1> SUFFICES ASSUME kind \in ShareKinds, table # None,
                    NEW b \in DOMAIN table.distributors, NEW i \in DOMAIN table.sDisks,
                    table.sDisks[i].length % MaxHash # 0,
                    PointBefore(b) # table.sDisks[i].start
             PROVE  CountCoversPoint(table.sDisks[i], PointBefore(b)) =
                      Passes(table.sDisks[i], IF b = 0 THEN MaxHash - 1 ELSE b - 1)
  BY DEF ShareCountsPasses
<1>1. status \in {"ready", "placing"}
  BY DEF ShareTable, ShareCounts
<1>2. OnRing(table.sDisks[i]) /\ b \in 0 .. MaxHash
  BY <1>1 DEF ShareCounts
<1> QED
  BY <1>2, CountIsPasses

\* The numbers of the servers are those of the clusters.
LEMMA ServersMatch ==
  ASSUME Configured, RUSHTable
  PROVE  ServersMatchClusters
<1> SUFFICES ASSUME kind \in RUSHKinds, table # None PROVE ServersMatchClusters
  BY DEF ServersMatchClusters
<1>1. status \notin {"new", "exited"}
  BY DEF RUSHTable
<1>2. RUSHReady(table, disks, copies) /\ disks \in Lists[kind] /\ kind \in Kinds
  BY <1>1 DEF RUSHTable, Configured
<1>3. /\ table.clusters = Clusters(disks) /\ table.alldisks = disks
      /\ \E n \in Nat : table.choices = Identity(n)
  BY <1>2, ReadyIs
<1>4. \A i \in DOMAIN table.choices : table.choices[i] = i
  BY <1>3 DEF Identity
<1>5. ASSUME Grouped(table.alldisks),
             NEW j \in DOMAIN table.clusters, NEW i \in DOMAIN table.clusters[j]
      PROVE  table.alldisks[ServersBefore(table.clusters, j) + i] = table.clusters[j][i]
  BY <1>2, <1>3, <1>5, GroupedClusters
<1> QED
  BY <1>4, <1>5 DEF ServersMatchClusters

\* Every selected disk is found by one of the extent's own inputs, or of the next ones.
LEMMA InputsStay ==
  ASSUME Configured, Selected, RandSliceInputs, RandSliceTable
  PROVE  InputsStayInRange
<1> SUFFICES ASSUME kind = "RandSlice", local # None PROVE local.idx < Offset + copies
  BY DEF InputsStayInRange
<1>1. status \in {"placing", "crashed"}
  BY DEF RandSliceInputs, RandSliceTable
<1>2. /\ Len(result) <= copies /\ local.idx \in Nat
      /\ IF result = <<>> THEN local.idx = 0 ELSE local.idx <= Offset + Len(result) - 1
  BY <1>1 DEF RandSliceInputs
<1>3. Len(result) \in Nat /\ copies \in Nat \ {0} /\ Offset \in Nat \ {0}
  BY <1>1, OffsetAssumption, BoundsAssumption DEF Selected, Configured
<1> QED
  BY <1>2, <1>3

--------------------------------------------------------------------------------
(* RedundantShare and FastRedundantShare: when setDisks fails.             *)

(* RedundantShare fails with too few disks, or in setDisks at such a       *)
(* correction; FastRedundantShare just there.                              *)
RSFailures ==
  /\ kind \in RSKinds \cup {"FastRedundantShare"} /\ status = "crashed" =>
       TooFew \/ FailsKnown(disks, copies, kind = "RedundantShare -decID")
  /\ kind \in RSKinds /\ status \in {"ready", "placing"} => TooFew \/ table # None

\* The options of RedundantShare
LEMMA RSOptions ==
  /\ \A k \in RSKinds : (k # "RedundantShare") = (k = "RedundantShare -decID")
  /\ FALSE = ("FastRedundantShare" = "RedundantShare -decID")
BY Zenon DEF RSKinds

\* The steps of RedundantShare
LEMMA RSFailsSo ==
  ASSUME Configured, Selected, RSTable, RSWalk, RSFailures, kind \in RSKinds, RSNext
  PROVE  RSFailures'
<1>1. ASSUME NEW k \in RSKinds, NEW l \in Lists[kind], NEW c \in 1 .. MaxCopies,
             RSSetDisks(k, l, c)
      PROVE  /\ status' = "crashed" =>
                  TooFew' \/ FailsKnown(disks', copies', kind' = "RedundantShare -decID")
             /\ TooFew' \/ table' # None \/ status' = "crashed"
  <2> DEFINE revert == k # "RedundantShare"
             t == Aligning(l, c, revert)
  <2>1. disks' = l /\ copies' = c /\ kind = k /\ kind' = k
    BY <1>1 DEF RSSetDisks, Configure
  <2>2. \/ Len(l) < c /\ status' = "ready"
        \/ /\ ~(Len(l) < c) /\ status' = "crashed"
           /\ Fails(t, c)
        \/ /\ ~(Len(l) < c) /\ status' = "ready" /\ table' = Tables(t, c)
           /\ ~Fails(t, c)
    BY <1>1, Zenon DEF RSSetDisks
  <2>3. TooFew' <=> Len(l) < c
    BY <2>1 DEF TooFew
  <2>4. revert \in BOOLEAN /\ kind \in Kinds /\ k \in Kinds
    BY <2>1 DEF Configured
  <2>5. ASSUME ~(Len(l) < c), Fails(t, c)
        PROVE  FailsKnown(disks', copies', kind' = "RedundantShare -decID")
    <3>1. FailsKnown(l, c, revert)
      BY <2>4, <2>5, AligningFails
    <3>2. revert = (kind' = "RedundantShare -decID")
      BY <2>1, RSOptions, Zenon
    <3> HIDE DEF revert
    <3> QED
      BY <2>1, <3>1, <3>2, Zenon
  <2>6. ASSUME ~(Len(l) < c), ~Fails(t, c)
        PROVE  Tables(t, c) # None
    <3>1. c <= Len(l)
      <4>1. Len(l) \in Nat /\ c \in Nat
        BY <2>4, ListIs, BoundsAssumption
      <4> QED
        BY <2>6, <4>1
    <3>2. k \in RSKinds \cap Kinds /\ l \in Lists[k]
      BY <2>1, <2>4
    <3> QED
      BY <2>6, <3>1, <3>2, TablesAssumption, Zenon
  <2> QED
    BY <2>2, <2>3, <2>5, <2>6, Zenon
<1>2. ASSUME NEW k \in RSKinds, RSCall(k) \/ RSStep(k) \/ RSReturn(k)
      PROVE  UNCHANGED <<kind, disks, copies, table>> /\ status \in {"ready", "placing"}
  BY <1>2 DEF RSCall, RSStep, RSReturn, Call, Placing, Crash, Advance, Append1, Finish
<1>3. RSWalk'
  BY RSWalks
<1>4. CASE \E k \in RSKinds, l \in Lists[kind], c \in 1 .. MaxCopies : RSSetDisks(k, l, c)
  <2>1. status' = "crashed" => status' \notin {"ready", "placing"}
    OBVIOUS
  <2> QED
    BY <1>1, <1>4, <2>1, Zenon DEF RSFailures, TooFew
<1>5. CASE \E k \in RSKinds : RSCall(k) \/ RSStep(k) \/ RSReturn(k)
  <2>1. UNCHANGED <<kind, disks, copies, table>> /\ status \in {"ready", "placing"}
    BY <1>2, <1>5
  <2>2. TooFew \/ table # None
    BY <2>1, Zenon DEF RSFailures
  <2>3. TooFew' = TooFew
    BY <2>1 DEF TooFew
  <2>4. status' = "crashed" => table' = None
    BY <1>3, <2>1 DEF RSWalk
  <2> QED
    BY <2>1, <2>2, <2>3, <2>4, Zenon DEF RSFailures, TooFew
<1> QED
  BY <1>4, <1>5 DEF RSNext

\* FastRedundantShare fails in setDisks only.
LEMMA FRSFailsSo ==
  ASSUME Configured, FRSTable, kind = "FastRedundantShare", FRSNext
  PROVE  RSFailures'
<1>1. kind' = kind /\ kind' \notin RSKinds
  <2>1. kind' = kind
    BY DEF FRSNext, FRSSetDisks, FRSCall, FRSStep, FRSReturn,
           Configure, Call, Crash, Append1, Finish
  <2> QED
    BY <2>1, KindsDiffer, Zenon
<1>2. ASSUME NEW l \in Lists[kind], NEW c \in 1 .. MaxCopies, FRSSetDisks(l, c),
             status' = "crashed"
      PROVE  TooFew' \/ FailsKnown(disks', copies', kind' = "RedundantShare -decID")
  <2> DEFINE t == Aligning(l, c, FALSE)
  <2>1. disks' = l /\ copies' = c /\ kind \in Kinds /\ FALSE \in BOOLEAN
    BY <1>2 DEF FRSSetDisks, Configure, Configured
  <2>2. Len(l) < c \/ Fails(t, c)
    <3>1. "ready" # "crashed"
      OBVIOUS
    <3> QED
      BY <1>2, <3>1, Zenon DEF FRSSetDisks
  <2>3. CASE Len(l) < c
    BY <2>1, <2>3 DEF TooFew
  <2>4. CASE ~(Len(l) < c)
    <3>1. FailsKnown(l, c, FALSE)
      BY <2>1, <2>2, <2>4, AligningFails
    <3>2. FALSE = (kind' = "RedundantShare -decID")
      BY <1>1, RSOptions, Zenon
    <3> QED
      BY <2>1, <3>1, <3>2, Zenon
  <2> QED
    BY <2>3, <2>4
<1>3. ASSUME FRSCall \/ FRSStep \/ FRSReturn PROVE status' # "crashed"
  <2>1. FRSStep => status' = "placing"
    BY DEF FRSStep, Placing, FRSTable, Append1
  <2> QED
    BY <1>3, <2>1 DEF FRSCall, FRSReturn, Call, Finish
<1>4. status' = "crashed" =>
        TooFew' \/ FailsKnown(disks', copies', kind' = "RedundantShare -decID")
  BY <1>2, <1>3, Zenon DEF FRSNext
<1> QED
  BY <1>1, <1>4, Zenon DEF RSFailures, TooFew

AllKinds ==
  RRKinds \cup NNKinds \cup ShareKinds \cup RSKinds \cup RUSHKinds
    \cup {"FastRedundantShare", "RandSlice"}

\* Only the strategies configure an object.
OfAKind == status # "new" => kind \in AllKinds

CountsHold ==
  /\ RandSliceInputs /\ ShareCounts /\ NNRing
  /\ RUSHFailures /\ RSFailures /\ OfAKind

LEMMA NewCounts ==
  Init => CountsHold
<1> SUFFICES ASSUME Init PROVE CountsHold
  OBVIOUS
<1>1. kind \in Kinds /\ status = "new" /\ table = None /\ local = None
  BY DEF Init
<1> QED
  BY <1>1 DEF CountsHold, RandSliceInputs, ShareCounts, NNRing, RUSHFailures, RSFailures, OfAKind

\* The caller may delete its list only between calls, and only RUSHp minds.
LEMMA CallerCounts ==
  ASSUME PlacementInvariant, CountsHold, Forget \/ DeleteList \/ Ended \/ UNCHANGED vars
  PROVE  CountsHold'
<1>1. /\ UNCHANGED <<kind, disks, copies, table, status, local>>
      /\ result' = result \/ status = "ready"
      /\ lent' = lent \/ status = "ready"
  BY DEF Forget, DeleteList, Ended, vars
<1>2. ShareCounts' /\ NNRing'
  BY <1>1, Zenon DEF CountsHold, ShareCounts, NNRing
<1>3. RandSliceInputs'
  BY <1>1 DEF CountsHold, RandSliceInputs
<1>4. RUSHFailures'
  BY <1>1 DEF CountsHold, RUSHFailures, SmallClass
<1>5. RSFailures' /\ OfAKind'
  BY <1>1, Zenon DEF CountsHold, RSFailures, TooFew, OfAKind
<1> QED
  BY <1>2, <1>3, <1>4, <1>5 DEF CountsHold

\* Those of the strategies the object is not of say nothing.
LEMMA OthersCount ==
  ASSUME kind' = kind
  PROVE  /\ kind \in AllKinds => OfAKind'
         /\ kind # "RandSlice" => RandSliceInputs'
         /\ kind \notin ShareKinds => ShareCounts'
         /\ kind \notin NNKinds => NNRing'
         /\ kind \notin RUSHKinds => RUSHFailures'
         /\ kind \notin RSKinds \cup {"FastRedundantShare"} => RSFailures'
<1>1. kind # "RandSlice" => RandSliceInputs'
  BY DEF RandSliceInputs
<1>2. kind \notin ShareKinds => ShareCounts'
  BY DEF ShareCounts
<1>3. kind \notin NNKinds => NNRing'
  BY DEF NNRing
<1>4. kind \notin RUSHKinds => RUSHFailures'
  BY DEF RUSHFailures
<1>5. kind \notin RSKinds \cup {"FastRedundantShare"} => RSFailures'
  BY Zenon DEF RSFailures
<1>6. kind \in AllKinds => OfAKind'
  BY DEF OfAKind
<1> QED
  BY <1>1, <1>2, <1>3, <1>4, <1>5, <1>6

\* Each step of a strategy keeps its own.
LEMMA StrategyCounts ==
  ASSUME PlacementInvariant, CountsHold, Next
  PROVE  CountsHold'
<1>1. Configured /\ Selected /\ TablesHold
  BY DEF PlacementInvariant
<1>2. kind' = kind
  BY OwnSteps
<1>3. ASSUME kind \in RRKinds PROVE CountsHold'
  BY <1>2, <1>3, OthersCount, KindsDiffer, Zenon DEF CountsHold, AllKinds
<1>10. ASSUME kind \in RSKinds, RSNext PROVE CountsHold'
  <2>1. RSFailures'
    BY <1>1, <1>10, RSFailsSo DEF TablesHold, CountsHold
  <2> QED
    BY <1>2, <1>10, <2>1, OthersCount, KindsDiffer, Zenon DEF CountsHold, AllKinds
<1>11. ASSUME kind = "FastRedundantShare", FRSNext PROVE CountsHold'
  <2>1. RSFailures'
    BY <1>1, <1>11, FRSFailsSo DEF TablesHold
  <2>2. kind \notin NNKinds \cup ShareKinds \cup RUSHKinds /\ kind # "RandSlice"
    BY <1>11, KindsDiffer
  <2>3. kind \in AllKinds
    BY <1>11, Zenon DEF AllKinds
  <2> QED
    BY <1>2, <1>11, <2>1, <2>2, <2>3, OthersCount, Zenon DEF CountsHold
<1>4. ASSUME kind \in NNKinds, NNNext PROVE CountsHold'
  <2>1. NNRing'
    BY <1>1, <1>4, NNNeverFails DEF TablesHold, CountsHold
  <2> QED
    BY <1>2, <1>4, <2>1, OthersCount, KindsDiffer, Zenon DEF CountsHold, AllKinds
<1>5. ASSUME kind \in ShareKinds, ShareNext PROVE CountsHold'
  <2>1. ShareCounts'
    BY <1>1, <1>5, ShareKeepsCounts DEF TablesHold, CountsHold
  <2> QED
    BY <1>2, <1>5, <2>1, OthersCount, KindsDiffer, Zenon DEF CountsHold, AllKinds
<1>6. ASSUME kind \in RUSHKinds, RUSHNext PROVE CountsHold'
  <2>1. RUSHFailures'
    BY <1>1, <1>6, RUSHFailsSo DEF TablesHold, CountsHold
  <2> QED
    BY <1>2, <1>6, <2>1, OthersCount, KindsDiffer, Zenon DEF CountsHold, AllKinds
<1>7. ASSUME kind = "RandSlice", RandSliceNext PROVE CountsHold'
  <2>1. RandSliceInputs'
    BY <1>1, <1>7, RandSliceCounts DEF TablesHold, CountsHold
  <2>2. kind \notin NNKinds \cup ShareKinds \cup RUSHKinds \cup RSKinds
                      \cup {"FastRedundantShare"}
    BY <1>7, KindsDiffer
  <2>3. kind \in AllKinds
    BY <1>7, Zenon DEF AllKinds
  <2> QED
    BY <1>2, <1>7, <2>1, <2>2, <2>3, OthersCount, Zenon DEF CountsHold
<1>8. ASSUME Forget \/ DeleteList \/ Ended PROVE CountsHold'
  BY <1>8, CallerCounts
<1>9. \/ kind \in RRKinds
      \/ kind \in RSKinds /\ RSNext
      \/ kind = "FastRedundantShare" /\ FRSNext
      \/ kind \in NNKinds /\ NNNext
      \/ kind \in ShareKinds /\ ShareNext
      \/ kind \in RUSHKinds /\ RUSHNext
      \/ kind = "RandSlice" /\ RandSliceNext
      \/ Forget \/ DeleteList \/ Ended
  BY OwnSteps
<1> QED
  BY <1>3, <1>4, <1>5, <1>6, <1>7, <1>8, <1>9, <1>10, <1>11

\* What the strategies count, and why they fail, in every state
THEOREM CountsAreInvariant ==
  Spec => [](PlacementInvariant /\ CountsHold)
<1>1. Init => CountsHold
  BY NewCounts
<1>2. PlacementInvariant /\ CountsHold /\ [Next]_vars => CountsHold'
  BY StrategyCounts, CallerCounts
<1> QED
  BY <1>1, <1>2, PlacementIsInvariant, PTL DEF Spec

(* The server numbers of RUSH are those of the clusters; random slicing    *)
(* uses its extent's hash inputs, and at most copies - 1 more; Share's     *)
(* distributors count how often the intervals pass: see TablesAreExact.    *)
THEOREM ExactTables ==
  Spec => []TablesAreExact
<1>1. PlacementInvariant /\ CountsHold => TablesAreExact
  BY ServersMatch, InputsStay, CountsArePasses
  DEF PlacementInvariant, TablesHold, CountsHold, TablesAreExact
<1> QED
  BY <1>1, CountsAreInvariant, PTL

\* A failure of an object is a known one of its strategy.
LEMMA FailuresAreKnown ==
  ASSUME PlacementInvariant, CountsHold
  PROVE  CrashesAreKnown
<1>1. /\ kind \in RRKinds \cup NNKinds \cup ShareKinds \cup RSKinds
                    \cup {"FastRedundantShare", "RandSlice"} => status # "exited"
      /\ kind \in RRKinds \cup NNKinds \cup ShareKinds => status # "crashed"
  <2>1. kind \in RRKinds => status \notin {"exited", "crashed"}
    BY DEF PlacementInvariant, TablesHold, RRTable
  <2>2. kind \in NNKinds => status \notin {"exited", "crashed"}
    BY DEF PlacementInvariant, TablesHold, NNTable, CountsHold, NNRing
  <2>3. kind \in ShareKinds => status \notin {"exited", "crashed"}
    BY DEF PlacementInvariant, TablesHold, ShareTable, CountsHold, ShareCounts
  <2>4. kind \in RSKinds => status # "exited"
    BY DEF PlacementInvariant, TablesHold, RSTable
  <2>5. kind = "FastRedundantShare" => status # "exited"
    BY DEF PlacementInvariant, TablesHold, FRSTable
  <2>6. kind = "RandSlice" => status # "exited"
    BY DEF PlacementInvariant, TablesHold, RandSliceTable
  <2> QED
    BY <2>1, <2>2, <2>3, <2>4, <2>5, <2>6
<1>2. status # "new" => kind \in AllKinds
  BY DEF CountsHold, OfAKind
<1>3. ASSUME kind \in RSKinds \cup {"FastRedundantShare"}, status = "crashed"
      PROVE  \/ Len(disks) < copies
             \/ table = None /\ FailsKnown(disks, copies, kind = "RedundantShare -decID")
  <2>1. table = None
    BY <1>3 DEF PlacementInvariant, TablesHold, RSWalk, FRSTable
  <2> QED
    BY <1>3, <2>1, Zenon DEF CountsHold, RSFailures, TooFew
<1>4. kind = "RandSlice" /\ status = "crashed" => local.idx >= Offset
  BY DEF CountsHold, RandSliceInputs
<1>5. ASSUME kind \in RUSHKinds, status = "crashed"
      PROVE  \/ kind = "RUSHp" /\ ~lent
             \/ kind = "RUSHr" /\ Cardinality(DOMAIN table.choices) < Len(table.clusters[local.j])
             \/ kind = "RUSHt" /\ local.node.right = None
  BY <1>5, Zenon DEF CountsHold, RUSHFailures
<1>6. ASSUME kind \in RUSHKinds, status = "exited"
      PROVE  \E d \in ToSet(disks) :
               Cardinality({n \in DOMAIN disks : disks[n].capacity = d.capacity}) < copies
  BY <1>6, Zenon DEF CountsHold, RUSHFailures, SmallClass
<1> QED
  BY <1>1, <1>2, <1>3, <1>4, <1>5, <1>6, Zenon DEF CrashesAreKnown, AllKinds, FailsKnown

(* A strategy fails only where it is known to; RUSH ends the process for   *)
(* clusters smaller than copies only: see CrashesAreKnown.                 *)
THEOREM KnownCrashes ==
  Spec => []CrashesAreKnown
BY FailuresAreKnown, CountsAreInvariant, PTL

--------------------------------------------------------------------------------
(* Loads: what setDisks leaves in a table of chances.                      *)

\* The parts of LoadsAreFair that hold from the last setDisks on
LoadsHold ==
  /\ kind \in RRKinds \cup {"FastRedundantShare"} /\ status = "new" => table = None
  /\ kind = "FastRedundantShare" /\ status \in {"ready", "placing"} =>
       \A l \in DOMAIN table.shares : \A i \in DOMAIN table.shares[l] :
         AreasAdd(table.shares[l][i])

\* The steps of FastRedundantShare
LEMMA FRSLoads ==
  ASSUME Configured, FRSTable, LoadsHold, kind = "FastRedundantShare", FRSNext
  PROVE  LoadsHold'
<1>1. ASSUME NEW l \in Lists[kind], NEW c \in 1 .. MaxCopies, FRSSetDisks(l, c)
      PROVE  LoadsHold'
  <2> DEFINE t == Aligning(l, c, FALSE)
  <2>1. /\ status' \in {"ready", "crashed"}
        /\ status' = "ready" => table'.shares = Shares(t, c) /\ ~(Len(l) < c)
    <3>1. \/ status' = "crashed"
          \/ /\ status' = "ready" /\ ~(Len(l) < c)
             /\ table' = [disks |-> t.disks, cPosition |-> t.cPosition,
                          kError |-> t.kError, shares |-> Shares(t, c)]
      BY <1>1, Zenon DEF FRSSetDisks
    <3> HIDE DEF t
    <3> QED
      BY <3>1
  <2>2. ASSUME status' = "ready"
        PROVE  \A m \in DOMAIN table'.shares : \A i \in DOMAIN table'.shares[m] :
                 AreasAdd(table'.shares[m][i])
    <3>1. FALSE \in BOOLEAN /\ kind \in Kinds
      BY DEF Configured
    <3>2. Len(l) \in Nat
      BY <3>1, ListIs
    <3>3. c \in 1 .. Len(l)
      BY <2>1, <2>2, <3>2, BoundsAssumption
    <3>4. Alignment(t, Len(l), c)
      BY <3>1, <3>3, AlignmentIs
    <3> HIDE DEF t
    <3>5. \A m \in DOMAIN Shares(t, c) : \A i \in DOMAIN Shares(t, c)[m] :
            AreasAdd(Shares(t, c)[m][i])
      BY <3>4, SharesAdd
    <3> QED
      BY <2>1, <2>2, <3>5
  <2> HIDE DEF t
  <2>3. status' # "new" /\ status' # "placing"
    BY <2>1
  <2> QED
    BY <2>2, <2>3, Zenon DEF LoadsHold, AreasAdd
<1>2. ASSUME FRSCall \/ FRSStep \/ FRSReturn
      PROVE  /\ UNCHANGED <<kind, table>> /\ status \in {"ready", "placing"}
             /\ status' # "new"
  BY <1>2 DEF FRSCall, FRSStep, FRSReturn, Call, Placing, Crash, Append1, Finish
<1>3. ASSUME FRSCall \/ FRSStep \/ FRSReturn PROVE LoadsHold'
  BY <1>2, <1>3, Zenon DEF LoadsHold, AreasAdd
<1> QED
  BY <1>1, <1>3 DEF FRSNext

\* Every step
LEMMA LoadsStay ==
  ASSUME PlacementInvariant, LoadsHold, [Next]_vars
  PROVE  LoadsHold'
<1>1. CASE UNCHANGED vars
  BY <1>1, Zenon DEF vars, LoadsHold, AreasAdd
<1>2. CASE Next
  <2>1. kind' = kind
    BY <1>2, OwnSteps
  <2>2. CASE kind = "FastRedundantShare" /\ FRSNext
    BY <2>2, FRSLoads DEF PlacementInvariant, TablesHold
  <2>3. CASE kind \in RRKinds /\ RRNext
    <3>1. kind # "FastRedundantShare"
      BY <2>3, KindsDiffer
    <3>2. status' # "new"
      BY <2>3 DEF RRNext, RRSetDisks, RRPlaceExtent
    <3> QED
      BY <2>1, <3>1, <3>2, Zenon DEF LoadsHold
  <2>4. CASE Forget \/ DeleteList \/ Ended
    <3>1. UNCHANGED <<kind, table, status>>
      BY <2>4 DEF Forget, DeleteList, Ended, vars
    <3> QED
      BY <3>1, Zenon DEF LoadsHold, AreasAdd
  <2>5. CASE kind \notin RRKinds \cup {"FastRedundantShare"}
    BY <2>1, <2>5, Zenon DEF LoadsHold
  <2>6. \/ kind = "FastRedundantShare" /\ FRSNext
        \/ kind \in RRKinds /\ RRNext
        \/ Forget \/ DeleteList \/ Ended
        \/ kind \notin RRKinds \cup {"FastRedundantShare"}
    BY <1>2, OwnSteps, KindsDiffer, Zenon
  <2> QED
    BY <2>2, <2>3, <2>4, <2>5, <2>6
<1> QED
  BY <1>1, <1>2

\* They hold in every state.
THEOREM LoadsAreInvariant ==
  Spec => [](PlacementInvariant /\ LoadsHold)
<1>1. Init => LoadsHold
  BY DEF Init, LoadsHold
<1>2. PlacementInvariant /\ LoadsHold /\ [Next]_vars => LoadsHold'
  BY LoadsStay
<1> QED
  BY <1>1, <1>2, PlacementIsInvariant, PTL DEF Spec

(* FastRedundantShare's areas are the chances of a walk that ends on the   *)
(* last disk it can reach: see AreasAreChances.                            *)
THEOREM SharesAreChances ==
  Spec => []AreasAreChances
<1>1. PlacementInvariant /\ LoadsHold => AreasAreChances
  <2> SUFFICES ASSUME PlacementInvariant, LoadsHold, kind = "FastRedundantShare", table # None,
                      NEW l \in DOMAIN table.shares, NEW i \in DOMAIN table.shares[l]
               PROVE  LET areas == table.shares[l][i]
                      IN  /\ \A d \in DOMAIN areas : AtMost(Zero, areas[d])
                          /\ SumOver(areas) = One
    BY DEF AreasAreChances
  <2> DEFINE areas == table.shares[l][i]
  <2>1. status \in {"ready", "placing"}
    BY DEF PlacementInvariant, TablesHold, FRSTable, LoadsHold
  <2>2. AreasAdd(areas)
    BY <2>1 DEF LoadsHold
  <2> HIDE DEF areas
  <2>3. ASSUME NEW d \in DOMAIN areas PROVE AtMost(Zero, areas[d])
    <3> DEFINE p == areas[d]
    <3>1. p[1] \in Nat /\ p[2] \in Nat
      BY <2>2 DEF AreasAdd, Fractions
    <3> HIDE DEF p
    <3>2. ~(p[1] * 1 < 0 * p[2])
      BY <3>1
    <3>3. AtMost(Zero, p)
      BY <3>2 DEF AtMost, Less, Zero
    <3> QED
      BY <3>3 DEF p
  <2> QED
    BY <2>2, <2>3 DEF AreasAdd, areas
<1> QED
  BY <1>1, LoadsAreInvariant, PTL

(* RoundRobin's part of LoadsAreFair, for every list and number of copies: *)
(* as many extents in a row as there are disks put as many copies on each  *)
(* disk: see RREven.                                                       *)
THEOREM StripesAreFair ==
  Spec => []RREven
<1>1. PlacementInvariant /\ LoadsHold => RREven
  <2> SUFFICES ASSUME PlacementInvariant, LoadsHold PROVE RREven
    OBVIOUS
  <2>1. CASE kind = "RoundRobin" /\ status # "new"
    <3>1. kind \in RRKinds
      BY <2>1 DEF RRKinds
    <3> QED
      BY <2>1, <3>1, StripesHold DEF PlacementInvariant, TablesHold, RRTable
  <2>2. CASE kind = "RoundRobin" /\ status = "new"
    BY <2>2 DEF LoadsHold, RRKinds, RREven
  <2>3. CASE kind # "RoundRobin"
    BY <2>3 DEF RREven
  <2> QED
    BY <2>1, <2>2, <2>3
<1> QED
  BY <1>1, LoadsAreInvariant, PTL
--------------------------------------------------------------------------------
(* Fair loads: every table was built out of a list by setDisks.            *)

\* T is what setDisks builds out of list l for c copies.
BuiltFrom(k, l, c, T) ==
  LET t == Aligning(l, c, k = "RedundantShare -decID")
  IN  /\ c \in 1 .. Len(l) /\ ~Fails(t, c)
      /\ k \in RSKinds => T = Tables(t, c)
      /\ k = "FastRedundantShare" =>
           T = [disks |-> t.disks, cPosition |-> t.cPosition, kError |-> t.kError,
                shares |-> Shares(t, c)]

(* The table of RedundantShare and FastRedundantShare is one that was      *)
(* built: for the same number of copies, even if the list was too short    *)
(* for a later setDisks.                                                   *)
TablesBuilt ==
  kind \in RSKinds \cup {"FastRedundantShare"} =>
    /\ status = "new" => table = None
    /\ table # None => \E l \in Lists[kind] : BuiltFrom(kind, l, copies, table)

\* The steps of RedundantShare
LEMMA RSBuilds ==
  ASSUME Configured, TablesBuilt, kind \in RSKinds, RSNext
  PROVE  TablesBuilt'
<1>0. kind # "FastRedundantShare"
  BY KindsDiffer
<1>1. ASSUME NEW l \in Lists[kind], NEW c \in 1 .. MaxCopies, RSSetDisks(kind, l, c)
      PROVE  TablesBuilt'
  <2> DEFINE revert == kind # "RedundantShare"
             t == Aligning(l, c, revert)
  <2>1. /\ kind' = kind /\ copies' = c /\ status' # "new"
        /\ status = "new" \/ (status = "ready" /\ c = copies)
    BY <1>1 DEF RSSetDisks, Configure
  <2>2. revert = (kind = "RedundantShare -decID")
    BY DEF RSKinds
  <2>3. Len(l) \in Nat
    BY ListIs DEF Configured
  <2>4. CASE Len(l) < c
    <3>1. table' = table
      BY <1>1, <2>4 DEF RSSetDisks
    <3>2. table' # None => c = copies /\ \E m \in Lists[kind] : BuiltFrom(kind, m, copies, table)
      BY <2>1, <3>1, Zenon DEF TablesBuilt
    <3>3. table' # None => \E m \in Lists[kind'] : BuiltFrom(kind', m, copies', table')
      BY <2>1, <3>1, <3>2
    <3> QED
      BY <2>1, <3>3, Zenon DEF TablesBuilt
  <2>5. CASE ~(Len(l) < c)
    <3>1. table' = None \/ (~Fails(t, c) /\ table' = Tables(t, c))
      BY <1>1, <2>5 DEF RSSetDisks
    <3>2. c \in 1 .. Len(l)
      BY <2>3, <2>5, BoundsAssumption
    <3> HIDE DEF revert
    <3>3. table' # None => BuiltFrom(kind, l, c, table')
      BY <1>0, <2>2, <3>1, <3>2, Zenon DEF BuiltFrom
    <3>4. table' # None => \E m \in Lists[kind'] : BuiltFrom(kind', m, copies', table')
      BY <2>1, <3>3, Zenon
    <3> QED
      BY <2>1, <3>4, Zenon DEF TablesBuilt
  <2> QED
    BY <2>4, <2>5
<1>2. ASSUME NEW k \in RSKinds, RSCall(k) \/ RSStep(k) \/ RSReturn(k)
      PROVE  TablesBuilt'
  <2>1. UNCHANGED <<kind, copies, table>> /\ status' # "new"
    BY <1>2 DEF RSCall, RSStep, RSReturn, Call, Placing, Crash, Advance, Append1, Finish
  <2> QED
    BY <2>1, Zenon DEF TablesBuilt, BuiltFrom
<1>3. ASSUME NEW k \in RSKinds, NEW l \in Lists[kind], NEW c \in 1 .. MaxCopies,
             RSSetDisks(k, l, c)
      PROVE  TablesBuilt'
  <2>1. k = kind
    BY <1>3 DEF RSSetDisks, Configure
  <2> QED
    BY <1>1, <1>3, <2>1
<1> QED
  BY <1>2, <1>3 DEF RSNext

\* The steps of FastRedundantShare
LEMMA FRSBuilds ==
  ASSUME Configured, TablesBuilt, kind = "FastRedundantShare", FRSNext
  PROVE  TablesBuilt'
<1>0. kind \notin RSKinds /\ (kind = "RedundantShare -decID") = FALSE
  BY KindsDiffer
<1>1. ASSUME NEW l \in Lists[kind], NEW c \in 1 .. MaxCopies, FRSSetDisks(l, c)
      PROVE  TablesBuilt'
  <2> DEFINE t == Aligning(l, c, FALSE)
             T == [disks |-> t.disks, cPosition |-> t.cPosition, kError |-> t.kError,
                   shares |-> Shares(t, c)]
  <2>1. kind' = kind /\ copies' = c /\ status' # "new"
    BY <1>1 DEF FRSSetDisks, Configure
  <2>2. table' = None \/ (~(Len(l) < c) /\ ~Fails(t, c) /\ table' = T)
    BY <1>1, Zenon DEF FRSSetDisks
  <2>3. Len(l) \in Nat
    BY ListIs DEF Configured
  <2>4. ~(Len(l) < c) => c \in 1 .. Len(l)
    BY <2>3, BoundsAssumption
  <2>5. table' # None => BuiltFrom(kind, l, c, table')
    BY <1>0, <2>2, <2>4, Zenon DEF BuiltFrom
  <2>6. table' # None => \E m \in Lists[kind'] : BuiltFrom(kind', m, copies', table')
    BY <2>1, <2>5, Zenon
  <2> QED
    BY <2>1, <2>6, Zenon DEF TablesBuilt
<1>2. ASSUME FRSCall \/ FRSStep \/ FRSReturn PROVE TablesBuilt'
  <2>1. UNCHANGED <<kind, copies, table>> /\ status' # "new"
    BY <1>2 DEF FRSCall, FRSStep, FRSReturn, Call, Placing, Crash, Append1, Finish
  <2> QED
    BY <2>1, Zenon DEF TablesBuilt, BuiltFrom
<1> QED
  BY <1>1, <1>2 DEF FRSNext

\* Every step
LEMMA BuiltStays ==
  ASSUME PlacementInvariant, TablesBuilt, [Next]_vars
  PROVE  TablesBuilt'
<1>0. Configured
  BY DEF PlacementInvariant
<1>1. CASE UNCHANGED vars
  BY <1>1, Zenon DEF vars, TablesBuilt, BuiltFrom
<1>2. CASE Next
  <2>1. kind' = kind
    BY <1>2, OwnSteps
  <2>2. CASE kind = "FastRedundantShare" /\ FRSNext
    BY <1>0, <2>2, FRSBuilds
  <2>3. CASE kind \in RSKinds /\ RSNext
    BY <1>0, <2>3, RSBuilds
  <2>4. CASE Forget \/ DeleteList \/ Ended
    <3>1. UNCHANGED <<kind, copies, table, status>>
      BY <2>4 DEF Forget, DeleteList, Ended, vars
    <3> QED
      BY <3>1, Zenon DEF TablesBuilt, BuiltFrom
  <2>5. CASE kind \notin RSKinds \cup {"FastRedundantShare"}
    BY <2>1, <2>5, Zenon DEF TablesBuilt
  <2>6. \/ kind = "FastRedundantShare" /\ FRSNext
        \/ kind \in RSKinds /\ RSNext
        \/ Forget \/ DeleteList \/ Ended
        \/ kind \notin RSKinds \cup {"FastRedundantShare"}
    BY <1>2, OwnSteps, KindsDiffer, Zenon
  <2> QED
    BY <2>2, <2>3, <2>4, <2>5, <2>6
<1> QED
  BY <1>1, <1>2

\* A table that was built is fair: RedundantShare's, if it was corrected once at most.
LEMMA BuiltIsFair ==
  ASSUME Configured, TablesBuilt
  PROVE  /\ RSFair
         /\ kind = "FastRedundantShare" /\ table # None /\ Corrected(table) = {} =>
              FRSLoad(table, copies) = FairLoad(table, copies)
<1>0. kind \in Kinds
  BY DEF Configured
<1>1. ASSUME kind \in RSKinds, table # None, Cardinality(Corrected(table)) <= 1
      PROVE  /\ \A i \in Corrected(table) :
                  AtMost(Zero, table.star[i]) /\ AtMost(table.star[i], One)
             /\ Load(table, copies) = FairLoad(table, copies)
  <2>1. PICK l \in Lists[kind] : BuiltFrom(kind, l, copies, table)
    BY <1>1 DEF TablesBuilt
  <2> DEFINE revert == kind = "RedundantShare -decID"
             t == Aligning(l, copies, revert)
  <2>2. copies \in 1 .. Len(l) /\ ~Fails(t, copies) /\ table = Tables(t, copies)
    BY <1>1, <2>1 DEF BuiltFrom
  <2>3. Alignment(t, Len(l), copies)
    BY <1>0, <2>2, AlignmentIs
  <2> HIDE DEF t
  <2>4. Corrected(table) = Corrected(t)
    BY <2>2 DEF Corrected, Tables
  <2>5. LET T == Tables(t, copies)
        IN  /\ \A i \in Corrected(T) : AtMost(Zero, T.star[i]) /\ AtMost(T.star[i], One)
            /\ Load(T, copies) = FairLoad(T, copies)
    BY <1>1, <2>2, <2>3, <2>4, TablesAreFair
  <2> QED
    BY <2>2, <2>5
<1>2. ASSUME kind = "FastRedundantShare", table # None, Corrected(table) = {}
      PROVE  FRSLoad(table, copies) = FairLoad(table, copies)
  <2>1. PICK l \in Lists[kind] : BuiltFrom(kind, l, copies, table)
    BY <1>2 DEF TablesBuilt
  <2> DEFINE t == Aligning(l, copies, FALSE)
  <2>2. /\ copies \in 1 .. Len(l)
        /\ table = [disks |-> t.disks, cPosition |-> t.cPosition, kError |-> t.kError,
                    shares |-> Shares(t, copies)]
    <3>1. (kind = "RedundantShare -decID") = FALSE
      BY <1>2
    <3> QED
      BY <1>2, <2>1, <3>1, Zenon DEF BuiltFrom
  <2>3. Alignment(t, Len(l), copies)
    BY <1>0, <2>2, AlignmentIs
  <2> HIDE DEF t
  <2>4. Drawing(table, t, Len(l), copies)
    BY <2>2, <2>3 DEF Drawing
  <2>5. Corrected(t) = {}
    BY <1>2, <2>2 DEF Corrected
  <2> QED
    BY <2>4, <2>5, DrawsAreFair
<1> QED
  BY <1>1, <1>2 DEF RSFair

(* Whatever the list and the number of copies: after setDisks the average  *)
(* load of every disk is what it should be, for RedundantShare as long as  *)
(* one disk at most was corrected, for FastRedundantShare as long as none  *)
(* was, and for RoundRobin over as many extents as there are disks.        *)
THEOREM LoadsFair ==
  Spec => []LoadsAreFair
<1>1. Init => TablesBuilt
  BY DEF Init, TablesBuilt
<1>2. PlacementInvariant /\ TablesBuilt /\ [Next]_vars => TablesBuilt'
  BY BuiltStays
<1>3. PlacementInvariant /\ TablesBuilt /\ AreasAreChances /\ RREven => LoadsAreFair
  <2>1. PlacementInvariant /\ TablesBuilt => Configured /\ TablesBuilt
    BY DEF PlacementInvariant
  <2> QED
    BY <2>1, BuiltIsFair DEF LoadsAreFair, FRSFair
<1> QED
  BY <1>1, <1>2, <1>3, PlacementIsInvariant, SharesAreChances, StripesAreFair, PTL DEF Spec
================================================================================
