------------------------------- MODULE MapProofs -------------------------------
(***************************************************************************)
(* The maps from keys that the strategies are built on.                    *)
(*                                                                         *)
(* For every word width, every set of positions and every number of        *)
(* slices, a finished ImprovedMap answers every key with its ring          *)
(* predecessor.  RingInv says what the loop of the constructor has built   *)
(* so far; the lookup follows from it when the loop has ended.             *)
(*                                                                         *)
(* The leaves of a flat_segment_tree stay canonical and implement the map  *)
(* from keys to values, for every span, every set of values and every      *)
(* segment; both searches return the run of equal values that a key lies   *)
(* in.                                                                     *)
(*                                                                         *)
(* The table DistShare finds its distributors in is filled by threads: for *)
(* every number of them and every set of borders, no two use the list of   *)
(* packages or the table at once, the locks outlive the threads, and the   *)
(* table is complete when setDisks returns.                                *)
(***************************************************************************)
EXTENDS ImprovedMap, SegmentTreeSearch, ShareInit, NumberFacts

--------------------------------------------------------------------------------
(* ImprovedMap: arithmetic of keys and slices.                             *)

\* The size of the key space is a positive number.
LEMMA KeySpace == 2^W \in Nat \ {0}
BY WordAssumption, PowerAssumption

\* Max picks the greatest element of a nonempty set of keys.
LEMMA GreatestIs ==
  ASSUME NEW S \in SUBSET RingKey, S # {}
  PROVE  Max(S) \in S /\ \A y \in S : y <= Max(S)
<1>1. 2^W - 1 \in Nat /\ S \subseteq 0 .. 2^W - 1
  BY KeySpace DEF RingKey
<1>2. \E x \in S : \A y \in S : y <= x
  BY <1>1, GreatestElement
<1> QED
  BY <1>2 DEF Max

\* The slice number of a key fits in a word (ImprovedMap.cpp:39).
LEMMA KeyShiftType ==
  ASSUME NEW n \in 0 .. 2^W
  PROVE  KeyShift(n) \in 0 .. W
<1> DEFINE S == {s \in 0 .. W : n <= 2^s}
<1>1. W \in S
  BY WordAssumption, KeySpace
<1>2. S \in SUBSET Nat
  BY WordAssumption
<1>3. Min(S) \in S
  BY <1>1, <1>2, MinIs
<1> QED
  BY <1>3 DEF KeyShift

--------------------------------------------------------------------------------
(* The slices divide the key space: slice s holds the keys from StartOf(s) *)
(* up to, not including, StartOf(s + 1).                                   *)

\* What dividing the key space says of the types of the slice arithmetic.
LEMMA SlicesType ==
  ASSUME SlicesDivide
  PROVE  /\ slices \in Nat \ {0}
         /\ sliceSize \in Nat
         /\ bitShift = W => slices = 1
         /\ bitShift # W => /\ slices * sliceSize = 2^W
                            /\ sliceSize # 0
                            /\ 2^bitShift = sliceSize
<1>1. PICK shift \in 0 .. W :
        /\ slices = 2^shift
        /\ bitShift = W - shift
        /\ sliceSize = 2^(W - shift) \/ (shift = 0 /\ sliceSize = 2^W - 1)
  BY DEF SlicesDivide
<1>2. /\ 2^shift \in Nat \ {0}
      /\ 2^(W - shift) \in Nat \ {0}
      /\ 2^shift * 2^(W - shift) = 2^W
  <2>1. W - shift \in 0 .. W
    BY WordAssumption
  <2> QED
    BY <2>1, PowerAssumption
<1>3. bitShift = W => slices = 1
  BY <1>1, WordAssumption, PowerAssumption
<1>4. CASE sliceSize = 2^(W - shift)
  BY <1>1, <1>2, <1>3, <1>4
<1>5. CASE shift = 0 /\ sliceSize = 2^W - 1
  BY <1>1, <1>2, <1>3, <1>5, WordAssumption, KeySpace
<1> QED
  BY <1>1, <1>4, <1>5

\* The starts of the slices rise from 0 to the end of the key space.
LEMMA StartFacts ==
  ASSUME SlicesDivide, NEW s \in 0 .. slices - 1
  PROVE  /\ StartOf(s) = s * sliceSize
         /\ StartOf(s) \in Nat
         /\ StartOf(s + 1) \in Nat
         /\ s + 1 # slices => StartOf(s + 1) = s * sliceSize + sliceSize
         /\ s + 1 = slices => StartOf(s + 1) = 2^W
         /\ StartOf(s) < StartOf(s + 1)
<1>1. slices \in Nat \ {0} /\ sliceSize \in Nat /\ s \in Nat /\ s # slices
  BY SlicesType
<1>2. /\ s * sliceSize \in Nat
      /\ (s + 1) * sliceSize = s * sliceSize + sliceSize
  BY <1>1
<1>3. /\ StartOf(s) = s * sliceSize
      /\ s + 1 # slices => StartOf(s + 1) = s * sliceSize + sliceSize
      /\ s + 1 = slices => StartOf(s + 1) = 2^W
  BY <1>1, <1>2 DEF StartOf
<1>4. CASE bitShift # W
  <2>0. slices * sliceSize = 2^W /\ sliceSize # 0
    BY <1>4, SlicesType
  <2>1. s + 1 = slices => s * sliceSize + sliceSize = 2^W
    BY <1>1, <1>2, <2>0
  <2> QED
    BY <1>1, <1>2, <1>3, <2>0, <2>1, KeySpace
<1>5. CASE bitShift = W
  BY <1>1, <1>2, <1>3, <1>5, SlicesType, KeySpace
<1> QED
  BY <1>4, <1>5

\* A key is looked up in the slice it lies in.
LEMMA SliceOfKey ==
  ASSUME SlicesDivide, NEW key \in RingKey
  PROVE  /\ SliceOf(key) \in 0 .. slices - 1
         /\ StartOf(SliceOf(key)) <= key
         /\ key < StartOf(SliceOf(key) + 1)
<1>1. key \in Nat /\ key < 2^W /\ 2^W \in Nat
  BY KeySpace DEF RingKey
<1>2. CASE bitShift = W
  <2>1. SliceOf(key) = 0 /\ slices = 1 /\ 0 \in 0 .. slices - 1
    BY <1>2, SlicesType DEF SliceOf
  <2>2. StartOf(0) = 0 /\ StartOf(1) = 2^W
    BY <2>1, SlicesType DEF StartOf
  <2> QED
    BY <1>1, <2>1, <2>2
<1>3. CASE bitShift # W
  <2>1. /\ slices \in Nat \ {0} /\ sliceSize \in Nat \ {0}
        /\ slices * sliceSize = 2^W
        /\ SliceOf(key) = key \div sliceSize
    BY <1>3, SlicesType DEF SliceOf
  <2> DEFINE s == key \div sliceSize
  <2>2. /\ s \in Nat
        /\ s * sliceSize <= key
        /\ key < s * sliceSize + sliceSize
    BY <1>1, <2>1
  <2> HIDE DEF s
  <2>3. s < slices
    <3>1. SUFFICES ASSUME slices <= s PROVE FALSE
      BY <2>1, <2>2
    <3>2. slices * sliceSize <= s * sliceSize
      BY <2>1, <2>2, <3>1
    <3> QED
      BY <1>1, <2>1, <2>2, <3>2
  <2>4. s \in 0 .. slices - 1
    BY <2>1, <2>2, <2>3
  <2>5. /\ StartOf(s) = s * sliceSize
        /\ s + 1 # slices => StartOf(s + 1) = s * sliceSize + sliceSize
        /\ s + 1 = slices => StartOf(s + 1) = 2^W
    BY <2>4, StartFacts
  <2>6. SliceOf(key) = s
    BY <2>1 DEF s
  <2> QED
    BY <1>1, <2>2, <2>4, <2>5, <2>6
<1> QED
  BY <1>2, <1>3

--------------------------------------------------------------------------------
(* The invariant is inductive.                                             *)

\* The constructor's prologue (ImprovedMap.cpp:21-65) establishes the invariant.
LEMMA ConstructStep ==
  ASSUME RingInv, NEW initSlices \in 0 .. 2^W, NEW S \in (SUBSET RingKey) \ {{}},
         Construct(initSlices, S)
  PROVE  RingInv'
<1> DEFINE n == IF initSlices = 0 THEN Cardinality(S) ELSE initSlices
           shift == IF n = 1 THEN 0 ELSE KeyShift(n)
<1>1. n \in 0 .. 2^W
  <2>1. IsFiniteSet(RingKey) /\ Cardinality(RingKey) = 2^W
    <3>1. 0 \in Int /\ 2^W - 1 \in Int /\ ~(0 > 2^W - 1)
      BY KeySpace
    <3>2. (2^W - 1) - 0 + 1 = 2^W
      BY KeySpace
    <3> QED
      BY <3>1, <3>2, FS_Interval DEF RingKey
  <2>2. Cardinality(S) \in Nat /\ Cardinality(S) <= 2^W
    BY <2>1, FS_Subset, FS_CardinalityType
  <2> QED
    BY <2>2, KeySpace
<1>2. shift \in 0 .. W /\ 2^shift \in Nat \ {0} /\ 2^(W - shift) \in Nat
  <2>1. shift \in 0 .. W
    BY <1>1, KeyShiftType, WordAssumption
  <2>2. W - shift \in 0 .. W
    BY <2>1, WordAssumption
  <2> HIDE DEF shift
  <2> QED
    BY <2>1, <2>2, PowerAssumption
<1>3. /\ slices' = 2^shift
      /\ bitShift' = W - shift
      /\ sliceSize' = IF n = 1 THEN 2^W - 1 ELSE 2^(W - shift)
      /\ n = 1 => shift = 0
  BY DEF Construct
<1> HIDE DEF n, shift
<1>4. /\ pc' = "building" /\ initKeys' = S /\ rest' = S /\ slice' = 0
      /\ firstPlaced' = FALSE /\ previousKey' = previousKey
      /\ lastKey' = IF 0 \in S THEN 0 ELSE Max(S)
      /\ keys' = [s \in {} |-> {}]
  BY DEF Construct
<1>5. SlicesDivide'
  BY <1>2, <1>3 DEF SlicesDivide
<1>6. \A k \in S : k \in Nat
  BY DEF RingKey
<1>7. StartOf(0)' = 0 /\ Below(0)' = {}
  BY <1>2, <1>3, <1>4, <1>6, KeySpace DEF StartOf, Below
<1>8. IteratorInStep'
  BY <1>4, <1>6, <1>7 DEF IteratorInStep, Below
<1>9. RingTypeOK'
  <2>1. Max(S) \in RingKey /\ 0 \in RingKey
    <3>1. Max(S) \in S /\ S \subseteq RingKey
      BY GreatestIs
    <3>2. 0 \in RingKey
      BY KeySpace DEF RingKey
    <3> QED
      BY <3>1, <3>2
  <2>2. slices' \in Nat /\ bitShift' \in 0 .. W /\ sliceSize' \in Nat
    BY <1>2, <1>3, KeySpace, WordAssumption
  <2>3. keys' \in [0 .. (IF pc = "new" THEN 0 ELSE slice)' - 1 -> SUBSET RingKey]
    BY <1>4
  <2>4. /\ initKeys' \in SUBSET RingKey /\ rest' \in SUBSET RingKey
        /\ previousKey' \in RingKey /\ lastKey' \in RingKey
    BY <1>4, <2>1 DEF RingInv, RingTypeOK
  <2>5. slice' \in 0 .. slices'
    BY <1>4, <2>2
  <2> QED
    BY <1>4, <2>2, <2>3, <2>4, <2>5 DEF RingTypeOK
<1> QED
  BY <1>4, <1>5, <1>8, <1>9 DEF RingInv, LastKeyClosesRing, SlicesFilled

\* What one iteration of the constructor's loop puts into its slice.
LEMMA IterationContents ==
  ASSUME RingInv, PlaceSlice
  PROVE  /\ Taken = {k \in initKeys : StartOf(slice) <= k
                                        /\ k < StartOf(slice + 1)}
         /\ Carry \cup Taken = SliceContents(slice)
         /\ Carry \subseteq RingKey
<1> DEFINE a == StartOf(slice)
           b == StartOf(slice + 1)
<1>1. /\ initKeys \in SUBSET RingKey /\ initKeys # {} /\ slices \in Nat \ {0}
      /\ slice \in 0 .. slices - 1 /\ SlicesDivide /\ previousKey \in RingKey
      /\ rest = {k \in initKeys : k >= a}
      /\ firstPlaced <=> Below(a) # {}
      /\ firstPlaced => previousKey = Max(Below(a))
  BY SlicesType DEF RingInv, RingTypeOK, PlaceSlice, IteratorInStep
<1>2. /\ a \in Nat /\ b \in Nat /\ a < b /\ sliceStart = a
      /\ slice + 1 # slices => sliceEnd = b
      /\ slice + 1 = slices => b = 2^W
  BY <1>1, StartFacts DEF sliceStart, sliceEnd
<1>3. \A k \in initKeys : k \in Nat /\ k < 2^W
  BY <1>1, KeySpace DEF RingKey
<1> HIDE DEF a, b
<1>4. Taken = {k \in initKeys : a <= k /\ k < b}
  <2>1. CASE slice = slices - 1
    BY <1>1, <1>2, <1>3, <2>1 DEF Taken
  <2>2. CASE slice # slices - 1
    BY <1>1, <1>2, <1>3, <2>2 DEF Taken
  <2> QED
    BY <2>1, <2>2
<1>5. (rest = {} \/ Min(rest) > a) <=> a \notin initKeys
  <2>1. rest \in SUBSET Nat
    BY <1>1, <1>3
  <2>2. CASE a \in initKeys
    <3>1. a \in rest
      BY <1>1, <1>2, <2>2
    <3>2. Min(rest) \in Nat /\ Min(rest) <= a
      BY <2>1, <3>1, MinIs
    <3> QED
      BY <1>2, <2>2, <3>1, <3>2
  <2>3. CASE a \notin initKeys
    <3>1. ASSUME rest # {} PROVE Min(rest) > a
      <4>1. Min(rest) \in rest
        BY <2>1, <3>1, MinIs
      <4> QED
        BY <1>1, <1>2, <1>3, <2>3, <4>1
    <3> QED
      BY <2>3, <3>1
  <2> QED
    BY <2>2, <2>3
<1>6. Carry = IF a \in initKeys THEN {}
              ELSE {IF Below(a) = {} THEN 0 ELSE Max(Below(a))}
  BY <1>1, <1>2, <1>5 DEF Carry
<1>7. Carry \subseteq RingKey
  <2>1. 0 \in RingKey
    BY KeySpace DEF RingKey
  <2> QED
    BY <1>1, <2>1 DEF Carry
<1> QED
  BY <1>4, <1>6, <1>7 DEF SliceContents, a, b

\* One iteration of the constructor's loop (ImprovedMap.cpp:67-98) preserves the
\* invariant.
LEMMA PlaceSliceStep ==
  ASSUME RingInv, PlaceSlice
  PROVE  RingInv'
<1> DEFINE a == StartOf(slice)
           b == StartOf(slice + 1)
<1>1. /\ initKeys \in SUBSET RingKey /\ initKeys # {} /\ slices \in Nat \ {0}
      /\ slice \in 0 .. slices - 1 /\ SlicesDivide
      /\ rest = {k \in initKeys : k >= a}
      /\ firstPlaced <=> Below(a) # {}
      /\ firstPlaced => previousKey = Max(Below(a))
  BY SlicesType DEF RingInv, RingTypeOK, PlaceSlice, IteratorInStep
<1>2. /\ pc' = "building" /\ slice' = slice + 1
      /\ UNCHANGED <<initKeys, slices, bitShift, sliceSize, lastKey>>
      /\ rest' = rest \ Taken
      /\ firstPlaced' = (firstPlaced \/ Taken # {})
      /\ previousKey' = IF Taken = {} THEN previousKey ELSE Max(Taken)
      /\ keys' = [s \in 0 .. slice |-> IF s = slice THEN Carry \cup Taken
                                                    ELSE keys[s]]
  BY DEF PlaceSlice, RingInv
<1>3. /\ a \in Nat /\ b \in Nat /\ a < b
      /\ Taken = {k \in initKeys : a <= k /\ k < b}
      /\ Carry \cup Taken = SliceContents(slice)
      /\ Carry \subseteq RingKey
  BY <1>1, StartFacts, IterationContents
<1>4. \A k \in initKeys : k \in Nat
  BY <1>1, KeySpace DEF RingKey
<1>5. \A s : StartOf(s)' = StartOf(s)
  BY <1>2 DEF StartOf
<1>6. \A x : Below(x)' = Below(x)
  BY <1>2 DEF Below
<1>7. Below(b) = Below(a) \cup Taken
  <2> HIDE DEF a, b
  <2> QED
    BY <1>3, <1>4 DEF Below
<1>8. Below(a) \subseteq RingKey /\ Taken \subseteq RingKey /\ Taken \subseteq Below(b)
  BY <1>1, <1>3, <1>7 DEF Below
<1>9. IteratorInStep'
  <2>1. rest' = {k \in initKeys : k >= b}
    <3> HIDE DEF a, b
    <3> QED
      BY <1>1, <1>2, <1>3, <1>4
  <2>2. firstPlaced' <=> Below(b) # {}
    BY <1>1, <1>2, <1>7
  <2>3. ASSUME Taken # {} PROVE Max(Taken) = Max(Below(b))
    <3> DEFINE g == Max(Taken)
    <3>1. g \in Taken /\ \A y \in Taken : y <= g
      BY <1>8, <2>3, GreatestIs
    <3> HIDE DEF g, a, b
    <3>2. g \in Nat /\ a <= g
      BY <1>3, <1>4, <3>1
    <3>3. \A y \in Below(a) : y <= g
      BY <1>3, <1>4, <3>2 DEF Below
    <3>4. \A y \in Below(b) : y <= g
      BY <1>7, <3>1, <3>3
    <3>5. Below(b) \in SUBSET Int /\ g \in Below(b)
      BY <1>4, <1>7, <3>1 DEF Below
    <3>6. Max(Below(b)) = g
      BY <3>4, <3>5, MaxUnique
    <3> QED
      BY <3>6 DEF g
  <2>4. ASSUME firstPlaced', Taken = {} PROVE previousKey' = Max(Below(b))
    BY <1>1, <1>2, <1>7, <2>4
  <2>5. firstPlaced' => previousKey' = Max(Below(b))
    BY <1>2, <2>3, <2>4
  <2>6. StartOf(slice)' = b
    BY <1>2, <1>5
  <2> QED
    BY <1>2, <1>6, <2>1, <2>2, <2>5, <2>6 DEF IteratorInStep
<1>10. SlicesFilled'
  <2>1. \A s : SliceContents(s)' = SliceContents(s)
    BY <1>2, <1>5, <1>6 DEF SliceContents
  <2>2. \A s \in 0 .. slice : keys'[s] = SliceContents(s)
    BY <1>1, <1>2, <1>3 DEF RingInv, SlicesFilled, PlaceSlice
  <2>3. slice' - 1 = slice
    BY <1>1, <1>2
  <2> QED
    BY <2>1, <2>2, <2>3 DEF SlicesFilled
<1>11. RingTypeOK'
  <2>1. previousKey' \in RingKey
    <3>1. CASE Taken = {}
      BY <1>2, <3>1 DEF RingInv, RingTypeOK
    <3>2. CASE Taken # {}
      BY <1>2, <1>8, <3>2, GreatestIs
    <3> QED
      BY <3>1, <3>2
  <2>2. keys' \in [0 .. slice -> SUBSET RingKey]
    <3>1. keys \in [0 .. slice - 1 -> SUBSET RingKey]
      BY DEF RingInv, RingTypeOK, PlaceSlice
    <3>2. \A s \in 0 .. slice : s # slice => s \in 0 .. slice - 1
      BY <1>1
    <3> QED
      BY <1>2, <1>3, <1>8, <3>1, <3>2
  <2>3. slice' - 1 = slice /\ slice' \in 0 .. slices'
    BY <1>1, <1>2
  <2> QED
    BY <1>1, <1>2, <2>1, <2>2, <2>3 DEF RingInv, RingTypeOK
<1>12. SlicesDivide' /\ LastKeyClosesRing'
  BY <1>1, <1>2 DEF RingInv, PlaceSlice, SlicesDivide, LastKeyClosesRing
<1> QED
  BY <1>1, <1>2, <1>9, <1>10, <1>11, <1>12 DEF RingInv

\* Leaving the loop, freeing the map and stuttering change nothing that the
\* invariant reads, or leave a state about which it says nothing.
LEMMA OtherSteps ==
  ASSUME RingInv, Constructed \/ Destroy \/ UNCHANGED ringVars
  PROVE  RingInv'
<1>1. ASSUME UNCHANGED <<initKeys, slices, bitShift, sliceSize, slice, rest,
                         firstPlaced, previousKey, keys, lastKey>>
      PROVE  /\ SlicesDivide' <=> SlicesDivide
             /\ IteratorInStep' <=> IteratorInStep
             /\ LastKeyClosesRing' <=> LastKeyClosesRing
             /\ SlicesFilled' <=> SlicesFilled
  <2>1. /\ \A s : StartOf(s)' = StartOf(s)
        /\ \A x : Below(x)' = Below(x)
    BY <1>1 DEF StartOf, Below
  <2>2. \A s : SliceContents(s)' = SliceContents(s)
    BY <1>1, <2>1 DEF SliceContents
  <2>3. SlicesDivide' <=> SlicesDivide
    BY <1>1 DEF SlicesDivide
  <2>4. IteratorInStep' <=> IteratorInStep
    BY <1>1, <2>1 DEF IteratorInStep
  <2>5. LastKeyClosesRing' <=> LastKeyClosesRing
    BY <1>1 DEF LastKeyClosesRing
  <2>6. SlicesFilled' <=> SlicesFilled
    BY <1>1, <2>2 DEF SlicesFilled
  <2> QED
    BY <2>3, <2>4, <2>5, <2>6
<1>2. CASE Constructed
  <2>1. /\ UNCHANGED <<initKeys, slices, bitShift, sliceSize, slice, rest,
                       firstPlaced, previousKey, keys, lastKey>>
        /\ pc = "building" /\ pc' = "ready" /\ slice = slices
    BY <1>2 DEF Constructed
  <2>2. RingTypeOK'
    BY <2>1 DEF RingInv, RingTypeOK
  <2> QED
    BY <1>1, <2>1, <2>2 DEF RingInv
<1>3. CASE Destroy
  BY <1>3 DEF Destroy, RingInv, RingTypeOK
<1>4. CASE UNCHANGED ringVars
  <2>1. RingTypeOK'
    BY <1>4 DEF ringVars, RingInv, RingTypeOK
  <2> QED
    BY <1>1, <1>4, <2>1 DEF RingInv, ringVars
<1> QED
  BY <1>2, <1>3, <1>4

--------------------------------------------------------------------------------
(* What the invariant gives a lookup.                                      *)

\* The entry the lookup of a finished map ends on is the predecessor of the
\* key when it has one, and the virtual position 0 otherwise.
LEMMA ClosestEntry ==
  ASSUME RingInv, pc = "ready", NEW key \in RingKey
  PROVE  /\ SliceOf(key) \in 0 .. slices - 1
         /\ AtOrBelow(key) # {}
         /\ Max(AtOrBelow(key)) =
              IF \E k \in initKeys : k <= key
                THEN Max({k \in initKeys : k <= key})
                ELSE 0
<1> DEFINE s == SliceOf(key)
           a == StartOf(s)
           b == StartOf(s + 1)
           B == {k \in initKeys : k <= key}
<1>1. /\ s \in 0 .. slices - 1
      /\ a \in Nat /\ b \in Nat /\ a <= key /\ key < b
      /\ keys[s] = SliceContents(s)
      /\ initKeys \in SUBSET RingKey
  BY SliceOfKey, StartFacts DEF RingInv, RingTypeOK, SlicesFilled
<1>2. key \in Nat /\ \A k \in initKeys : k \in Nat
  BY <1>1, KeySpace DEF RingKey
<1>3. AtOrBelow(key) = {k \in SliceContents(s) : k <= key}
  BY <1>1 DEF AtOrBelow
<1> HIDE DEF s, a, b
<1>4. CASE B = {}
  <2>0. \A k \in initKeys : ~(k <= key)
    BY <1>4
  <2>1. Below(a) = {} /\ a \notin initKeys
    <3>1. \A k \in initKeys : ~(k < a) /\ k # a
      BY <1>1, <1>2, <2>0
    <3> QED
      BY <3>1 DEF Below
  <2>2. SliceContents(s) = {k \in initKeys : a <= k /\ k < b} \cup {0}
    BY <2>1 DEF SliceContents, a, b
  <2>3. AtOrBelow(key) = {0}
    BY <1>2, <1>3, <1>4, <2>2
  <2>4. Max({0}) = 0
    BY MaxUnique
  <2> QED
    BY <1>1, <1>4, <2>3, <2>4 DEF s
<1>5. CASE B # {}
  <2> DEFINE g == Max(B)
  <2>1. g \in B /\ \A y \in B : y <= g
    BY <1>1, <1>5, GreatestIs
  <2> HIDE DEF g
  <2>2. g \in Nat /\ g \in initKeys /\ g <= key
    BY <1>2, <2>1
  <2>3. ASSUME a \notin initKeys, Below(a) # {}
        PROVE  Max(Below(a)) \in B /\ Max(Below(a)) <= g
    <3>1. Below(a) \in SUBSET RingKey
      BY <1>1 DEF Below
    <3>2. Max(Below(a)) \in Below(a)
      BY <2>3, <3>1, GreatestIs
    <3>3. Max(Below(a)) \in initKeys /\ Max(Below(a)) < a
      BY <3>2 DEF Below
    <3>4. \A x \in initKeys : x < a => x <= key
      <4>1. a \in Nat /\ a <= key /\ key \in Nat
        BY <1>1, <1>2
      <4> QED
        BY <1>2, <4>1
    <3> QED
      BY <2>1, <3>3, <3>4
  <2>4. ASSUME a \notin initKeys, g < a
        PROVE  Below(a) # {} /\ Max(Below(a)) = g
    <3>1. g \in Below(a) /\ Below(a) \subseteq initKeys
      BY <2>2, <2>4 DEF Below
    <3>2. \A y \in Below(a) : y \in Int /\ y <= key
      <4>1. \A y \in Below(a) : y \in Nat /\ y < a
        BY <1>2 DEF Below
      <4> QED
        BY <1>1, <1>2, <4>1
    <3>3. \A y \in Below(a) : y <= g
      BY <2>1, <3>1, <3>2
    <3>4. Below(a) \in SUBSET Int
      BY <3>2
    <3> QED
      BY <3>1, <3>3, <3>4, MaxUnique
  <2>5. g < a => a \notin initKeys
    BY <1>1, <1>2, <2>1, <2>2
  <2>6. g \in SliceContents(s)
    <3>1. CASE a <= g
      BY <1>1, <2>2, <3>1 DEF SliceContents, a, b
    <3>2. CASE ~(a <= g)
      <4>1. a \notin initKeys /\ Below(a) # {} /\ Max(Below(a)) = g
        BY <1>1, <2>2, <2>4, <2>5, <3>2
      <4> QED
        BY <4>1 DEF SliceContents, a
    <3> QED
      BY <3>1, <3>2
  <2>7. \A y \in SliceContents(s) : y \in Nat /\ (y <= key => y <= g)
    <3> SUFFICES ASSUME NEW y \in SliceContents(s)
                 PROVE  y \in Nat /\ (y <= key => y <= g)
      OBVIOUS
    <3>1. \/ y \in initKeys
          \/ y = 0
          \/ a \notin initKeys /\ Below(a) # {} /\ y = Max(Below(a))
      BY DEF SliceContents, a
    <3>2. CASE y \in initKeys
      BY <1>2, <2>1, <3>2
    <3>3. CASE y = 0
      BY <2>2, <3>3
    <3>4. CASE a \notin initKeys /\ Below(a) # {} /\ y = Max(Below(a))
      <4>1. y \in B /\ y <= g
        BY <2>3, <3>4
      <4> QED
        BY <1>2, <4>1
    <3> QED
      BY <3>1, <3>2, <3>3, <3>4
  <2>8. Max(AtOrBelow(key)) = g
    BY <1>3, <2>2, <2>6, <2>7, MaxUnique
  <2> QED
    BY <1>1, <1>3, <1>5, <2>2, <2>6, <2>8 DEF g, s
<1> QED
  BY <1>4, <1>5

\* In a state of the invariant a finished map answers with the ring predecessor.
LEMMA LookupFromInvariant == RingInv => LookupIsRingPredecessor
<1> SUFFICES ASSUME RingInv, pc = "ready", NEW key \in RingKey
             PROVE  FindClosest(key) = RingPredecessor(initKeys, key)
  BY DEF LookupIsRingPredecessor
<1> DEFINE B == {k \in initKeys : k <= key}
           upKey == Max(AtOrBelow(key))
<1>1. AtOrBelow(key) # {} /\ upKey = IF B # {} THEN Max(B) ELSE 0
  BY ClosestEntry
<1>2. keys[SliceOf(key)] # {}
  BY <1>1 DEF AtOrBelow
<1>3. /\ initKeys \in SUBSET RingKey /\ initKeys # {}
      /\ lastKey = IF 0 \in initKeys THEN 0 ELSE Max(initKeys)
  BY DEF RingInv, RingTypeOK, LastKeyClosesRing
<1>4. FindClosest(key) = IF upKey = 0 THEN lastKey ELSE upKey
  BY <1>2 DEF FindClosest
<1>5. RingPredecessor(initKeys, key) = IF B # {} THEN Max(B)
                                                 ELSE Max(initKeys)
  BY DEF RingPredecessor
<1> HIDE DEF upKey
<1>6. CASE B = {}
  <2>1. 0 \notin initKeys
    BY <1>6, KeySpace DEF RingKey
  <2> QED
    BY <1>1, <1>3, <1>4, <1>5, <1>6, <2>1
<1>7. CASE B # {}
  <2>1. Max(B) \in B
    BY <1>3, <1>7, GreatestIs
  <2> HIDE DEF B
  <2>2. Max(B) \in initKeys
    BY <2>1 DEF B
  <2> QED
    BY <1>1, <1>3, <1>4, <1>5, <1>7, <2>2
<1> QED
  BY <1>6, <1>7

\* In a state of the invariant every lookup has an entry to end on.
LEMMA SearchFromInvariant == RingInv => NoStepBelowBegin
<1> SUFFICES ASSUME RingInv, pc = "ready", NEW key \in RingKey
             PROVE  SliceOf(key) \in DOMAIN keys /\ AtOrBelow(key) # {}
  BY DEF NoStepBelowBegin
<1>1. DOMAIN keys = 0 .. slices - 1
  BY DEF RingInv, RingTypeOK
<1> QED
  BY <1>1, ClosestEntry

--------------------------------------------------------------------------------

\* The invariant holds before any map is constructed.
LEMMA RingInitInvariant == RingInit => RingInv
<1> SUFFICES ASSUME RingInit PROVE RingInv
  OBVIOUS
<1>1. 0 \in RingKey /\ 0 \in 0 .. W
  BY KeySpace, WordAssumption DEF RingKey
<1>2. keys \in [0 .. (IF pc = "new" THEN 0 ELSE slice) - 1 -> SUBSET RingKey]
  BY DEF RingInit
<1>3. /\ pc = "new" /\ initKeys = {} /\ slices = 0 /\ bitShift = 0
      /\ sliceSize = 0 /\ slice = 0 /\ rest = {} /\ firstPlaced = FALSE
      /\ previousKey = 0 /\ lastKey = 0
  BY DEF RingInit
<1>4. slice \in 0 .. slices /\ bitShift \in 0 .. W
  BY <1>1, <1>3
<1>5. /\ initKeys \in SUBSET RingKey /\ rest \in SUBSET RingKey
      /\ previousKey \in RingKey /\ lastKey \in RingKey
      /\ slices \in Nat /\ sliceSize \in Nat
  BY <1>1, <1>3
<1>6. RingTypeOK
  BY <1>2, <1>3, <1>4, <1>5 DEF RingTypeOK
<1> QED
  BY <1>3, <1>6 DEF RingInv

\* Every step preserves the invariant.
LEMMA RingNextInvariant == RingInv /\ [RingNext]_ringVars => RingInv'
BY ConstructStep, PlaceSliceStep, OtherSteps DEF RingNext

\* The loop of the constructor keeps its invariant: the slices built so far are
\* filled, the iterator is in step with the slice number and the ring is closed.
THEOREM RingInvariance == RingSpec => []RingInv
BY RingInitInvariant, RingNextInvariant, PTL DEF RingSpec

\* Every variable keeps its type: no slice number, shift or position leaves the
\* word, for every word width.
THEOREM RingTypeCorrect == RingSpec => []RingTypeOK
<1>1. RingInv => RingTypeOK
  BY DEF RingInv
<1> QED
  BY <1>1, RingInvariance, PTL

\* findClosest returns the ring predecessor of every key, for every word width,
\* every set of positions and every number of slices.
THEOREM LookupCorrect == RingSpec => []LookupIsRingPredecessor
BY RingInvariance, LookupFromInvariant, PTL

\* findClosest never steps its iterator back from begin() (ImprovedMap.cpp:123).
THEOREM SearchDefined == RingSpec => []NoStepBelowBegin
BY RingInvariance, SearchFromInvariant, PTL

--------------------------------------------------------------------------------
(* Lookups in the list.                                                    *)

\* A key of the span lies in the segment of the last leaf that is not above it.
LEMMA StartIs ==
  ASSUME TreeTypeOK, MIN \in Leaves, NEW x \in Span
  PROVE  /\ SegmentStart(x) \in Leaves
         /\ SegmentStart(x) <= x
         /\ \A j \in Leaves : j <= x => j <= SegmentStart(x)
         /\ SegmentValue(x) \in Value
<1> DEFINE S == {k \in Leaves : k <= x}
<1>1. x \in Nat /\ MIN <= x /\ \A k \in Leaves : k \in Nat
  BY SpanAssumption DEF Span, TreeTypeOK
<1>2. S \subseteq 0 .. x /\ MIN \in S
  BY <1>1
<1>3. Max(S) \in S /\ \A y \in S : y <= Max(S)
  BY <1>1, <1>2, MaxIs
<1>4. leaf \in [Leaves -> Value]
  BY DEF TreeTypeOK
<1> QED
  BY <1>3, <1>4 DEF SegmentStart, SegmentValue

\* A leaf that is not above a key, with no leaf between them, is the last one at
\* or below the key.
LEMMA MaxBelow ==
  ASSUME NEW L \in SUBSET Int, NEW x \in Int, NEW k \in L,
         k <= x, \A j \in L : j <= x => j <= k
  PROVE  Max({j \in L : j <= x}) = k
<1> DEFINE S == {j \in L : j <= x}
<1>1. S \in SUBSET Int /\ k \in S /\ \A j \in S : j <= k
  OBVIOUS
<1> HIDE DEF S
<1>2. Max(S) = k
  BY <1>1, MaxUnique
<1> QED
  BY <1>2 DEF S

--------------------------------------------------------------------------------
(* Inserting a segment.                                                    *)

\* The leaves after an insertion, and what they carry.
LEMMA LeavesAfter ==
  ASSUME TreeInv, NEW from \in Span, NEW to \in MIN .. MAX, from < to,
         NEW val \in Value, InsertSegment(from, to, val)
  PROVE  /\ Leaves' \in SUBSET Span
         /\ \A k \in Leaves : k < from \/ to < k => k \in Leaves' /\ leaf'[k] = leaf[k]
         /\ \A k \in Leaves' : from < k => to <= k
         /\ \A k \in Leaves' : k < from \/ to < k => k \in Leaves
         /\ from \in Leaves' <=> ~ExtendsLeft(from, val)
         /\ from \in Leaves' => leaf'[from] = val
         /\ to \in Leaves' <=> (to < MAX /\ ~JoinsRight(to, val))
         /\ to \in Leaves' => leaf'[to] = SegmentValue(to)
         /\ leaf' \in [Leaves' -> Value]
<1> DEFINE kept == {k \in Leaves : k < from \/ to < k}
           starts == IF ExtendsLeft(from, val) THEN {} ELSE {from}
           ends == IF to = MAX \/ JoinsRight(to, val) THEN {} ELSE {to}
           N == kept \cup starts \cup ends
           f == [k \in N |-> IF k = from THEN val
                             ELSE IF k = to THEN SegmentValue(to)
                             ELSE leaf[k]]
<1>1. leaf' = f
  BY DEF InsertSegment
<1>2. Leaves' = N
  BY <1>1 DEF Leaves
<1>3. /\ from \in Nat /\ to \in Nat /\ MIN \in Nat /\ MAX \in Nat
      /\ MIN <= from /\ from < MAX /\ to <= MAX
      /\ \A k \in Leaves : k \in Nat /\ MIN <= k /\ k < MAX
  BY SpanAssumption DEF Span, TreeInv, TreeTypeOK
<1>4. to # MAX => to \in Span
  BY <1>3 DEF Span
<1>5. to # MAX => SegmentValue(to) \in Value
  BY <1>4, StartIs DEF TreeInv, Canonical
<1>6. N \in SUBSET Span
  BY <1>3, <1>4 DEF TreeInv, TreeTypeOK
<1>7. from \notin kept /\ to \notin kept /\ from # to
  BY <1>3
<1>8. \A k \in N : (k \in kept \/ k = from \/ k = to) /\ (k = to => to # MAX)
  BY <1>3, <1>7
<1>9. \A k \in kept : k \in Leaves /\ (k < from \/ to < k) /\ k # from /\ k # to
  BY <1>7
<1>10. \A k \in N : f[k] \in Value
  BY <1>5, <1>8, <1>9 DEF TreeInv, TreeTypeOK
<1>11. \A k \in Leaves : k < from \/ to < k => k \in N /\ f[k] = leaf[k]
  BY <1>9
<1>12. \A k \in N : from < k => to <= k
  BY <1>3, <1>8, <1>9
<1>13. \A k \in N : k < from \/ to < k => k \in Leaves
  BY <1>3, <1>8
<1>14. /\ from \in N <=> ~ExtendsLeft(from, val)
       /\ from \in N => f[from] = val
  BY <1>7
<1>15. /\ to \in N <=> (to < MAX /\ ~JoinsRight(to, val))
       /\ to \in N => f[to] = SegmentValue(to)
  BY <1>3, <1>7
<1>16. f \in [N -> Value]
  BY <1>10
<1> HIDE DEF f, N
<1> QED
  BY <1>1, <1>2, <1>6, <1>11, <1>12, <1>13, <1>14, <1>15, <1>16

\* Where no leaf follows the start of the new segment, its value holds: in its own
\* leaf, or in the one of the segment it extends.
LEMMA NewValue ==
  ASSUME TreeInv, NEW from \in Span, NEW to \in MIN .. MAX, from < to,
         NEW val \in Value, InsertSegment(from, to, val),
         NEW x \in Span, from <= x, \A k \in Leaves' : from < k => x < k
  PROVE  SegmentValue(x)' = val
<1>1. /\ from \in Nat /\ x \in Nat /\ MIN \in Nat /\ MIN <= from
      /\ MAX \in Nat /\ from < MAX
      /\ \A k \in Leaves' : k \in Nat
  BY SpanAssumption, LeavesAfter DEF Span
<1>2. CASE ~ExtendsLeft(from, val)
  <2>1. from \in Leaves' /\ leaf'[from] = val
    BY <1>2, LeavesAfter
  <2>2. \A j \in Leaves' : j <= x => j <= from
    BY <1>1
  <2>3. SegmentStart(x)' = from
    BY <1>1, <2>1, <2>2, MaxBelow DEF SegmentStart
  <2> QED
    BY <2>1, <2>3 DEF SegmentValue
<1>3. CASE ExtendsLeft(from, val)
  <2> DEFINE k == SegmentStart(from - 1)
  <2>1. from - 1 \in Span /\ SegmentValue(from - 1) = val
    BY <1>1, <1>3 DEF ExtendsLeft, Span
  <2>2. /\ k \in Leaves /\ k <= from - 1
        /\ \A j \in Leaves : j <= from - 1 => j <= k
    BY <2>1, StartIs DEF TreeInv, Canonical
  <2>3. k \in Nat
    BY <2>2, SpanAssumption DEF TreeInv, TreeTypeOK, Span
  <2>4. k \in Leaves' /\ leaf'[k] = val
    BY <1>1, <2>1, <2>2, <2>3, LeavesAfter DEF SegmentValue
  <2>5. from \notin Leaves'
    BY <1>3, LeavesAfter
  <2>6. \A j \in Leaves' : j <= x => j < from /\ j \in Leaves
    BY <1>1, <2>5, LeavesAfter
  <2>7. \A j \in Leaves' : j <= x => j <= k
    BY <1>1, <2>2, <2>6
  <2>8. k <= x
    BY <1>1, <2>2, <2>3
  <2>9. SegmentStart(x)' = k
    <3> HIDE DEF k
    <3> QED
      BY <1>1, <2>3, <2>4, <2>7, <2>8, MaxBelow DEF SegmentStart
  <2> QED
    BY <2>4, <2>9 DEF SegmentValue
<1> QED
  BY <1>2, <1>3

\* An insertion changes the keys of the segment and no others.
LEMMA MapAfter ==
  ASSUME TreeInv, NEW from \in Span, NEW to \in MIN .. MAX, from < to,
         NEW val \in Value, InsertSegment(from, to, val), NEW x \in Span
  PROVE  SegmentValue(x)' = IF from <= x /\ x < to THEN val ELSE SegmentValue(x)
<1> DEFINE S == SegmentStart(x)
<1>1. /\ from \in Nat /\ to \in Nat /\ x \in Nat /\ MAX \in Nat /\ x < MAX
      /\ \A k \in Leaves' : k \in Nat
      /\ \A k \in Leaves : k \in Nat
  BY SpanAssumption, LeavesAfter DEF Span, TreeInv, TreeTypeOK
<1>2. /\ S \in Leaves /\ S <= x
      /\ \A j \in Leaves : j <= x => j <= S
  BY StartIs DEF TreeInv, Canonical
<1>3. CASE from <= x /\ x < to
  <2>1. \A k \in Leaves' : from < k => x < k
    BY <1>1, <1>3, LeavesAfter
  <2> QED
    BY <1>3, <2>1, NewValue
<1>4. ASSUME S < from \/ to < S, x < from \/ to <= x,
             S < from => x < from
      PROVE  SegmentValue(x)' = SegmentValue(x)
  <2>1. S \in Leaves' /\ leaf'[S] = leaf[S]
    BY <1>2, <1>4, LeavesAfter
  <2>2. \A j \in Leaves' : j <= x => j <= S
    BY <1>1, <1>2, <1>4, LeavesAfter
  <2>3. SegmentStart(x)' = S
    <3> HIDE DEF S
    <3> QED
      BY <1>1, <1>2, <2>1, <2>2, MaxBelow DEF SegmentStart
  <2> QED
    BY <2>1, <2>3 DEF SegmentValue
<1>5. CASE x < from
  BY <1>1, <1>2, <1>4, <1>5
<1>6. CASE to <= x /\ to < S
  BY <1>1, <1>2, <1>4, <1>6
<1>7. CASE to <= x /\ S <= to
  <2>1. to \in Span
    BY <1>1, <1>7 DEF Span
  <2>2. SegmentStart(to) = S
    <3>1. \A j \in Leaves : j <= to => j <= S
      BY <1>1, <1>2, <1>7
    <3> QED
      BY <1>1, <1>2, <1>7, <3>1, MaxBelow DEF SegmentStart
  <2>3. SegmentValue(to) = SegmentValue(x)
    BY <2>2 DEF SegmentValue
  <2>4. \A j \in Leaves' : j <= x => j <= to
    BY <1>1, <1>2, <1>7, LeavesAfter
  <2>5. CASE JoinsRight(to, val)
    <3>1. to \notin Leaves' /\ SegmentValue(to) = val
      BY <2>5, LeavesAfter DEF JoinsRight
    <3>2. \A k \in Leaves' : from < k => x < k
      BY <1>1, <2>4, <3>1, LeavesAfter
    <3>3. SegmentValue(x)' = val
      BY <1>1, <1>7, <3>2, NewValue
    <3> QED
      BY <1>1, <1>7, <2>3, <3>1, <3>3
  <2>6. CASE ~JoinsRight(to, val)
    <3>1. to \in Leaves' /\ leaf'[to] = SegmentValue(to)
      BY <1>1, <1>7, <2>6, LeavesAfter
    <3>2. SegmentStart(x)' = to
      BY <1>1, <1>7, <2>4, <3>1, MaxBelow DEF SegmentStart
    <3>3. SegmentValue(x)' = SegmentValue(to)
      BY <3>1, <3>2 DEF SegmentValue
    <3> QED
      BY <1>1, <1>7, <2>3, <3>3
  <2> QED
    BY <2>5, <2>6
<1>8. S \in Nat
  BY <1>1, <1>2
<1> QED
  BY <1>1, <1>3, <1>5, <1>6, <1>7, <1>8

--------------------------------------------------------------------------------
(* The invariant is inductive.                                             *)

\* An insertion leaves a canonical list (flat_segment_tree.hpp, insert_segment_impl).
LEMMA InsertSegmentStep ==
  ASSUME TreeInv, NEW from \in Span, NEW to \in MIN .. MAX, from < to,
         NEW val \in Value, InsertSegment(from, to, val), valid' = FALSE, tree' = tree
  PROVE  TreeInv'
<1>1. /\ from \in Nat /\ to \in Nat /\ MIN \in Nat /\ MIN <= from
      /\ \A k \in Leaves' : k \in Nat /\ MIN <= k /\ k < MAX
      /\ MAX \in Nat /\ from < MAX /\ to <= MAX
  BY SpanAssumption, LeavesAfter DEF Span
<1>2. TreeTypeOK'
  BY LeavesAfter DEF TreeInv, TreeTypeOK
<1>3. MIN \in Leaves'
  <2>1. CASE from = MIN
    BY <1>1, <2>1, LeavesAfter DEF ExtendsLeft
  <2>2. CASE from # MIN
    BY <1>1, <2>2, LeavesAfter DEF TreeInv, Canonical
  <2> QED
    BY <2>1, <2>2
<1>4. ASSUME NEW k \in Leaves', k # MIN
      PROVE  leaf'[k] # SegmentValue(k - 1)'
  <2>1. k - 1 \in Span /\ k \in Nat
    BY <1>1, <1>4 DEF Span
  <2>2. SegmentValue(k - 1)' = IF from <= k - 1 /\ k - 1 < to THEN val
                                                              ELSE SegmentValue(k - 1)
    BY <2>1, MapAfter
  <2>3. CASE k < from \/ to < k
    <3>1. k \in Leaves /\ leaf'[k] = leaf[k]
      BY <2>3, LeavesAfter
    <3>2. leaf[k] # SegmentValue(k - 1)
      BY <1>4, <3>1 DEF TreeInv, Canonical
    <3> QED
      BY <1>1, <2>1, <2>2, <2>3, <3>1, <3>2
  <2>4. CASE k = from
    <3>1. leaf'[k] = val /\ SegmentValue(k - 1) # val
      BY <1>1, <1>4, <2>4, LeavesAfter DEF ExtendsLeft
    <3> QED
      BY <1>1, <2>2, <2>4, <3>1
  <2>5. CASE k = to
    <3>1. leaf'[k] # val
      BY <1>1, <2>5, LeavesAfter DEF JoinsRight
    <3> QED
      BY <1>1, <2>1, <2>2, <2>5, <3>1
  <2> QED
    BY <1>1, <2>1, <2>3, <2>4, <2>5, LeavesAfter
<1>5. Canonical'
  BY <1>3, <1>4 DEF Canonical
<1>6. TreeIsFresh'
  BY DEF TreeIsFresh
<1> QED
  BY <1>2, <1>5, <1>6 DEF TreeInv

\* A segment that is not refused is clipped to a nonempty part of the span.
LEMMA Clipped ==
  ASSUME NEW start_key \in Key, NEW end_key \in Key, NEW val \in Value,
         Insert(start_key, end_key, val)
  PROVE  \/ UNCHANGED treeVars
         \/ \E from \in Span, to \in MIN .. MAX :
              /\ from < to
              /\ \A x \in Span : (from <= x /\ x < to) <=> (start_key <= x /\ x < end_key)
              /\ InsertSegment(from, to, val)
              /\ valid' = FALSE
              /\ tree' = tree
<1> DEFINE from == IF start_key < MIN THEN MIN ELSE start_key
           to == IF end_key > MAX THEN MAX ELSE end_key
<1>1. /\ start_key \in Int /\ end_key \in Int
      /\ MIN \in Nat /\ MAX \in Nat /\ MIN < MAX
  BY KeyAssumption, SpanAssumption
<1>2. SUFFICES ASSUME ~ UNCHANGED treeVars
               PROVE  \E f \in Span, t \in MIN .. MAX :
                        /\ f < t
                        /\ \A x \in Span : (f <= x /\ x < t)
                                             <=> (start_key <= x /\ x < end_key)
                        /\ InsertSegment(f, t, val)
                        /\ valid' = FALSE
                        /\ tree' = tree
  OBVIOUS
<1>3. /\ ~(end_key < MIN \/ start_key > MAX \/ from >= to)
      /\ InsertSegment(from, to, val)
      /\ valid' = FALSE
      /\ tree' = tree
  BY <1>2 DEF Insert
<1>4. from \in Span /\ to \in MIN .. MAX /\ from < to
  BY <1>1, <1>3 DEF Span
<1>5. \A x \in Span : (from <= x /\ x < to) <=> (start_key <= x /\ x < end_key)
  BY <1>1 DEF Span
<1> HIDE DEF from, to
<1> QED
  BY <1>3, <1>4, <1>5

\* Where the leaves stay, so do the segments.
LEMMA SameLeaves ==
  ASSUME UNCHANGED leaf
  PROVE  /\ Leaves' = Leaves
         /\ \A x : SegmentValue(x)' = SegmentValue(x)
BY DEF Leaves, SegmentValue, SegmentStart

\* The constructor's list is canonical.
LEMMA TreeInitInvariant == TreeInit => TreeInv
<1> SUFFICES ASSUME TreeInit
             PROVE  TreeInv
  OBVIOUS
<1>1. Leaves = {MIN} /\ leaf \in [Leaves -> Value]
  BY ValueAssumption DEF TreeInit, Leaves
<1>2. MIN \in Span
  BY SpanAssumption DEF Span
<1>3. tree \in [DOMAIN tree -> Value] /\ DOMAIN tree = {}
  BY DEF TreeInit, NoTree
<1>4. valid = FALSE
  BY DEF TreeInit
<1> QED
  BY <1>1, <1>2, <1>3, <1>4 DEF TreeInv, TreeTypeOK, Canonical, TreeIsFresh

\* Every step preserves the invariant.
LEMMA TreeNextInvariant == TreeInv /\ [TreeNext]_treeVars => TreeInv'
<1> SUFFICES ASSUME TreeInv, [TreeNext]_treeVars
             PROVE  TreeInv'
  OBVIOUS
<1>1. ASSUME UNCHANGED leaf, TreeTypeOK', TreeIsFresh'
      PROVE  TreeInv'
  BY <1>1, SameLeaves DEF TreeInv, Canonical
<1>2. CASE UNCHANGED treeVars
  <2>1. TreeTypeOK' /\ TreeIsFresh'
    BY <1>2 DEF TreeInv, TreeTypeOK, TreeIsFresh, treeVars, Leaves
  <2> QED
    BY <1>1, <1>2, <2>1 DEF treeVars
<1>3. ASSUME NEW start_key \in Key, NEW end_key \in Key, NEW val \in Value,
             Insert(start_key, end_key, val)
      PROVE  TreeInv'
  BY <1>2, <1>3, Clipped, InsertSegmentStep
<1>4. CASE BuildTree
  <2>1. TreeTypeOK' /\ TreeIsFresh'
    BY <1>4 DEF TreeInv, TreeTypeOK, TreeIsFresh, BuildTree, Leaves
  <2> QED
    BY <1>1, <1>4, <2>1 DEF BuildTree
<1>5. CASE Copy
  <2>1. tree' \in [DOMAIN tree' -> Value] /\ DOMAIN tree' = {}
    BY <1>5 DEF Copy, NoTree
  <2>2. TreeTypeOK' /\ TreeIsFresh'
    BY <1>5, <2>1 DEF TreeInv, TreeTypeOK, TreeIsFresh, Copy, Leaves
  <2> QED
    BY <1>1, <1>5, <2>2 DEF Copy
<1> QED
  BY <1>2, <1>3, <1>4, <1>5 DEF TreeNext

\* The list of leaves stays in order, in the span and canonical, and a valid tree
\* was built from it as it is: the invariant holds of every reachable list.
THEOREM TreeInvariance == TreeSpec => []TreeInv
BY TreeInitInvariant, TreeNextInvariant, PTL DEF TreeSpec

\* Every leaf lies in the span and carries a value.
THEOREM TreeTypeCorrect == TreeSpec => []TreeTypeOK
<1>1. TreeInv => TreeTypeOK
  BY DEF TreeInv
<1> QED
  BY <1>1, TreeInvariance, PTL

\* No leaf repeats the value of the segment before it, so equal maps have equal
\* lists, which is what operator== compares.
THEOREM ListIsCanonical == TreeSpec => []Canonical
<1>1. TreeInv => Canonical
  BY DEF TreeInv
<1> QED
  BY <1>1, TreeInvariance, PTL

--------------------------------------------------------------------------------
(* The list implements the map.                                            *)

\* A fresh list maps every key to m_init_val.
LEMMA TreeInitRefines == TreeInit => Segments!Init
<1> SUFFICES ASSUME TreeInit
             PROVE  Segments!Init
  OBVIOUS
<1>1. Leaves = {MIN} /\ leaf = [k \in {MIN} |-> InitVal]
  BY DEF TreeInit, Leaves
<1>2. ASSUME NEW x \in Span
      PROVE  SegmentValue(x) = InitVal
  <2>1. SegmentStart(x) \in Leaves
    BY <1>2, TreeInitInvariant, StartIs DEF TreeInv, Canonical
  <2> QED
    BY <1>1, <2>1 DEF SegmentValue
<1> QED
  BY <1>2 DEF Segments!Init, Segments!Span, Span

\* Every step of the list is an insertion into the map or leaves it alone.
LEMMA TreeNextRefines ==
  TreeInv /\ [TreeNext]_treeVars => [Segments!Next]_([x \in Span |-> SegmentValue(x)])
<1> DEFINE m == [x \in Span |-> SegmentValue(x)]
<1> SUFFICES ASSUME TreeInv, [TreeNext]_treeVars
             PROVE  Segments!Next \/ m' = m
  OBVIOUS
<1>1. ASSUME UNCHANGED leaf
      PROVE  m' = m
  BY <1>1, SameLeaves
<1>2. ASSUME NEW start_key \in Key, NEW end_key \in Key, NEW val \in Value,
             Insert(start_key, end_key, val), ~ UNCHANGED treeVars
      PROVE  Segments!Insert(start_key, end_key, val)
  <2>1. PICK from \in Span, to \in MIN .. MAX :
          /\ from < to
          /\ \A x \in Span : (from <= x /\ x < to) <=> (start_key <= x /\ x < end_key)
          /\ InsertSegment(from, to, val)
    BY <1>2, Clipped
  <2>2. ASSUME NEW x \in Span
        PROVE  SegmentValue(x)' = IF start_key <= x /\ x < end_key
                                    THEN val ELSE SegmentValue(x)
    BY <2>1, <2>2, MapAfter
  <2> QED
    BY <2>2 DEF Segments!Insert, Segments!Span, Span
<1> QED
  BY <1>1, <1>2 DEF TreeNext, BuildTree, Copy, treeVars, Segments!Next

\* The leaves implement the map from keys to values: insert_front changes the keys
\* of its segment and no others, and building or copying the tree changes none.
THEOREM ImplementsMap == TreeSpec => ImplementsSegmentMap
BY TreeInvariance, TreeInitRefines, TreeNextRefines, PTL
   DEF TreeSpec, ImplementsSegmentMap, Segments!Spec

--------------------------------------------------------------------------------
(* search.                                                                  *)

\* Where the segment of a key ends: at the next leaf.
SegmentEnd(x) == Min({j \in Leaves \cup {MAX} : j > SegmentStart(x)})

\* The leaf before a key, the leaf behind it, and nothing between them.
LEMMA EndIs ==
  ASSUME TreeInv, NEW x \in Span
  PROVE  /\ SegmentStart(x) \in Leaves /\ SegmentStart(x) <= x
         /\ SegmentEnd(x) \in Leaves \cup {MAX} /\ x < SegmentEnd(x)
         /\ \A j \in Leaves : j <= SegmentStart(x) \/ SegmentEnd(x) <= j
<1> DEFINE s == SegmentStart(x)
           S == {j \in Leaves \cup {MAX} : j > s}
<1>1. /\ x \in Nat /\ MAX \in Nat /\ x < MAX
      /\ \A k \in Leaves : k \in Nat
  BY SpanAssumption DEF TreeInv, TreeTypeOK, Span
<1>2. s \in Leaves /\ s <= x /\ \A j \in Leaves : j <= x => j <= s
  BY StartIs DEF TreeInv, Canonical
<1> HIDE DEF s
<1>3. S \in SUBSET Nat /\ MAX \in S
  BY <1>1, <1>2
<1>4. Min(S) \in S /\ \A y \in S : Min(S) <= y
  BY <1>3, MinIs
<1>5. SegmentEnd(x) = Min(S)
  BY DEF SegmentEnd, s
<1>6. x < Min(S)
  BY <1>1, <1>2, <1>4
<1>7. \A j \in Leaves : j <= s \/ Min(S) <= j
  BY <1>1, <1>2, <1>4
<1> QED
  BY <1>2, <1>4, <1>5, <1>6, <1>7 DEF s

\* A leaf and the next one are those of every key between them.
LEMMA SegmentIs ==
  ASSUME TreeInv, NEW s \in Leaves, NEW e \in Leaves \cup {MAX}, NEW x \in Span, s <= x, x < e,
         \A j \in Leaves : j <= s \/ e <= j
  PROVE  SegmentStart(x) = s /\ SegmentEnd(x) = e
<1>1. /\ x \in Int /\ MAX \in Int /\ s \in Int /\ e \in Int /\ x < MAX
      /\ \A k \in Leaves : k \in Int /\ k < MAX
  BY SpanAssumption DEF TreeInv, TreeTypeOK, Span
<1> DEFINE a == SegmentStart(x)
           b == SegmentEnd(x)
<1>2. /\ a \in Leaves /\ a <= x /\ b \in Leaves \cup {MAX} /\ x < b
      /\ \A j \in Leaves : j <= a \/ b <= j
  BY EndIs
<1> HIDE DEF a, b
<1>3. a \in Int /\ b \in Int
  BY <1>1, <1>2
<1>4. a = s
  BY <1>1, <1>2, <1>3
<1>5. b = e
  BY <1>1, <1>2, <1>3
<1> QED
  BY <1>4, <1>5 DEF a, b

\* The longest run around a key is its segment, because the list is canonical.
LEMMA RunIs ==
  ASSUME TreeInv, NEW key \in Span
  PROVE  RunOf(key) = <<SegmentStart(key), SegmentEnd(key)>>
<1> DEFINE s == SegmentStart(key)
           e == SegmentEnd(key)
           v(x) == SegmentValue(x)
           Pairs == (MIN .. MAX - 1) \X (MIN + 1 .. MAX)
           IsRun(r) == /\ r[1] <= key /\ key < r[2]
                       /\ \A x \in r[1] .. r[2] - 1 : v(x) = v(key)
                       /\ r[1] = MIN \/ v(r[1] - 1) # v(key)
                       /\ r[2] = MAX \/ v(r[2]) # v(key)
<1>1. /\ s \in Leaves /\ s <= key /\ e \in Leaves \cup {MAX} /\ key < e
      /\ \A j \in Leaves : j <= s \/ e <= j
  BY EndIs
<1>2. /\ key \in Int /\ MIN \in Int /\ MAX \in Int /\ MIN <= key /\ key < MAX
      /\ \A k \in Leaves : k \in Int /\ MIN <= k /\ k < MAX
  BY SpanAssumption DEF TreeInv, TreeTypeOK, Span
<1> HIDE DEF s, e
<1>3. \A x \in s .. e - 1 : x \in Span
  BY <1>1, <1>2 DEF Span
<1>4. \A x \in s .. e - 1 : SegmentStart(x) = s
  <2> TAKE x \in s .. e - 1
  <2>1. x \in Span /\ s <= x /\ x < e
    BY <1>1, <1>2, <1>3
  <2> QED
    BY <1>1, <2>1, SegmentIs
<1>5. \A x \in s .. e - 1 : v(x) = leaf[s]
  BY <1>4 DEF SegmentValue
<1>6. v(key) = leaf[s]
  BY <1>1, <1>2, <1>5
<1>7. s = MIN \/ v(s - 1) # leaf[s]
  BY <1>1 DEF TreeInv, Canonical
<1>8. e = MAX \/ v(e) # leaf[s]
  <2> SUFFICES ASSUME e # MAX PROVE v(e) # leaf[s]
    OBVIOUS
  <2>1. e \in Leaves /\ e # MIN /\ e \in Span
    BY <1>1, <1>2 DEF Span
  <2>2. leaf[e] # v(e - 1)
    BY <2>1 DEF TreeInv, Canonical
  <2>3. e - 1 \in s .. e - 1
    BY <1>1, <1>2
  <2>4. v(e - 1) = leaf[s]
    BY <1>5, <2>3
  <2>5. v(e) = leaf[e]
    <3> DEFINE a == SegmentStart(e)
    <3>1. a \in Leaves /\ a <= e /\ \A j \in Leaves : j <= e => j <= a
      BY <2>1, StartIs DEF TreeInv, Canonical
    <3> HIDE DEF a
    <3>2. a = e
      BY <1>2, <2>1, <3>1
    <3> QED
      BY <3>2 DEF SegmentValue, a
  <2> QED
    BY <2>2, <2>4, <2>5
<1>9. <<s, e>> \in Pairs /\ IsRun(<<s, e>>)
  <2> HIDE DEF v
  <2>1. s \in MIN .. MAX - 1 /\ e \in MIN + 1 .. MAX
    BY <1>1, <1>2
  <2> QED
    BY <1>1, <1>5, <1>6, <1>7, <1>8, <2>1
<1>10. ASSUME NEW r \in Pairs, IsRun(r)
       PROVE  r = <<s, e>>
  <2> DEFINE a == r[1]
             b == r[2]
  <2>1. r = <<a, b>> /\ a \in MIN .. MAX - 1 /\ b \in MIN + 1 .. MAX
    OBVIOUS
  <2>2. /\ a <= key /\ key < b /\ \A x \in a .. b - 1 : v(x) = v(key)
        /\ a = MIN \/ v(a - 1) # v(key)
        /\ b = MAX \/ v(b) # v(key)
    BY <1>10
  <2> HIDE DEF a, b, v
  <2>3. a = s
    <3>1. ASSUME a < s PROVE FALSE
      <4>1. s - 1 \in a .. b - 1 /\ s # MIN
        BY <1>1, <1>2, <2>1, <2>2, <3>1
      <4> QED
        BY <1>6, <1>7, <2>2, <4>1
    <3>2. ASSUME s < a PROVE FALSE
      <4>1. a - 1 \in s .. e - 1 /\ a # MIN
        BY <1>1, <1>2, <2>1, <2>2, <3>2
      <4> QED
        BY <1>5, <1>6, <2>2, <4>1
    <3> QED
      BY <1>1, <1>2, <2>1, <3>1, <3>2
  <2>4. b = e
    <3>1. ASSUME b < e PROVE FALSE
      <4>1. b \in s .. e - 1 /\ b # MAX
        BY <1>1, <1>2, <2>1, <2>2, <3>1
      <4> QED
        BY <1>5, <1>6, <2>2, <4>1
    <3>2. ASSUME e < b PROVE FALSE
      <4>1. e \in a .. b - 1 /\ e # MAX
        BY <1>1, <1>2, <2>1, <2>2, <3>2
      <4> QED
        BY <1>6, <1>8, <2>2, <4>1
    <3> QED
      BY <1>1, <1>2, <2>1, <3>1, <3>2
  <2> QED
    BY <2>1, <2>3, <2>4
<1>11. RunOf(key) = CHOOSE r \in Pairs : IsRun(r)
  BY DEF RunOf
<1> HIDE DEF Pairs, IsRun
<1>12. (CHOOSE r \in Pairs : IsRun(r)) = <<s, e>>
  BY <1>9, <1>10
<1> QED
  BY <1>11, <1>12 DEF s, e

\* The walk over the list stops at the leaf behind the key or at the key, and reports
\* the segment of the key.
LEMMA SearchIs ==
  ASSUME TreeInv, NEW key \in Span
  PROVE  search(key) = SegmentFrom(leaf, SegmentStart(key))
<1> DEFINE S == {k \in Leaves \cup {MAX} : key <= k}
           pos == Min(S)
           T == {k \in Leaves : k < pos}
<1>1. /\ key \in Int /\ MAX \in Nat /\ MIN \in Int /\ ~(key < MIN \/ MAX <= key)
      /\ \A k \in Leaves : k \in Nat
  BY SpanAssumption DEF TreeInv, TreeTypeOK, Span
<1>2. /\ SegmentStart(key) \in Leaves /\ SegmentStart(key) <= key
      /\ \A j \in Leaves : j <= key => j <= SegmentStart(key)
  BY StartIs DEF TreeInv, Canonical
<1>3. S \in SUBSET Nat /\ MAX \in S
  BY <1>1
<1>4. pos \in S /\ \A y \in S : pos <= y
  BY <1>3, MinIs
<1>5. search(key) = IF pos = key THEN SegmentFrom(leaf, pos) ELSE SegmentFrom(leaf, Max(T))
  BY <1>1 DEF search
<1> HIDE DEF S, pos
<1>6. CASE pos = key
  <2>1. pos \in Leaves /\ pos \in Int
    BY <1>1, <1>3, <1>4, <1>6 DEF S
  <2>2. SegmentStart(key) = pos
    <3> DEFINE a == SegmentStart(key)
    <3>1. a \in Leaves /\ a <= key /\ \A j \in Leaves : j <= key => j <= a
      BY <1>2
    <3> HIDE DEF a
    <3>2. a = pos
      BY <1>1, <1>6, <2>1, <3>1
    <3> QED
      BY <3>2 DEF a
  <2> QED
    BY <1>5, <1>6, <2>2
<1>7. CASE pos # key
  <2>1. pos \in Int /\ key < pos
    BY <1>1, <1>3, <1>4, <1>7 DEF S
  <2>2. \A k \in Leaves : k < pos <=> k <= key
    <3> TAKE k \in Leaves
    <3>1. key <= k => pos <= k
      BY <1>4 DEF S
    <3> QED
      BY <1>1, <2>1, <3>1
  <2>3. T \in SUBSET Int /\ SegmentStart(key) \in T /\ \A j \in T : j <= SegmentStart(key)
    BY <1>1, <1>2, <2>2
  <2> HIDE DEF T
  <2>4. Max(T) = SegmentStart(key)
    BY <2>3, MaxUnique
  <2> QED
    BY <1>5, <1>7, <2>4
<1> QED
  BY <1>6, <1>7

\* A lookup in the list returns, for every key of the span, its value and the whole run
\* of keys that share it (flat_segment_tree.hpp, search), for every sequence of insertions.
THEOREM SearchCorrect == TreeSpec => []SearchFindsRun
<1>1. TreeInv => SearchFindsRun
  <2> SUFFICES ASSUME TreeInv, NEW key \in Key
               PROVE  search(key) =
                        IF key \in Span
                          THEN [found |-> TRUE, value |-> SegmentValue(key),
                                start_key |-> RunOf(key)[1], end_key |-> RunOf(key)[2]]
                          ELSE NotFound
    BY DEF SearchFindsRun
  <2>1. CASE key \in Span
    <3>1. search(key) = SegmentFrom(leaf, SegmentStart(key))
      BY <2>1, SearchIs
    <3>2. SegmentFrom(leaf, SegmentStart(key)) =
            [found |-> TRUE, value |-> SegmentValue(key),
             start_key |-> SegmentStart(key), end_key |-> SegmentEnd(key)]
      BY DEF SegmentFrom, SegmentValue, SegmentEnd, Leaves
    <3>3. RunOf(key)[1] = SegmentStart(key) /\ RunOf(key)[2] = SegmentEnd(key)
      BY <2>1, RunIs
    <3> QED
      BY <2>1, <3>1, <3>2, <3>3
  <2>2. CASE key \notin Span
    <3>1. key < MIN \/ MAX <= key
      BY <2>2, SpanAssumption, KeyAssumption DEF Span
    <3> QED
      BY <2>2, <3>1 DEF search
  <2> QED
    BY <2>1, <2>2
<1> QED
  BY <1>1, TreeInvariance, PTL

--------------------------------------------------------------------------------
(* search_tree: the leaves under the tree.                                  *)

Ends == DOMAIN tree \cup {MAX}

\* The leaves under a valid tree are those of the list, with the right leaf, and KeyAt
\* counts them from the left.
LEMMA KeysAre ==
  ASSUME TreeInv, valid
  PROVE  /\ tree = leaf /\ Length \in Nat /\ Length >= 2
         /\ \A n \in 1 .. Length : KeyAt(n) \in Leaves \cup {MAX}
         /\ \A m, n \in 1 .. Length : m < n => KeyAt(m) < KeyAt(n)
         /\ \A k \in Leaves \cup {MAX} : \E n \in 1 .. Length : KeyAt(n) = k
         /\ KeyAt(1) = MIN /\ KeyAt(Length) = MAX
<1>1. tree = leaf /\ Ends = Leaves \cup {MAX}
  BY DEF TreeInv, TreeIsFresh, Ends, Leaves
<1>2. /\ MIN \in Nat /\ MAX \in Nat /\ MIN < MAX /\ MIN \in Leaves
      /\ \A k \in Leaves : k \in Nat /\ MIN <= k /\ k < MAX
  BY SpanAssumption DEF TreeInv, TreeTypeOK, Canonical, Span
<1>3. IsFiniteSet(Leaves)
  <2>1. Leaves \in SUBSET Nat /\ \A k \in Leaves : k <= MAX
    BY <1>2
  <2> QED
    BY <1>2, <2>1, FS_BoundedSetOfNaturals
<1>4. IsFiniteSet(Ends) /\ Cardinality(Ends) = Length /\ Length \in Nat /\ Length >= 2
  <2>1. Cardinality(Leaves) \in Nat /\ Cardinality(Leaves) # 0
    BY <1>2, <1>3, FS_CardinalityType, FS_EmptySet
  <2>2. MAX \notin Leaves
    BY <1>2
  <2>3. IsFiniteSet(Ends) /\ Cardinality(Ends) = Cardinality(Leaves) + 1
    BY <1>1, <1>3, <2>2, FS_AddElement
  <2>4. Length = Cardinality(Leaves) + 1
    BY <1>1 DEF Length, Leaves
  <2> QED
    BY <2>1, <2>3, <2>4
<1>5. Ends \in SUBSET Nat
  BY <1>1, <1>2
<1>6. /\ \A k \in Ends : Rank(Ends, k) \in 1 .. Length
      /\ \A k, l \in Ends : k < l => Rank(Ends, k) < Rank(Ends, l)
      /\ \A n \in 1 .. Length : \E k \in Ends : Rank(Ends, k) = n
  BY <1>4, <1>5, Ranks
<1>7. \A k \in Ends : Cardinality({j \in DOMAIN tree : j < k}) = Rank(Ends, k) - 1
  <2> TAKE k \in Ends
  <2>1. {j \in DOMAIN tree : j < k} = {j \in Ends : j < k}
    BY <1>1, <1>2 DEF Leaves
  <2> DEFINE c == Cardinality({j \in DOMAIN tree : j < k})
  <2>2. Rank(Ends, k) = c + 1
    BY <2>1 DEF Rank
  <2>3. c \in Nat
    <3>1. {j \in Ends : j < k} \in SUBSET Ends
      OBVIOUS
    <3>2. Cardinality({j \in Ends : j < k}) \in Nat
      BY <1>4, <3>1, FS_Subset, FS_CardinalityType
    <3> QED
      BY <2>1, <3>2
  <2> HIDE DEF c
  <2>4. c = Rank(Ends, k) - 1
    BY <2>2, <2>3
  <2> QED
    BY <2>4 DEF c
<1>8. \A n \in 1 .. Length : KeyAt(n) \in Ends /\ Rank(Ends, KeyAt(n)) = n
  <2> TAKE n \in 1 .. Length
  <2> DEFINE C(k) == Cardinality({j \in DOMAIN tree : j < k})
  <2>1. KeyAt(n) = CHOOSE k \in Ends : C(k) = n - 1
    BY DEF KeyAt, Ends
  <2>2. \A k \in Ends : C(k) = Rank(Ends, k) - 1
    BY <1>7
  <2> HIDE DEF C
  <2>3. PICK l \in Ends : Rank(Ends, l) = n
    BY <1>6
  <2>4. C(l) = n - 1
    BY <2>2, <2>3
  <2>5. KeyAt(n) \in Ends /\ C(KeyAt(n)) = n - 1
    BY <2>1, <2>4
  <2>6. Rank(Ends, KeyAt(n)) \in Nat /\ Rank(Ends, KeyAt(n)) - 1 = n - 1
    BY <1>6, <2>2, <2>5
  <2> QED
    BY <2>5, <2>6
<1>9. \A k, l \in Ends : Rank(Ends, k) < Rank(Ends, l) => k < l
  <2> TAKE k, l \in Ends
  <2>1. k \in Nat /\ l \in Nat /\ Rank(Ends, k) \in Nat /\ Rank(Ends, l) \in Nat
    BY <1>5, <1>6
  <2>2. l < k => Rank(Ends, l) < Rank(Ends, k)
    BY <1>6
  <2> QED
    BY <2>1, <2>2
<1>10. \A m, n \in 1 .. Length : m < n => KeyAt(m) < KeyAt(n)
  BY <1>8, <1>9
<1>11. \A k \in Ends : \E n \in 1 .. Length : KeyAt(n) = k
  <2> TAKE k \in Ends
  <2> DEFINE n == Rank(Ends, k)
             l == KeyAt(n)
  <2>1. n \in 1 .. Length /\ l \in Ends /\ Rank(Ends, l) = n
    BY <1>6, <1>8
  <2>2. ~(k < l) /\ ~(l < k)
    <3>1. n \in Nat /\ Rank(Ends, k) = n
      BY <2>1
    <3> HIDE DEF n, l
    <3> QED
      BY <1>6, <2>1, <3>1
  <2>3. k \in Nat /\ l \in Nat
    BY <1>5, <2>1
  <2> HIDE DEF l
  <2>4. l = k
    BY <2>2, <2>3
  <2> QED
    BY <2>1, <2>4 DEF l
<1>12. KeyAt(1) = MIN
  <2>1. PICK n \in 1 .. Length : KeyAt(n) = MIN
    BY <1>1, <1>2, <1>11
  <2> DEFINE k == KeyAt(1)
  <2>2. 1 \in 1 .. Length /\ n \in Nat /\ 1 <= n
    BY <1>4
  <2>3. k \in Ends
    BY <1>8, <2>2
  <2>4. 1 < n => k < MIN
    BY <1>10, <2>1, <2>2
  <2> HIDE DEF k
  <2>5. k \in Nat /\ MIN <= k
    BY <1>1, <1>2, <2>3
  <2>6. n = 1
    BY <1>2, <2>2, <2>4, <2>5
  <2> QED
    BY <2>1, <2>6
<1>13. KeyAt(Length) = MAX
  <2>1. PICK n \in 1 .. Length : KeyAt(n) = MAX
    BY <1>1, <1>11
  <2> DEFINE k == KeyAt(Length)
  <2>2. Length \in 1 .. Length /\ n \in Nat /\ n <= Length
    BY <1>4
  <2>3. k \in Ends
    BY <1>8, <2>2
  <2>4. n < Length => MAX < k
    BY <1>10, <2>1, <2>2
  <2> HIDE DEF k
  <2>5. k \in Nat /\ k <= MAX
    BY <1>1, <1>2, <2>3
  <2>6. n = Length
    BY <1>2, <1>4, <2>2, <2>4, <2>5
  <2> QED
    BY <2>1, <2>6
<1> QED
  BY <1>1, <1>4, <1>8, <1>10, <1>11, <1>12, <1>13

--------------------------------------------------------------------------------
(* The levels of the tree.                                                  *)

\* Each level has half as many nodes as the one below, rounded up.
LEMMA LevelSizeIs ==
  ASSUME Length \in Nat
  PROVE  /\ LevelSize[0] = Length
         /\ \A l \in Nat : LevelSize[l] \in Nat /\ LevelSize[l + 1] = (LevelSize[l] + 1) \div 2
<1> DEFINE half == [x \in Nat |-> (x + 1) \div 2]
           G == [n \in Nat |-> half]
           Step(g) == [l \in Nat |-> IF l = 0 THEN Length ELSE (g[l - 1] + 1) \div 2]
<1>1. half \in [Nat -> Nat] /\ \A x \in Nat : half[x] = (x + 1) \div 2
  OBVIOUS
<1>2. PICK f \in [Nat -> Nat] : f[0] = Length /\ \A n \in Nat : f[n + 1] = (f[n] + 1) \div 2
  <2>1. G \in [Nat -> [Nat -> Nat]] /\ \A n, x \in Nat : G[n][x] = (x + 1) \div 2
    BY <1>1
  <2> HIDE DEF G
  <2>2. RecursiveSequences(Nat, Length, G) # {}
    BY <2>1, RecursiveSequence
  <2> QED
    BY <2>1, <2>2 DEF RecursiveSequences
<1>3. f = Step(f)
  <2>1. ASSUME NEW l \in Nat PROVE f[l] = Step(f)[l]
    <3>1. l # 0 => l - 1 \in Nat /\ (l - 1) + 1 = l
      OBVIOUS
    <3> QED
      BY <1>2, <3>1
  <2> QED
    BY <2>1
<1>4. LevelSize = CHOOSE g : g = Step(g)
  BY DEF LevelSize
<1>5. LevelSize = Step(LevelSize)
  <2> HIDE DEF Step
  <2> QED
    BY <1>3, <1>4
<1> DEFINE g == LevelSize
<1>6. g = Step(g)
  BY <1>5
<1> HIDE DEF g
<1>7. g[0] = Length /\ \A l \in Nat : g[l + 1] = (g[l] + 1) \div 2
  <2>1. \A l \in Nat : g[l] = IF l = 0 THEN Length ELSE (g[l - 1] + 1) \div 2
    BY <1>6
  <2>2. \A l \in Nat : l + 1 \in Nat /\ l + 1 # 0 /\ (l + 1) - 1 = l
    OBVIOUS
  <2> HIDE DEF Step
  <2> QED
    BY <2>1, <2>2
<1>8. \A l \in Nat : g[l] \in Nat
  <2> DEFINE Good == {l \in Nat : g[l] \in Nat}
  <2>1. 0 \in Good
    BY <1>7
  <2>2. \A l \in Good : l + 1 \in Good
    BY <1>7
  <2>3. Good = Nat
    <3>1. Good \in SUBSET Nat
      OBVIOUS
    <3> HIDE DEF Good
    <3> QED
      BY <2>1, <2>2, <3>1, InductionSet
  <2> QED
    BY <2>3
<1> QED
  BY <1>7, <1>8 DEF g

\* A node has twice as many leaves under it as one of the level below.
LEMMA WidthIs ==
  /\ Width[0] = 1
  /\ \A l \in Nat : Width[l] \in Nat \ {0} /\ Width[l + 1] = 2 * Width[l]
<1> DEFINE twice == [x \in Nat |-> 2 * x]
           G == [n \in Nat |-> twice]
           Step(g) == [l \in Nat |-> IF l = 0 THEN 1 ELSE 2 * g[l - 1]]
<1>1. twice \in [Nat -> Nat] /\ \A x \in Nat : twice[x] = 2 * x
  OBVIOUS
<1>2. PICK f \in [Nat -> Nat] : f[0] = 1 /\ \A n \in Nat : f[n + 1] = 2 * f[n]
  <2>1. G \in [Nat -> [Nat -> Nat]] /\ \A n, x \in Nat : G[n][x] = 2 * x
    BY <1>1
  <2> HIDE DEF G
  <2>2. 1 \in Nat /\ RecursiveSequences(Nat, 1, G) # {}
    BY <2>1, RecursiveSequence
  <2> QED
    BY <2>1, <2>2 DEF RecursiveSequences
<1>3. f = Step(f)
  <2>1. ASSUME NEW l \in Nat PROVE f[l] = Step(f)[l]
    <3>1. l # 0 => l - 1 \in Nat /\ (l - 1) + 1 = l
      OBVIOUS
    <3> QED
      BY <1>2, <3>1
  <2> QED
    BY <2>1
<1>4. Width = CHOOSE g : g = Step(g)
  BY DEF Width
<1>5. Width = Step(Width)
  <2> HIDE DEF Step
  <2> QED
    BY <1>3, <1>4
<1> DEFINE g == Width
<1>6. g = Step(g)
  BY <1>5
<1> HIDE DEF g
<1>7. g[0] = 1 /\ \A l \in Nat : g[l + 1] = 2 * g[l]
  <2>1. \A l \in Nat : g[l] = IF l = 0 THEN 1 ELSE 2 * g[l - 1]
    BY <1>6
  <2>2. \A l \in Nat : l + 1 \in Nat /\ l + 1 # 0 /\ (l + 1) - 1 = l
    OBVIOUS
  <2> HIDE DEF Step
  <2> QED
    BY <2>1, <2>2
<1>8. \A l \in Nat : g[l] \in Nat \ {0}
  <2> DEFINE Good == {l \in Nat : g[l] \in Nat \ {0}}
  <2>1. 0 \in Good
    BY <1>7
  <2>2. \A l \in Good : l + 1 \in Good
    BY <1>7
  <2>3. Good = Nat
    <3>1. Good \in SUBSET Nat
      OBVIOUS
    <3> HIDE DEF Good
    <3> QED
      BY <2>1, <2>2, <3>1, InductionSet
  <2> QED
    BY <2>3
<1> QED
  BY <1>7, <1>8 DEF g

\* The nodes of a level cover all leaves, and the last one is not beyond them.
LEMMA LevelCovers ==
  ASSUME Length \in Nat, Length >= 2, NEW l \in Nat
  PROVE  /\ LevelSize[l] \in Nat \ {0}
         /\ (LevelSize[l] - 1) * Width[l] < Length
         /\ Length <= LevelSize[l] * Width[l]
<1> DEFINE Good == {n \in Nat : /\ LevelSize[n] \in Nat \ {0}
                                /\ (LevelSize[n] - 1) * Width[n] < Length
                                /\ Length <= LevelSize[n] * Width[n]}
<1>1. 0 \in Good
  BY LevelSizeIs, WidthIs
<1>2. ASSUME NEW n \in Good PROVE n + 1 \in Good
  <2> DEFINE a == LevelSize[n]
             b == LevelSize[n + 1]
             w == Width[n]
             N == Length
  <2>1. /\ a \in Nat \ {0} /\ w \in Nat \ {0} /\ N \in Nat
        /\ (a - 1) * w < N /\ N <= a * w
        /\ b = (a + 1) \div 2 /\ Width[n + 1] = 2 * w
    BY LevelSizeIs, WidthIs
  <2> HIDE DEF a, b, w, N
  <2>2. b \in Nat \ {0} /\ 2 * b <= a + 1 /\ a <= 2 * b
    BY <2>1
  <2>3. (b - 1) * (2 * w) < N
    <3>1. (b - 1) * (2 * w) = (2 * b - 2) * w
      BY <2>1, <2>2
    <3>2. (2 * b - 2) * w <= (a - 1) * w
      BY <2>1, <2>2
    <3>3. (2 * b - 2) * w \in Int /\ (a - 1) * w \in Int
      BY <2>1, <2>2
    <3> QED
      BY <2>1, <3>1, <3>2, <3>3
  <2>4. N <= b * (2 * w)
    <3>1. b * (2 * w) = (2 * b) * w
      BY <2>1, <2>2
    <3>2. a * w <= (2 * b) * w
      BY <2>1, <2>2
    <3>3. a * w \in Int /\ (2 * b) * w \in Int
      BY <2>1, <2>2
    <3> QED
      BY <2>1, <3>1, <3>2, <3>3
  <2> QED
    BY <2>1, <2>2, <2>3, <2>4 DEF b, N
<1>3. Good = Nat
  <2>1. Good \in SUBSET Nat
    OBVIOUS
  <2> HIDE DEF Good
  <2> QED
    BY <1>1, <1>2, <2>1, InductionSet
<1> QED
  BY <1>3

\* The root is alone on its level.
LEMMA HeightIs ==
  ASSUME Length \in Nat, Length >= 2
  PROVE  Height \in Nat \ {0} /\ LevelSize[Height] = 1
<1> DEFINE S == {l \in 1 .. Length : LevelSize[l] = 1}
           Good == {n \in Nat : LevelSize[n] = 1 \/ LevelSize[n] <= Length - n}
<1>1. 0 \in Good
  BY LevelSizeIs
<1>2. ASSUME NEW n \in Good PROVE n + 1 \in Good
  <2> DEFINE a == LevelSize[n]
             b == LevelSize[n + 1]
  <2>1. /\ a \in Nat \ {0} /\ b = (a + 1) \div 2
        /\ a = 1 \/ a <= Length - n
    BY LevelSizeIs, LevelCovers
  <2> HIDE DEF a, b
  <2>2. b = 1 \/ b <= a - 1
    BY <2>1
  <2>3. b = 1 \/ b <= Length - (n + 1)
    BY <2>1, <2>2
  <2> QED
    BY <2>3 DEF b
<1>3. Good = Nat
  <2>1. Good \in SUBSET Nat
    OBVIOUS
  <2> HIDE DEF Good
  <2> QED
    BY <1>1, <1>2, <2>1, InductionSet
<1>4. Length - 1 \in S
  <2> DEFINE n == Length - 1
  <2>1. n \in Nat /\ n \in 1 .. Length /\ Length - n = 1
    OBVIOUS
  <2>2. n \in Good /\ LevelSize[n] \in Nat \ {0}
    BY <1>3, <2>1, LevelCovers
  <2> HIDE DEF n
  <2>3. LevelSize[n] = 1
    BY <2>1, <2>2
  <2> QED
    BY <2>1, <2>3 DEF n
<1>5. Min(S) \in S
  <2>1. S \in SUBSET Nat
    OBVIOUS
  <2> HIDE DEF S
  <2> QED
    BY <1>4, <2>1, MinIs
<1>6. Height = Min(S)
  BY DEF Height
<1> QED
  BY <1>5, <1>6

--------------------------------------------------------------------------------
(* The descent.                                                             *)

\* The key of the n-th leaf, or of the last one if there are fewer
Capped(n) == KeyAt(IF n < Length THEN n ELSE Length)

\* The range of a node, with w leaves under each node of its level but the last.
LEMMA RangeIs ==
  ASSUME NEW l, NEW j
  PROVE  /\ low(l, j) = KeyAt((j - 1) * Width[l] + 1)
         /\ high(l, j) = Capped(j * Width[l] + 1)
BY DEF low, high, FirstLeaf, Capped

\* The root's range is the span.
LEMMA RootCovers ==
  ASSUME TreeInv, valid, NEW key \in Span
  PROVE  Covers(Height, 1, key)
<1> DEFINE w == Width[Height]
<1>1. /\ key \in Int /\ MIN \in Int /\ MAX \in Int /\ MIN <= key /\ key < MAX
  BY SpanAssumption DEF Span
<1>2. /\ Length \in Nat /\ Length >= 2 /\ KeyAt(1) = MIN /\ KeyAt(Length) = MAX
  BY KeysAre
<1>3. Height \in Nat /\ LevelSize[Height] = 1
  BY <1>2, HeightIs
<1>4. w \in Nat \ {0} /\ Length <= 1 * w
  BY <1>2, <1>3, LevelCovers, WidthIs
<1> HIDE DEF w
<1>5. (1 - 1) * w + 1 = 1 /\ 1 * w + 1 >= Length /\ 1 * w + 1 \in Nat
  BY <1>2, <1>4
<1>6. low(Height, 1) = MIN
  BY <1>2, <1>5, RangeIs DEF w
<1>7. high(Height, 1) = MAX
  <2>1. high(Height, 1) = Capped(1 * w + 1)
    BY RangeIs DEF w
  <2> QED
    BY <1>2, <1>5, <2>1 DEF Capped
<1> QED
  BY <1>1, <1>6, <1>7 DEF Covers

\* A key in the range of a node is in that of a child: two children meet where the left
\* one ends, and a child without a sibling has the whole range.
LEMMA ChildCovers ==
  ASSUME TreeInv, valid, NEW key \in Span, NEW l \in Nat, NEW j \in 1 .. LevelSize[l + 1],
         Covers(l + 1, j, key)
  PROVE  /\ 2 * j - 1 \in 1 .. LevelSize[l]
         /\ \/ Covers(l, 2 * j - 1, key)
            \/ 2 * j <= LevelSize[l] /\ Covers(l, 2 * j, key)
<1> DEFINE w == Width[l]
           a == LevelSize[l]
           b == LevelSize[l + 1]
           N == Length
<1>1. /\ key \in Int /\ MAX \in Int /\ key < MAX
  BY SpanAssumption DEF Span
<1>2. /\ N \in Nat /\ N >= 2 /\ KeyAt(N) = MAX
      /\ \A n \in 1 .. N : KeyAt(n) \in Leaves \cup {MAX}
  BY KeysAre
<1>3. \A n \in 1 .. N : KeyAt(n) \in Int
  BY <1>1, <1>2, SpanAssumption DEF TreeInv, TreeTypeOK, Span
<1>4. /\ a \in Nat \ {0} /\ w \in Nat \ {0} /\ b = (a + 1) \div 2
      /\ (a - 1) * w < N /\ N <= a * w /\ Width[l + 1] = 2 * w
  BY <1>2, LevelCovers, LevelSizeIs, WidthIs
<1>5. j \in 1 .. b
  OBVIOUS
<1>6. /\ low(l + 1, j) = KeyAt((j - 1) * (2 * w) + 1)
      /\ high(l + 1, j) = Capped(j * (2 * w) + 1)
      /\ low(l, 2 * j - 1) = KeyAt(((2 * j - 1) - 1) * w + 1)
      /\ high(l, 2 * j - 1) = Capped((2 * j - 1) * w + 1)
      /\ low(l, 2 * j) = KeyAt((2 * j - 1) * w + 1)
      /\ high(l, 2 * j) = Capped((2 * j) * w + 1)
  BY <1>4, RangeIs
<1> HIDE DEF w, a, b, N
<1>7. j \in Nat \ {0} /\ 2 * j - 1 \in 1 .. a
  BY <1>4, <1>5
<1>8. /\ (j - 1) * (2 * w) = ((2 * j - 1) - 1) * w
      /\ j * (2 * w) = (2 * j) * w
      /\ (2 * j - 1) * w \in Nat
  BY <1>4, <1>7
<1>9. low(l, 2 * j - 1) <= key /\ key < high(l, 2 * j)
  BY <1>6, <1>8 DEF Covers
<1>10. CASE 2 * j <= a
  <2> DEFINE n == (2 * j - 1) * w + 1
  <2>1. (2 * j - 1) * w <= (a - 1) * w /\ (a - 1) * w \in Int
    BY <1>4, <1>7, <1>10
  <2>2. n \in 1 .. N
    BY <1>2, <1>4, <1>8, <2>1
  <2>3. high(l, 2 * j - 1) = Capped(n) /\ low(l, 2 * j) = KeyAt(n)
    BY <1>6
  <2> HIDE DEF n
  <2>4. Capped(n) = KeyAt(n)
    BY <1>2, <2>2 DEF Capped, N
  <2>5. KeyAt(n) \in Int
    BY <1>3, <2>2
  <2>6. key < KeyAt(n) \/ KeyAt(n) <= key
    BY <1>1, <2>5
  <2> QED
    BY <1>7, <1>9, <1>10, <2>3, <2>4, <2>6 DEF Covers, a
<1>11. CASE ~(2 * j <= a)
  <2> DEFINE n == (2 * j - 1) * w + 1
  <2>1. 2 * j - 1 = a
    BY <1>4, <1>7, <1>11
  <2>2. n \in Nat /\ ~(n < N)
    BY <1>2, <1>4, <1>8, <2>1
  <2>3. high(l, 2 * j - 1) = Capped(n)
    BY <1>6
  <2> HIDE DEF n
  <2>4. Capped(n) = MAX
    BY <1>2, <2>2 DEF Capped, N
  <2> QED
    BY <1>1, <1>7, <1>9, <2>3, <2>4 DEF Covers, a
<1> QED
  BY <1>10, <1>11

\* The child of node m of the level above that holds the key, as the descent finds it.
Child(key, level, m) ==
  IF m = 0 THEN 0
  ELSE IF Covers(level, 2 * m - 1, key) THEN 2 * m - 1
  ELSE IF 2 * m - 1 + 1 <= LevelSize[level] /\ Covers(level, 2 * m - 1 + 1, key)
    THEN 2 * m - 1 + 1
  ELSE 0

\* The nodes the descent reaches, from the root down.
IsDescent(key, node) ==
  \A level \in Nat :
    node[level] = IF level >= Height THEN 1 ELSE Child(key, level, node[level + 1])

\* Descend takes the last node of such a descent.
LEMMA DescendIs ==
  ASSUME Height \in Nat \ {0}, NEW key
  PROVE  \E node : IsDescent(key, node) /\ Descend(key) = node[1]
<1> DEFINE G == [n \in Nat |-> [m \in Nat |->
                  IF n < Height THEN Child(key, Height - 1 - n, m) ELSE m]]
           Step(node) == [level \in Nat |->
             IF level >= Height THEN 1
             ELSE LET left == 2 * node[level + 1] - 1
                      right == left + 1
                  IN  IF node[level + 1] = 0 THEN 0
                      ELSE IF Covers(level, left, key) THEN left
                      ELSE IF right <= LevelSize[level] /\ Covers(level, right, key)
                        THEN right
                      ELSE 0]
<1>1. \A level, m \in Nat : Child(key, level, m) \in Nat
  BY DEF Child
<1>2. PICK f \in [Nat -> Nat] : f[0] = 1 /\ \A n \in Nat : f[n + 1] = G[n][f[n]]
  <2>1. G \in [Nat -> [Nat -> Nat]]
    <3>1. \A n \in Nat : n < Height => Height - 1 - n \in Nat
      OBVIOUS
    <3> QED
      BY <1>1, <3>1
  <2> HIDE DEF G
  <2>2. 1 \in Nat /\ RecursiveSequences(Nat, 1, G) # {}
    BY <2>1, RecursiveSequence
  <2> QED
    BY <2>2 DEF RecursiveSequences
<1> DEFINE F == [level \in Nat |-> IF level >= Height THEN 1 ELSE f[Height - level]]
<1>3. \A node : Step(node) = [level \in Nat |->
                  IF level >= Height THEN 1 ELSE Child(key, level, node[level + 1])]
  BY DEF Child
<1>4. F = Step(F)
  <2>1. ASSUME NEW level \in Nat, level < Height
        PROVE  f[Height - level] = Child(key, level, F[level + 1])
    <3> DEFINE n == Height - 1 - level
    <3>1. n \in Nat /\ n < Height /\ n + 1 = Height - level /\ Height - 1 - n = level
      BY <2>1
    <3>2. f[n + 1] = G[n][f[n]]
      BY <1>2, <3>1
    <3>3. G[n][f[n]] = Child(key, Height - 1 - n, f[n])
      BY <1>2, <3>1
    <3>4. F[level + 1] = f[n]
      <4>1. CASE level + 1 >= Height
        <5>1. n = 0
          BY <2>1, <4>1
        <5> QED
          BY <1>2, <4>1, <5>1
      <4>2. CASE level + 1 < Height
        <5>1. Height - (level + 1) = n /\ level + 1 \in Nat /\ ~(level + 1 >= Height)
          BY <4>2
        <5> QED
          BY <5>1
      <4> QED
        BY <4>1, <4>2
    <3> HIDE DEF n, F
    <3> QED
      BY <3>1, <3>2, <3>3, <3>4
  <2>2. \A level \in Nat :
          F[level] = IF level >= Height THEN 1 ELSE Child(key, level, F[level + 1])
    <3> TAKE level \in Nat
    <3>1. F[level] = IF level >= Height THEN 1 ELSE f[Height - level]
      OBVIOUS
    <3> HIDE DEF F
    <3> QED
      BY <2>1, <3>1
  <2>3. F = [level \in Nat |-> F[level]]
    OBVIOUS
  <2> HIDE DEF F, Step
  <2>4. F = [level \in Nat |->
               IF level >= Height THEN 1 ELSE Child(key, level, F[level + 1])]
    BY <2>2, <2>3
  <2> QED
    BY <1>3, <2>4
<1> DEFINE node == CHOOSE g : g = Step(g)
<1>5. Descend(key) = node[1]
  BY Zenon DEF Descend
<1>6. node = Step(node)
  <2> HIDE DEF F, Step
  <2> QED
    BY <1>4
<1> HIDE DEF node
<1>7. IsDescent(key, node)
  <2>1. node = [level \in Nat |->
                  IF level >= Height THEN 1 ELSE Child(key, level, node[level + 1])]
    <3> HIDE DEF Step
    <3> QED
      BY <1>3, <1>6
  <2> QED
    BY <2>1 DEF IsDescent
<1> QED
  BY <1>5, <1>7

\* The descent does not lose the key.
LEMMA DescentHolds ==
  ASSUME TreeInv, valid, NEW key \in Span
  PROVE  Descend(key) \in 1 .. LevelSize[1] /\ Covers(1, Descend(key), key)
<1>1. Height \in Nat \ {0} /\ LevelSize[Height] = 1
  BY KeysAre, HeightIs
<1>2. PICK node : IsDescent(key, node) /\ Descend(key) = node[1]
  BY <1>1, DescendIs
<1> DEFINE Holds(l) == node[l] \in 1 .. LevelSize[l] /\ Covers(l, node[l], key)
           Good == {n \in Nat : n < Height => Holds(Height - n)}
<1>3. 0 \in Good
  <2>1. node[Height] = 1
    BY <1>1, <1>2 DEF IsDescent
  <2>2. Holds(Height)
    BY <1>1, <2>1, RootCovers
  <2>3. Height - 0 = Height
    BY <1>1
  <2> HIDE DEF Holds
  <2> QED
    BY <2>2, <2>3
<1>4. ASSUME NEW n \in Good PROVE n + 1 \in Good
  <2> SUFFICES ASSUME n + 1 < Height PROVE Holds(Height - (n + 1))
    BY <1>4
  <2> DEFINE l == Height - (n + 1)
             j == node[l + 1]
  <2>1. l \in Nat /\ l + 1 = Height - n /\ ~(l >= Height) /\ n < Height
    BY <1>1
  <2>2. Holds(l + 1)
    <3> HIDE DEF Holds
    <3> QED
      BY <1>4, <2>1
  <2>3. node[l] = Child(key, l, j)
    BY <1>2, <2>1 DEF IsDescent
  <2> HIDE DEF l
  <2>4. j \in 1 .. LevelSize[l + 1] /\ Covers(l + 1, j, key)
    BY <2>2
  <2> HIDE DEF j
  <2>5. /\ 2 * j - 1 \in 1 .. LevelSize[l]
        /\ \/ Covers(l, 2 * j - 1, key)
           \/ 2 * j <= LevelSize[l] /\ Covers(l, 2 * j, key)
    BY <2>1, <2>4, ChildCovers
  <2>6. LevelSize[l] \in Nat /\ LevelSize[l + 1] \in Nat
    BY <2>1, KeysAre, LevelSizeIs
  <2>7. j # 0 /\ 2 * j - 1 + 1 = 2 * j /\ 2 * j \in Nat /\ 2 * j >= 1
    BY <2>4, <2>6
  <2>8. node[l] = IF Covers(l, 2 * j - 1, key) THEN 2 * j - 1 ELSE 2 * j
    BY <2>3, <2>5, <2>7 DEF Child
  <2>9. node[l] \in 1 .. LevelSize[l] /\ Covers(l, node[l], key)
    BY <2>5, <2>6, <2>7, <2>8
  <2> QED
    BY <2>9 DEF l
<1>5. Good = Nat
  <2>1. Good \in SUBSET Nat
    OBVIOUS
  <2> HIDE DEF Good
  <2> QED
    BY <1>3, <1>4, <2>1, InductionSet
<1>6. Height - 1 \in Good /\ Height - 1 < Height /\ Height - (Height - 1) = 1
  <2> HIDE DEF Good
  <2>1. Height - 1 \in Nat /\ Height - 1 < Height /\ Height - (Height - 1) = 1
    BY <1>1
  <2> QED
    BY <1>5, <2>1
<1>7. Holds(1)
  <2> HIDE DEF Holds
  <2> QED
    BY <1>6
<1> QED
  BY <1>2, <1>7

\* The last parent has both of its leaves, and one of them starts the key's segment.
LEMMA LastParent ==
  ASSUME TreeInv, valid, NEW key \in Span
  PROVE  /\ Descend(key) \in Nat \ {0} /\ 2 * Descend(key) <= Length
         /\ KeyAt(2 * Descend(key) - 1) <= key /\ key < high(1, Descend(key))
<1> DEFINE d == Descend(key)
<1>1. d \in 1 .. LevelSize[1] /\ Covers(1, d, key)
  BY DescentHolds
<1>2. /\ Length \in Nat /\ Length >= 2 /\ KeyAt(Length) = MAX
  BY KeysAre
<1>3. LevelSize[1] = (Length + 1) \div 2 /\ Width[1] = 2
  <2>1. LevelSize[0 + 1] = (Length + 1) \div 2 /\ Width[0 + 1] = 2 * 1
    BY <1>2, LevelSizeIs, WidthIs
  <2> QED
    BY <2>1
<1> HIDE DEF d
<1>4. d \in Nat \ {0} /\ 2 * d - 1 \in Nat /\ 2 * d - 1 <= Length
  BY <1>1, <1>2, <1>3
<1>5. low(1, d) = KeyAt(2 * d - 1)
  <2>1. (d - 1) * 2 + 1 = 2 * d - 1
    BY <1>4
  <2> QED
    BY <1>3, <2>1, RangeIs
<1>6. KeyAt(2 * d - 1) <= key /\ key < high(1, d)
  BY <1>1, <1>5 DEF Covers
<1>7. 2 * d - 1 # Length
  <2>1. key \in Int /\ MAX \in Int /\ key < MAX
    BY SpanAssumption DEF Span
  <2> QED
    BY <1>2, <1>6, <2>1
<1>8. 2 * d <= Length
  BY <1>2, <1>4, <1>7
<1> QED
  BY <1>4, <1>6, <1>8 DEF d

\* A key between two leaves that follow each other is in the segment of the first.
LEMMA Adjacent ==
  ASSUME TreeInv, valid, NEW key \in Span, NEW n \in Nat \ {0}, n < Length,
         KeyAt(n) <= key, key < KeyAt(n + 1)
  PROVE  SegmentStart(key) = KeyAt(n)
<1> DEFINE s == KeyAt(n)
           e == KeyAt(n + 1)
<1>1. /\ Length \in Nat
      /\ \A m \in 1 .. Length : KeyAt(m) \in Leaves \cup {MAX}
      /\ \A l, m \in 1 .. Length : l < m => KeyAt(l) < KeyAt(m)
      /\ \A k \in Leaves \cup {MAX} : \E m \in 1 .. Length : KeyAt(m) = k
  BY KeysAre
<1>2. /\ key \in Int /\ MAX \in Int /\ key < MAX
      /\ \A k \in Leaves : k \in Int
  BY SpanAssumption DEF TreeInv, TreeTypeOK, Span
<1>3. n \in 1 .. Length /\ n + 1 \in 1 .. Length
  BY <1>1
<1>4. s \in Leaves /\ e \in Leaves \cup {MAX}
  BY <1>1, <1>2, <1>3
<1>5. \A j \in Leaves : j <= s \/ e <= j
  <2> TAKE j \in Leaves
  <2>1. PICK m \in 1 .. Length : KeyAt(m) = j
    BY <1>1
  <2>2. m < n \/ m = n \/ m = n + 1 \/ n + 1 < m
    BY <1>1
  <2>3. m < n => j < s
    BY <1>1, <1>3, <2>1
  <2>4. n + 1 < m => e < j
    BY <1>1, <1>3, <2>1
  <2>5. m = n => j = s
    BY <2>1
  <2>6. m = n + 1 => j = e
    BY <2>1
  <2> HIDE DEF s, e
  <2> QED
    BY <1>2, <1>4, <2>2, <2>3, <2>4, <2>5, <2>6
<1>6. s <= key /\ key < e
  OBVIOUS
<1> HIDE DEF s, e
<1>7. SegmentStart(key) = s
  BY <1>4, <1>5, <1>6, SegmentIs
<1> QED
  BY <1>7 DEF s

\* search_tree reports the segment of a key.
LEMMA TreeSearchIs ==
  ASSUME TreeInv, valid, NEW key \in Span
  PROVE  search_tree(key) = SegmentFrom(leaf, SegmentStart(key))
<1> DEFINE d == Descend(key)
           k1 == KeyAt(2 * d - 1)
           k2 == KeyAt(2 * d - 1 + 1)
<1>1. /\ d \in Nat \ {0} /\ 2 * d <= Length /\ k1 <= key /\ key < high(1, d)
  BY LastParent
<1>2. /\ tree = leaf /\ Length \in Nat /\ KeyAt(Length) = MAX
      /\ \A n \in 1 .. Length : KeyAt(n) \in Leaves \cup {MAX}
  BY KeysAre
<1>3. /\ key \in Int /\ MIN \in Int /\ MAX \in Int /\ MIN <= key /\ key < MAX
      /\ \A k \in Leaves : k \in Int
  BY SpanAssumption DEF TreeInv, TreeTypeOK, Span
<1>4. tree # NoTree
  BY <1>2 DEF TreeInv, Canonical, NoTree, Leaves
<1>5. search_tree(key) =
        IF k1 <= key /\ key < k2 THEN SegmentFrom(leaf, k1)
        ELSE IF k2 <= key /\ key < high(1, d) THEN SegmentFrom(leaf, k2)
        ELSE NotFound
  <2>1. d # 0 /\ ~(key < MIN) /\ ~(MAX <= key)
    BY <1>1, <1>3
  <2> QED
    BY <1>2, <1>4, <2>1 DEF search_tree
<1> HIDE DEF d
<1>6. /\ 2 * d - 1 \in Nat \ {0} /\ 2 * d - 1 < Length /\ 2 * d - 1 + 1 = 2 * d
      /\ 2 * d \in 1 .. Length
  BY <1>1, <1>2
<1>7. k2 = KeyAt(2 * d) /\ k2 \in Int
  <2>1. k2 = KeyAt(2 * d)
    BY <1>6
  <2> HIDE DEF k2
  <2> QED
    BY <1>2, <1>3, <1>6, <2>1
<1>8. CASE key < k2
  <2>1. SegmentStart(key) = k1
    <3> DEFINE n == 2 * d - 1
    <3>1. n \in Nat \ {0} /\ n < Length /\ KeyAt(n) <= key /\ key < KeyAt(n + 1)
      BY <1>1, <1>6, <1>8
    <3> HIDE DEF n
    <3>2. SegmentStart(key) = KeyAt(n)
      BY <3>1, Adjacent
    <3> QED
      BY <3>2 DEF n
  <2> HIDE DEF k1, k2
  <2> QED
    BY <1>1, <1>5, <1>8, <2>1 DEF k1
<1>9. CASE ~(key < k2)
  <2>1. k2 <= key
    <3> HIDE DEF k2
    <3> QED
      BY <1>3, <1>7, <1>9
  <2>2. 2 * d < Length
    <3>1. 2 * d # Length
      <4> HIDE DEF k2
      <4> QED
        BY <1>2, <1>3, <1>7, <1>9
    <3> QED
      BY <1>2, <1>6, <3>1
  <2>3. high(1, d) = KeyAt(2 * d + 1)
    <3>1. Width[1] = 2
      <4>1. Width[0 + 1] = 2 * 1
        BY WidthIs
      <4> QED
        BY <4>1
    <3>2. high(1, d) = Capped(d * 2 + 1) /\ d * 2 + 1 = 2 * d + 1
      BY <1>1, <3>1, RangeIs
    <3>3. 2 * d + 1 < Length \/ 2 * d + 1 = Length
      BY <1>2, <1>6, <2>2
    <3> QED
      BY <3>2, <3>3 DEF Capped
  <2>4. SegmentStart(key) = k2
    <3> DEFINE n == 2 * d
    <3>1. n \in Nat \ {0} /\ n < Length /\ KeyAt(n) <= key /\ key < KeyAt(n + 1)
      BY <1>1, <1>6, <1>7, <2>1, <2>2, <2>3
    <3> HIDE DEF n
    <3>2. SegmentStart(key) = KeyAt(n)
      BY <3>1, Adjacent
    <3>3. SegmentStart(key) = KeyAt(2 * d)
      BY <3>2 DEF n
    <3> HIDE DEF k2
    <3> QED
      BY <1>7, <3>3
  <2> HIDE DEF k1, k2
  <2> QED
    BY <1>1, <1>5, <1>9, <2>1, <2>4
<1> QED
  BY <1>8, <1>9

\* The descent of search_tree ends at a parent with two leaves (the assertion on is_leaf
\* in flat_segment_tree.hpp), for every number of leaves.
THEOREM DescentIsDefined == TreeSpec => []DescentEndsAtPair
<1>1. TreeInv => DescentEndsAtPair
  <2> SUFFICES ASSUME TreeInv, valid, NEW key \in Span
               PROVE  Descend(key) # 0 /\ 2 * Descend(key) <= Length
    BY DEF DescentEndsAtPair
  <2> QED
    BY LastParent
<1> QED
  BY <1>1, TreeInvariance, PTL

\* A valid search tree answers as the list does, for every key and every number of leaves
\* (flat_segment_tree.hpp, search_tree and search).
THEOREM TreeSearchCorrect == TreeSpec => []TreeAgreesWithList
<1>1. TreeInv => TreeAgreesWithList
  <2> SUFFICES ASSUME TreeInv, valid, NEW key \in Key
               PROVE  search_tree(key) = search(key)
    BY DEF TreeAgreesWithList
  <2>1. CASE key \in Span
    BY <2>1, SearchIs, TreeSearchIs
  <2>2. CASE key \notin Span
    <3>1. key < MIN \/ MAX <= key
      BY <2>2, SpanAssumption, KeyAssumption DEF Span
    <3> QED
      BY <3>1 DEF search, search_tree
  <2> QED
    BY <2>1, <2>2
<1> QED
  BY <1>1, TreeInvariance, PTL

--------------------------------------------------------------------------------
(* Packages and the list of them.                                          *)

\* The borders are natural numbers, and a thread is one.
LEMMA Types ==
  /\ Border \in SUBSET Nat
  /\ \A w \in Worker : w \in Nat /\ w # NoThread
  /\ \A d \in DiskList : Borders[d] \in SUBSET Border /\ Packages(d) \in SUBSET Package
<1>1. \A d \in DiskList : Borders[d] \in SUBSET Nat
  BY BordersAssumption
<1>2. \A d \in DiskList : Borders[d] \in SUBSET Border
  BY DEF Border
<1>3. Border \in SUBSET Nat
  BY <1>1 DEF Border
<1>4. \A d \in DiskList : Packages(d) \in SUBSET Package
  BY <1>2 DEF Packages, Package
<1>5. \A w \in Worker : w \in Nat /\ w # NoThread
  BY ThreadsAssumption DEF Worker, NoThread
<1> QED
  BY <1>2, <1>3, <1>4, <1>5

\* The front of a list that is not empty is on the list.
LEMMA FrontIs ==
  ASSUME workPackages \in SUBSET Package, workPackages # {}
  PROVE  FrontPackage \in workPackages
<1> DEFINE S == {p.pos : p \in workPackages}
<1>1. S \in SUBSET Nat /\ S # {}
  BY Types DEF Package
<1>2. Min(S) \in S
  BY <1>1, MinIs
<1>3. \E p \in workPackages : p.pos = Min(S)
  BY <1>2
<1> QED
  BY <1>3 DEF FrontPackage

--------------------------------------------------------------------------------
(* The initial state and the steps of the caller.                          *)

LEMMA InitInvariant == Init => IInv
<1> SUFFICES ASSUME Init PROVE IInv
  OBVIOUS
<1>1. \E p \in Package : TRUE
  <2>1. PICK d \in DiskList : d = d
    BY BordersAssumption
  <2>2. PICK b \in Borders[d] : TRUE
    BY BordersAssumption
  <2>3. [pos |-> b, disks |-> d] \in Package
    BY <2>1, <2>2, Types DEF Package
  <2> QED
    BY <2>3
<1>2. (CHOOSE p \in Package : TRUE) \in Package
  BY <1>1
<1>3. distributors \in [DOMAIN distributors -> Package] /\ DOMAIN distributors = {}
  BY DEF Init, NoDistributors
<1>4. packageLock \in {NoThread} /\ resultLock \in {NoThread} /\ i \in 0 .. MaxThreads
      /\ numThreads \in 0 .. MaxThreads
  BY ThreadsAssumption DEF Init
<1>5. thread \in [Worker -> ThreadState] /\ workPackage \in [Worker -> Package]
  BY <1>2 DEF Init, ThreadState
<1>6. TypeOK
  BY <1>3, <1>4, <1>5 DEF Init, TypeOK
<1>7. LockHolders
  BY Types DEF Init, LockHolders
<1>8. RunningThreads
  BY DEF Init, RunningThreads, Started
<1>9. PackagesAccountedFor /\ EndsWhenEmpty
  BY DEF Init, PackagesAccountedFor, EndsWhenEmpty
<1> QED
  BY <1>6, <1>7, <1>8, <1>9 DEF IInv

\* Storing a distributor.
LEMMA StoreIs ==
  ASSUME TypeOK, NEW p \in Package, StorePackage(p)
  PROVE  /\ DOMAIN distributors' = DOMAIN distributors \cup {p.pos}
         /\ distributors' \in [DOMAIN distributors' -> Package]
         /\ DOMAIN distributors' \in SUBSET Border
<1>1. DOMAIN distributors' = DOMAIN distributors \cup {p.pos} /\ p.pos \in Border
  BY DEF StorePackage, Package
<1>2. distributors \in [DOMAIN distributors -> Package]
  BY DEF TypeOK
<1> QED
  BY <1>1, <1>2 DEF StorePackage, TypeOK

\* Every step keeps the types.
LEMMA TypeStep == IInv /\ [Next]_vars => TypeOK'
<1> SUFFICES ASSUME IInv, [Next]_vars PROVE TypeOK'
  OBVIOUS
<1> USE DEF IInv
<1>1. ASSUME NEW n \in 0 .. MaxThreads, SetNumThreads(n) PROVE TypeOK'
  BY <1>1 DEF TypeOK, shared, SetNumThreads
<1>2. ASSUME NEW d \in DiskList, SetDisks(d) PROVE TypeOK'
  <2>1. DOMAIN distributors' = {} /\ distributors' \in [DOMAIN distributors' -> Package]
    BY <1>2 DEF SetDisks, NoDistributors
  <2>2. workPackages' \in SUBSET Package /\ i' \in 0 .. MaxThreads
    BY <1>2, Types, ThreadsAssumption DEF SetDisks
  <2> QED
    BY <1>2, <2>1, <2>2 DEF SetDisks, TypeOK
<1>3. ASSUME BuildAlone PROVE TypeOK'
  BY <1>3, StoreIs, FrontIs DEF TypeOK, caller, BuildAlone
<1>4. ASSUME ReturnAlone PROVE TypeOK'
  BY <1>4, Types DEF TypeOK, shared, ReturnAlone
<1>5. ASSUME StartThread PROVE TypeOK'
  <2>1. i \in Worker /\ i' \in 0 .. MaxThreads
    BY <1>5, ThreadsAssumption DEF StartThread, TypeOK, RunningThreads, Worker
  <2>2. thread' \in [Worker -> ThreadState]
    BY <1>5, <2>1 DEF StartThread, TypeOK, ThreadState
  <2> QED
    BY <1>5, <2>1, <2>2 DEF StartThread, TypeOK, shared
<1>6. ASSUME StartFails PROVE TypeOK'
  BY <1>6 DEF TypeOK, shared, StartFails
<1>7. ASSUME JoinThread PROVE TypeOK'
  <2>1. i' \in 0 .. MaxThreads
    BY <1>7, ThreadsAssumption DEF JoinThread, TypeOK
  <2>2. thread' \in [Worker -> ThreadState]
    BY <1>7 DEF JoinThread, TypeOK, ThreadState
  <2> QED
    BY <1>7, <2>1, <2>2 DEF JoinThread, TypeOK, shared
<1>8. ASSUME Return PROVE TypeOK'
  BY <1>8, Types DEF TypeOK, shared, Return
<1>9. ASSUME NEW w \in Worker, LockPackages(w) PROVE TypeOK'
  BY <1>9 DEF TypeOK, ThreadState, Steps, caller, LockPackages
<1>10. ASSUME NEW w \in Worker, TakePackage(w) PROVE TypeOK'
  BY <1>10, FrontIs DEF TypeOK, ThreadState, Steps, caller, shared, TakePackage
<1>11. ASSUME NEW w \in Worker, PopPackage(w) PROVE TypeOK'
  BY <1>11, FrontIs DEF TypeOK, ThreadState, Steps, caller, PopPackage
<1>12. ASSUME NEW w \in Worker, FindNoPackage(w) PROVE TypeOK'
  BY <1>12 DEF TypeOK, ThreadState, Steps, caller, shared, FindNoPackage
<1>13. ASSUME NEW w \in Worker, UnlockPackages(w) PROVE TypeOK'
  BY <1>13 DEF TypeOK, ThreadState, Steps, caller, UnlockPackages
<1>14. ASSUME NEW w \in Worker, Leave(w) PROVE TypeOK'
  BY <1>14 DEF TypeOK, ThreadState, Steps, caller, Leave
<1>15. ASSUME NEW w \in Worker, LockResult(w) PROVE TypeOK'
  BY <1>15 DEF TypeOK, ThreadState, Steps, caller, LockResult
<1>16. ASSUME NEW w \in Worker, StoreResult(w) PROVE TypeOK'
  BY <1>16, StoreIs DEF TypeOK, ThreadState, Steps, caller, StoreResult
<1>17. ASSUME NEW w \in Worker, UnlockResult(w) PROVE TypeOK'
  BY <1>17 DEF TypeOK, ThreadState, Steps, caller, UnlockResult
<1>18. ASSUME Terminated PROVE TypeOK'
  BY <1>18 DEF TypeOK, caller, shared, vars, Terminated
<1>19. ASSUME UNCHANGED vars PROVE TypeOK'
  BY <1>19 DEF TypeOK, caller, shared, vars
<1> QED
  BY <1>1, <1>2, <1>3, <1>4, <1>5, <1>6, <1>7, <1>8, <1>9, <1>10, <1>11, <1>12,
     <1>13, <1>14, <1>15, <1>16, <1>17, <1>18, <1>19
  DEF Next, Proceed, Run

\* Every step leaves each lock with the thread that is in the code it guards.
LEMMA LockStep == IInv /\ [Next]_vars => LockHolders'
<1> SUFFICES ASSUME IInv, [Next]_vars PROVE LockHolders'
  OBVIOUS
<1> USE DEF IInv
<1>1. ASSUME NEW n \in 0 .. MaxThreads, SetNumThreads(n) PROVE LockHolders'
  BY <1>1 DEF LockHolders, TypeOK, shared, SetNumThreads
<1>2. ASSUME NEW d \in DiskList, SetDisks(d) PROVE LockHolders'
  BY <1>2 DEF LockHolders, TypeOK, SetDisks
<1>3. ASSUME BuildAlone PROVE LockHolders'
  BY <1>3 DEF LockHolders, TypeOK, caller, BuildAlone
<1>4. ASSUME ReturnAlone PROVE LockHolders'
  BY <1>4 DEF LockHolders, TypeOK, shared, ReturnAlone
<1>5. ASSUME StartThread PROVE LockHolders'
  <2>1. i \in Worker /\ thread[i] = "none"
    BY <1>5, ThreadsAssumption DEF StartThread, TypeOK, RunningThreads, Started, Worker
  <2>2. \A w \in Worker : thread'[w] = IF w = i THEN "lock" ELSE thread[w]
    BY <1>5 DEF StartThread, TypeOK
  <2> QED
    BY <1>5, <2>1, <2>2 DEF StartThread, LockHolders, shared
<1>6. ASSUME StartFails PROVE LockHolders'
  BY <1>6 DEF LockHolders, TypeOK, shared, StartFails
<1>7. ASSUME JoinThread PROVE LockHolders'
  BY <1>7 DEF LockHolders, TypeOK, shared, JoinThread
<1>8. ASSUME Return PROVE LockHolders'
  BY <1>8 DEF LockHolders, TypeOK, shared, Return
<1>9. ASSUME NEW w \in Worker, LockPackages(w) PROVE LockHolders'
  BY <1>9, Types DEF LockHolders, TypeOK, Steps, caller, NoThread, LockPackages
<1>10. ASSUME NEW w \in Worker, TakePackage(w) PROVE LockHolders'
  BY <1>10, Types DEF LockHolders, TypeOK, Steps, caller, shared, NoThread, TakePackage
<1>11. ASSUME NEW w \in Worker, PopPackage(w) PROVE LockHolders'
  BY <1>11, Types DEF LockHolders, TypeOK, Steps, caller, NoThread, PopPackage
<1>12. ASSUME NEW w \in Worker, FindNoPackage(w) PROVE LockHolders'
  BY <1>12, Types DEF LockHolders, TypeOK, Steps, caller, shared, NoThread, FindNoPackage
<1>13. ASSUME NEW w \in Worker, UnlockPackages(w) PROVE LockHolders'
  BY <1>13, Types DEF LockHolders, TypeOK, Steps, caller, NoThread, UnlockPackages
<1>14. ASSUME NEW w \in Worker, Leave(w) PROVE LockHolders'
  BY <1>14, Types DEF LockHolders, TypeOK, Steps, caller, NoThread, Leave
<1>15. ASSUME NEW w \in Worker, LockResult(w) PROVE LockHolders'
  BY <1>15, Types DEF LockHolders, TypeOK, Steps, caller, NoThread, LockResult
<1>16. ASSUME NEW w \in Worker, StoreResult(w) PROVE LockHolders'
  BY <1>16, Types DEF LockHolders, TypeOK, Steps, caller, NoThread, StoreResult
<1>17. ASSUME NEW w \in Worker, UnlockResult(w) PROVE LockHolders'
  BY <1>17, Types DEF LockHolders, TypeOK, Steps, caller, NoThread, UnlockResult
<1>18. ASSUME Terminated PROVE LockHolders'
  BY <1>18 DEF LockHolders, TypeOK, caller, shared, vars, Terminated
<1>19. ASSUME UNCHANGED vars PROVE LockHolders'
  BY <1>19 DEF LockHolders, TypeOK, caller, shared, vars
<1> QED
  BY <1>1, <1>2, <1>3, <1>4, <1>5, <1>6, <1>7, <1>8, <1>9, <1>10, <1>11, <1>12,
     <1>13, <1>14, <1>15, <1>16, <1>17, <1>18, <1>19
  DEF Next, Proceed, Run

\* Every step keeps count of the threads that run.
LEMMA RunningStep == IInv /\ [Next]_vars => RunningThreads'
<1> SUFFICES ASSUME IInv, [Next]_vars PROVE RunningThreads'
  OBVIOUS
<1> USE DEF IInv
<1>1. ASSUME NEW n \in 0 .. MaxThreads, SetNumThreads(n) PROVE RunningThreads'
  BY <1>1 DEF RunningThreads, TypeOK, Started, shared, Worker, SetNumThreads
<1>2. ASSUME NEW d \in DiskList, SetDisks(d) PROVE RunningThreads'
  <2>1. Started = {} /\ Started' = {}
    BY <1>2 DEF SetDisks, Started
  <2>2. \A w \in Worker : thread'[w] = "none"
    BY <1>2, <2>1 DEF SetDisks, RunningThreads
  <2>3. numThreads \in Nat /\ numThreads' = numThreads /\ i' = 0
    BY <1>2, ThreadsAssumption DEF SetDisks, TypeOK
  <2>4. main' = "start" <=> numThreads >= 2
    BY <1>2, <2>3 DEF SetDisks
  <2>5. main' \in {"alone", "start"}
    BY <1>2 DEF SetDisks
  <2>6. lockInit' <=> main' = "start"
    BY <1>2, <2>4, Zenon DEF SetDisks
  <2>7. lockInit' <=> main' \in {"start", "join"}
    BY <2>5, <2>6
  <2>8. main' = "start" => i' < numThreads'
    BY <2>3, <2>4
  <2>9. \A w \in Worker : thread'[w] # "none" <=> w \in Started'
    BY <2>1, <2>2
  <2> QED
    BY <2>5, <2>7, <2>8, <2>9 DEF RunningThreads
<1>3. ASSUME BuildAlone PROVE RunningThreads'
  BY <1>3 DEF RunningThreads, TypeOK, Started, caller, Worker, BuildAlone
<1>4. ASSUME ReturnAlone PROVE RunningThreads'
  BY <1>4 DEF RunningThreads, TypeOK, Started, shared, Worker, ReturnAlone
<1>5. ASSUME StartThread PROVE RunningThreads'
  BY <1>5, ThreadsAssumption
  DEF RunningThreads, TypeOK, Started, shared, Worker, StartThread
<1>6. ASSUME StartFails PROVE RunningThreads'
  BY <1>6 DEF RunningThreads, TypeOK, Started, shared, Worker, StartFails
<1>7. ASSUME JoinThread PROVE RunningThreads'
  BY <1>7, ThreadsAssumption DEF RunningThreads, TypeOK, Started, shared, Worker, JoinThread
<1>8. ASSUME Return PROVE RunningThreads'
  BY <1>8, ThreadsAssumption DEF RunningThreads, TypeOK, Started, shared, Worker, Return
<1>9. ASSUME NEW w \in Worker, LockPackages(w) PROVE RunningThreads'
  BY <1>9 DEF RunningThreads, TypeOK, Started, Steps, caller, LockPackages
<1>10. ASSUME NEW w \in Worker, TakePackage(w) PROVE RunningThreads'
  BY <1>10 DEF RunningThreads, TypeOK, Started, Steps, caller, shared, TakePackage
<1>11. ASSUME NEW w \in Worker, PopPackage(w) PROVE RunningThreads'
  BY <1>11 DEF RunningThreads, TypeOK, Started, Steps, caller, PopPackage
<1>12. ASSUME NEW w \in Worker, FindNoPackage(w) PROVE RunningThreads'
  BY <1>12 DEF RunningThreads, TypeOK, Started, Steps, caller, shared, FindNoPackage
<1>13. ASSUME NEW w \in Worker, UnlockPackages(w) PROVE RunningThreads'
  BY <1>13 DEF RunningThreads, TypeOK, Started, Steps, caller, UnlockPackages
<1>14. ASSUME NEW w \in Worker, Leave(w) PROVE RunningThreads'
  BY <1>14 DEF RunningThreads, TypeOK, Started, Steps, caller, Leave
<1>15. ASSUME NEW w \in Worker, LockResult(w) PROVE RunningThreads'
  BY <1>15 DEF RunningThreads, TypeOK, Started, Steps, caller, LockResult
<1>16. ASSUME NEW w \in Worker, StoreResult(w) PROVE RunningThreads'
  BY <1>16 DEF RunningThreads, TypeOK, Started, Steps, caller, StoreResult
<1>17. ASSUME NEW w \in Worker, UnlockResult(w) PROVE RunningThreads'
  BY <1>17 DEF RunningThreads, TypeOK, Started, Steps, caller, UnlockResult
<1>18. ASSUME Terminated PROVE RunningThreads'
  BY <1>18 DEF RunningThreads, TypeOK, Started, caller, shared, vars, Terminated
<1>19. ASSUME UNCHANGED vars PROVE RunningThreads'
  BY <1>19 DEF RunningThreads, TypeOK, Started, caller, shared, vars
<1> QED
  BY <1>1, <1>2, <1>3, <1>4, <1>5, <1>6, <1>7, <1>8, <1>9, <1>10, <1>11, <1>12,
     <1>13, <1>14, <1>15, <1>16, <1>17, <1>18, <1>19
  DEF Next, Proceed, Run

\* A step that leaves the packages, the threads that hold one and the one that is
\* about to pop alone.
LEMMA SamePackages ==
  ASSUME IInv, UNCHANGED <<workPackages, distributors, disks, workPackage>>,
         main' \in {"alone", "start", "join"} => main \in {"alone", "start", "join"},
         Holding' = Holding,
         \A w \in Worker : thread'[w] = "pop" => thread[w] = "pop"
  PROVE  PackagesAccountedFor'
<1>1. FrontPackage' = FrontPackage
  BY DEF FrontPackage
<1>2. Packages(disks)' = Packages(disks)
  BY DEF Packages
<1> QED
  BY <1>1, <1>2 DEF IInv, PackagesAccountedFor

\* A package of one call is known by its border.
LEMMA SameBorder ==
  ASSUME NEW d, NEW p \in Packages(d), NEW q \in Packages(d), p.pos = q.pos
  PROVE  p = q
BY DEF Packages

\* While setDisks builds alone, or has just been called, no thread runs.
LEMMA NoThreads ==
  ASSUME IInv, main \in {"idle", "alone"}
  PROVE  /\ \A w \in Worker : thread[w] = "none"
         /\ Holding = {}
<1>1. Started = {}
  BY DEF Started
<1> QED
  BY <1>1 DEF IInv, RunningThreads, Holding

\* Every step keeps every package in one place.
LEMMA PackagesStep == IInv /\ [Next]_vars => PackagesAccountedFor'
<1> SUFFICES ASSUME IInv, [Next]_vars PROVE PackagesAccountedFor'
  OBVIOUS
<1> USE DEF IInv
<1>1. ASSUME NEW n \in 0 .. MaxThreads, SetNumThreads(n) PROVE PackagesAccountedFor'
  BY <1>1, SamePackages DEF SetNumThreads, shared, Holding
<1>2. ASSUME NEW d \in DiskList, SetDisks(d) PROVE PackagesAccountedFor'
  <2>1. \A w \in Worker : thread'[w] = "none"
    BY <1>2, NoThreads DEF SetDisks
  <2>2. Holding' = {} /\ DOMAIN distributors' = {}
    BY <1>2, <2>1 DEF Holding, SetDisks, NoDistributors
  <2>3. workPackages' = Packages(disks)' /\ disks' = d
    BY <1>2 DEF SetDisks, Packages
  <2>4. \A b \in Borders[disks'] : \E p \in workPackages' : p.pos = b
    <3> SUFFICES ASSUME NEW b \in Borders[disks'] PROVE \E p \in workPackages' : p.pos = b
      OBVIOUS
    <3>1. [pos |-> b, disks |-> d] \in workPackages'
      BY <2>3 DEF Packages
    <3> QED
      BY <3>1
  <2> QED
    BY <2>1, <2>2, <2>3, <2>4 DEF PackagesAccountedFor
<1>3. ASSUME BuildAlone PROVE PackagesAccountedFor'
  <2> DEFINE p == FrontPackage
  <2>1. \A w \in Worker : thread'[w] = "none"
    BY <1>3, NoThreads DEF BuildAlone
  <2>2. Holding' = {} /\ Holding = {}
    BY <1>3, <2>1, NoThreads DEF Holding, BuildAlone
  <2>3. p \in workPackages /\ workPackages' = workPackages \ {p}
    BY <1>3, FrontIs DEF BuildAlone, TypeOK
  <2>4. /\ workPackages \subseteq Packages(disks)
        /\ Packages(disks)' = Packages(disks) /\ Borders[disks]' = Borders[disks]
    BY <1>3 DEF BuildAlone, PackagesAccountedFor, caller, Packages
  <2>5. DOMAIN distributors' = DOMAIN distributors \cup {p.pos}
    BY <1>3, <2>3, StoreIs DEF BuildAlone, TypeOK
  <2>6. p.pos \in Borders[disks]
    BY <2>3, <2>4 DEF Packages
  <2> HIDE DEF p
  <2>7. \A q \in workPackages' : q.pos \notin DOMAIN distributors'
    BY <1>3, <2>3, <2>4, <2>5, SameBorder DEF BuildAlone, PackagesAccountedFor
  <2>8. \A b \in Borders[disks] : b \in DOMAIN distributors' \/ \E q \in workPackages' : q.pos = b
    BY <1>3, <2>2, <2>3, <2>5 DEF BuildAlone, PackagesAccountedFor
  <2> QED
    BY <1>3, <2>1, <2>2, <2>3, <2>4, <2>5, <2>6, <2>7, <2>8
    DEF BuildAlone, PackagesAccountedFor
<1>4. ASSUME ReturnAlone PROVE PackagesAccountedFor'
  BY <1>4 DEF PackagesAccountedFor, ReturnAlone
<1>5. ASSUME StartThread PROVE PackagesAccountedFor'
  <2>1. i \in Worker /\ thread[i] = "none"
    BY <1>5, ThreadsAssumption DEF StartThread, TypeOK, RunningThreads, Started, Worker
  <2>2. \A w \in Worker : thread'[w] = IF w = i THEN "lock" ELSE thread[w]
    BY <1>5 DEF StartThread, TypeOK
  <2>3. Holding' = Holding
    BY <2>1, <2>2 DEF Holding
  <2> QED
    BY <1>5, <2>2, <2>3, SamePackages DEF StartThread, shared
<1>6. ASSUME StartFails PROVE PackagesAccountedFor'
  BY <1>6 DEF PackagesAccountedFor, StartFails
<1>7. ASSUME JoinThread PROVE PackagesAccountedFor'
  <2>1. \A w \in Worker : thread'[w] = IF w = i THEN "none" ELSE thread[w]
    BY <1>7 DEF JoinThread, TypeOK
  <2>2. Holding' = Holding
    BY <1>7, <2>1 DEF Holding, JoinThread
  <2> QED
    BY <1>7, <2>1, <2>2, SamePackages DEF JoinThread, shared
<1>8. ASSUME Return PROVE PackagesAccountedFor'
  BY <1>8 DEF PackagesAccountedFor, Return
<1>9. ASSUME NEW w \in Worker, LockPackages(w) PROVE PackagesAccountedFor'
  <2>1. \A v \in Worker : v # w => thread'[v] = thread[v]
    BY <1>9 DEF LockPackages, Steps, TypeOK
  <2>2. Holding' = Holding /\ thread'[w] # "pop"
    BY <1>9, <2>1 DEF LockPackages, Steps, TypeOK, Holding
  <2> QED
    BY <1>9, <2>1, <2>2, SamePackages DEF LockPackages, Steps, caller, shared
<1>10. ASSUME NEW w \in Worker, FindNoPackage(w) PROVE PackagesAccountedFor'
  <2>1. \A v \in Worker : v # w => thread'[v] = thread[v]
    BY <1>10 DEF FindNoPackage, Steps, TypeOK
  <2>2. Holding' = Holding /\ thread'[w] # "pop"
    BY <1>10, <2>1 DEF FindNoPackage, Steps, TypeOK, Holding
  <2> QED
    BY <1>10, <2>1, <2>2, SamePackages DEF FindNoPackage, Steps, caller, shared
<1>11. ASSUME NEW w \in Worker, UnlockPackages(w) PROVE PackagesAccountedFor'
  <2>1. \A v \in Worker : v # w => thread'[v] = thread[v]
    BY <1>11 DEF UnlockPackages, Steps, TypeOK
  <2>2. Holding' = Holding /\ thread'[w] # "pop"
    BY <1>11, <2>1 DEF UnlockPackages, Steps, TypeOK, Holding
  <2> QED
    BY <1>11, <2>1, <2>2, SamePackages DEF UnlockPackages, Steps, caller, shared
<1>12. ASSUME NEW w \in Worker, Leave(w) PROVE PackagesAccountedFor'
  <2>1. \A v \in Worker : v # w => thread'[v] = thread[v]
    BY <1>12 DEF Leave, Steps, TypeOK
  <2>2. Holding' = Holding /\ thread'[w] # "pop"
    BY <1>12, <2>1 DEF Leave, Steps, TypeOK, Holding
  <2> QED
    BY <1>12, <2>1, <2>2, SamePackages DEF Leave, Steps, caller, shared
<1>13. ASSUME NEW w \in Worker, LockResult(w) PROVE PackagesAccountedFor'
  <2>1. \A v \in Worker : v # w => thread'[v] = thread[v]
    BY <1>13 DEF LockResult, Steps, TypeOK
  <2>2. Holding' = Holding /\ thread'[w] # "pop"
    BY <1>13, <2>1 DEF LockResult, Steps, TypeOK, Holding
  <2> QED
    BY <1>13, <2>1, <2>2, SamePackages DEF LockResult, Steps, caller, shared
<1>14. ASSUME NEW w \in Worker, UnlockResult(w) PROVE PackagesAccountedFor'
  <2>1. \A v \in Worker : v # w => thread'[v] = thread[v]
    BY <1>14 DEF UnlockResult, Steps, TypeOK
  <2>2. Holding' = Holding /\ thread'[w] # "pop"
    BY <1>14, <2>1 DEF UnlockResult, Steps, TypeOK, Holding
  <2> QED
    BY <1>14, <2>1, <2>2, SamePackages DEF UnlockResult, Steps, caller, shared
<1>15. ASSUME NEW w \in Worker, TakePackage(w) PROVE PackagesAccountedFor'
  <2>1. /\ \A v \in Worker : v # w => thread'[v] = thread[v]
        /\ thread[w] = "take" /\ thread'[w] = "pop"
    BY <1>15 DEF TakePackage, Steps, TypeOK
  <2>2. /\ \A v \in Worker : v # w => workPackage'[v] = workPackage[v]
        /\ workPackage'[w] = FrontPackage
    BY <1>15 DEF TakePackage, TypeOK
  <2>3. Holding' = Holding /\ w \notin Holding
    BY <2>1 DEF Holding
  <2>4. /\ UNCHANGED <<workPackages, distributors, disks, main>>
        /\ workPackages # {}
    BY <1>15 DEF TakePackage, Steps, caller, shared
  <2>5. FrontPackage' = FrontPackage
    BY <2>4 DEF FrontPackage
  <2>6. Packages(disks)' = Packages(disks)
    BY <2>4 DEF Packages
  <2>7. \A v \in Holding : v \in Worker /\ v # w
    BY <2>3 DEF Holding
  <2> QED
    BY <2>1, <2>2, <2>3, <2>4, <2>5, <2>6, <2>7 DEF PackagesAccountedFor
<1>16. ASSUME NEW w \in Worker, PopPackage(w) PROVE PackagesAccountedFor'
  <2> SUFFICES ASSUME main \in {"alone", "start", "join"} PROVE PackagesAccountedFor'
    BY <1>16 DEF PopPackage, Steps, caller, PackagesAccountedFor
  <2> DEFINE p == FrontPackage
  <2>1. /\ \A v \in Worker : v # w => thread'[v] = thread[v]
        /\ thread[w] = "pop" /\ thread'[w] = "unlock"
    BY <1>16 DEF PopPackage, Steps, TypeOK
  <2>2. \A v \in Worker : v # w => thread[v] # "pop"
    BY <2>1 DEF LockHolders
  <2>3. p \in workPackages /\ workPackages' = workPackages \ {p} /\ workPackage[w] = p
    BY <1>16, <2>1, FrontIs DEF PopPackage, TypeOK, PackagesAccountedFor
  <2>4. UNCHANGED <<workPackage, distributors, disks, main>>
    BY <1>16 DEF PopPackage, Steps, caller
  <2>5. Holding' = Holding \cup {w}
    BY <2>1 DEF Holding
  <2>6. Packages(disks)' = Packages(disks)
    BY <2>4 DEF Packages
  <2> HIDE DEF p
  <2>7. \A v \in Worker : thread'[v] # "pop"
    BY <2>1, <2>2
  <2>8. \A v \in Holding : workPackage[v] # p
    BY <2>3 DEF PackagesAccountedFor
  <2>9. p \in Packages(disks) /\ p.pos \notin DOMAIN distributors
    BY <2>3 DEF PackagesAccountedFor
  <2> QED
    BY <2>3, <2>4, <2>5, <2>6, <2>7, <2>8, <2>9 DEF PackagesAccountedFor
<1>17. ASSUME NEW w \in Worker, StoreResult(w) PROVE PackagesAccountedFor'
  <2> SUFFICES ASSUME main \in {"alone", "start", "join"} PROVE PackagesAccountedFor'
    BY <1>17 DEF StoreResult, Steps, caller, PackagesAccountedFor
  <2> DEFINE p == workPackage[w]
  <2>1. /\ \A v \in Worker : v # w => thread'[v] = thread[v]
        /\ thread[w] = "store" /\ thread'[w] = "stored"
    BY <1>17 DEF StoreResult, Steps, TypeOK
  <2>2. UNCHANGED <<workPackages, workPackage, disks, main>>
    BY <1>17 DEF StoreResult, Steps, caller
  <2>3. Holding' = Holding \ {w} /\ w \in Holding
    BY <2>1 DEF Holding
  <2>4. /\ p \in Packages(disks) /\ p \notin workPackages
        /\ \A v \in Holding : v # w => workPackage[v] # p
    BY <2>3 DEF PackagesAccountedFor
  <2>5. DOMAIN distributors' = DOMAIN distributors \cup {p.pos}
    BY <1>17, StoreIs DEF StoreResult, TypeOK
  <2>6. Packages(disks)' = Packages(disks) /\ FrontPackage' = FrontPackage
    BY <2>2 DEF Packages, FrontPackage
  <2>7. p.pos \in Borders[disks]
    BY <2>4 DEF Packages
  <2>8. \A q \in workPackages : q.pos \notin DOMAIN distributors'
    BY <2>4, <2>5, SameBorder DEF PackagesAccountedFor
  <2>9. \A v \in Holding : v # w => workPackage[v].pos \notin DOMAIN distributors'
    BY <2>4, <2>5, SameBorder DEF PackagesAccountedFor
  <2>10. \A v \in Worker : thread'[v] = "pop" => thread[v] = "pop"
    BY <2>1
  <2>11. \A b \in Borders[disks] :
           \/ b \in DOMAIN distributors'
           \/ \E q \in workPackages : q.pos = b
           \/ \E v \in Holding \ {w} : workPackage[v].pos = b
    BY <2>3, <2>5 DEF PackagesAccountedFor
  <2> HIDE DEF p
  <2> QED
    BY <2>2, <2>3, <2>4, <2>5, <2>6, <2>7, <2>8, <2>9, <2>10, <2>11
    DEF PackagesAccountedFor
<1>18. ASSUME Terminated PROVE PackagesAccountedFor'
  BY <1>18 DEF PackagesAccountedFor, Terminated, vars, caller
<1>19. ASSUME UNCHANGED vars PROVE PackagesAccountedFor'
  BY <1>19, SamePackages DEF vars, caller, shared, Holding
<1> QED
  BY <1>1, <1>2, <1>3, <1>4, <1>5, <1>6, <1>7, <1>8, <1>9, <1>10, <1>11, <1>12,
     <1>13, <1>14, <1>15, <1>16, <1>17, <1>18, <1>19
  DEF Next, Proceed, Run

\* The list a thread finds empty stays empty.
LEMMA EndsStep == IInv /\ [Next]_vars => EndsWhenEmpty'
<1> SUFFICES ASSUME IInv, [Next]_vars PROVE EndsWhenEmpty'
  OBVIOUS
<1> USE DEF IInv
<1>1. ASSUME NEW n \in 0 .. MaxThreads, SetNumThreads(n) PROVE EndsWhenEmpty'
  BY <1>1 DEF EndsWhenEmpty, TypeOK, RunningThreads, Started, shared, SetNumThreads
<1>2. ASSUME NEW d \in DiskList, SetDisks(d) PROVE EndsWhenEmpty'
  BY <1>2 DEF EndsWhenEmpty, TypeOK, RunningThreads, Started, SetDisks
<1>3. ASSUME BuildAlone PROVE EndsWhenEmpty'
  BY <1>3 DEF EndsWhenEmpty, TypeOK, RunningThreads, Started, caller, BuildAlone
<1>4. ASSUME ReturnAlone PROVE EndsWhenEmpty'
  BY <1>4 DEF EndsWhenEmpty, TypeOK, RunningThreads, Started, shared, ReturnAlone
<1>5. ASSUME StartThread PROVE EndsWhenEmpty'
  BY <1>5 DEF EndsWhenEmpty, TypeOK, RunningThreads, Started, shared, StartThread
<1>6. ASSUME StartFails PROVE EndsWhenEmpty'
  BY <1>6 DEF EndsWhenEmpty, TypeOK, RunningThreads, Started, shared, StartFails
<1>7. ASSUME JoinThread PROVE EndsWhenEmpty'
  <2>1. i \in Worker
    BY <1>7, ThreadsAssumption DEF JoinThread, TypeOK, Worker
  <2>2. workPackages = {} /\ workPackages' = {}
    BY <1>7, <2>1 DEF JoinThread, EndsWhenEmpty, shared
  <2> QED
    BY <2>2 DEF EndsWhenEmpty
<1>8. ASSUME Return PROVE EndsWhenEmpty'
  BY <1>8 DEF EndsWhenEmpty, TypeOK, RunningThreads, Started, shared, Return
<1>9. ASSUME NEW w \in Worker, LockPackages(w) PROVE EndsWhenEmpty'
  BY <1>9 DEF EndsWhenEmpty, TypeOK, RunningThreads, Started, Steps, caller, LockPackages
<1>10. ASSUME NEW w \in Worker, TakePackage(w) PROVE EndsWhenEmpty'
  BY <1>10
  DEF EndsWhenEmpty, TypeOK, RunningThreads, Started, Steps, caller, shared, TakePackage
<1>11. ASSUME NEW w \in Worker, PopPackage(w) PROVE EndsWhenEmpty'
  BY <1>11 DEF EndsWhenEmpty, TypeOK, RunningThreads, Started, Steps, caller, PopPackage
<1>12. ASSUME NEW w \in Worker, FindNoPackage(w) PROVE EndsWhenEmpty'
  BY <1>12
  DEF EndsWhenEmpty, TypeOK, RunningThreads, Started, Steps, caller, shared, FindNoPackage
<1>13. ASSUME NEW w \in Worker, UnlockPackages(w) PROVE EndsWhenEmpty'
  BY <1>13 DEF EndsWhenEmpty, TypeOK, RunningThreads, Started, Steps, caller, UnlockPackages
<1>14. ASSUME NEW w \in Worker, Leave(w) PROVE EndsWhenEmpty'
  BY <1>14 DEF EndsWhenEmpty, TypeOK, RunningThreads, Started, Steps, caller, Leave
<1>15. ASSUME NEW w \in Worker, LockResult(w) PROVE EndsWhenEmpty'
  BY <1>15 DEF EndsWhenEmpty, TypeOK, RunningThreads, Started, Steps, caller, LockResult
<1>16. ASSUME NEW w \in Worker, StoreResult(w) PROVE EndsWhenEmpty'
  BY <1>16 DEF EndsWhenEmpty, TypeOK, RunningThreads, Started, Steps, caller, StoreResult
<1>17. ASSUME NEW w \in Worker, UnlockResult(w) PROVE EndsWhenEmpty'
  BY <1>17 DEF EndsWhenEmpty, TypeOK, RunningThreads, Started, Steps, caller, UnlockResult
<1>18. ASSUME Terminated PROVE EndsWhenEmpty'
  BY <1>18
  DEF EndsWhenEmpty, TypeOK, RunningThreads, Started, caller, shared, vars, Terminated
<1>19. ASSUME UNCHANGED vars PROVE EndsWhenEmpty'
  BY <1>19 DEF EndsWhenEmpty, TypeOK, RunningThreads, Started, caller, shared, vars
<1> QED
  BY <1>1, <1>2, <1>3, <1>4, <1>5, <1>6, <1>7, <1>8, <1>9, <1>10, <1>11, <1>12,
     <1>13, <1>14, <1>15, <1>16, <1>17, <1>18, <1>19
  DEF Next, Proceed, Run

LEMMA NextInvariant == IInv /\ [Next]_vars => IInv'
BY TypeStep, LockStep, RunningStep, PackagesStep, EndsStep DEF IInv

\* The inductive invariant of the thread pool.
THEOREM Invariance == Spec => []IInv
BY InitInvariant, NextInvariant, PTL DEF Spec

\* Every variable keeps its type.
THEOREM TypeCorrect == Spec => []TypeOK
<1>1. IInv => TypeOK
  BY DEF IInv
<1> QED
  BY <1>1, Invariance, PTL

\* The locks exclude: no two threads use the list of packages at once, no two the
\* table, and setDisks uses neither while a thread may.
THEOREM NoDataRace == Spec => []AccessesAreExclusive
<1>1. IInv => AccessesAreExclusive
  <2> SUFFICES ASSUME IInv PROVE AccessesAreExclusive
    OBVIOUS
  <2>1. \A v, w \in UsesList : v = w
    BY DEF IInv, LockHolders, UsesList
  <2>2. \A v, w \in UsesTable : v = w
    BY DEF IInv, LockHolders, UsesTable
  <2>3. main \in {"idle", "alone"} => UsesList \cup UsesTable = {}
    BY NoThreads DEF UsesList, UsesTable
  <2> QED
    BY <2>1, <2>2, <2>3 DEF AccessesAreExclusive
<1> QED
  BY <1>1, Invariance, PTL

\* No thread outlives the locks.
THEOREM NoThreadOutlivesLocks == Spec => []LocksOutliveThreads
<1>1. IInv => LocksOutliveThreads
  BY DEF IInv, RunningThreads, LocksOutliveThreads, Started, TypeOK
<1> QED
  BY <1>1, Invariance, PTL

--------------------------------------------------------------------------------
(* The refinement.                                                         *)

\* Storing a package that is not yet in the table is a step of the abstract
\* specification.
LEMMA StoreBuilds ==
  ASSUME IInv, main \in {"alone", "start", "join"},
         UNCHANGED <<main, disks, keyFinder>>,
         NEW p \in Packages(disks), p.pos \notin DOMAIN distributors, StorePackage(p)
  PROVE  Table!Next
<1>1. p.pos \in Borders[disks] /\ p = [pos |-> p.pos, disks |-> disks]
  BY DEF Packages
<1>2. Table!Build(p.pos)
  BY <1>1 DEF Table!Build, StorePackage
<1> QED
  BY <1>1, <1>2 DEF Table!Next

\* When the last thread is joined, every distributor is in the table.
LEMMA CompleteAtReturn ==
  ASSUME IInv, workPackages = {}, Holding = {}, main \in {"alone", "start", "join"}
  PROVE  DOMAIN distributors = Borders[disks]
BY DEF IInv, PackagesAccountedFor

LEMMA InitRefines == Init => Table!Init
BY DEF Init, Table!Init, NoDistributors, Table!NoDistributors

LEMMA NextRefines ==
  IInv /\ [Next]_vars =>
    [Table!Next]_<<IF main \in {"idle", "terminated"} THEN main ELSE "building",
                   disks, distributors, keyFinder>>
<1> DEFINE phase == IF main \in {"idle", "terminated"} THEN main ELSE "building"
           Same == UNCHANGED <<phase, disks, distributors, keyFinder>>
<1> SUFFICES ASSUME IInv, [Next]_vars PROVE Table!Next \/ Same
  OBVIOUS
<1>1. ASSUME NEW n \in 0 .. MaxThreads, SetNumThreads(n) PROVE Same
  BY <1>1 DEF SetNumThreads, shared
<1>2. ASSUME NEW d \in DiskList, SetDisks(d) PROVE Table!Next
  <2>1. Table!Begin(d)
    BY <1>2 DEF SetDisks, Table!Begin, NoDistributors, Table!NoDistributors
  <2> QED
    BY <2>1 DEF Table!Next
<1>3. ASSUME BuildAlone PROVE Table!Next
  <2>1. FrontPackage \in workPackages
    BY <1>3, FrontIs DEF BuildAlone, IInv, TypeOK
  <2>2. FrontPackage \in Packages(disks) /\ FrontPackage.pos \notin DOMAIN distributors
    BY <1>3, <2>1 DEF BuildAlone, IInv, PackagesAccountedFor
  <2> QED
    BY <1>3, <2>2, StoreBuilds DEF BuildAlone, caller
<1>4. ASSUME ReturnAlone PROVE Table!Next
  <2>1. DOMAIN distributors = Borders[disks]
    BY <1>4, NoThreads, CompleteAtReturn DEF ReturnAlone
  <2>2. Table!Return
    BY <1>4, <2>1 DEF ReturnAlone, Table!Return, shared
  <2> QED
    BY <2>2 DEF Table!Next
<1>5. ASSUME StartThread PROVE Same
  BY <1>5 DEF StartThread, shared
<1>6. ASSUME StartFails PROVE Table!Next
  <2>1. Table!Terminate
    BY <1>6 DEF StartFails, Table!Terminate, shared
  <2> QED
    BY <2>1 DEF Table!Next
<1>7. ASSUME JoinThread PROVE Same
  BY <1>7 DEF JoinThread, shared
<1>8. ASSUME Return PROVE Table!Next
  <2>1. Started = {}
    BY <1>8 DEF Return, Started, IInv, TypeOK
  <2>2. Holding = {} /\ workPackages = {}
    BY <1>8, <2>1 DEF Return, IInv, RunningThreads, EndsWhenEmpty, Holding, TypeOK
  <2>3. DOMAIN distributors = Borders[disks]
    BY <1>8, <2>2, CompleteAtReturn DEF Return
  <2>4. Table!Return
    BY <1>8, <2>3 DEF Return, Table!Return, shared
  <2> QED
    BY <2>4 DEF Table!Next
<1>9. ASSUME NEW w \in Worker, Run(w) PROVE Table!Next \/ Same
  <2>1. CASE StoreResult(w)
    <3>1. w \in Holding /\ main # "terminated"
      BY <2>1 DEF StoreResult, Steps, Holding
    <3>2. main \in {"start", "join"}
      BY <3>1, NoThreads DEF IInv, TypeOK
    <3>3. workPackage[w] \in Packages(disks) /\ workPackage[w].pos \notin DOMAIN distributors
      BY <3>1, <3>2 DEF IInv, PackagesAccountedFor
    <3> QED
      BY <2>1, <3>2, <3>3, StoreBuilds DEF StoreResult, Steps, caller
  <2>2. CASE ~StoreResult(w)
    BY <1>9, <2>2
    DEF Run, LockPackages, TakePackage, PopPackage, FindNoPackage, UnlockPackages, Leave,
        LockResult, UnlockResult, Steps, caller, shared
  <2> QED
    BY <2>1, <2>2
<1>10. ASSUME Terminated \/ UNCHANGED vars PROVE Same
  BY <1>10 DEF Terminated, vars, caller, shared
<1> QED
  BY <1>1, <1>2, <1>3, <1>4, <1>5, <1>6, <1>7, <1>8, <1>9, <1>10 DEF Next, Proceed

\* However its threads interleave, setDisks builds the distributor of every border
\* once, and returns with all of them.
THEOREM ImplementsBuild == Spec => ImplementsShareBuild
BY InitRefines, NextRefines, Invariance, PTL DEF Spec, ImplementsShareBuild, Table!Spec
================================================================================
