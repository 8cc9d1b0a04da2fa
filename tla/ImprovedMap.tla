------------------------------ MODULE ImprovedMap ------------------------------
(***************************************************************************)
(* dadisi/ImprovedMap.cpp: the ring lookup every hashing strategy uses.    *)
(*                                                                         *)
(* The constructor cuts the key space 0..2^W-1 into a power of two of      *)
(* equal slices and copies into every slice the ring positions that fall   *)
(* in it.  A slice whose first key is not itself a position also gets a    *)
(* carry: the greatest position of the slices before it, or the virtual    *)
(* position 0 when there is none yet.  A lookup then searches one slice.   *)
(* The virtual 0 stands for the last position of the ring.                 *)
(*                                                                         *)
(* W is 64 in the program.  The key iterator of the constructor is         *)
(* modelled by rest, the set of the positions it has not reached.          *)
(***************************************************************************)
EXTENDS Integers, FiniteSetsExt

CONSTANT W      \* bits of a key

ASSUME WordAssumption == W \in Nat \ {0}

\* 1 << n and 1 << (W - n) divide the key space between them.
ASSUME PowerAssumption ==
  /\ 2^0 = 1
  /\ \A n \in 0 .. W : 2^n \in Nat \ {0} /\ 2^n * 2^(W - n) = 2^W

VARIABLES
  pc,           \* "new", "building" (the constructor's loop) or "ready"
  initKeys,     \* the positions handed to the constructor
  slices,       \* number of slices
  bitShift,     \* bits of a key below its slice number
  sliceSize,    \* local of the constructor
  slice,        \* loop counter of the constructor
  rest,         \* positions from the iterator "key" to initKeys->end()
  firstPlaced,  \* some position has been placed
  previousKey,  \* the position placed last
  keys,         \* the slices built so far
  lastKey       \* what the virtual position 0 stands for

ringVars == <<pc, initKeys, slices, bitShift, sliceSize, slice, rest, firstPlaced,
              previousKey, keys, lastKey>>

RingKey == 0 .. 2^W - 1

\* ceil(log2(n))
KeyShift(n) == Min({s \in 0 .. W : n <= 2^s})

--------------------------------------------------------------------------------

RingInit ==
  /\ pc = "new"
  /\ initKeys = {}
  /\ slices = 0
  /\ bitShift = 0
  /\ sliceSize = 0
  /\ slice = 0
  /\ rest = {}
  /\ firstPlaced = FALSE
  /\ previousKey = 0
  /\ keys = [s \in {} |-> {}]
  /\ lastKey = 0

\* The constructor up to its loop.  One slice is a case of its own, because
\* shifting a word by its width is undefined.
Construct(initSlices, S) ==
  /\ pc = "new"
  /\ LET n == IF initSlices = 0 THEN Cardinality(S) ELSE initSlices
         shift == IF n = 1 THEN 0 ELSE KeyShift(n)
     IN  /\ slices' = 2^shift
         /\ bitShift' = W - shift
         /\ sliceSize' = IF n = 1 THEN 2^W - 1 ELSE 2^(W - shift)
  /\ pc' = "building"
  /\ initKeys' = S
  /\ rest' = S
  /\ slice' = 0
  /\ firstPlaced' = FALSE
  /\ lastKey' = IF 0 \in S THEN 0 ELSE Max(S)
  /\ keys' = [s \in {} |-> {}]
  /\ UNCHANGED previousKey

sliceStart == slice * sliceSize
sliceEnd == sliceStart + sliceSize

\* Mutant of Carry: a slice the iterator's end precedes inherits nothing.
CarryForgottenAtEnd ==
  IF rest # {} /\ Min(rest) > sliceStart
    THEN {IF firstPlaced THEN previousKey ELSE 0}
    ELSE {}

\* The position a slice inherits: none when it starts with a position.
Carry ==
  IF rest = {} \/ Min(rest) > sliceStart
    THEN {IF firstPlaced THEN previousKey ELSE 0}
    ELSE {}

\* Mutant of Taken: the end of a slice belongs to it.
TakenWithEnd ==
  IF slice = slices - 1
    THEN rest
    ELSE {k \in rest : \A j \in rest :
                         j <= k => sliceStart <= j /\ j <= sliceEnd}

\* Mutant of Taken: the last slice is bounded by its overflowed end.
TakenBelowOverflow ==
  {k \in rest : \A j \in rest :
                  j <= k => sliceStart <= j /\ j < sliceEnd % 2^W}

\* The positions the iterator passes in one iteration.  sliceEnd overflows in
\* the last slice, which takes all that is left.
Taken ==
  IF slice = slices - 1
    THEN rest
    ELSE {k \in rest : \A j \in rest :
                         j <= k => sliceStart <= j /\ j < sliceEnd}

\* One iteration of the constructor's loop.
PlaceSlice ==
  /\ pc = "building"
  /\ slice < slices
  /\ keys' = [s \in 0 .. slice |-> IF s = slice THEN Carry \cup Taken
                                                ELSE keys[s]]
  /\ rest' = rest \ Taken
  /\ firstPlaced' = (firstPlaced \/ Taken # {})
  /\ previousKey' = IF Taken = {} THEN previousKey ELSE Max(Taken)
  /\ slice' = slice + 1
  /\ UNCHANGED <<pc, initKeys, slices, bitShift, sliceSize, lastKey>>

Constructed ==
  /\ pc = "building"
  /\ slice = slices
  /\ pc' = "ready"
  /\ UNCHANGED <<initKeys, slices, bitShift, sliceSize, slice, rest,
                 firstPlaced, previousKey, keys, lastKey>>

\* ~ImprovedMap: the slices are freed.
Destroy ==
  /\ pc = "ready"
  /\ pc' = "new"
  /\ keys' = [s \in {} |-> {}]
  /\ UNCHANGED <<initKeys, slices, bitShift, sliceSize, slice, rest,
                 firstPlaced, previousKey, lastKey>>

RingNext ==
  \/ \E S \in (SUBSET RingKey) \ {{}}, initSlices \in 0 .. 2^W :
       Construct(initSlices, S)
  \/ PlaceSlice
  \/ Constructed
  \/ Destroy

RingSpec ==
  RingInit /\ [][RingNext]_ringVars /\ WF_ringVars(PlaceSlice) /\ WF_ringVars(Constructed)

--------------------------------------------------------------------------------

\* The slice a key is looked up in: key >> bitShift.
SliceOf(key) == IF bitShift = W THEN 0 ELSE key \div 2^bitShift

\* The entries of the key's slice that are not above it.  The iterator
\* upKey ends on the greatest of them.
AtOrBelow(key) == {k \in keys[SliceOf(key)] : k <= key}

\* Mutant of FindClosest: the virtual position 0 is returned as a position.
FindClosestUnwrapped(key) ==
  IF keys[SliceOf(key)] = {} THEN lastKey ELSE Max(AtOrBelow(key))

\* findClosest: the virtual position 0 is answered by lastKey.
FindClosest(key) ==
  LET upKey == Max(AtOrBelow(key))
  IN  IF keys[SliceOf(key)] = {} \/ upKey = 0 THEN lastKey ELSE upKey

\* What ImprovedMap.h promises: the closest position at or below the key, and
\* the biggest of all when there is none.
RingPredecessor(S, key) ==
  IF \E k \in S : k <= key THEN Max({k \in S : k <= key})
                           ELSE Max(S)

--------------------------------------------------------------------------------

\* The type invariant.  The loop counter never passes the number of slices, and
\* exactly the slices before it are built.
RingTypeOK ==
  /\ pc \in {"new", "building", "ready"}
  /\ initKeys \in SUBSET RingKey
  /\ slices \in Nat
  /\ bitShift \in 0 .. W
  /\ sliceSize \in Nat
  /\ slice \in 0 .. slices
  /\ rest \in SUBSET RingKey
  /\ firstPlaced \in BOOLEAN
  /\ previousKey \in RingKey
  /\ keys \in [0 .. (IF pc = "new" THEN 0 ELSE slice) - 1 -> SUBSET RingKey]
  /\ lastKey \in RingKey

\* Whatever the number of slices asked for, a finished map answers every key
\* with the ring predecessor of that key among the positions it was built from:
\* slicing and the virtual position 0 are invisible (findClosest).
LookupIsRingPredecessor ==
  pc = "ready" =>
    \A key \in RingKey : FindClosest(key) = RingPredecessor(initKeys, key)

\* The lookup steps its iterator back only from an entry that has a smaller
\* one in the same slice: it never steps back from begin(), which is undefined.
NoStepBelowBegin ==
  pc = "ready" =>
    \A key \in RingKey : SliceOf(key) \in DOMAIN keys /\ AtOrBelow(key) # {}

\* The constructor hands out a map for which every position was placed in some
\* slice: its loop ends and the iterator has reached the end.
ConstructionCompletes == pc = "building" ~> (pc = "ready" /\ rest = {})

--------------------------------------------------------------------------------
(* The inductive invariant.                                                *)

\* First key of slice s; the end of the key space for s = slices.
StartOf(s) == IF s = slices THEN 2^W ELSE s * sliceSize

Below(x) == {k \in initKeys : k < x}

\* What a built slice holds.
SliceContents(s) ==
  {k \in initKeys : StartOf(s) <= k /\ k < StartOf(s + 1)}
    \cup (IF StartOf(s) \in initKeys THEN {}
          ELSE {IF Below(StartOf(s)) = {} THEN 0
                                          ELSE Max(Below(StartOf(s)))})

\* The slices divide the key space.
SlicesDivide ==
  \E shift \in 0 .. W :
    /\ slices = 2^shift
    /\ bitShift = W - shift
    /\ sliceSize = 2^(W - shift) \/ (shift = 0 /\ sliceSize = 2^W - 1)

\* The iterator stands at the first position of the slice to build next, and
\* previousKey is the position before it.
IteratorInStep ==
  /\ rest = {k \in initKeys : k >= StartOf(slice)}
  /\ firstPlaced <=> Below(StartOf(slice)) # {}
  /\ firstPlaced => previousKey = Max(Below(StartOf(slice)))

LastKeyClosesRing == lastKey = IF 0 \in initKeys THEN 0 ELSE Max(initKeys)

SlicesFilled == \A s \in 0 .. slice - 1 : keys[s] = SliceContents(s)

\* The inductive invariant: the slices divide the key space, the iterator
\* stands where the loop counter says, and every slice built so far holds its
\* positions and its carry.
RingInv ==
  /\ RingTypeOK
  /\ pc # "new" => /\ initKeys # {}
                   /\ SlicesDivide
                   /\ IteratorInStep
                   /\ LastKeyClosesRing
                   /\ SlicesFilled
  /\ pc = "ready" => slice = slices
================================================================================
