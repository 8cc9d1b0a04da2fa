------------------------------- MODULE CrushPerm -------------------------------
(***************************************************************************)
(* dadisi/mapper.cpp, bucket_perm_choose: the r-th item of a bucket in a   *)
(* random permutation that depends on x alone.  The bucket caches the      *)
(* permutation of the last x, as far as it was needed, and a call for      *)
(* r = 0 computes no more than the first element and leaves a marker.      *)
(*                                                                         *)
(* Any number of threads may place extents on one bucket (compare.cpp      *)
(* shares its distributors), and crushwrapper.h lets one of them at a time *)
(* into crush_do_rule, which makes any number of choices.  Each statement  *)
(* that reads or writes the bucket is a step; the swap of two elements is  *)
(* one.                                                                    *)
(***************************************************************************)
EXTENDS Integers

CONSTANTS
  Thread,       \* the threads that place extents
  X,            \* values of x, 0 among them
  MaxSize       \* bound of the model: items of the bucket

Magic == 65535      \* perm_n when only the first element is there
Undefined == -1     \* what malloc leaves in perm

\* A bucket of more items would count its elements up to the marker.
ASSUME InputAssumption == 0 \in X /\ MaxSize \in 1 .. Magic - 1

VARIABLES
  size,         \* bucket->size
  hash,         \* x -> p -> disthash_3(x, id, p) % (size - p)
  perm_x,       \* bucket->perm_x
  perm_n,       \* bucket->perm_n
  perm,         \* bucket->perm
  holder,       \* the threads that hold the mutex of do_rule
  pc, x, pr,    \* of each thread: where it is, and its arguments, r % size
  i,            \* the counter of the loop a thread is in
  p,            \* the element a thread is about to swap
  s             \* the position a thread returns

bucket == <<size, hash>>
arguments == <<x, pr>>
permVars == <<bucket, perm_x, perm_n, perm, holder, pc, arguments, i, p, s>>

Position == 0 .. size - 1

\* What the swaps make of the identity: the n-th exchanges element n - 1 with one at or
\* behind it.
Shuffled(v) ==
  LET shuffled[n \in 0 .. size] ==
        IF n = 0 THEN [j \in Position |-> j]
        ELSE LET before == shuffled[n - 1]
                 other == n - 1 + hash[v][n - 1]
             IN  [before EXCEPT ![n - 1] = before[other], ![other] = before[n - 1]]
  IN  shuffled

\* The permutation of a value of x
Permutation(v) == Shuffled(v)[size]

--------------------------------------------------------------------------------

\* A bucket that crush_make_uniform_bucket cleared.
PermInit ==
  /\ size \in 1 .. MaxSize
  /\ hash \in [X -> {h \in [Position -> Position] : \A n \in Position : n + h[n] < size}]
  /\ perm_x = 0
  /\ perm_n = 0
  /\ perm = [n \in Position |-> Undefined]
  /\ holder = {}
  /\ pc = [t \in Thread |-> "out"]
  /\ x = [t \in Thread |-> 0]
  /\ pr = [t \in Thread |-> 0]
  /\ i = [t \in Thread |-> 0]
  /\ p = [t \in Thread |-> 0]
  /\ s = [t \in Thread |-> 0]

Steps(t, from, to) ==
  /\ pc[t] = from
  /\ pc' = [pc EXCEPT ![t] = to]
  /\ UNCHANGED <<bucket, holder>>

\* Mutant of Lock: do_rule without its mutex.
LockNever(t) ==
  /\ pc[t] = "out"
  /\ holder' = holder \cup {t}
  /\ pc' = [pc EXCEPT ![t] = "idle"]
  /\ UNCHANGED <<bucket, perm_x, perm_n, perm, arguments, i, p, s>>

\* CrushWrapper::do_rule, before and after crush_do_rule.
Lock(t) ==
  /\ pc[t] = "out" /\ holder = {}
  /\ holder' = {t}
  /\ pc' = [pc EXCEPT ![t] = "idle"]
  /\ UNCHANGED <<bucket, perm_x, perm_n, perm, arguments, i, p, s>>

Unlock(t) ==
  /\ pc[t] = "idle"
  /\ holder' = holder \ {t}
  /\ pc' = [pc EXCEPT ![t] = "out"]
  /\ UNCHANGED <<bucket, perm_x, perm_n, perm, arguments, i, p, s>>

CallChoose(t, v, r) ==
  /\ Steps(t, "idle", "test")
  /\ x' = [x EXCEPT ![t] = v]
  /\ pr' = [pr EXCEPT ![t] = r % size]
  /\ UNCHANGED <<perm_x, perm_n, perm, i, p, s>>

Fresh(t) == perm_x # x[t] \/ perm_n = 0

\* A new permutation is started.
TestFresh(t) ==
  /\ Fresh(t)
  /\ Steps(t, "test", "start")
  /\ UNCHANGED <<perm_x, perm_n, perm, arguments, i, p, s>>

\* Only the first element of the permutation is there.
TestMagic(t) ==
  /\ ~Fresh(t)
  /\ perm_n = Magic
  /\ Steps(t, "test", "clean")
  /\ i' = [i EXCEPT ![t] = 1]
  /\ UNCHANGED <<perm_x, perm_n, perm, arguments, p, s>>

TestCached(t) ==
  /\ ~Fresh(t)
  /\ perm_n # Magic
  /\ Steps(t, "test", "extend")
  /\ UNCHANGED <<perm_x, perm_n, perm, arguments, i, p, s>>

StartX(t) ==
  /\ Steps(t, "start", IF pr[t] = 0 THEN "first" ELSE "identity")
  /\ perm_x' = x[t]
  /\ i' = [i EXCEPT ![t] = 0]
  /\ UNCHANGED <<perm_n, perm, arguments, p, s>>

ChooseFirst(t) ==
  /\ Steps(t, "first", "mark")
  /\ s' = [s EXCEPT ![t] = hash[x[t]][0]]
  /\ perm' = [perm EXCEPT ![0] = hash[x[t]][0]]
  /\ UNCHANGED <<perm_x, perm_n, arguments, i, p>>

MarkFirst(t) ==
  /\ Steps(t, "mark", "done")
  /\ perm_n' = Magic
  /\ UNCHANGED <<perm_x, perm, arguments, i, p, s>>

--------------------------------------------------------------------------------

\* An element of the identity, when a permutation is started.
FillIdentity(t) ==
  /\ Steps(t, "identity", IF i[t] + 1 < size THEN "identity" ELSE "reset")
  /\ perm' = [perm EXCEPT ![i[t]] = i[t]]
  /\ i' = [i EXCEPT ![t] = @ + 1]
  /\ UNCHANGED <<perm_x, perm_n, arguments, p, s>>

ResetCount(t) ==
  /\ Steps(t, "reset", "extend")
  /\ perm_n' = 0
  /\ UNCHANGED <<perm_x, perm, arguments, i, p, s>>

\* An element of the identity behind the first, to clean up after r = 0.
CleanElement(t) ==
  /\ Steps(t, "clean", "clean")
  /\ i[t] < size
  /\ perm' = [perm EXCEPT ![i[t]] = i[t]]
  /\ i' = [i EXCEPT ![t] = @ + 1]
  /\ UNCHANGED <<perm_x, perm_n, arguments, p, s>>

\* Mutant of SwapFirst: the element that came first stays at its place, too.
LeaveFirst(t) ==
  /\ Steps(t, "clean", "count")
  /\ i[t] >= size
  /\ UNCHANGED <<perm_x, perm_n, perm, arguments, i, p, s>>

\* perm[perm[0]] = 0
SwapFirst(t) ==
  /\ Steps(t, "clean", "count")
  /\ i[t] >= size
  /\ perm' = [perm EXCEPT ![perm[0]] = 0]
  /\ UNCHANGED <<perm_x, perm_n, arguments, i, p, s>>

CountFirst(t) ==
  /\ Steps(t, "count", "extend")
  /\ perm_n' = 1
  /\ UNCHANGED <<perm_x, perm, arguments, i, p, s>>

--------------------------------------------------------------------------------

\* Mutant of Extend: one element more than needed.
ExtendBeyond(t) ==
  /\ Steps(t, "extend", "swap")
  /\ perm_n <= pr[t] + 1
  /\ p' = [p EXCEPT ![t] = perm_n]
  /\ UNCHANGED <<perm_x, perm_n, perm, arguments, i, s>>

\* The permutation is not known up to pr.
Extend(t) ==
  /\ Steps(t, "extend", "swap")
  /\ perm_n <= pr[t]
  /\ p' = [p EXCEPT ![t] = perm_n]
  /\ UNCHANGED <<perm_x, perm_n, perm, arguments, i, s>>

\* The last element is not swapped.
Swap(t) ==
  LET other == p[t] + hash[x[t]][p[t]]
  IN  /\ Steps(t, "swap", "next")
      /\ IF p[t] < size - 1
           THEN perm' = [perm EXCEPT ![p[t]] = perm[other], ![other] = perm[p[t]]]
           ELSE UNCHANGED perm
      /\ UNCHANGED <<perm_x, perm_n, arguments, i, p, s>>

\* Mutant of CountElement: the last element, which is not swapped, is not counted.
CountSwapped(t) ==
  /\ Steps(t, "next", "extend")
  /\ perm_n' = IF p[t] < size - 1 THEN perm_n + 1 ELSE perm_n
  /\ UNCHANGED <<perm_x, perm, arguments, i, p, s>>

CountElement(t) ==
  /\ Steps(t, "next", "extend")
  /\ perm_n' = perm_n + 1
  /\ UNCHANGED <<perm_x, perm, arguments, i, p, s>>

ReadElement(t) ==
  /\ Steps(t, "extend", "done")
  /\ perm_n > pr[t]
  /\ s' = [s EXCEPT ![t] = perm[pr[t]]]
  /\ UNCHANGED <<perm_x, perm_n, perm, arguments, i, p>>

\* The item at s is returned.  The variables of the call are gone.
Return(t) ==
  /\ Steps(t, "done", "idle")
  /\ x' = [x EXCEPT ![t] = 0]
  /\ pr' = [pr EXCEPT ![t] = 0]
  /\ i' = [i EXCEPT ![t] = 0]
  /\ p' = [p EXCEPT ![t] = 0]
  /\ s' = [s EXCEPT ![t] = 0]
  /\ UNCHANGED <<perm_x, perm_n, perm>>

--------------------------------------------------------------------------------

Choose(t) ==
  \/ TestFresh(t) \/ TestMagic(t) \/ TestCached(t)
  \/ StartX(t) \/ ChooseFirst(t) \/ MarkFirst(t)
  \/ FillIdentity(t) \/ ResetCount(t)
  \/ CleanElement(t) \/ SwapFirst(t) \/ CountFirst(t)
  \/ Extend(t) \/ Swap(t) \/ CountElement(t) \/ ReadElement(t)
  \/ Return(t)

PermNext ==
  \E t \in Thread :
    \/ Lock(t) \/ Unlock(t)
    \/ \E v \in X, r \in 0 .. MaxSize : CallChoose(t, v, r)
    \/ Choose(t)

PermSpec == PermInit /\ [][PermNext]_permVars /\ \A t \in Thread : WF_permVars(Choose(t))

--------------------------------------------------------------------------------

\* The type invariant.  The marker aside, no more elements are counted
\* than there are, and no undefined element is ever returned.
TypeOK ==
  /\ size \in 1 .. MaxSize
  /\ hash \in [X -> [Position -> Position]]
  /\ perm_x \in X
  /\ perm_n \in 0 .. size \cup {Magic}
  /\ perm \in [Position -> Position \cup {Undefined}]
  /\ holder \in SUBSET Thread
  /\ pc \in [Thread -> {"out", "idle", "test", "start", "first", "mark", "identity", 
                        "reset", "clean", "count", "extend", "swap", "next", "done"}]
  /\ x \in [Thread -> X]
  /\ pr \in [Thread -> Position]
  /\ i \in [Thread -> 0 .. size]
  /\ p \in [Thread -> Position]
  /\ s \in [Thread -> Position]

\* A call returns the r-th element of the permutation of its x, whatever the calls
\* before it, of the same or another thread, asked for and left in the cache: the
\* distinct items that crush_choose relies on for distinct r, and the same item for
\* the same arguments at all times.
ReturnsPermutation ==
  \A t \in Thread : pc[t] = "done" => s[t] = Permutation(x[t])[pr[t]]

\* What crush.h says of the cache: perm_x is the "@x for which *perm is defined".
\* While nobody holds the mutex, the elements that are counted as defined are those
\* of its permutation.
PermIsDefinedForX ==
  holder = {} =>
    \A n \in 0 .. (IF perm_n = Magic THEN 1 ELSE perm_n) - 1 :
      perm[n] = Permutation(perm_x)[n]

\* Every call returns.
CallsReturn == \A t \in Thread : pc[t] = "test" ~> pc[t] = "idle"
================================================================================
