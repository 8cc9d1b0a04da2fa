------------------------------ MODULE ShareInit ------------------------------
(***************************************************************************)
(* dadisi/DistShare.cpp: how setDisks builds its distributors, alone or    *)
(* with a pool of threads that share a list of work packages and the table *)
(* of results, each under a lock of its own.                               *)
(*                                                                         *)
(* The loop that finds the borders of the disks' intervals is sequential   *)
(* and is abstracted to the constant Borders; a distributor is modelled by *)
(* the work package it is built from.  One DistShare is modelled: the      *)
(* programs of the repository never run two threaded setDisks at a time,   *)
(* so the registry that maps distNum to an instance always finds this one. *)
(***************************************************************************)
EXTENDS Integers, FiniteSetsExt

CONSTANTS
  DiskList,     \* arguments of setDisks
  Borders,      \* disks -> the borders of their intervals
  MaxThreads    \* bound of the model: threads a caller may ask for

ASSUME BordersAssumption ==
  /\ DiskList # {}
  /\ Borders \in [DiskList -> (SUBSET Nat) \ {{}}]
ASSUME ThreadsAssumption == MaxThreads \in Nat \ {0}

VARIABLES
  main,         \* where setDisks is
  numThreads,   \* getNumThreads()
  disks,        \* argument of the last setDisks
  workPackages, \* the list, in the order of the borders
  distributors, \* border -> its distributor
  keyFinder,    \* the borders in the key finder
  lockInit,     \* both locks are initialized
  packageLock,  \* thread that holds workPackageLock, or NoThread
  resultLock,   \* thread that holds workPackageResultLock, or NoThread
  i,            \* counter of the loops that start and join the threads
  thread,       \* where each thread is
  workPackage   \* the package each thread took last

caller == <<main, numThreads, disks, keyFinder, lockInit, i>>
shared == <<workPackages, distributors, packageLock, resultLock>>
vars == <<caller, shared, thread, workPackage>>

Worker == 0 .. MaxThreads - 1
NoThread == -1
Border == UNION {Borders[d] : d \in DiskList}
Package == [pos : Border, disks : DiskList]
NoDistributors == [b \in {} |-> {}]

\* Mutant of Packages: the package carries the point the border was tested with.
PackagesOfPoints(d) == {[pos |-> b - 1, disks |-> d] : b \in Borders[d]}

Packages(d) == {[pos |-> b, disks |-> d] : b \in Borders[d]}

\* The list is filled in the order of the borders.
FrontPackage ==
  LET b == Min({p.pos : p \in workPackages})
  IN  CHOOSE p \in workPackages : p.pos = b

\* (*distributors)[package->pos] = the distributor built from the package
StorePackage(p) ==
  distributors' = [b \in DOMAIN distributors \cup {p.pos} |->
                     IF b = p.pos THEN p ELSE distributors[b]]

--------------------------------------------------------------------------------
(* The caller of setDisks.                                                 *)

Init ==
  /\ main = "idle"
  /\ numThreads = 1
  /\ disks \in DiskList
  /\ workPackages = {}
  /\ distributors = NoDistributors
  /\ keyFinder = {}
  /\ lockInit = FALSE
  /\ packageLock = NoThread
  /\ resultLock = NoThread
  /\ i = 0
  /\ thread = [w \in Worker |-> "none"]
  /\ workPackage = [w \in Worker |-> CHOOSE p \in Package : TRUE]

\* Zero threads are refused.
SetNumThreads(n) ==
  /\ main = "idle"
  /\ n > 0
  /\ numThreads' = n
  /\ UNCHANGED <<main, disks, keyFinder, lockInit, i, shared, thread, workPackage>>

\* setDisks up to the first distributor: the old table is deleted.
SetDisks(d) ==
  /\ main = "idle"
  /\ main' = IF numThreads < 2 THEN "alone" ELSE "start"
  /\ disks' = d
  /\ distributors' = NoDistributors
  /\ workPackages' = Packages(d)
  /\ lockInit' = (numThreads >= 2)
  /\ i' = 0
  /\ UNCHANGED <<numThreads, keyFinder, packageLock, resultLock, thread, workPackage>>

\* One iteration of the loop that builds without threads.  workPackages stands for
\* the borders the loop has not reached.
BuildAlone ==
  /\ main = "alone"
  /\ workPackages # {}
  /\ StorePackage(FrontPackage)
  /\ workPackages' = workPackages \ {FrontPackage}
  /\ UNCHANGED <<caller, packageLock, resultLock, thread, workPackage>>

\* The key finder is built, and setDisks returns.
ReturnAlone ==
  /\ main = "alone"
  /\ workPackages = {}
  /\ main' = "idle"
  /\ keyFinder' = Borders[disks]
  /\ UNCHANGED <<numThreads, disks, lockInit, i, shared, thread, workPackage>>

StartThread ==
  /\ main = "start"
  /\ thread' = [thread EXCEPT ![i] = "lock"]
  /\ main' = IF i + 1 < numThreads THEN "start" ELSE "join"
  /\ i' = IF i + 1 < numThreads THEN i + 1 ELSE 0
  /\ UNCHANGED <<numThreads, disks, keyFinder, lockInit, shared, workPackage>>

\* pthread_create fails, and the int that is thrown has no handler: the process ends.
StartFails ==
  /\ main = "start"
  /\ main' = "terminated"
  /\ UNCHANGED <<numThreads, disks, keyFinder, lockInit, i, shared, thread, workPackage>>

\* Mutant of JoinThread: nothing waits for the thread to end.
DetachThread ==
  /\ main = "join"
  /\ i < numThreads
  /\ i' = i + 1
  /\ UNCHANGED <<main, numThreads, disks, keyFinder, lockInit, shared, thread, workPackage>>

JoinThread ==
  /\ main = "join"
  /\ i < numThreads
  /\ thread[i] = "done"
  /\ thread' = [thread EXCEPT ![i] = "none"]
  /\ i' = i + 1
  /\ UNCHANGED <<main, numThreads, disks, keyFinder, lockInit, shared, workPackage>>

\* All threads are joined: the locks are destroyed, the key finder is built.
Return ==
  /\ main = "join"
  /\ i = numThreads
  /\ main' = "idle"
  /\ keyFinder' = Borders[disks]
  /\ lockInit' = FALSE
  /\ UNCHANGED <<numThreads, disks, i, shared, thread, workPackage>>

--------------------------------------------------------------------------------
(* __runInitThread: one iteration of its loop.                             *)

Steps(w, from, to) ==
  /\ main # "terminated"
  /\ thread[w] = from
  /\ thread' = [thread EXCEPT ![w] = to]
  /\ UNCHANGED caller

\* Mutant of LockPackages: the list is read without the lock.
LockPackagesNever(w) ==
  /\ Steps(w, "lock", "take")
  /\ packageLock' = w
  /\ UNCHANGED <<workPackages, distributors, resultLock, workPackage>>

LockPackages(w) ==
  /\ Steps(w, "lock", "take")
  /\ packageLock = NoThread
  /\ packageLock' = w
  /\ UNCHANGED <<workPackages, distributors, resultLock, workPackage>>

\* workPackages->front()
TakePackage(w) ==
  /\ Steps(w, "take", "pop")
  /\ workPackages # {}
  /\ workPackage' = [workPackage EXCEPT ![w] = FrontPackage]
  /\ UNCHANGED shared

\* workPackages->pop_front()
PopPackage(w) ==
  /\ Steps(w, "pop", "unlock")
  /\ workPackages' = workPackages \ {FrontPackage}
  /\ UNCHANGED <<distributors, packageLock, resultLock, workPackage>>

\* The list is empty: terminate is set.
FindNoPackage(w) ==
  /\ Steps(w, "take", "leave")
  /\ workPackages = {}
  /\ UNCHANGED <<shared, workPackage>>

UnlockPackages(w) ==
  /\ Steps(w, "unlock", "build")
  /\ packageLock' = NoThread
  /\ UNCHANGED <<workPackages, distributors, resultLock, workPackage>>

\* Mutant of Leave: a thread that found no package returns at once.
LeaveWithLock(w) ==
  /\ Steps(w, "leave", "done")
  /\ UNCHANGED <<shared, workPackage>>

Leave(w) ==
  /\ Steps(w, "leave", "done")
  /\ packageLock' = NoThread
  /\ UNCHANGED <<workPackages, distributors, resultLock, workPackage>>

\* Mutant of LockResult: the table is written without the lock.
LockResultNever(w) ==
  /\ Steps(w, "build", "store")
  /\ resultLock' = w
  /\ UNCHANGED <<workPackages, distributors, packageLock, workPackage>>

\* The distributor is built, from the package alone, and the table is locked.
LockResult(w) ==
  /\ Steps(w, "build", "store")
  /\ resultLock = NoThread
  /\ resultLock' = w
  /\ UNCHANGED <<workPackages, distributors, packageLock, workPackage>>

StoreResult(w) ==
  /\ Steps(w, "store", "stored")
  /\ StorePackage(workPackage[w])
  /\ UNCHANGED <<workPackages, packageLock, resultLock, workPackage>>

UnlockResult(w) ==
  /\ Steps(w, "stored", "lock")
  /\ resultLock' = NoThread
  /\ UNCHANGED <<workPackages, distributors, packageLock, workPackage>>

--------------------------------------------------------------------------------

Run(w) ==
  \/ LockPackages(w) \/ TakePackage(w) \/ PopPackage(w) \/ FindNoPackage(w)
  \/ UnlockPackages(w) \/ Leave(w)
  \/ LockResult(w) \/ StoreResult(w) \/ UnlockResult(w)

\* What setDisks does on its own once it is called.
Proceed ==
  BuildAlone \/ ReturnAlone \/ StartThread \/ StartFails \/ JoinThread \/ Return

\* The process has ended.
Terminated == main = "terminated" /\ UNCHANGED vars

Next ==
  \/ \E n \in 0 .. MaxThreads : SetNumThreads(n)
  \/ \E d \in DiskList : SetDisks(d)
  \/ Proceed
  \/ \E w \in Worker : Run(w)
  \/ Terminated

\* The operating system runs every thread.
Spec ==
  /\ Init /\ [][Next]_vars
  /\ WF_vars(Proceed) /\ \A w \in Worker : WF_vars(Run(w))

--------------------------------------------------------------------------------

ThreadState == {"none", "lock", "take", "pop", "unlock", "build", "store", "stored",
                "leave", "done"}

\* The type invariant.
TypeOK ==
  /\ main \in {"idle", "alone", "start", "join", "terminated"}
  /\ numThreads \in 0 .. MaxThreads
  /\ disks \in DiskList
  /\ workPackages \in SUBSET Package
  /\ DOMAIN distributors \in SUBSET Border
  /\ distributors \in [DOMAIN distributors -> Package]
  /\ keyFinder \in SUBSET Border
  /\ lockInit \in BOOLEAN
  /\ packageLock \in Worker \cup {NoThread}
  /\ resultLock \in Worker \cup {NoThread}
  /\ i \in 0 .. MaxThreads
  /\ thread \in [Worker -> ThreadState]
  /\ workPackage \in [Worker -> Package]

UsesList == {w \in Worker : thread[w] \in {"take", "pop"}}
UsesTable == {w \in Worker : thread[w] = "store"}

\* Neither std::list nor unordered_map is safe for concurrent use: of the threads and
\* setDisks itself, at most one is ever about to use the list, and one the table.
AccessesAreExclusive ==
  /\ \A v, w \in UsesList : v = w
  /\ \A v, w \in UsesTable : v = w
  /\ main \in {"idle", "alone"} => UsesList \cup UsesTable = {}

\* No thread is left to touch a lock, the list or the table when setDisks has
\* destroyed the locks and returned, or before it has made them.
LocksOutliveThreads ==
  main # "terminated" /\ ~lockInit => \A w \in Worker : thread[w] = "none"

\* With threads or without, setDisks builds the distributor of every border exactly
\* once, from the disks of this call, and returns only when all of them are there
\* for the borders in its key finder.
Table == INSTANCE ShareBuild
           WITH phase <- IF main \in {"idle", "terminated"} THEN main ELSE "building"
ImplementsShareBuild == Table!Spec

\* setDisks returns, or the process ends.
SetDisksReturns == main # "idle" ~> main \in {"idle", "terminated"}

--------------------------------------------------------------------------------
(* The inductive invariant.                                                *)

\* A lock has the holder whose position in the code says so.
LockHolders ==
  \A w \in Worker :
    /\ packageLock = w <=> thread[w] \in {"take", "pop", "unlock", "leave"}
    /\ resultLock = w <=> thread[w] \in {"store", "stored"}

\* The threads that setDisks has started and not joined.
Started ==
  CASE main = "start" -> 0 .. i - 1
    [] main = "join" -> i .. numThreads - 1
    [] OTHER -> {}

RunningThreads ==
  main # "terminated" =>
    /\ \A w \in Worker : thread[w] # "none" <=> w \in Started
    /\ lockInit <=> main \in {"start", "join"}
    /\ main = "start" => i < numThreads
    /\ main = "join" => i <= numThreads /\ numThreads > 0

\* The threads with a package that is in neither the list nor the table.
Holding == {w \in Worker : thread[w] \in {"unlock", "build", "store"}}

\* Every border of the disks is in one place: in the list, with one thread or in
\* the table.
PackagesAccountedFor ==
  main \in {"alone", "start", "join"} =>
    /\ workPackages \subseteq Packages(disks)
    /\ \A p \in workPackages : p.pos \notin DOMAIN distributors
    /\ \A w \in Worker : thread[w] = "pop" =>
         workPackages # {} /\ workPackage[w] = FrontPackage
    /\ \A w \in Holding :
         /\ workPackage[w] \in Packages(disks)
         /\ workPackage[w] \notin workPackages
         /\ workPackage[w].pos \notin DOMAIN distributors
         /\ \A v \in Holding : v # w => workPackage[v] # workPackage[w]
    /\ \A b \in Borders[disks] :
         \/ b \in DOMAIN distributors
         \/ \E p \in workPackages : p.pos = b
         \/ \E w \in Holding : workPackage[w].pos = b
    /\ DOMAIN distributors \subseteq Borders[disks]

\* A thread ends, or is joined, when the list is empty, and it stays empty.
EndsWhenEmpty ==
  /\ \A w \in Worker : thread[w] \in {"leave", "done"} => workPackages = {}
  /\ main = "join" /\ i > 0 => workPackages = {}

IInv ==
  /\ TypeOK
  /\ LockHolders
  /\ RunningThreads
  /\ PackagesAccountedFor
  /\ EndsWhenEmpty
================================================================================
