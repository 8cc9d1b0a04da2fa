------------------------------ MODULE Evaluation ------------------------------
(***************************************************************************)
(* perf_eval/compare.cpp, test.cpp and fileDistTester.cpp: extents are     *)
(* split over threads, each counts what its extents use in tables of its   *)
(* own, and the main thread joins them and adds the tables up.  compare    *)
(* places every extent with all distributors of its list and counts the    *)
(* copies that move from one to the next; fileDistTester places files and  *)
(* stripes the blocks of each over the disks of the file.                  *)
(***************************************************************************)
EXTENDS Integers, SequencesExt, FiniteSetsExt, Functions

CONSTANTS
  Lists,        \* lists of distributors: [capacity: disk -> Nat, at: extent -> disks]
  MaxThreads,   \* bound of the model: -Tn
  MaxExtents,   \* bound of the model: -en
  Blocks,       \* blocks of a file
  IdModulus     \* distributors that an idType can tell apart (2^8)

ASSUME ListsAssumption ==
  \A list \in Lists :
    /\ list \in Seq(ToSet(list)) /\ Len(list) > 0
    /\ \A k \in DOMAIN list :
         /\ IsFiniteSet(DOMAIN list[k].capacity)
         /\ list[k].at \in [0 .. MaxExtents - 1 -> Seq(DOMAIN list[k].capacity)]
ASSUME BoundsAssumption ==
  /\ MaxThreads \in Nat /\ MaxExtents \in Nat \ {0}
  /\ Blocks \in Nat /\ IdModulus \in Nat \ {0}

VARIABLES
  program,      \* which of the three
  list,         \* its distributors; the last two programs have one
  threads,      \* number of threads
  extents,      \* number of extents, or files
  pc,           \* the main thread: "start", "starting", "joining", "done", "crashed", "aborted"
  thread,       \* what each thread was given and where it is: see Given
  turn,         \* next thread that main starts, or joins
  used,         \* thread -> distributor -> disk -> copies counted
  moved         \* thread -> distributor -> copies moved [with, without] regard to order

vars == <<program, list, threads, extents, pc, thread, turn, used, moved>>

Threads == 0 .. threads - 1

\* loadDistributors numbers the distributors; a later one replaces that of the same number.
Id(k) == (k - 1) % IdModulus
AllIds == {Id(k) : k \in DOMAIN list}
Loaded(id) == Max({k \in DOMAIN list : Id(k) = id})

\* Disks that the k-th number of the list stands for, and where they place extent i
Disks(id) == DOMAIN list[Loaded(id)].capacity
Chosen(k, i) == list[Loaded(Id(k))].at[i]
Copies(i) ==
  {<<k, c>> : k \in DOMAIN list, c \in 1 .. Max({Len(Chosen(k, i)) : k \in DOMAIN list})}

Init ==
  /\ program \in {"compare", "test", "fileDistTester"}
  /\ list \in Lists /\ (program # "compare" => Len(list) = 1)
  /\ threads \in (IF program = "fileDistTester" THEN 1 ELSE 0) .. MaxThreads
  /\ extents \in 1 .. MaxExtents
  /\ pc = "start" /\ turn = 0
  /\ thread = <<>> /\ used = <<>> /\ moved = <<>>

---------------------------------------------------------------------------
\* Extents of a thread: the first ones get one of the rest each.
Share(t) == (extents \div threads) + (IF t < extents % threads THEN 1 ELSE 0)

First(t) ==
  IF program = "fileDistTester" THEN 0 ELSE SumFunction([u \in 0 .. t - 1 |-> Share(u)])

Given(t) == [state |-> "new", next |-> First(t), last |-> First(t) + Share(t)]

\* Zero threads divide by zero; only fileDistTester refuses them.
RunThreads ==
  /\ pc = "start"
  /\ pc' = IF threads = 0 THEN "crashed" ELSE "starting"
  /\ thread' = [t \in Threads |-> Given(t)]
  /\ used' = [t \in Threads |-> [id \in AllIds |-> [d \in Disks(id) |-> 0]]]
  /\ moved' = [t \in Threads |-> [id \in AllIds |-> [with |-> 0, without |-> 0]]]
  /\ UNCHANGED <<program, list, threads, extents, turn>>

\* Mutant of Turn: main stays at the same thread.
TurnToTheSame(next) == UNCHANGED <<turn, pc>>

\* Main goes on to the next thread, and at the last one to what comes after.
Turn(next) ==
  /\ turn' = (turn + 1) % threads
  /\ pc' = IF turn' = 0 THEN next ELSE pc

\* One thread is none: main does the work itself.
StartThread ==
  /\ pc = "starting"
  /\ thread' = [thread EXCEPT ![turn].state = "running"]
  /\ Turn("joining")
  /\ UNCHANGED <<program, list, threads, extents, used, moved>>

\* fileDistTester prints a message and goes on, the others abort.
StartFails ==
  /\ pc = "starting" /\ threads > 1
  /\ IF program = "fileDistTester"
     THEN Turn("joining") /\ thread' = [thread EXCEPT ![turn].state = "failed"]
     ELSE pc' = "aborted" /\ UNCHANGED <<turn, thread>>
  /\ UNCHANGED <<program, list, threads, extents, used, moved>>

---------------------------------------------------------------------------
Running(t) == pc \in {"starting", "joining"} /\ t \in Threads /\ thread[t].state = "running"

\* Copies of extent i that the threads count for a disk of a distributor
Uses(id, d, i) ==
  Cardinality({kc \in Copies(i) :
    /\ Id(kc[1]) = id
    /\ kc[2] \in DOMAIN Chosen(kc[1], i) /\ Chosen(kc[1], i)[kc[2]] = d})

\* The blocks of a file, one copy each, striped over its disks (RoundRobin, the default)
BlocksOn(d, i) ==
  Cardinality({j \in 0 .. Blocks - 1 : Chosen(1, i)[(j % Len(Chosen(1, i))) + 1] = d})

Counted(id, d, i) == IF program = "fileDistTester" THEN BlocksOn(d, i) ELSE Uses(id, d, i)

\* Where a disk is in a list: its last place
Place(disks, d) == Max({c \in DOMAIN disks : disks[c] = d})

\* Mutant of MovesTo: counted for the distributor the copies move from.
MovesFrom(id, i, byOrder) ==
  Cardinality({kc \in Copies(i) :
    /\ kc[1] > 1 /\ Id(kc[1] - 1) = id
    /\ LET before == Chosen(kc[1] - 1, i)
           after  == Chosen(kc[1], i)
       IN  /\ kc[2] \in DOMAIN after
           /\ \/ after[kc[2]] \notin ToSet(before)
              \/ byOrder /\ Place(before, after[kc[2]]) # kc[2]})

\* Copies of extent i that come to a distributor: from no disk that had one, or in another order.
MovesTo(id, i, byOrder) ==
  Cardinality({kc \in Copies(i) :
    /\ kc[1] > 1 /\ Id(kc[1]) = id
    /\ LET before == Chosen(kc[1] - 1, i)
           after  == Chosen(kc[1], i)
       IN  /\ kc[2] \in DOMAIN after
           /\ \/ after[kc[2]] \notin ToSet(before)
              \/ byOrder /\ Place(before, after[kc[2]]) # kc[2]})

PlaceExtent(t) ==
  /\ Running(t) /\ thread[t].next < thread[t].last
  /\ LET i == thread[t].next
     IN  /\ used' = [used EXCEPT ![t] =
              [id \in AllIds |-> [d \in Disks(id) |-> @[id][d] + Counted(id, d, i)]]]
         /\ moved' = [moved EXCEPT ![t] =
              [id \in AllIds |-> [with    |-> @[id].with + MovesTo(id, i, TRUE),
                                  without |-> @[id].without + MovesTo(id, i, FALSE)]]]
         /\ thread' = [thread EXCEPT ![t].next = i + 1]
  /\ UNCHANGED <<program, list, threads, extents, pc, turn>>

EndThread(t) ==
  /\ Running(t) /\ thread[t].next >= thread[t].last
  /\ thread' = [thread EXCEPT ![t].state = "ended"]
  /\ UNCHANGED <<program, list, threads, extents, pc, turn, used, moved>>

\* Mutant of MayJoin: a thread is joined before it ended.
MayJoinRunning(t) == thread[t].state # "new"

MayJoin(t) == thread[t].state \in {"ended", "failed"}

Join ==
  /\ pc = "joining" /\ MayJoin(turn)
  /\ Turn("done")
  /\ UNCHANGED <<program, list, threads, extents, thread, used, moved>>

\* The handle of a thread that was not started is not initialized.
JoinGarbage ==
  /\ pc = "joining" /\ thread[turn].state = "failed"
  /\ pc' = "crashed"
  /\ UNCHANGED <<program, list, threads, extents, thread, turn, used, moved>>

\* crunchData: the tables of the threads are added up, and the results written.
Used(id, d) == SumFunction([t \in Threads |-> used[t][id][d]])
MovedWithOrder(id) == SumFunction([t \in Threads |-> moved[t][id].with])
MovedWithoutOrder(id) == SumFunction([t \in Threads |-> moved[t][id].without])

Ended ==
  /\ pc \in {"done", "crashed", "aborted"}
  /\ UNCHANGED vars

Next ==
  \/ RunThreads \/ StartThread \/ StartFails \/ Join \/ JoinGarbage \/ Ended
  \/ \E t \in Threads : PlaceExtent(t) \/ EndThread(t)

Spec == Init /\ [][Next]_vars

Main == RunThreads \/ StartThread \/ StartFails \/ Join \/ JoinGarbage

\* The scheduler lets every thread run.
FairSpec ==
  /\ Spec /\ WF_vars(Main)
  /\ \A t \in 0 .. MaxThreads - 1 : WF_vars(PlaceExtent(t) \/ EndThread(t))

---------------------------------------------------------------------------
Failed == {t \in DOMAIN thread : thread[t].state = "failed"}

(* The results do not depend on the number of threads: every extent is     *)
(* counted once.  Not so in fileDistTester, where every thread begins with *)
(* file 0, and not for distributors whose numbers collide.                 *)
ResultsAreOfAllExtents ==
  pc = "done" /\ (program = "fileDistTester" => threads = 1) =>
    \A k \in DOMAIN list :
      Cardinality(AllIds) = Len(list) =>
        \A d \in DOMAIN list[k].capacity :
          Used(Id(k), d) =
            SumFunction([i \in 0 .. extents - 1 |->
              IF program = "fileDistTester" THEN BlocksOn(d, i)
              ELSE Cardinality({c \in DOMAIN list[k].at[i] : list[k].at[i][c] = d})])

\* Disks that only one of two neighbours in the list has
Added(k) == Disks(Id(k)) \ Disks(Id(k - 1))
Removed(k) == Disks(Id(k - 1)) \ Disks(Id(k))
UsedOf(id, disks) == SumFunction([d \in disks |-> Used(id, d)])

(* writeCompare's columns fit together: every copy on an added disk and,   *)
(* with distinct disks and as many copies before and after, every copy on  *)
(* a removed one has moved; moving in order counts all moves.              *)
MovesCoverChanges ==
  pc = "done" /\ program = "compare" /\ Cardinality(AllIds) = Len(list) =>
    \A k \in 2 .. Len(list) :
      LET id == Id(k)
      IN  /\ UsedOf(id, Added(k)) <= MovedWithoutOrder(id)
          /\ (\A i \in 0 .. extents - 1 :
                /\ IsInjective(Chosen(k, i)) /\ IsInjective(Chosen(k - 1, i))
                /\ Len(Chosen(k, i)) = Len(Chosen(k - 1, i)))
               => UsedOf(Id(k - 1), Removed(k)) <= MovedWithoutOrder(id)
          /\ MovedWithoutOrder(id) <= MovedWithOrder(id)

(* Every program comes to its results, unless it was told to use no        *)
(* threads or a thread could not be started.                               *)
ComesToResults ==
  <>(pc = "done" \/ (pc = "crashed" /\ threads = 0) \/ pc = "aborted" \/ Failed # {})
===============================================================================
