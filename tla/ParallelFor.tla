---------------------------- MODULE ParallelFor -----------------------------
(***************************************************************************)
(* runParallelForTasks and runParallelForTasksInterleaved                  *)
(* (utils/TaskManager.h): the index range begin <= i < end is split among  *)
(* the tasks of a group, at most one for each thread that can run them.    *)
(* runTaskGroup runs each task of the group once, in whatever order        *)
(* (TaskManager).                                                          *)
(***************************************************************************)
EXTENDS Integers

CONSTANTS WordSize,         \* 2^64: indices are size_t
          MaxEnd,           \* bound: the greatest end
          MaxConcurrency    \* bound: the greatest getConcurrency()

(* The code adds up to concurrency - 1 to an end before it takes the least. *)
ASSUME ParallelForAssumption ==
    /\ WordSize \in Nat /\ MaxEnd \in Nat /\ MaxConcurrency \in Nat \ {0}
    /\ MaxEnd + MaxConcurrency <= WordSize

VARIABLES concurrency,      \* getConcurrency(): the runner threads and the caller
          begin, end,       \* the range of the call
          group,            \* the tasks of the call's group: first index, end, stride
          todo,             \* those runTaskGroup has yet to run
          touched,          \* per index, how often a task's run() came to it
          pc

rangeVars == <<concurrency, begin, end, group, todo, touched, pc>>

Index == 0..MaxEnd
ForTask == [begin : Index, end : Index, stride : 1..MaxConcurrency]

RangesTypeOK ==
    /\ concurrency \in 1..MaxConcurrency
    /\ begin \in Index /\ end \in Index
    /\ DOMAIN group \subseteq 1..MaxConcurrency /\ todo \subseteq DOMAIN group
    /\ \A k \in DOMAIN group : group[k] \in ForTask
    /\ touched \in [Index -> Nat]
    /\ pc \in {"idle", "run"}

InitRanges ==
    /\ concurrency \in 1..MaxConcurrency
    /\ begin = 0 /\ end = 0
    /\ group = <<>> /\ todo = {}
    /\ touched = [i \in Index |-> 0]
    /\ pc = "idle"

-----------------------------------------------------------------------------
Least(a, b) == IF a < b THEN a ELSE b

RoundedUpDivide(a, b) == ((a + b - 1) % WordSize) \div b

NumTasks(b, e) == Least(e - b, concurrency)

(* Mutant of TaskRange: the sizes are rounded down.                         *)
TaskRangeRoundedDown(b, e, t) ==
    LET n == (e - b) \div NumTasks(b, e) IN
    [begin  |-> Least((b + t * n) % WordSize, e),
     end    |-> Least((b + (t + 1) * n) % WordSize, e),
     stride |-> 1]

(* The part of task t, counted from 0.                                      *)
TaskRange(b, e, t) ==
    LET n == RoundedUpDivide(e - b, NumTasks(b, e)) IN
    [begin  |-> Least((b + t * n) % WordSize, e),
     end    |-> Least((b + (t + 1) * n) % WordSize, e),
     stride |-> 1]

Ranges(b, e) == [i \in 1..NumTasks(b, e) |-> TaskRange(b, e, i - 1)]

(* runParallelForTasks makes no task for an empty part; given a group to    *)
(* use again, it sets all of the group's tasks.  Tasks are named by their   *)
(* number in the split: their order in the group does not matter here.      *)
NewTasks(b, e) ==
    LET parts == Ranges(b, e)
    IN  [k \in {i \in DOMAIN parts : parts[i].begin < parts[i].end} |-> parts[k]]
ReusedTasks(b, e) == Ranges(b, e)

(* runParallelForTasksInterleaved: the tasks take turns.                    *)
InterleavedTasks(b, e) ==
    [i \in 1..NumTasks(b, e) |->
        [begin |-> b + i - 1, end |-> e, stride |-> NumTasks(b, e)]]

-----------------------------------------------------------------------------
(* A call; the caller's counts are 0 before it.                             *)
Call(b, e) ==
    /\ pc = "idle"
    /\ begin' = b /\ end' = e
    /\ IF b >= e THEN group' = <<>>
       ELSE group' \in {NewTasks(b, e), ReusedTasks(b, e), InterleavedTasks(b, e)}
    /\ todo' = DOMAIN group'
    /\ touched' = [i \in Index |-> 0]
    /\ pc' = "run"
    /\ UNCHANGED concurrency

(* One task's run(): a loop from its first index, by its stride, to its end. *)
Visits(r, i) == r.begin <= i /\ i < r.end /\ (i - r.begin) % r.stride = 0

RunTask(k) ==
    /\ pc = "run" /\ k \in todo
    /\ touched' = [i \in Index |->
                     IF Visits(group[k], i) THEN touched[i] + 1 ELSE touched[i]]
    /\ todo' = todo \ {k}
    /\ UNCHANGED <<concurrency, begin, end, group, pc>>

Return ==
    /\ pc = "run" /\ todo = {}
    /\ pc' = "idle"
    /\ UNCHANGED <<concurrency, begin, end, group, todo, touched>>

NextRanges ==
    \/ \E b, e \in Index : Call(b, e)
    \/ \E k \in todo : RunTask(k)
    \/ Return

RangesSpec == InitRanges /\ [][NextRanges]_rangeVars

-----------------------------------------------------------------------------
(* Every index of the range is worked on by exactly one task, and no other  *)
(* index is (TaskTests.cpp: touch_count[i] == 1, and 0 at the border),      *)
(* whatever the range and the number of threads.                            *)
EachIndexOnce ==
    pc = "idle" => \A i \in Index : touched[i] = IF begin <= i /\ i < end THEN 1 ELSE 0
=============================================================================
