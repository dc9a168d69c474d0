----------------------------- MODULE TaskQueue ------------------------------
(***************************************************************************)
(* The task queue of glare::TaskManager (utils/TaskManager.cpp): an        *)
(* intrusive doubly linked list through Task::prev and Task::next, with    *)
(* Task::in_queue telling a caller of runTaskGroup whether its task is     *)
(* still in the list.  Every operation runs under queue_mutex, so each is  *)
(* one step.                                                               *)
(***************************************************************************)
EXTENDS Integers, Sequences, FiniteSets, SequencesExt

CONSTANTS Task,         \* the Task objects
          NoTask        \* NULL

ASSUME TaskAssumption == NoTask \notin Task /\ IsFiniteSet(Task)

VARIABLES head,         \* task_queue_head
          tail,         \* task_queue_tail
          prev,         \* Task::prev
          next,         \* Task::next
          in_queue      \* Task::in_queue

queueVars == <<head, tail, prev, next, in_queue>>

QueueTypeOK ==
    /\ head \in Task \cup {NoTask}
    /\ tail \in Task \cup {NoTask}
    /\ prev \in [Task -> Task \cup {NoTask}]
    /\ next \in [Task -> Task \cup {NoTask}]
    /\ in_queue \in [Task -> BOOLEAN]

(* Task::Task leaves prev and next uninitialised; nothing reads them before *)
(* the first enqueue writes them.                                           *)
QueueInit ==
    /\ head = NoTask
    /\ tail = NoTask
    /\ prev = [t \in Task |-> NoTask]
    /\ next = [t \in Task |-> NoTask]
    /\ in_queue = [t \in Task |-> FALSE]

-----------------------------------------------------------------------------
(* The position of t in the sequence ts.                                    *)
Position(ts, t) == CHOOSE i \in DOMAIN ts : ts[i] = t

(* enqueueTaskInternal and enqueueTasksInternal: the tasks of ts, distinct  *)
(* and none of them in the list, go to the tail in order, under one lock.   *)
Enqueue(ts) ==
    LET n == Len(ts)
        Before(t) == LET i == Position(ts, t) IN IF i = 1 THEN tail ELSE ts[i - 1]
        After(t)  == LET i == Position(ts, t) IN IF i = n THEN NoTask ELSE ts[i + 1]
    IN  IF n = 0 THEN UNCHANGED queueVars
        ELSE
        /\ head' = IF tail = NoTask THEN ts[1] ELSE head
        /\ tail' = ts[n]
        /\ prev' = [t \in Task |-> IF t \in ToSet(ts) THEN Before(t) ELSE prev[t]]
        /\ next' = [t \in Task |-> IF t \in ToSet(ts) THEN After(t)
                                   ELSE IF t = tail THEN ts[1] ELSE next[t]]
        /\ in_queue' = [t \in Task |-> t \in ToSet(ts) \/ in_queue[t]]

(* Mutants of Dequeue: the new head's prev is written without asking        *)
(* whether there is a new head; in_queue of the removed task stays set.     *)
DequeueThroughNull ==
    LET second == next[head] IN
    /\ head # NoTask
    /\ head' = second
    /\ tail' = IF second = NoTask THEN NoTask ELSE tail
    /\ prev' = [t \in Task \cup {second} |-> IF t = second THEN NoTask ELSE prev[t]]
    /\ in_queue' = [in_queue EXCEPT ![head] = FALSE]
    /\ UNCHANGED next
DequeueStaysInQueue ==
    LET second == next[head] IN
    /\ head # NoTask
    /\ head' = second
    /\ tail' = IF second = NoTask THEN NoTask ELSE tail
    /\ prev' = [t \in Task |-> IF t = second THEN NoTask ELSE prev[t]]
    /\ UNCHANGED <<in_queue, next>>

(* dequeueTaskInternal once task_queue_head is not NULL.  The removed task  *)
(* keeps its own prev and next.                                             *)
Dequeue ==
    LET second == next[head] IN
    /\ head # NoTask
    /\ head' = second
    /\ tail' = IF second = NoTask THEN NoTask ELSE tail
    /\ prev' = [t \in Task |-> IF t = second THEN NoTask ELSE prev[t]]
    /\ in_queue' = [in_queue EXCEPT ![head] = FALSE]
    /\ UNCHANGED next

(* Mutants of Unlink: task_queue_head moves on though the removed task is   *)
(* not the first; task_queue_tail is not moved off the removed task.        *)
UnlinkMovesHead(t) ==
    /\ in_queue[t]
    /\ head' = next[t]
    /\ tail' = IF tail = t THEN prev[t] ELSE tail
    /\ next' = [u \in Task |-> IF u = prev[t] THEN next[t] ELSE next[u]]
    /\ prev' = [u \in Task |-> IF u = next[t] THEN prev[t] ELSE prev[u]]
    /\ in_queue' = [in_queue EXCEPT ![t] = FALSE]
UnlinkKeepsTail(t) ==
    /\ in_queue[t]
    /\ head' = IF head = t THEN next[t] ELSE head
    /\ next' = [u \in Task |-> IF u = prev[t] THEN next[t] ELSE next[u]]
    /\ prev' = [u \in Task |-> IF u = next[t] THEN prev[t] ELSE prev[u]]
    /\ in_queue' = [in_queue EXCEPT ![t] = FALSE]
    /\ UNCHANGED tail

(* The removal runTaskGroup does for a task that is still in_queue, from    *)
(* wherever in the list it stands.                                          *)
Unlink(t) ==
    /\ in_queue[t]
    /\ head' = IF head = t THEN next[t] ELSE head
    /\ tail' = IF tail = t THEN prev[t] ELSE tail
    /\ next' = [u \in Task |-> IF u = prev[t] THEN next[t] ELSE next[u]]
    /\ prev' = [u \in Task |-> IF u = next[t] THEN prev[t] ELSE prev[u]]
    /\ in_queue' = [in_queue EXCEPT ![t] = FALSE]

-----------------------------------------------------------------------------
(* The queue on its own, used in every way its callers may use it.          *)
QueueNext ==
    \/ \E S \in SUBSET {t \in Task : ~in_queue[t]} : \E ts \in SetToSeqs(S) : Enqueue(ts)
    \/ Dequeue
    \/ \E t \in Task : Unlink(t)

QueueSpec == QueueInit /\ [][QueueNext]_queueVars

-----------------------------------------------------------------------------
(* The links agree with each other and with in_queue: the neighbours of a   *)
(* listed task are listed and point back to it, the first and last tasks    *)
(* are the ones head and tail name.  This is what the three operations rely *)
(* on when they patch a neighbour without searching the list.               *)
LinksConsistent ==
    /\ head = NoTask <=> tail = NoTask
    /\ head # NoTask => in_queue[head] /\ prev[head] = NoTask
    /\ tail # NoTask => in_queue[tail] /\ next[tail] = NoTask
    /\ \A t \in Task : in_queue[t] =>
        /\ IF prev[t] = NoTask THEN head = t
           ELSE in_queue[prev[t]] /\ next[prev[t]] = t
        /\ IF next[t] = NoTask THEN tail = t
           ELSE in_queue[next[t]] /\ prev[next[t]] = t
=============================================================================
