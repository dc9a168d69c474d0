--------------------------- MODULE TaskQueueFifo ----------------------------
(***************************************************************************)
(* The list of TaskQueue read as a sequence, which is a TaskFifo.          *)
(***************************************************************************)
EXTENDS TaskQueue

(* The task reached from head by n steps along next.                        *)
After == [t \in Task \cup {NoTask} |-> IF t = NoTask THEN NoTask ELSE next[t]]
Walk[n \in Nat] == IF n = 0 THEN head ELSE After[Walk[n - 1]]

(* How far one gets: beyond the last task every further step is at NULL.    *)
Steps == {n \in 0..Cardinality(Task) - 1 : Walk[n] # NoTask}

QueueSeq == [i \in 1..Cardinality(Steps) |-> Walk[i - 1]]

Fifo == INSTANCE TaskFifo WITH queue <- QueueSeq

(* Read from head along next, the list is a FIFO that an enqueue extends at *)
(* its end and from which a dequeue takes the first task and runTaskGroup   *)
(* one of its own: no operation loses, repeats or reorders another task.    *)
ImplementsFifo == Fifo!Spec

(* What in_queue says of a task, on which runTaskGroup relies to decide     *)
(* whether to run the task itself, is what walking the list would say.      *)
InQueueIsListed == {t \in Task : in_queue[t]} = ToSet(QueueSeq)
=============================================================================
