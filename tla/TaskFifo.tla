------------------------------ MODULE TaskFifo ------------------------------
(***************************************************************************)
(* What the task queue of glare::TaskManager promises: a FIFO of distinct  *)
(* tasks from which a caller of runTaskGroup may also pull one of its own  *)
(* tasks, wherever that task stands.                                       *)
(***************************************************************************)
EXTENDS Integers, Sequences, SequencesExt

CONSTANT Task

VARIABLE queue

Init == queue = <<>>

(* Some tasks that are not in the queue go to its end.                      *)
AppendNew ==
    /\ IsPrefix(queue, queue')
    /\ IsInjective(queue') /\ ToSet(queue') \subseteq Task

TakeFirst ==
    /\ queue # <<>>
    /\ queue' = Tail(queue)

TakeOut(i) == queue' = RemoveAt(queue, i)

Next ==
    /\ queue' # queue
    /\ TakeFirst \/ AppendNew \/ \E i \in DOMAIN queue : TakeOut(i)

Spec == Init /\ [][Next]_queue
=============================================================================
