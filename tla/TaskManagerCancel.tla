------------------------- MODULE TaskManagerCancel --------------------------
(***************************************************************************)
(* TaskManager with removeQueuedTasks and cancelAndWaitForTasksToComplete, *)
(* which any client may call while others add tasks, run groups or wait.   *)
(***************************************************************************)
EXTENDS TaskManager, TaskQueueFifo

VARIABLES to_cancel,    \* per client: runners its cancelling loop has yet to visit
          cancelled     \* tasks whose cancelTask() was called since they were added

cancelVars == <<vars, to_cancel, cancelled>>

CancelPC == ClientPC \cup {"cancel"}

CancelTypeOK ==
    /\ QueueTypeOK
    /\ num_unfinished \in Int
    /\ cpc \in [Clients -> CancelPC]
    /\ to_cancel \in [Clients -> SUBSET Runners]
    /\ cancelled \subseteq Task

CancelInit ==
    /\ Init
    /\ to_cancel = [c \in Clients |-> {}]
    /\ cancelled = {}

(* TaskRunnerThread::current_task of runner r.                              *)
current_task(r) ==
    IF rpc[r] \in {"run", "groupDec", "groupNotify", "clear"} THEN rtask[r] ELSE NoTask

(* The tasks the loop of removeQueuedTasks goes through, from head along    *)
(* next.                                                                    *)
Listed == ToSet(QueueSeq)

(* Mutant of RemoveQueuedTasks: the tasks are not counted out.              *)
RemoveUncounted ==
    /\ QueueFree
    /\ head' = NoTask /\ tail' = NoTask
    /\ UNCHANGED <<prev, next, in_queue, num_unfinished>>
    /\ outstanding' = outstanding \ Listed

(* The loop empties the list under queue_mutex and counts each task out.    *)
(* It leaves the tasks' in_queue and links as they were, and notifies no    *)
(* one.  A count of 0 cannot be seen before the last iteration, so that the *)
(* count changes by steps is not modelled.                                  *)
RemoveQueuedTasks ==
    /\ QueueFree
    /\ head' = NoTask /\ tail' = NoTask
    /\ UNCHANGED <<prev, next, in_queue>>
    /\ num_unfinished' = num_unfinished - Cardinality(Listed)
    /\ outstanding' = outstanding \ Listed

RemoveTasks(c) ==
    /\ cpc[c] = "idle" /\ mpc = "alive"
    /\ RemoveQueuedTasks
    /\ awaited' = [d \in Clients |-> awaited[d] \ Listed]
    /\ UNCHANGED <<runnerVars, groupVars, clientVars, quitVars, to_cancel, cancelled>>

CancelStart(c) ==
    /\ cpc[c] = "idle" /\ mpc = "alive"
    /\ RemoveQueuedTasks
    /\ cpc' = [cpc EXCEPT ![c] = "cancel"]
    /\ to_cancel' = [to_cancel EXCEPT ![c] = Runners]
    /\ awaited' = [d \in Clients |-> IF d = c THEN {t \in Task : RunBy(t)}
                                     ELSE awaited[d] \ Listed]
    /\ UNCHANGED <<runnerVars, groupVars, carg, quitVars, cancelled>>

(* Mutant of CancelRunner: the loop ends after one runner.                  *)
CancelOneRunner(c) ==
    /\ cpc[c] = "cancel"
    /\ \E r \in to_cancel[c] :
        /\ to_cancel' = [to_cancel EXCEPT ![c] = {}]
        /\ cancelled' = cancelled \cup ({current_task(r)} \ {NoTask})
    /\ UNCHANGED vars

(* threads[i]->cancelTasks(): the runner's current task, if it has one.     *)
CancelRunner(c) ==
    /\ cpc[c] = "cancel"
    /\ \E r \in to_cancel[c] :
        /\ to_cancel' = [to_cancel EXCEPT ![c] = @ \ {r}]
        /\ cancelled' = cancelled \cup ({current_task(r)} \ {NoTask})
    /\ UNCHANGED vars

CancelWait(c) ==
    /\ cpc[c] = "cancel" /\ to_cancel[c] = {}
    /\ cpc' = [cpc EXCEPT ![c] = IF Runners = {} THEN "drain" ELSE "wait"]
    /\ Runners = {} => QueueFree
    /\ awaited' = [awaited EXCEPT ![c] = outstanding]
    /\ UNCHANGED <<queueVars, num_unfinished, runnerVars, groupVars, carg, quitVars,
                   outstanding, to_cancel, cancelled>>

(* A step of the rest of the manager; a task added afresh is not cancelled. *)
Other(Step) == Step /\ UNCHANGED to_cancel /\ cancelled' = cancelled \ (outstanding' \ outstanding)

CancelNext ==
    \/ Other(Next)
    \/ \E c \in Clients : RemoveTasks(c) \/ CancelStart(c) \/ CancelRunner(c) \/ CancelWait(c)

CancelSpec == CancelInit /\ [][CancelNext]_cancelVars

-----------------------------------------------------------------------------
(* "Calls cancelTask() on all tasks being currently executed in             *)
(* TaskRunnerThreads": a task whose run() was being executed when the queue *)
(* was emptied has ended, or been cancelled, before the call waits.         *)
CancelCovers ==
    \A c \in Clients : cpc[c] = "cancel" /\ cpc'[c] # "cancel" => awaited[c] \subseteq cancelled
CancelReachesRunning == [][CancelCovers]_cancelVars

(* The assertion of taskFinished and removeQueuedTasks:                     *)
(* assert(num_unfinished_tasks >= 0).                                       *)
UnfinishedNotNegative == num_unfinished >= 0
=============================================================================
