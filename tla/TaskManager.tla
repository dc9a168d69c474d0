---------------------------- MODULE TaskManager -----------------------------
(***************************************************************************)
(* glare::TaskManager (utils/TaskManager.cpp) with its TaskRunnerThreads   *)
(* and TaskGroups: a pool of threads that takes tasks off one queue, and   *)
(* callers that add tasks, run groups of tasks, and wait.                  *)
(*                                                                         *)
(* Who takes steps: the runner threads; each call of runTaskGroup, named   *)
(* by its group, whichever thread makes it (a task's run() may make one);  *)
(* the client threads inside addTask, addTasks or waitForTasksToComplete;  *)
(* and the thread that destroys the manager.  A block under one mutex is   *)
(* one step; a notify is a step of its own, the code makes it unlocked.    *)
(*                                                                         *)
(* removeQueuedTasks and cancellation are in TaskManagerCancel.            *)
(***************************************************************************)
EXTENDS TaskQueue, FiniteSets

CONSTANTS Runners,      \* the TaskRunnerThreads
          Clients,      \* threads that call addTask, addTasks, waitForTasksToComplete
          Groups,       \* TaskGroup objects, and the runTaskGroup call on each
          GroupTasks,   \* TaskGroup::tasks
          PlainTasks,   \* tasks given to addTask and addTasks
          QuitTasks,    \* the QuitRunnerTasks of ~TaskManager, one per runner
          Nested,       \* the group a task's run() passes to runTaskGroup, if any
          NoGroup,
          MaxBatch      \* bound: the most tasks one addTasks is given

Members(g) == ToSet(GroupTasks[g])

ASSUME TaskManagerAssumption ==
    /\ GroupTasks \in [Groups -> Seq(Task)]
    /\ \A g \in Groups : Len(GroupTasks[g]) > 0 /\ IsInjective(GroupTasks[g])
    /\ \A g, h \in Groups : g # h => Members(g) \cap Members(h) = {}
    /\ \A g \in Groups : Members(g) \cap (PlainTasks \cup QuitTasks) = {}
    /\ PlainTasks \subseteq Task /\ QuitTasks \subseteq Task
    /\ PlainTasks \cap QuitTasks = {}
    /\ IsFiniteSet(QuitTasks) /\ IsFiniteSet(Runners)
    /\ Cardinality(QuitTasks) = Cardinality(Runners)
    /\ NoGroup \notin Groups
    /\ Nested \in [Task -> Groups \cup {NoGroup}]
    /\ \A t, u \in Task : t # u /\ Nested[t] = Nested[u] => Nested[t] = NoGroup

VARIABLES num_unfinished,   \* num_unfinished_tasks
          rpc, rtask,       \* TaskRunnerThread::run: where it is, its local task
          gpc, gi,          \* runTaskGroup: where it is, its loop counter i
          gcount,           \* TaskGroup::num_unfinished_tasks
          cpc, carg,        \* a client: where it is, the tasks it handles
          mpc, quits,       \* ~TaskManager: where it is, the QuitRunnerTasks sent
          (* history *)
          outstanding,      \* tasks counted in num_unfinished whose run() has not ended
          awaited           \* per client: what was outstanding when its wait began

runnerVars == <<rpc, rtask>>
groupVars  == <<gpc, gi, gcount>>
clientVars == <<cpc, carg>>
quitVars   == <<mpc, quits>>
history    == <<outstanding, awaited>>
vars == <<queueVars, num_unfinished, runnerVars, groupVars, clientVars, quitVars, history>>

RunnerPC == {"dequeue", "asleep", "current", "run", "groupDec", "groupNotify",
             "clear", "finish", "finishNotify", "done"}
GroupPC  == {"idle", "count", "enqueue", "notifyAll", "take", "run", "finish",
             "finishNotify", "dec", "wait", "asleep", "returned"}
ClientPC == {"idle", "enqueue", "notify", "notifyAll", "wait", "asleep",
             "drain", "drainRun", "drainDec", "returned"}
QuitPC   == {"alive", "enqueue", "notify", "join", "destroyed"}

TypeOK ==
    /\ QueueTypeOK
    /\ num_unfinished \in Int
    /\ rpc \in [Runners -> RunnerPC] /\ rtask \in [Runners -> Task \cup {NoTask}]
    /\ gpc \in [Groups -> GroupPC] /\ gi \in [Groups -> Nat \ {0}] /\ gcount \in [Groups -> Int]
    /\ cpc \in [Clients -> ClientPC] /\ carg \in [Clients -> Seq(Task)]
    /\ mpc \in QuitPC /\ quits \subseteq QuitTasks
    /\ outstanding \subseteq Task
    /\ awaited \in [Clients -> SUBSET Task]

Init ==
    /\ QueueInit
    /\ num_unfinished = 0
    /\ rpc = [r \in Runners |-> "dequeue"] /\ rtask = [r \in Runners |-> NoTask]
    /\ gpc = [g \in Groups |-> "idle"] /\ gi = [g \in Groups |-> 1]
    /\ gcount = [g \in Groups |-> 0]
    /\ cpc = [c \in Clients |-> "idle"] /\ carg = [c \in Clients |-> <<>>]
    /\ mpc = "alive" /\ quits = {}
    /\ outstanding = {}
    /\ awaited = [c \in Clients |-> {}]

-----------------------------------------------------------------------------
(* The task the call on g is at, the ones it puts in the queue.             *)
Current(g) == GroupTasks[g][gi[g]]
Queued(g)  == Tail(GroupTasks[g])

(* Whose run() is being executed.                                           *)
RunBy(t) ==
    \/ \E r \in Runners : rpc[r] = "run" /\ rtask[r] = t
    \/ \E g \in Groups : gpc[g] = "run" /\ Current(g) = t
    \/ \E c \in Clients : cpc[c] = "drainRun" /\ carg[c] = <<t>>

(* The group call on g is made by no task's run().                          *)
TopLevel(g) == \A t \in Task : Nested[t] # g

(* With no runner threads waitForTasksToComplete keeps queue_mutex while it *)
(* runs tasks.  The mutex is recursive, so a group call made by the task it *)
(* is running may take it.                                                  *)
QueueFree == \A c \in Clients : cpc[c] \notin {"drain", "drainRun", "drainDec"}
QueueFreeFor(g) ==
    \A c \in Clients : /\ cpc[c] \notin {"drain", "drainDec"}
                       /\ cpc[c] = "drainRun" => Nested[carg[c][1]] = g

(* A condition variable's notify: one sleeper, if there is any; all of them. *)
WakeOneRunner ==
    IF \E r \in Runners : rpc[r] = "asleep"
    THEN \E r \in Runners : rpc[r] = "asleep" /\ rpc' = [rpc EXCEPT ![r] = "dequeue"]
    ELSE UNCHANGED rpc
WakeAllRunners ==
    rpc' = [r \in Runners |-> IF rpc[r] = "asleep" THEN "dequeue" ELSE rpc[r]]
WakeAllWaiters ==
    cpc' = [c \in Clients |-> IF cpc[c] = "asleep" THEN "wait" ELSE cpc[c]]

(* The end of task t's run(), in the group call it made too: one that has   *)
(* returned may be made again.                                              *)
MayEnd(t) == Nested[t] # NoGroup => gpc[Nested[t]] = "returned"
AfterEnd(t, pcs) == [g \in Groups |-> IF g = Nested[t] THEN "idle" ELSE pcs[g]]
RecordEnd(t) ==
    /\ outstanding' = outstanding \ {t}
    /\ awaited' = [c \in Clients |-> awaited[c] \ {t}]

-----------------------------------------------------------------------------
(* TaskRunnerThread::run                                                    *)

RunnerDequeue(r) ==
    /\ rpc[r] = "dequeue" /\ QueueFree
    /\ IF head = NoTask
       THEN /\ rpc' = [rpc EXCEPT ![r] = "asleep"]
            /\ UNCHANGED <<queueVars, rtask>>
       ELSE /\ Dequeue
            /\ rtask' = [rtask EXCEPT ![r] = head]
            /\ rpc' = [rpc EXCEPT ![r] = IF head \in QuitTasks THEN "done" ELSE "current"]
    /\ UNCHANGED <<num_unfinished, groupVars, clientVars, quitVars, history>>

(* A condition wait may end without a notify.                               *)
RunnerSpuriousWakeup(r) ==
    /\ rpc[r] = "asleep"
    /\ rpc' = [rpc EXCEPT ![r] = "dequeue"]
    /\ UNCHANGED <<queueVars, num_unfinished, rtask, groupVars, clientVars, quitVars, history>>

(* this->current_task = task                                                *)
RunnerSetCurrent(r) ==
    /\ rpc[r] = "current"
    /\ rpc' = [rpc EXCEPT ![r] = "run"]
    /\ UNCHANGED <<queueVars, num_unfinished, rtask, groupVars, clientVars, quitVars, history>>

RunnerEndRun(r) ==
    LET t == rtask[r] IN
    /\ rpc[r] = "run" /\ MayEnd(t)
    /\ RecordEnd(t)
    /\ rpc' = [rpc EXCEPT ![r] =
                 IF \E g \in Groups : t \in Members(g) THEN "groupDec" ELSE "clear"]
    /\ gpc' = AfterEnd(t, gpc)
    /\ UNCHANGED <<queueVars, num_unfinished, rtask, gi, gcount, clientVars, quitVars>>

RunnerGroupDec(r) ==
    /\ rpc[r] = "groupDec"
    /\ \E g \in Groups :
        /\ rtask[r] \in Members(g)
        /\ gcount' = [gcount EXCEPT ![g] = @ - 1]
        /\ rpc' = [rpc EXCEPT ![r] = IF gcount[g] = 1 THEN "groupNotify" ELSE "clear"]
    /\ UNCHANGED <<queueVars, num_unfinished, rtask, gpc, gi, clientVars, quitVars, history>>

(* Mutant of RunnerGroupNotify: the notify is forgotten.                    *)
RunnerGroupNotifyNone(r) ==
    /\ rpc[r] = "groupNotify"
    /\ rpc' = [rpc EXCEPT ![r] = "clear"]
    /\ UNCHANGED <<queueVars, num_unfinished, rtask, groupVars, clientVars, quitVars, history>>

(* task->task_group->num_unfinished_tasks_cond.notify(), after the unlock.  *)
(* By now the call may have returned and the group be gone: then nothing    *)
(* waits on the condition, and the notify wakes no one.                     *)
RunnerGroupNotify(r) ==
    /\ rpc[r] = "groupNotify"
    /\ \E g \in Groups :
        /\ rtask[r] \in Members(g)
        /\ gpc' = [gpc EXCEPT ![g] = IF @ = "asleep" THEN "wait" ELSE @]
    /\ rpc' = [rpc EXCEPT ![r] = "clear"]
    /\ UNCHANGED <<queueVars, num_unfinished, rtask, gi, gcount, clientVars, quitVars, history>>

(* this->current_task = NULL                                                *)
RunnerClearCurrent(r) ==
    /\ rpc[r] = "clear"
    /\ rpc' = [rpc EXCEPT ![r] = "finish"]
    /\ UNCHANGED <<queueVars, num_unfinished, rtask, groupVars, clientVars, quitVars, history>>

(* taskFinished; the task reference is dropped at the end of the loop body. *)
RunnerTaskFinished(r) ==
    /\ rpc[r] = "finish"
    /\ num_unfinished' = num_unfinished - 1
    /\ rpc' = [rpc EXCEPT ![r] = IF num_unfinished = 1 THEN "finishNotify" ELSE "dequeue"]
    /\ rtask' = [rtask EXCEPT ![r] = NoTask]
    /\ UNCHANGED <<queueVars, groupVars, clientVars, quitVars, history>>

(* Mutant of RunnerFinishNotify: the notifyAll is forgotten.                *)
RunnerFinishNotifyNone(r) ==
    /\ rpc[r] = "finishNotify"
    /\ rpc' = [rpc EXCEPT ![r] = "dequeue"]
    /\ UNCHANGED <<queueVars, num_unfinished, rtask, groupVars, clientVars, quitVars, history>>

RunnerFinishNotify(r) ==
    /\ rpc[r] = "finishNotify"
    /\ rpc' = [rpc EXCEPT ![r] = "dequeue"]
    /\ WakeAllWaiters
    /\ UNCHANGED <<queueVars, num_unfinished, rtask, groupVars, carg, quitVars, history>>

RunnerStep(r) ==
    \/ RunnerDequeue(r) \/ RunnerSetCurrent(r) \/ RunnerEndRun(r)
    \/ RunnerGroupDec(r) \/ RunnerGroupNotify(r) \/ RunnerClearCurrent(r)
    \/ RunnerTaskFinished(r) \/ RunnerFinishNotify(r)

-----------------------------------------------------------------------------
(* runTaskGroup(g)                                                          *)

(* Mutant of GroupStart: the count leaves out the task the caller runs      *)
(* without queueing it.                                                     *)
GroupStartCountsQueued(g) ==
    /\ gpc[g] = "idle"
    /\ IF TopLevel(g) THEN mpc = "alive" ELSE \E t \in Task : Nested[t] = g /\ RunBy(t)
    /\ gcount' = [gcount EXCEPT ![g] = Len(Queued(g))]
    /\ gpc' = [gpc EXCEPT ![g] = "count"]
    /\ UNCHANGED <<queueVars, num_unfinished, runnerVars, gi, clientVars, quitVars, history>>

(* The call, by a client or by the run() of the task that nests it.  It     *)
(* sets the group's count and every task's task_group, which is the group   *)
(* that lists the task.                                                     *)
GroupStart(g) ==
    /\ gpc[g] = "idle"
    /\ IF TopLevel(g) THEN mpc = "alive" ELSE \E t \in Task : Nested[t] = g /\ RunBy(t)
    /\ gcount' = [gcount EXCEPT ![g] = Len(GroupTasks[g])]
    /\ gpc' = [gpc EXCEPT ![g] = "count"]
    /\ UNCHANGED <<queueVars, num_unfinished, runnerVars, gi, clientVars, quitVars, history>>

GroupCount(g) ==
    /\ gpc[g] = "count"
    /\ num_unfinished' = num_unfinished + Len(GroupTasks[g])
    /\ outstanding' = outstanding \cup Members(g)
    /\ gpc' = [gpc EXCEPT ![g] = "enqueue"]
    /\ UNCHANGED <<queueVars, runnerVars, gi, gcount, clientVars, quitVars, awaited>>

(* All but the first task, which the caller runs without queueing it.       *)
GroupEnqueue(g) ==
    /\ gpc[g] = "enqueue" /\ QueueFreeFor(g)
    /\ Enqueue(Queued(g))
    /\ gpc' = [gpc EXCEPT ![g] = "notifyAll"]
    /\ UNCHANGED <<num_unfinished, runnerVars, gi, gcount, clientVars, quitVars, history>>

GroupNotifyAll(g) ==
    /\ gpc[g] = "notifyAll"
    /\ WakeAllRunners
    /\ gi' = [gi EXCEPT ![g] = 1]
    /\ gpc' = [gpc EXCEPT ![g] = "take"]
    /\ UNCHANGED <<queueVars, num_unfinished, rtask, gcount, clientVars, quitVars, history>>

(* The loop over the tasks: the first, and every one still in the queue, is *)
(* run here; one that a runner has taken is left to it.                     *)
GroupTakeFirst(g) ==
    /\ gpc[g] = "take" /\ gi[g] = 1
    /\ gpc' = [gpc EXCEPT ![g] = "run"]
    /\ UNCHANGED <<queueVars, num_unfinished, runnerVars, gi, gcount, clientVars, quitVars, history>>

(* Mutant of GroupTakeQueued: the task is left in the queue.                *)
GroupTakeLeft(g) ==
    /\ gpc[g] = "take" /\ gi[g] \in 2..Len(GroupTasks[g]) /\ QueueFreeFor(g)
    /\ in_queue[Current(g)]
    /\ gpc' = [gpc EXCEPT ![g] = "run"]
    /\ UNCHANGED <<queueVars, num_unfinished, runnerVars, gi, gcount, clientVars, quitVars, history>>

GroupTakeQueued(g) ==
    /\ gpc[g] = "take" /\ gi[g] \in 2..Len(GroupTasks[g]) /\ QueueFreeFor(g)
    /\ Unlink(Current(g))
    /\ gpc' = [gpc EXCEPT ![g] = "run"]
    /\ UNCHANGED <<num_unfinished, runnerVars, gi, gcount, clientVars, quitVars, history>>

GroupSkipTaken(g) ==
    /\ gpc[g] = "take" /\ gi[g] \in 2..Len(GroupTasks[g]) /\ QueueFreeFor(g)
    /\ ~in_queue[Current(g)]
    /\ gi' = [gi EXCEPT ![g] = @ + 1]
    /\ UNCHANGED <<queueVars, num_unfinished, runnerVars, gpc, gcount, clientVars, quitVars, history>>

GroupLoopEnds(g) ==
    /\ gpc[g] = "take" /\ gi[g] > Len(GroupTasks[g])
    /\ gpc' = [gpc EXCEPT ![g] = "wait"]
    /\ UNCHANGED <<queueVars, num_unfinished, runnerVars, gi, gcount, clientVars, quitVars, history>>

GroupEndRun(g) ==
    LET t == Current(g) IN
    /\ gpc[g] = "run" /\ MayEnd(t)
    /\ RecordEnd(t)
    /\ gpc' = AfterEnd(t, [gpc EXCEPT ![g] = "finish"])
    /\ UNCHANGED <<queueVars, num_unfinished, runnerVars, gi, gcount, clientVars, quitVars>>

(* taskFinished, called by the caller before it counts its group down.      *)
GroupTaskFinished(g) ==
    /\ gpc[g] = "finish"
    /\ num_unfinished' = num_unfinished - 1
    /\ gpc' = [gpc EXCEPT ![g] = IF num_unfinished = 1 THEN "finishNotify" ELSE "dec"]
    /\ UNCHANGED <<queueVars, runnerVars, gi, gcount, clientVars, quitVars, history>>

GroupFinishNotify(g) ==
    /\ gpc[g] = "finishNotify"
    /\ gpc' = [gpc EXCEPT ![g] = "dec"]
    /\ WakeAllWaiters
    /\ UNCHANGED <<queueVars, num_unfinished, runnerVars, gi, gcount, carg, quitVars, history>>

GroupDec(g) ==
    /\ gpc[g] = "dec"
    /\ gcount' = [gcount EXCEPT ![g] = @ - 1]
    /\ gi' = [gi EXCEPT ![g] = @ + 1]
    /\ gpc' = [gpc EXCEPT ![g] = "take"]
    /\ UNCHANGED <<queueVars, num_unfinished, runnerVars, clientVars, quitVars, history>>

(* The wait for the tasks that runners took.                                *)
GroupWait(g) ==
    /\ gpc[g] = "wait"
    /\ gpc' = [gpc EXCEPT ![g] = IF gcount[g] = 0 THEN "returned" ELSE "asleep"]
    /\ UNCHANGED <<queueVars, num_unfinished, runnerVars, gi, gcount, clientVars, quitVars, history>>

GroupSpuriousWakeup(g) ==
    /\ gpc[g] = "asleep"
    /\ gpc' = [gpc EXCEPT ![g] = "wait"]
    /\ UNCHANGED <<queueVars, num_unfinished, runnerVars, gi, gcount, clientVars, quitVars, history>>

(* The caller goes on, and may run the group again or drop it.              *)
GroupResume(g) ==
    /\ gpc[g] = "returned" /\ TopLevel(g)
    /\ gpc' = [gpc EXCEPT ![g] = "idle"]
    /\ UNCHANGED <<queueVars, num_unfinished, runnerVars, gi, gcount, clientVars, quitVars, history>>

GroupStep(g) ==
    \/ GroupCount(g) \/ GroupEnqueue(g) \/ GroupNotifyAll(g)
    \/ GroupTakeFirst(g) \/ GroupTakeQueued(g) \/ GroupSkipTaken(g) \/ GroupLoopEnds(g)
    \/ GroupEndRun(g) \/ GroupTaskFinished(g) \/ GroupFinishNotify(g)
    \/ GroupDec(g) \/ GroupWait(g)

-----------------------------------------------------------------------------
(* addTask, addTasks and waitForTasksToComplete, by client c                *)

(* A Task may be given to the manager again once its run() has ended.       *)
Addable == {t \in PlainTasks : t \notin outstanding}

(* addTask(t) if notify is "notify", addTasks(ts) if it is "notifyAll".     *)
AddCount(c, ts) ==
    /\ cpc[c] = "idle" /\ mpc = "alive"
    /\ num_unfinished' = num_unfinished + Len(ts)
    /\ outstanding' = outstanding \cup ToSet(ts)
    /\ carg' = [carg EXCEPT ![c] = ts]
    /\ cpc' = [cpc EXCEPT ![c] = "enqueue"]
    /\ UNCHANGED <<queueVars, runnerVars, groupVars, quitVars, awaited>>

Add(c) ==
    \E S \in SUBSET Addable :
        /\ Cardinality(S) \in 1..MaxBatch
        /\ \E ts \in SetToSeqs(S) : AddCount(c, ts)

(* addTask notifies one runner and addTasks all of them.                    *)
AddEnqueue(c) ==
    /\ cpc[c] = "enqueue" /\ QueueFree
    /\ Enqueue(carg[c])
    /\ \E n \in {"notify", "notifyAll"} :
        /\ n = "notify" => Len(carg[c]) = 1
        /\ cpc' = [cpc EXCEPT ![c] = n]
    /\ carg' = [carg EXCEPT ![c] = <<>>]
    /\ UNCHANGED <<num_unfinished, runnerVars, groupVars, quitVars, history>>

(* Mutant of AddNotify: the notify is forgotten.                            *)
AddNotifyNone(c) ==
    /\ cpc[c] \in {"notify", "notifyAll"}
    /\ cpc' = [cpc EXCEPT ![c] = "idle"]
    /\ UNCHANGED <<queueVars, num_unfinished, runnerVars, groupVars, carg, quitVars, history>>

AddNotify(c) ==
    /\ \/ cpc[c] = "notify" /\ WakeOneRunner
       \/ cpc[c] = "notifyAll" /\ WakeAllRunners
    /\ cpc' = [cpc EXCEPT ![c] = "idle"]
    /\ UNCHANGED <<queueVars, num_unfinished, rtask, groupVars, carg, quitVars, history>>

WaitStart(c) ==
    /\ cpc[c] = "idle" /\ mpc = "alive"
    /\ Runners = {} => QueueFree
    /\ cpc' = [cpc EXCEPT ![c] = IF Runners = {} THEN "drain" ELSE "wait"]
    /\ awaited' = [awaited EXCEPT ![c] = outstanding]
    /\ UNCHANGED <<queueVars, num_unfinished, runnerVars, groupVars, carg, quitVars, outstanding>>

(* Mutant of WaitCheck: the wait ends when the queue is empty.              *)
WaitCheckQueue(c) ==
    /\ cpc[c] = "wait"
    /\ cpc' = [cpc EXCEPT ![c] = IF head = NoTask THEN "returned" ELSE "asleep"]
    /\ UNCHANGED <<queueVars, num_unfinished, runnerVars, groupVars, carg, quitVars, history>>

WaitCheck(c) ==
    /\ cpc[c] = "wait"
    /\ cpc' = [cpc EXCEPT ![c] = IF num_unfinished = 0 THEN "returned" ELSE "asleep"]
    /\ UNCHANGED <<queueVars, num_unfinished, runnerVars, groupVars, carg, quitVars, history>>

WaitSpuriousWakeup(c) ==
    /\ cpc[c] = "asleep"
    /\ cpc' = [cpc EXCEPT ![c] = "wait"]
    /\ UNCHANGED <<queueVars, num_unfinished, runnerVars, groupVars, carg, quitVars, history>>

(* Without runner threads: run what is queued, holding queue_mutex.         *)
DrainDequeue(c) ==
    /\ cpc[c] = "drain"
    /\ IF head = NoTask
       THEN /\ cpc' = [cpc EXCEPT ![c] = "returned"]
            /\ UNCHANGED <<queueVars, carg>>
       ELSE /\ Dequeue
            /\ carg' = [carg EXCEPT ![c] = <<head>>]
            /\ cpc' = [cpc EXCEPT ![c] = "drainRun"]
    /\ UNCHANGED <<num_unfinished, runnerVars, groupVars, quitVars, history>>

DrainEndRun(c) ==
    LET t == carg[c][1] IN
    /\ cpc[c] = "drainRun" /\ MayEnd(t)
    /\ RecordEnd(t)
    /\ gpc' = AfterEnd(t, gpc)
    /\ cpc' = [cpc EXCEPT ![c] = "drainDec"]
    /\ carg' = [carg EXCEPT ![c] = <<>>]
    /\ UNCHANGED <<queueVars, num_unfinished, runnerVars, gi, gcount, quitVars>>

(* Mutant of DrainDec: the task is not counted out.                         *)
DrainNoDec(c) ==
    /\ cpc[c] = "drainDec"
    /\ cpc' = [cpc EXCEPT ![c] = "drain"]
    /\ UNCHANGED <<queueVars, num_unfinished, runnerVars, groupVars, carg, quitVars, history>>

DrainDec(c) ==
    /\ cpc[c] = "drainDec"
    /\ num_unfinished' = num_unfinished - 1
    /\ cpc' = [cpc EXCEPT ![c] = "drain"]
    /\ UNCHANGED <<queueVars, runnerVars, groupVars, carg, quitVars, history>>

WaitReturn(c) ==
    /\ cpc[c] = "returned"
    /\ cpc' = [cpc EXCEPT ![c] = "idle"]
    /\ awaited' = [awaited EXCEPT ![c] = {}]
    /\ UNCHANGED <<queueVars, num_unfinished, runnerVars, groupVars, carg, quitVars, outstanding>>

ClientStep(c) ==
    \/ AddEnqueue(c) \/ AddNotify(c) \/ WaitCheck(c) \/ WaitReturn(c)
    \/ DrainDequeue(c) \/ DrainEndRun(c) \/ DrainDec(c)

-----------------------------------------------------------------------------
(* ~TaskManager, once no thread is in a call                                *)

QuitStart ==
    /\ mpc = "alive"
    /\ \A c \in Clients : cpc[c] = "idle"
    /\ \A g \in Groups : TopLevel(g) => gpc[g] = "idle"
    /\ mpc' = "enqueue"
    /\ UNCHANGED <<queueVars, num_unfinished, runnerVars, groupVars, clientVars, quits, history>>

QuitEnqueue ==
    /\ mpc = "enqueue"
    /\ \/ \E q \in QuitTasks \ quits :
            /\ Enqueue(<<q>>)
            /\ quits' = quits \cup {q}
            /\ mpc' = "notify"
       \/ /\ quits = QuitTasks
          /\ mpc' = "join"
          /\ UNCHANGED <<queueVars, quits>>
    /\ UNCHANGED <<num_unfinished, runnerVars, groupVars, clientVars, history>>

(* Mutant of QuitNotify: the notify is forgotten.                           *)
QuitNotifyNone ==
    /\ mpc = "notify"
    /\ mpc' = "enqueue"
    /\ UNCHANGED <<queueVars, num_unfinished, runnerVars, groupVars, clientVars, quits, history>>

QuitNotify ==
    /\ mpc = "notify"
    /\ WakeOneRunner
    /\ mpc' = "enqueue"
    /\ UNCHANGED <<queueVars, num_unfinished, rtask, groupVars, clientVars, quits, history>>

(* Mutant of QuitJoin: one runner is joined.                                *)
QuitJoinOne ==
    /\ mpc = "join"
    /\ \E r \in Runners : rpc[r] = "done"
    /\ mpc' = "destroyed"
    /\ UNCHANGED <<queueVars, num_unfinished, runnerVars, groupVars, clientVars, quits, history>>

QuitJoin ==
    /\ mpc = "join"
    /\ \A r \in Runners : rpc[r] = "done"
    /\ mpc' = "destroyed"
    /\ UNCHANGED <<queueVars, num_unfinished, runnerVars, groupVars, clientVars, quits, history>>

QuitStep == QuitEnqueue \/ QuitNotify \/ QuitJoin

(* Nothing is left to do on a destroyed manager.                            *)
Destroyed == mpc = "destroyed" /\ UNCHANGED vars

-----------------------------------------------------------------------------
(* What the manager's own threads, and callers inside a call, go on to do;  *)
(* and what the program around it may do.                                   *)
Working ==
    \/ \E r \in Runners : RunnerStep(r)
    \/ \E g \in Groups : GroupStep(g)
    \/ \E c \in Clients : ClientStep(c)
    \/ QuitStep

Calling ==
    \/ \E g \in Groups : GroupStart(g) \/ GroupResume(g)
    \/ \E c \in Clients : Add(c) \/ WaitStart(c)
    \/ QuitStart
    \/ Destroyed

SpuriousWakeup ==
    \/ \E r \in Runners : RunnerSpuriousWakeup(r)
    \/ \E g \in Groups : GroupSpuriousWakeup(g)
    \/ \E c \in Clients : WaitSpuriousWakeup(c)

Next == Working \/ Calling \/ SpuriousWakeup

Spec == Init /\ [][Next]_vars

(* Every thread inside the manager keeps getting the processor and every    *)
(* run() ends, making the group call it is written to make.  No call need   *)
(* be made, and no spurious wakeup need come.                               *)
Fairness ==
    /\ \A r \in Runners : WF_vars(RunnerStep(r))
    /\ \A g \in Groups : WF_vars(GroupStep(g)) /\ (~TopLevel(g) => WF_vars(GroupStart(g)))
    /\ \A c \in Clients : WF_vars(ClientStep(c))
    /\ WF_vars(QuitStep)

FairSpec == Spec /\ Fairness

-----------------------------------------------------------------------------
(* A task's run() is executed only on behalf of a submission that has not   *)
(* been executed yet, by one thread, and with the task out of the queue:    *)
(* the dequeue by a runner and the removal by the caller of runTaskGroup    *)
(* never hand the same task to two threads.                                 *)
RunOncePerSubmission ==
    /\ \A t \in Task : RunBy(t) => t \in outstanding /\ ~in_queue[t]
    /\ \A r, s \in Runners :
         r # s /\ rpc[r] = "run" /\ rpc[s] = "run" => rtask[r] # rtask[s]
    /\ \A r \in Runners, g \in Groups :
         rpc[r] = "run" /\ gpc[g] = "run" => rtask[r] # Current(g)

(* num_unfinished_tasks counts the tasks submitted and not executed, and    *)
(* those whose thread has yet to report, so it is never negative (the       *)
(* assertion of taskFinished) and is 0 only when no task is queued or run.  *)
Reporting ==
    Cardinality({r \in Runners : rpc[r] \in {"groupDec", "groupNotify", "clear", "finish"}})
    + Cardinality({g \in Groups : gpc[g] = "finish"})
    + Cardinality({c \in Clients : cpc[c] = "drainDec"})
UnfinishedIsCounted == num_unfinished = Cardinality(outstanding) + Reporting

(* The tasks of group g whose thread has not counted the group down yet.    *)
Owed(g) ==
    {t \in Members(g) :
        \/ gpc[g] = "count" \/ t \in outstanding
        \/ \E r \in Runners : rpc[r] = "groupDec" /\ rtask[r] = t
        \/ gpc[g] \in {"finish", "finishNotify", "dec"} /\ Current(g) = t}

(* The group's count is the number of its tasks still owed, whoever runs    *)
(* them and in whatever order they end.                                     *)
GroupCountIsOwed == \A g \in Groups : gpc[g] # "idle" => gcount[g] = Cardinality(Owed(g))

(* runTaskGroup returns only when every task of the group has been executed *)
(* and none is being executed or is still queued (TaskManager.h: "Blocks    *)
(* until all tasks in task group have finished being executed").            *)
GroupCompleteOnReturn ==
    \A g \in Groups : gpc[g] = "returned" =>
        \A t \in Members(g) : t \notin outstanding /\ ~in_queue[t] /\ ~RunBy(t)

(* waitForTasksToComplete returns only when every task that was unfinished  *)
(* at the call has been executed.                                           *)
WaitCoversTasks == \A c \in Clients : cpc[c] = "returned" => awaited[c] = {}

(* The QuitRunnerTasks go behind everything queued, so ~TaskManager returns *)
(* only after every task ever added has been executed and reported.         *)
DestroyedAfterAllTasks ==
    mpc = "destroyed" => outstanding = {} /\ num_unfinished = 0 /\ head = NoTask

(* No wakeup is lost, on any of the three condition variables, though every *)
(* notify comes after the unlock.  While a runner sleeps, a notifyAll is on *)
(* its way, or there are as many runners up, and notifies of one on their   *)
(* way, as tasks in the queue.  A client that sleeps with no task           *)
(* unfinished, and a caller of runTaskGroup that sleeps with its count at   *)
(* 0, are about to be notified.                                             *)
Awake == {r \in Runners : rpc[r] \notin {"asleep", "done"}}
NotifyingOne ==
    Cardinality({c \in Clients : cpc[c] = "notify"}) + (IF mpc = "notify" THEN 1 ELSE 0)

RunnersGetWoken ==
    (\E r \in Runners : rpc[r] = "asleep") =>
        \/ \E c \in Clients : cpc[c] = "notifyAll"
        \/ \E g \in Groups : gpc[g] = "notifyAll"
        \/ Cardinality({t \in Task : in_queue[t]}) <= Cardinality(Awake) + NotifyingOne
WaitersGetWoken ==
    \A c \in Clients : cpc[c] = "asleep" /\ num_unfinished = 0 =>
        \/ \E r \in Runners : rpc[r] = "finishNotify"
        \/ \E g \in Groups : gpc[g] = "finishNotify"
CallersGetWoken ==
    \A g \in Groups : gpc[g] = "asleep" /\ gcount[g] = 0 =>
        \E r \in Runners : rpc[r] = "groupNotify" /\ rtask[r] \in Members(g)
NoWakeupLost == RunnersGetWoken /\ WaitersGetWoken /\ CallersGetWoken

(* Who has a step to take that waits for nobody: a thread that neither      *)
(* sleeps, nor has exited, nor waits for the end of the call a run() makes. *)
RunnerActs(r) == rpc[r] \notin {"asleep", "done"} /\ (rpc[r] = "run" => MayEnd(rtask[r]))
GroupActs(g) ==
    \/ gpc[g] \notin {"idle", "asleep", "returned"} /\ (gpc[g] = "run" => MayEnd(Current(g)))
    \/ gpc[g] = "idle" /\ \E t \in Task : Nested[t] = g /\ RunBy(t)
ClientActs(c) == cpc[c] \notin {"idle", "asleep"}
QuitActs == mpc \in {"enqueue", "notify"} \/ (mpc = "join" /\ \A r \in Runners : rpc[r] = "done")

(* The call on g goes on only when one of those on the groups of X does: it *)
(* runs a task that makes such a call, or sleeps, and whatever tasks of g   *)
(* the runners have make such calls.                                        *)
WaitsOnlyFor(g, X) ==
    \/ gpc[g] = "run" /\ Nested[Current(g)] \in X
    \/ /\ gpc[g] = "asleep"
       /\ \A r \in Runners :
            rpc[r] \in {"current", "run", "groupDec", "groupNotify"} /\ rtask[r] \in Members(g)
              => rpc[r] = "run" /\ Nested[rtask[r]] \in X

(* The manager does not deadlock.  No calls of runTaskGroup wait for each   *)
(* other only, whatever calls the tasks nest in them and whoever runs them; *)
(* and as long as a task is outstanding or a caller or the destructor       *)
(* waits, some thread has a step to take.                                   *)
NeverStuck ==
    /\ \A X \in SUBSET Groups : (\A g \in X : WaitsOnlyFor(g, X)) => X = {}
    /\ \/ outstanding # {} \/ mpc = "join"
       \/ \E c \in Clients : cpc[c] = "asleep"
       \/ \E g \in Groups : gpc[g] = "asleep"
       => \/ \E r \in Runners : RunnerActs(r)
          \/ \E g \in Groups : GroupActs(g)
          \/ \E c \in Clients : ClientActs(c)
          \/ QuitActs

(* A call of runTaskGroup returns: the caller runs whatever no runner took, *)
(* also when every runner is inside such a call itself, and the wakeup of a *)
(* caller that went to sleep is not lost.                                   *)
GroupCallReturns == \A g \in Groups : gpc[g] = "count" ~> gpc[g] = "returned"

(* A task that was submitted is executed: no notify of queue_nonempty is    *)
(* lost with a task in the queue and every runner asleep.                   *)
SubmittedTaskRuns == \A t \in Task : t \in outstanding ~> t \notin outstanding

(* No caller of waitForTasksToComplete sleeps on while no task is           *)
(* unfinished: the notifyAll of taskFinished reaches it.                    *)
WaiterWakes == \A c \in Clients : ~<>[](cpc[c] = "asleep" /\ num_unfinished = 0)

(* ~TaskManager returns: each runner gets a QuitRunnerTask.                 *)
DestructorReturns == mpc = "enqueue" ~> mpc = "destroyed"

-----------------------------------------------------------------------------
(* What a comment of the repository says that the code does not ensure.     *)

(* Task.h: task_group is the "Task group that this task is part of, if      *)
(* non-null".  The caller holds the only counted reference to the group; it *)
(* may drop it when runTaskGroup returns, so the runner that is about to    *)
(* notify through the pointer needs the call to be still in progress.       *)
GroupInUseWhenNotified ==
    \A r \in Runners, g \in Groups :
        rpc[r] = "groupNotify" /\ rtask[r] \in Members(g) => gpc[g] \notin {"idle", "returned"}
=============================================================================
