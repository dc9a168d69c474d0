-------------------------- MODULE MCTaskManagerLive -------------------------
(***************************************************************************)
(* TaskManagers for TLC: one with threads and a client, one whose tasks    *)
(* call runTaskGroup, and two whose clients cancel tasks.  A behaviour is  *)
(* one of any one of them; part says of which.                             *)
(***************************************************************************)
EXTENDS Integers, Sequences, FiniteSets, TLC

CONSTANTS a1, a2, b1, b2, c1, c2,       \* tasks of groups A, B and C
          A, B, C,
          p1, p2,                       \* plain tasks
          q1, q2,                       \* QuitRunnerTasks
          r1, r2,                       \* TaskRunnerThreads
          u1, u2,                       \* clients
          NoTask, NoGroup

VARIABLES part, head, tail, prev, next, in_queue, num_unfinished, rpc, rtask, gpc, gi, gcount,
          cpc, carg, mpc, quits, outstanding, awaited, to_cancel, cancelled

vars == <<part, head, tail, prev, next, in_queue, num_unfinished, rpc, rtask, gpc, gi, gcount,
          cpc, carg, mpc, quits, outstanding, awaited, to_cancel, cancelled>>

NoNesting(tasks) == [t \in tasks |-> NoGroup]

Pool == INSTANCE TaskManager WITH
    Task <- {a1, a2, p1, q1, q2}, Runners <- {r1, r2}, QuitTasks <- {q1, q2},
    Clients <- {u1}, PlainTasks <- {p1}, Groups <- {A},
    GroupTasks <- A :> <<a1, a2>>, Nested <- NoNesting({a1, a2, p1, q1, q2}), MaxBatch <- 1

(* Both tasks of A run a group of their own: the only runner and the caller *)
(* can both be inside runTaskGroup.                                         *)
Nest == INSTANCE TaskManager WITH
    Task <- {a1, a2, b1, b2, c1, c2, q1}, Runners <- {r1}, QuitTasks <- {q1},
    Clients <- {}, PlainTasks <- {}, Groups <- {A, B, C},
    GroupTasks <- A :> <<a1, a2>> @@ B :> <<b1, b2>> @@ C :> <<c1, c2>>,
    Nested <- a1 :> B @@ a2 :> C @@ NoNesting({b1, b2, c1, c2, q1}), MaxBatch <- 1

(* Clients that cancel what they and others added: a client with two tasks, *)
(* and two clients with one.                                                *)
Removal == INSTANCE TaskManagerCancel WITH
    Task <- {p1, p2, q1, q2}, Runners <- {r1, r2}, QuitTasks <- {q1, q2},
    Clients <- {u1}, PlainTasks <- {p1, p2}, Groups <- {},
    GroupTasks <- <<>>, Nested <- NoNesting({p1, p2, q1, q2}), MaxBatch <- 2
Contest == INSTANCE TaskManagerCancel WITH
    Task <- {p1, q1, q2}, Runners <- {r1, r2}, QuitTasks <- {q1, q2},
    Clients <- {u1, u2}, PlainTasks <- {p1}, Groups <- {},
    GroupTasks <- <<>>, Nested <- NoNesting({p1, q1, q2}), MaxBatch <- 1

NoneCancelled == to_cancel = [c \in {} |-> {}] /\ cancelled = {}

Init ==
    \/ part = "pool"    /\ Pool!Init /\ NoneCancelled
    \/ part = "nest"    /\ Nest!Init /\ NoneCancelled
    \/ part = "removal" /\ Removal!CancelInit
    \/ part = "contest" /\ Contest!CancelInit

In(p)    == part = p /\ part' = p
Alone(p) == In(p) /\ UNCHANGED <<to_cancel, cancelled>>

Next ==
    \/ Alone("pool") /\ Pool!Next
    \/ Alone("nest") /\ Nest!Next
    \/ In("removal") /\ Removal!CancelNext
    \/ In("contest") /\ Contest!CancelNext

(* The fairness of TaskManager, with its constants' values put in.          *)
Fairness ==
    /\ \A r \in {r1, r2} : WF_vars(Alone("pool") /\ Pool!RunnerStep(r))
    /\ WF_vars(Alone("pool") /\ Pool!GroupStep(A))
    /\ WF_vars(Alone("pool") /\ Pool!ClientStep(u1))
    /\ WF_vars(Alone("pool") /\ Pool!QuitStep)
    /\ WF_vars(Alone("nest") /\ Nest!RunnerStep(r1))
    /\ \A g \in {A, B, C} : WF_vars(Alone("nest") /\ Nest!GroupStep(g))
    /\ \A g \in {B, C} : WF_vars(Alone("nest") /\ Nest!GroupStart(g))
    /\ WF_vars(Alone("nest") /\ Nest!QuitStep)

Spec == Init /\ [][Next]_vars /\ Fairness

-----------------------------------------------------------------------------
(* num_unfinished_tasks counts what is unfinished, with calls inside calls  *)
(* and while others remove tasks from the queue.                            *)
UnfinishedIsCounted ==
    /\ part = "pool"    => Pool!UnfinishedIsCounted
    /\ part = "nest"    => Nest!UnfinishedIsCounted
    /\ part = "removal" => Removal!UnfinishedIsCounted
    /\ part = "contest" => Contest!UnfinishedIsCounted

(* A task that was running when cancelAndWaitForTasksToComplete emptied the *)
(* queue has ended, or been cancelled, before the call waits.               *)
CancelReachesRunning ==
    [][/\ part = "removal" => Removal!CancelCovers
       /\ part = "contest" => Contest!CancelCovers]_vars

(* A call of runTaskGroup returns: the caller runs whatever no runner took, *)
(* also when every runner is inside such a call itself, and the wakeup of a *)
(* caller that went to sleep is not lost.  At no moment do calls inside     *)
(* calls wait for each other only.                                          *)
GroupCallReturns ==
    /\ [](part = "nest" => Nest!NeverStuck)
    /\ (part = "pool" /\ gpc[A] = "count") ~> (part = "pool" /\ gpc[A] = "returned")
    /\ \A g \in {A, B, C} :
         (part = "nest" /\ gpc[g] = "count") ~> (part = "nest" /\ gpc[g] = "returned")

(* A task that was submitted is executed: no notify of queue_nonempty is    *)
(* lost with a task in the queue and every runner asleep.                   *)
SubmittedTaskRuns ==
    \A t \in {a1, a2, p1} : (part = "pool" /\ t \in outstanding) ~> t \notin outstanding

(* No caller of waitForTasksToComplete sleeps on while no task is           *)
(* unfinished: the notifyAll of taskFinished reaches it.                    *)
WaiterWakes == ~<>[](part = "pool" /\ cpc[u1] = "asleep" /\ num_unfinished = 0)

(* ~TaskManager returns: each runner gets a QuitRunnerTask.                 *)
DestructorReturns ==
    (part \in {"pool", "nest"} /\ mpc = "enqueue") ~> mpc = "destroyed"
=============================================================================
