------------------------------ MODULE TaskPool ------------------------------
(***************************************************************************)
(* What glare::TaskManager (utils/TaskManager.h) promises those who use    *)
(* it: each task that is submitted is executed once; a group call returns, *)
(* a wait ends and the manager is destroyed only when the tasks they are   *)
(* about have been executed.  Of queues, threads and counts it says        *)
(* nothing.                                                                *)
(***************************************************************************)
CONSTANTS Task, Clients, Groups,
          Work              \* the tasks of each group

VARIABLES pending,          \* tasks submitted whose execution has not begun
          running,          \* tasks being executed
          call,             \* per group: how far the call of runTaskGroup is
          waiting,          \* clients in waitForTasksToComplete
          awaited,          \* per client: what its wait is for
          destroyed

vars == <<pending, running, call, waiting, awaited, destroyed>>

Unfinished == pending \cup running
GroupWork  == UNION {Work[g] : g \in Groups}

Init ==
    /\ pending = {} /\ running = {}
    /\ call = [g \in Groups |-> "none"]
    /\ waiting = {} /\ awaited = [c \in Clients |-> {}]
    /\ ~destroyed

(* A task may be submitted again once its execution has ended.              *)
Submitted(S) ==
    /\ S \cap Unfinished = {}
    /\ pending' = pending \cup S
    /\ UNCHANGED <<running, waiting, awaited, destroyed>>

Submit ==
    /\ ~destroyed /\ (pending' \ pending) \cap GroupWork = {}
    /\ Submitted(pending' \ pending)
    /\ UNCHANGED call

Begin(t) ==
    /\ t \in pending
    /\ pending' = pending \ {t}
    /\ running' = running \cup {t}
    /\ UNCHANGED <<call, waiting, awaited, destroyed>>

End(t) ==
    /\ t \in running
    /\ running' = running \ {t}
    /\ awaited' = [c \in Clients |-> awaited[c] \ {t}]
    /\ UNCHANGED <<pending, call, waiting, destroyed>>

(* runTaskGroup: the call, the submission of its tasks, the return.         *)
Call(g) ==
    /\ call[g] = "none" /\ ~destroyed
    /\ call' = [call EXCEPT ![g] = "called"]
    /\ UNCHANGED <<pending, running, waiting, awaited, destroyed>>

SubmitWork(g) ==
    /\ call[g] = "called"
    /\ Submitted(Work[g])
    /\ call' = [call EXCEPT ![g] = "submitted"]

Return(g) ==
    /\ call[g] = "submitted" /\ Work[g] \cap Unfinished = {}
    /\ call' = [call EXCEPT ![g] = "none"]
    /\ UNCHANGED <<pending, running, waiting, awaited, destroyed>>

(* waitForTasksToComplete: all that is unfinished when it is called.        *)
Wait(c) ==
    /\ c \notin waiting /\ ~destroyed
    /\ waiting' = waiting \cup {c}
    /\ awaited' = [awaited EXCEPT ![c] = Unfinished]
    /\ UNCHANGED <<pending, running, call, destroyed>>

EndWait(c) ==
    /\ c \in waiting /\ awaited[c] = {}
    /\ waiting' = waiting \ {c}
    /\ UNCHANGED <<pending, running, call, awaited, destroyed>>

Destroy ==
    /\ ~destroyed /\ Unfinished = {} /\ waiting = {}
    /\ \A g \in Groups : call[g] = "none"
    /\ destroyed' = TRUE
    /\ UNCHANGED <<pending, running, call, waiting, awaited>>

Next ==
    \/ Submit
    \/ \E t \in pending : Begin(t)
    \/ \E t \in running : End(t)
    \/ \E g \in Groups : Call(g) \/ SubmitWork(g) \/ Return(g)
    \/ \E c \in Clients : Wait(c) \/ EndWait(c)
    \/ Destroy

Spec == Init /\ [][Next]_vars
=============================================================================
