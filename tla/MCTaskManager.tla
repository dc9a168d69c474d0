--------------------------- MODULE MCTaskManager ----------------------------
(***************************************************************************)
(* Instances of TaskManager for TLC, with one group, which a task's run()   *)
(* may be the one to run.                                                  *)
(***************************************************************************)
EXTENDS TaskManagerPool, TaskQueueFifo

CONSTANTS a1, a2,       \* tasks of group A
          A,            \* a group
          p1            \* a plain task

NoNesting == [t \in Task |-> NoGroup]
NestedA   == [t \in Task |-> IF t = p1 THEN A ELSE NoGroup]
OneGroup  == A :> <<a1, a2>>
=============================================================================
