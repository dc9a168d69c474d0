------------------------ MODULE MCTaskManagerCancel -------------------------
(***************************************************************************)
(* Instances of TaskManagerCancel for TLC.                                 *)
(***************************************************************************)
EXTENDS TaskManagerCancel

CONSTANTS a1, a2,       \* tasks of group A
          A             \* a group

NoNesting == [t \in Task |-> NoGroup]
OneGroup  == A :> <<a1, a2>>
NoGroups  == <<>>
=============================================================================
