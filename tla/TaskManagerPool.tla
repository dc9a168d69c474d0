-------------------------- MODULE TaskManagerPool ---------------------------
(***************************************************************************)
(* The states of TaskManager read as states of TaskPool.                   *)
(***************************************************************************)
EXTENDS TaskManager

Underway ==
    {rtask[r] : r \in {s \in Runners : rpc[s] = "run"}}
    \cup {Current(g) : g \in {h \in Groups : gpc[h] = "run"}}
    \cup {carg[c][1] : c \in {d \in Clients : cpc[d] = "drainRun"}}

CallOf ==
    [g \in Groups |-> IF gpc[g] \in {"idle", "returned"} THEN "none"
                      ELSE IF gpc[g] = "count" THEN "called" ELSE "submitted"]

InWait == {c \in Clients : cpc[c] \in {"wait", "asleep", "drain", "drainRun", "drainDec"}}

Pool == INSTANCE TaskPool WITH
    Work <- [g \in Groups |-> Members(g)], pending <- outstanding \ Underway,
    running <- Underway, call <- CallOf, waiting <- InWait, destroyed <- mpc = "destroyed"

(* However runners, group callers and clients compete for the queue, each   *)
(* task is executed once for each time it was submitted, and a group call,  *)
(* a wait and the destructor return only when what they are about has been  *)
(* executed (TaskManager.h: "Blocks until all tasks have finished being     *)
(* executed").                                                              *)
ImplementsPool == Pool!Spec
=============================================================================
