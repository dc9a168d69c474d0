--------------------------- MODULE WeakReference ----------------------------
(***************************************************************************)
(* One object with strong and weak references to it: Reference<T>          *)
(* (utils/Reference.h), WeakRefCounted with its control block              *)
(* (utils/WeakRefCounted.h) and WeakReference<T>::upgradeToStrongRef       *)
(* (utils/WeakReference.h).  Each thread has a weak reference, and at most *)
(* one strong one; a step is one access to shared state.                   *)
(***************************************************************************)
EXTENDS Integers, FiniteSets

CONSTANTS RefThread,
          Nobody        \* holder of a free mutex

ASSUME RefThreadAssumption == IsFiniteSet(RefThread) /\ Nobody \notin RefThread

VARIABLES refcount,
          ob_is_alive,  \* in the control block
          mutex,        \* ob_is_alive_mutex: who holds it
          wpc,          \* per thread: "none" or "held", or where in a call it is
          destroyed     \* history: destroyAndFreeOb was called

weakVars == <<refcount, ob_is_alive, mutex, wpc, destroyed>>

Holders == {t \in RefThread : wpc[t] \in {"held", "dec"}}

(* The object's creator has the first reference.                            *)
WeakInit ==
    /\ refcount = 1
    /\ ob_is_alive = TRUE
    /\ mutex = Nobody
    /\ \E t \in RefThread : wpc = [u \in RefThread |-> IF u = t THEN "held" ELSE "none"]
    /\ destroyed = FALSE

-----------------------------------------------------------------------------
(* t makes a copy of its reference for u: incRefCount takes no lock.        *)
Copy(t, u) ==
    /\ wpc[t] = "held" /\ wpc[u] = "none"
    /\ refcount' = refcount + 1
    /\ wpc' = [wpc EXCEPT ![u] = "held"]
    /\ UNCHANGED <<ob_is_alive, mutex, destroyed>>

(* ~Reference, and the release of the old object in an assignment:          *)
(* decRefCount locks, decrements, and marks the object dead if it was the   *)
(* last reference; the object is destroyed with the lock released.          *)
DropLock(t) ==
    /\ wpc[t] = "held" /\ mutex = Nobody
    /\ mutex' = t
    /\ wpc' = [wpc EXCEPT ![t] = "dec"]
    /\ UNCHANGED <<refcount, ob_is_alive, destroyed>>

(* Mutant of Decrement: the lock is released before the object is marked.   *)
DecrementUnlocks(t) ==
    /\ wpc[t] = "dec"
    /\ refcount' = refcount - 1
    /\ wpc' = [wpc EXCEPT ![t] = IF refcount = 1 THEN "mark" ELSE "none"]
    /\ mutex' = Nobody
    /\ UNCHANGED <<ob_is_alive, destroyed>>

Decrement(t) ==
    /\ wpc[t] = "dec"
    /\ refcount' = refcount - 1
    /\ IF refcount = 1
       THEN wpc' = [wpc EXCEPT ![t] = "mark"] /\ UNCHANGED mutex
       ELSE wpc' = [wpc EXCEPT ![t] = "none"] /\ mutex' = Nobody
    /\ UNCHANGED <<ob_is_alive, destroyed>>

MarkDead(t) ==
    /\ wpc[t] = "mark"
    /\ ob_is_alive' = FALSE
    /\ mutex' = Nobody
    /\ wpc' = [wpc EXCEPT ![t] = "destroy"]
    /\ UNCHANGED <<refcount, destroyed>>

Destroy(t) ==
    /\ wpc[t] = "destroy"
    /\ destroyed' = TRUE
    /\ wpc' = [wpc EXCEPT ![t] = "none"]
    /\ UNCHANGED <<refcount, ob_is_alive, mutex>>

(* upgradeToStrongRef: the count goes up, under the lock, if the object is  *)
(* alive; otherwise it returns a null reference.                            *)
UpgradeLock(t) ==
    /\ wpc[t] = "none" /\ mutex = Nobody
    /\ mutex' = t
    /\ wpc' = [wpc EXCEPT ![t] = "check"]
    /\ UNCHANGED <<refcount, ob_is_alive, destroyed>>

CheckAlive(t) ==
    /\ wpc[t] = "check"
    /\ IF ob_is_alive
       THEN wpc' = [wpc EXCEPT ![t] = "inc"] /\ UNCHANGED mutex
       ELSE wpc' = [wpc EXCEPT ![t] = "none"] /\ mutex' = Nobody
    /\ UNCHANGED <<refcount, ob_is_alive, destroyed>>

Increment(t) ==
    /\ wpc[t] = "inc"
    /\ refcount' = refcount + 1
    /\ mutex' = Nobody
    /\ wpc' = [wpc EXCEPT ![t] = "held"]
    /\ UNCHANGED <<ob_is_alive, destroyed>>

WeakNext ==
    \E t \in RefThread :
        \/ \E u \in RefThread : Copy(t, u)
        \/ DropLock(t) \/ Decrement(t) \/ MarkDead(t) \/ Destroy(t)
        \/ UpgradeLock(t) \/ CheckAlive(t) \/ Increment(t)

WeakSpec == WeakInit /\ [][WeakNext]_weakVars

-----------------------------------------------------------------------------
WeakTypeOK ==
    /\ refcount \in Nat
    /\ ob_is_alive \in BOOLEAN /\ destroyed \in BOOLEAN
    /\ mutex \in RefThread \cup {Nobody}
    /\ wpc \in [RefThread -> {"none", "held", "dec", "mark", "destroy", "check", "inc"}]

(* "Needs to go before refcount.decrement() to prevent another thread from  *)
(* reading ob_is_alive=1 after refcount.decrement()": whatever promotes and *)
(* drops references at the same time, a thread that has a strong reference  *)
(* has it to an object that is neither destroyed nor being destroyed, and   *)
(* no two threads destroy it.                                               *)
StrongRefIsAlive ==
    \A t \in RefThread :
        /\ wpc[t] \in {"held", "dec", "inc"} => ~destroyed
        /\ wpc[t] \in {"mark", "destroy"} =>
             /\ ~destroyed
             /\ \A u \in RefThread \ {t} : wpc[u] \notin {"held", "dec", "inc", "mark", "destroy"}

-----------------------------------------------------------------------------
(* What the lock ensures, as an inductive invariant.  The mutex is held by  *)
(* the thread that is between its lock and unlock;                          *)
LockInv == \A t \in RefThread : wpc[t] \in {"dec", "mark", "check", "inc"} <=> mutex = t

(* the count is that of the strong references;                              *)
CountInv == refcount = Cardinality(Holders)

(* the object is marked alive as long as it is counted, or its last         *)
(* reference is about to be reported;                                       *)
AliveInv ==
    /\ ob_is_alive <=> refcount > 0 \/ \E t \in RefThread : wpc[t] = "mark"
    /\ \A t \in RefThread : wpc[t] = "inc" => ob_is_alive
    /\ \A t \in RefThread : wpc[t] = "mark" => refcount = 0

(* and it is destroyed, once, by the thread that marked it.                 *)
DestroyInv ==
    /\ destroyed => ~ob_is_alive
    /\ \A t \in RefThread : wpc[t] = "destroy" => ~ob_is_alive /\ ~destroyed
    /\ \A t, u \in RefThread : wpc[t] = "destroy" /\ wpc[u] = "destroy" => t = u

WeakInv == WeakTypeOK /\ LockInv /\ CountInv /\ AliveInv /\ DestroyInv
=============================================================================
