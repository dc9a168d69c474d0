---------------------------- MODULE CancelProofs ----------------------------
(***************************************************************************)
(* removeQueuedTasks and cancelAndWaitForTasksToComplete on a manager on   *)
(* which no one calls runTaskGroup: for every number of tasks, runners and *)
(* clients the count stays exact, whatever is removed meanwhile, and the   *)
(* cancelling call reaches every task it has to.                           *)
(*                                                                         *)
(* The argument is a simulation.  A removal leaves in_queue of the tasks   *)
(* as it was, so the invariants of the manager do not hold of the state as *)
(* it is.  They hold when in_queue is read off the list and a client that  *)
(* cancels is taken to be idle: every step of the rest of the manager, and *)
(* the wait at the end of a cancellation, is then a step of TaskManager,   *)
(* and the removal keeps the invariants too.                               *)
(***************************************************************************)
EXTENDS TaskManagerCancel, TaskQueueProofs

listed  == [t \in Task |-> t \in Listed]
calling == [c \in Clients |-> IF cpc[c] = "cancel" THEN "idle" ELSE cpc[c]]

Kept == INSTANCE TaskCountProofs WITH in_queue <- listed, cpc <- calling

(* The links make a list, of distinct tasks.                                *)
HoldsList == \E q \in Seq(Task) : IsList(q)

CancelTypes ==
    /\ in_queue \in [Task -> BOOLEAN]
    /\ cpc \in [Clients -> CancelPC]
    /\ to_cancel \in [Clients -> SUBSET Runners]
    /\ cancelled \subseteq Task

(* What a cancelling client has found running has been cancelled, or is     *)
(* still being run by a runner that it has yet to visit, or has ended.      *)
Reach ==
    \A c \in Clients : cpc[c] = "cancel" =>
        /\ mpc = "alive"
        /\ \A t \in awaited[c] :
             t \in cancelled \/ \E r \in to_cancel[c] : rpc[r] = "run" /\ rtask[r] = t

CancelInv == HoldsList /\ CancelTypes /\ Reach /\ Kept!CInv

-----------------------------------------------------------------------------
(* An instance has its own copies of the operators it is written with.      *)
LEMMA SameNotions ==
    /\ \A S : Kept!IsFiniteSet(S) = IsFiniteSet(S)
    /\ \A S : Kept!Cardinality(S) = Cardinality(S)
    /\ \A f : Kept!IsInjective(f) <=> IsInjective(f)
    /\ \A f : Kept!ToSet(f) = ToSet(f)
    /\ \A g : Kept!Members(g) = Members(g)
    /\ \A S : Kept!SetToSeqs(S) = SetToSeqs(S)
<1>1. \A S : Kept!IsFiniteSet(S) = IsFiniteSet(S)
  BY DEF IsFiniteSet, Kept!IsFiniteSet
<1>2. \A S : Kept!Cardinality(S) = Cardinality(S)
  BY DEF Cardinality, Kept!Cardinality
<1>3. \A f : Kept!IsInjective(f) <=> IsInjective(f)
  BY DEF IsInjective, Kept!IsInjective
<1>4. \A f : Kept!ToSet(f) = ToSet(f)
  BY DEF ToSet, Kept!ToSet
<1>5. \A g : Kept!Members(g) = Members(g)
  BY <1>4 DEF Members, Kept!Members
<1>6. \A S : Kept!SetToSeqs(S) = SetToSeqs(S)
  BY <1>2, <1>3 DEF SetToSeqs, Kept!SetToSeqs
<1> QED
  BY <1>1, <1>2, <1>3, <1>4, <1>5, <1>6

(* The theorems about TaskManager rest on what is assumed of its constants. *)
LEMMA KeptAssumptions == Kept!TaskAssumption /\ Kept!TaskManagerAssumption
BY SameNotions, TaskAssumption, TaskManagerAssumption
DEF Kept!TaskAssumption, Kept!TaskManagerAssumption

(* The tasks of the list.                                                   *)
LEMMA ListedAre ==
    ASSUME NEW q, IsList(q)
    PROVE  /\ \A t \in Task : t \in Listed <=> \E i \in 1..Len(q) : q[i] = t
           /\ Listed \subseteq Task
<1>1. QueueSeq = q
  BY SeqOfQueue
<1>2. q \in Seq(Task)
  BY DEF IsList
<1> QED
  BY <1>1, <1>2 DEF Listed, ToSet

ListedKnown ==
    \A q \in Seq(Task) : IsList(q) =>
        /\ \A t \in Task : t \in Listed <=> \E i \in 1..Len(q) : q[i] = t
        /\ Listed \subseteq Task

LEMMA ListedKnownAlways == ListedKnown
BY ListedAre DEF ListedKnown

LEMMA ListedKnownNext == ListedKnown'
BY ListedKnownAlways, PTL

LEMMA FlagsNow == listed \in [Task -> BOOLEAN] /\ \A t \in Task : listed[t] <=> t \in Listed
<1>1. listed \in [Task -> BOOLEAN]
  BY DEF listed
<1>2. \A t \in Task : listed[t] <=> t \in Listed
  BY Zenon DEF listed
<1> QED
  BY <1>1, <1>2

LEMMA FlagsAre ==
    /\ listed \in [Task -> BOOLEAN] /\ \A t \in Task : listed[t] <=> t \in Listed
    /\ listed' \in [Task -> BOOLEAN] /\ \A t \in Task : listed'[t] <=> t \in Listed'
<1> DEFINE F == listed \in [Task -> BOOLEAN] /\ \A t \in Task : listed[t] <=> t \in Listed
<1>1. F
  BY FlagsNow
<1>2. F'
  BY <1>1, PTL
<1> QED
  BY <1>1, <1>2

LEMMA SameFlags ==
    ASSUME NEW f \in [Task -> BOOLEAN], NEW g \in [Task -> BOOLEAN],
           \A t \in Task : f[t] <=> g[t]
    PROVE  f = g
<1>1. ASSUME NEW t \in Task
      PROVE  f[t] = g[t]
  <2>1. (f[t] = TRUE \/ f[t] = FALSE) /\ (g[t] = TRUE \/ g[t] = FALSE)
    OBVIOUS
  <2>2. f[t] <=> g[t]
    OBVIOUS
  <2>3. f[t] = TRUE => g[t] # FALSE
    BY <2>2, Zenon
  <2>4. f[t] = FALSE => g[t] # TRUE
    BY <2>2, Zenon
  <2> QED
    BY <2>1, <2>3, <2>4
<1> QED
  BY <1>1

(* What the three ways to touch the queue do to the list.                   *)
LEMMA DequeueListed ==
    ASSUME HoldsList, QueueTypeOK, Dequeue
    PROVE  /\ HoldsList' /\ head \in Task
           /\ listed' = [listed EXCEPT ![head] = FALSE]
<1>1. PICK q \in Seq(Task) : IsList(q)
  BY DEF HoldsList
<1>2. /\ IsList(Tail(q))'
      /\ Len(q) \in Nat \ {0} /\ head = q[1]
      /\ Len(Tail(q)) = Len(q) - 1 /\ \A i \in 1..Len(q) - 1 : Tail(q)[i] = q[i + 1]
  BY <1>1, DequeueList
<1>3. Tail(q) \in Seq(Task) /\ \A i, j \in 1..Len(q) : q[i] = q[j] => i = j
  BY <1>1, <1>2 DEF IsList, IsInjective
<1>4. \A t \in Task : t \in Listed <=> \E i \in 1..Len(q) : q[i] = t
  BY <1>1, ListedKnownAlways DEF ListedKnown
<1>5. \A t \in Task : t \in Listed' <=> \E i \in 1..Len(Tail(q)) : Tail(q)[i] = t
  BY <1>2, <1>3, ListedKnownNext DEF ListedKnown
<1>6. ASSUME NEW t \in Task
      PROVE  t \in Listed' <=> t \in Listed /\ t # head
  <2>1. ASSUME NEW i \in 1..Len(q), q[i] = t, t # head
        PROVE  i - 1 \in 1..Len(q) - 1 /\ Tail(q)[i - 1] = t
    <3>1. i - 1 \in 1..Len(q) - 1 /\ (i - 1) + 1 = i
      BY <2>1, <1>2
    <3> QED
      BY <3>1, <2>1, <1>2
  <2>2. ASSUME NEW i \in 1..Len(q) - 1, Tail(q)[i] = t
        PROVE  i + 1 \in 1..Len(q) /\ q[i + 1] = t /\ t # head
    <3>1. i + 1 \in 1..Len(q) /\ 1 \in 1..Len(q) /\ i + 1 # 1
      BY <1>2
    <3> QED
      BY <3>1, <2>2, <1>2, <1>3
  <2> QED
    BY <2>1, <2>2, <1>2, <1>4, <1>5
<1>7. head \in Task
  BY <1>2
<1>8. listed' = [listed EXCEPT ![head] = FALSE]
  <2> DEFINE g == [listed EXCEPT ![head] = FALSE]
  <2>1. g \in [Task -> BOOLEAN] /\ \A t \in Task : g[t] <=> t \in Listed /\ t # head
    BY <1>7, FlagsAre
  <2> HIDE DEF g
  <2>2. listed' = g
    BY <2>1, <1>6, FlagsAre, SameFlags
  <2> QED
    BY <2>2 DEF g
<1> QED
  BY <1>2, <1>3, <1>7, <1>8 DEF HoldsList

LEMMA EnqueueListed ==
    ASSUME HoldsList, QueueTypeOK, NEW ts, ts \in Seq(Task), IsInjective(ts),
           \A t \in ToSet(ts) : ~listed[t], Enqueue(ts)
    PROVE  HoldsList' /\ Kept!Enqueue(ts)
<1>1. PICK q \in Seq(Task) : IsList(q)
  BY DEF HoldsList
<1>2. \A t \in Task : t \in Listed <=> \E i \in 1..Len(q) : q[i] = t
  BY <1>1, ListedKnownAlways DEF ListedKnown
<1>3. CASE Len(ts) = 0
  <2>1. UNCHANGED <<head, tail, prev, next>>
    BY <1>3 DEF Enqueue, queueVars
  <2>2. IsList(q)'
    BY <1>1, <2>1 DEF IsList, IsChain
  <2>3. \A t \in Task : t \in Listed' <=> \E i \in 1..Len(q) : q[i] = t
    BY <2>2, ListedKnownNext DEF ListedKnown
  <2>4. listed' = listed
    BY <2>3, <1>2 DEF listed
  <2> QED
    BY <2>1, <2>2, <2>4, <1>3 DEF HoldsList, Kept!Enqueue, Kept!queueVars
<1>4. CASE Len(ts) # 0
  <2> DEFINE m == Len(q)
             n == Len(ts)
             r == q \o ts
  <2>1. /\ m \in Nat /\ n \in Nat
        /\ \A i \in 1..n : ts[i] \in ToSet(ts) /\ ts[i] \in Task
        /\ \A t \in ToSet(ts) : \E i \in 1..n : t = ts[i]
    BY DEF ToSet
  <2>2. \A i \in 1..m, j \in 1..n : q[i] # ts[j]
    BY <2>1, <1>2 DEF listed
  <2>3. /\ IsList(r)' /\ Len(r) = m + n
        /\ \A i \in 1..m : r[i] = q[i]
        /\ \A i \in 1..n : r[m + i] = ts[i]
    BY <1>1, <1>4, <2>2, EnqueueList
  <2>4. r \in Seq(Task)
    OBVIOUS
  <2>5. \A t \in Task : t \in Listed' <=> \E i \in 1..Len(r) : r[i] = t
    BY <2>3, <2>4, ListedKnownNext DEF ListedKnown
  <2> HIDE DEF m, n, r
  <2>6. \A k \in 1..m + n : k \in 1..m \/ \E i \in 1..n : k = m + i
    <3>1. ASSUME NEW k \in 1..m + n, k \notin 1..m
          PROVE  k - m \in 1..n /\ k = m + (k - m)
      BY <3>1, <2>1
    <3> QED
      BY <3>1
  <2>7. \A i \in 1..m : i \in 1..m + n
    BY <2>1
  <2>8. \A i \in 1..n : m + i \in 1..m + n
    BY <2>1
  <2>9. ASSUME NEW t \in Task
        PROVE  t \in Listed' <=> t \in ToSet(ts) \/ t \in Listed
    <3>1. t \in Listed <=> \E i \in 1..m : q[i] = t
      BY <1>2 DEF m
    <3>2. t \in ToSet(ts) <=> \E i \in 1..n : ts[i] = t
      BY <2>1
    <3>3. t \in Listed' <=> \E k \in 1..m + n : r[k] = t
      BY <2>3, <2>5
    <3> QED
      BY <3>1, <3>2, <3>3, <2>3, <2>6, <2>7, <2>8
  <2>10. listed' = [t \in Task |-> t \in ToSet(ts) \/ listed[t]]
    <3> DEFINE g == [t \in Task |-> t \in ToSet(ts) \/ listed[t]]
    <3>1. g \in [Task -> BOOLEAN] /\ \A t \in Task : g[t] <=> t \in ToSet(ts) \/ t \in Listed
      BY FlagsAre
    <3> HIDE DEF g
    <3>2. listed' = g
      BY <3>1, <2>9, FlagsAre, SameFlags
    <3> QED
      BY <3>2 DEF g
  <2>11. /\ head' = IF tail = NoTask THEN ts[1] ELSE head
         /\ tail' = ts[n]
         /\ prev' = [t \in Task |->
                       IF t \in ToSet(ts)
                       THEN LET i == Position(ts, t) IN IF i = 1 THEN tail ELSE ts[i - 1]
                       ELSE prev[t]]
         /\ next' = [t \in Task |->
                       IF t \in ToSet(ts)
                       THEN LET i == Position(ts, t) IN IF i = n THEN NoTask ELSE ts[i + 1]
                       ELSE IF t = tail THEN ts[1] ELSE next[t]]
    BY <1>4 DEF Enqueue, n
  <2>12. Kept!Enqueue(ts)
    BY <1>4, <2>10, <2>11 DEF Kept!Enqueue, Kept!Position, Kept!ToSet, Position, ToSet, n
  <2> QED
    BY <2>3, <2>4, <2>12 DEF HoldsList
<1> QED
  BY <1>3, <1>4

LEMMA IdleListed ==
    ASSUME HoldsList, UNCHANGED <<head, tail, prev, next>>
    PROVE  HoldsList' /\ listed' = listed
<1>1. PICK q \in Seq(Task) : IsList(q)
  BY DEF HoldsList
<1>2. IsList(q)'
  BY <1>1 DEF IsList, IsChain
<1>3. \A t \in Task : t \in Listed <=> \E i \in 1..Len(q) : q[i] = t
  BY <1>1, ListedKnownAlways DEF ListedKnown
<1>4. \A t \in Task : t \in Listed' <=> \E i \in 1..Len(q) : q[i] = t
  BY <1>2, ListedKnownNext DEF ListedKnown
<1> QED
  BY <1>2, <1>3, <1>4 DEF HoldsList, listed

NoneListed == HoldsList /\ Listed = {} /\ listed = [t \in Task |-> FALSE]

LEMMA EmptyListedNow == head = NoTask /\ tail = NoTask => NoneListed
<1> SUFFICES ASSUME head = NoTask, tail = NoTask
             PROVE  NoneListed
  OBVIOUS
<1>1. PICK q \in Seq(Task) : Len(q) = 0 /\ IsInjective(q)
  <2>1. <<>> \in Seq(Task) /\ Len(<<>>) = 0 /\ IsInjective(<<>>)
    BY DEF IsInjective
  <2> QED
    BY <2>1
<1>2. IsList(q)
  BY <1>1 DEF IsList, IsChain
<1>3. /\ \A t \in Task : ~(t \in Listed)
      /\ Listed \subseteq Task
  <2>1. /\ \A t \in Task : t \in Listed <=> \E i \in 1..Len(q) : q[i] = t
        /\ Listed \subseteq Task
    BY <1>1, <1>2, ListedAre
  <2>2. \A i \in 1..Len(q) : FALSE
    BY <1>1
  <2> QED
    BY <2>1, <2>2
<1>4. listed = [t \in Task |-> FALSE]
  <2> DEFINE g == [t \in Task |-> FALSE]
  <2>1. g \in [Task -> BOOLEAN] /\ \A t \in Task : ~g[t]
    OBVIOUS
  <2> HIDE DEF g
  <2>2. listed = g
    BY <2>1, <1>3, FlagsNow, SameFlags
  <2> QED
    BY <2>2 DEF g
<1> QED
  BY <1>1, <1>2, <1>3, <1>4 DEF HoldsList, NoneListed

LEMMA EmptyListed ==
    ASSUME head' = NoTask, tail' = NoTask
    PROVE  NoneListed'
<1>1. (head = NoTask /\ tail = NoTask => NoneListed)'
  BY EmptyListedNow, PTL
<1> QED
  BY <1>1

-----------------------------------------------------------------------------
(* Where a client is, cancellation apart.                                   *)
LEMMA CallingIs ==
    ASSUME CancelTypes
    PROVE  /\ \A c \in Clients : cpc[c] # "cancel" => calling[c] = cpc[c]
           /\ \A c \in Clients : cpc[c] = "cancel" => calling[c] = "idle"
           /\ \A c \in Clients : calling[c] # "idle" => calling[c] = cpc[c]
           /\ QueueFree <=> Kept!QueueFree
           /\ \A t \in Task : RunBy(t) <=> Kept!RunBy(t)
<1>1. /\ \A c \in Clients : cpc[c] # "cancel" => calling[c] = cpc[c]
      /\ \A c \in Clients : cpc[c] = "cancel" => calling[c] = "idle"
  BY DEF calling
<1>2. QueueFree <=> Kept!QueueFree
  BY <1>1 DEF QueueFree, Kept!QueueFree
<1>3. \A c \in Clients : cpc[c] = "drainRun" <=> calling[c] = "drainRun"
  BY <1>1
<1>4. \A t \in Task : RunBy(t) <=> Kept!RunBy(t)
  BY <1>3 DEF RunBy, Kept!RunBy, Current, Kept!Current
<1> QED
  BY <1>1, <1>2, <1>4

LEMMA CallingKept ==
    ASSUME cpc' = cpc
    PROVE  calling' = calling
BY DEF calling

LEMMA CallingMoves ==
    ASSUME CancelTypes, NEW c \in Clients, NEW x, x # "cancel", cpc' = [cpc EXCEPT ![c] = x]
    PROVE  calling' = [calling EXCEPT ![c] = x]
BY DEF CancelTypes, calling

LEMMA CallingWoken ==
    ASSUME CancelTypes, WakeAllWaiters
    PROVE  Kept!WakeAllWaiters
BY DEF CancelTypes, calling, WakeAllWaiters, Kept!WakeAllWaiters

-----------------------------------------------------------------------------
(* Every step of the rest of the manager is one of TaskManager.             *)
LEMMA RunnerKept ==
    ASSUME CancelInv, Groups = {}, NEW r \in Runners, RunnerStep(r) \/ RunnerSpuriousWakeup(r)
    PROVE  HoldsList' /\ (Kept!RunnerStep(r) \/ Kept!RunnerSpuriousWakeup(r))
<1>0. /\ HoldsList /\ CancelTypes /\ QueueTypeOK
      /\ QueueFree <=> Kept!QueueFree
  BY CallingIs DEF CancelInv, CancelTypes, QueueTypeOK, Kept!CInv, Kept!IInv, Kept!TypeOK,
                   Kept!QueueTypeOK
<1>1. CASE RunnerDequeue(r) /\ head # NoTask
  <2>1. Dequeue /\ calling' = calling
    BY <1>1, CallingKept DEF RunnerDequeue, clientVars
  <2>2. HoldsList' /\ listed' = [listed EXCEPT ![head] = FALSE]
    BY <2>1, <1>0, DequeueListed
  <2>3. Kept!Dequeue
    BY <2>1, <2>2 DEF Dequeue, Kept!Dequeue
  <2>4. Kept!RunnerDequeue(r)
    BY <2>1, <2>3, <1>0, <1>1
    DEF RunnerDequeue, Kept!RunnerDequeue, queueVars, runnerVars, groupVars, clientVars, quitVars, history,
        Kept!queueVars, Kept!runnerVars, Kept!groupVars, Kept!clientVars, Kept!quitVars,
        Kept!history
  <2> QED
    BY <2>2, <2>4 DEF Kept!RunnerStep
<1>2. ASSUME UNCHANGED queueVars
      PROVE  HoldsList' /\ listed' = listed /\ UNCHANGED Kept!queueVars
  BY <1>0, <1>2, IdleListed DEF queueVars, Kept!queueVars
<1>3. CASE RunnerFinishNotify(r)
  <2>1. Kept!WakeAllWaiters
    BY <1>0, <1>3, CallingWoken DEF RunnerFinishNotify
  <2>2. HoldsList' /\ listed' = listed /\ UNCHANGED Kept!queueVars
    BY <1>2, <1>3 DEF RunnerFinishNotify
  <2>3. Kept!RunnerFinishNotify(r)
    BY <2>1, <2>2, <1>3
    DEF RunnerFinishNotify, Kept!RunnerFinishNotify, queueVars, runnerVars, groupVars, clientVars, quitVars, history,
        Kept!queueVars, Kept!runnerVars, Kept!groupVars, Kept!clientVars, Kept!quitVars,
        Kept!history
  <2> QED
    BY <2>2, <2>3 DEF Kept!RunnerStep
<1>4. CASE \/ RunnerDequeue(r) /\ head = NoTask
           \/ RunnerSetCurrent(r) \/ RunnerEndRun(r) \/ RunnerGroupDec(r)
           \/ RunnerGroupNotify(r) \/ RunnerClearCurrent(r) \/ RunnerTaskFinished(r)
           \/ RunnerSpuriousWakeup(r)
  <2>1. UNCHANGED queueVars /\ calling' = calling
    BY <1>4, CallingKept
    DEF RunnerDequeue, RunnerSetCurrent, RunnerEndRun, RunnerGroupDec, RunnerGroupNotify,
        RunnerClearCurrent, RunnerTaskFinished, RunnerSpuriousWakeup, clientVars, queueVars
  <2>2. HoldsList' /\ listed' = listed /\ UNCHANGED Kept!queueVars
    BY <1>2, <2>1
  <2>3. ASSUME RunnerDequeue(r) /\ head = NoTask
        PROVE  Kept!RunnerDequeue(r)
    BY <2>1, <2>2, <2>3, <1>0
    DEF RunnerDequeue, Kept!RunnerDequeue, queueVars, runnerVars, groupVars, clientVars, quitVars, history,
        Kept!queueVars, Kept!runnerVars, Kept!groupVars, Kept!clientVars, Kept!quitVars,
        Kept!history
  <2>4. ASSUME RunnerEndRun(r)
        PROVE  Kept!RunnerEndRun(r)
    BY <2>1, <2>2, <2>4
    DEF RunnerEndRun, Kept!RunnerEndRun, MayEnd, Kept!MayEnd, AfterEnd, Kept!AfterEnd,
        RecordEnd, Kept!RecordEnd, queueVars, runnerVars, groupVars, clientVars, quitVars, history,
        Kept!queueVars, Kept!runnerVars, Kept!groupVars, Kept!clientVars, Kept!quitVars,
        Kept!history
  <2>5. ~RunnerGroupDec(r) /\ ~RunnerGroupNotify(r)
    BY DEF RunnerGroupDec, RunnerGroupNotify
  <2>6. ASSUME RunnerSetCurrent(r) \/ RunnerClearCurrent(r) \/ RunnerTaskFinished(r)
        PROVE  Kept!RunnerSetCurrent(r) \/ Kept!RunnerClearCurrent(r) \/ Kept!RunnerTaskFinished(r)
    BY <2>1, <2>2, <2>6
    DEF RunnerSetCurrent, RunnerClearCurrent, RunnerTaskFinished, Kept!RunnerSetCurrent,
        Kept!RunnerClearCurrent, Kept!RunnerTaskFinished,
        queueVars, runnerVars, groupVars, clientVars, quitVars, history,
        Kept!queueVars, Kept!runnerVars, Kept!groupVars, Kept!clientVars, Kept!quitVars,
        Kept!history
  <2>7. ASSUME RunnerSpuriousWakeup(r)
        PROVE  Kept!RunnerSpuriousWakeup(r)
    BY <2>1, <2>2, <2>7
    DEF RunnerSpuriousWakeup, Kept!RunnerSpuriousWakeup, queueVars, runnerVars, groupVars, clientVars, quitVars, history,
        Kept!queueVars, Kept!runnerVars, Kept!groupVars, Kept!clientVars, Kept!quitVars,
        Kept!history
  <2> QED
    BY <1>4, <2>2, <2>3, <2>4, <2>5, <2>6, <2>7 DEF Kept!RunnerStep
<1> QED
  BY <1>1, <1>3, <1>4 DEF RunnerStep

LEMMA ClientKept ==
    ASSUME CancelInv, NEW c \in Clients,
           ClientStep(c) \/ Add(c) \/ WaitStart(c) \/ WaitSpuriousWakeup(c)
    PROVE  /\ HoldsList'
           /\ \/ Kept!ClientStep(c) \/ Kept!Add(c) \/ Kept!WaitStart(c)
              \/ Kept!WaitSpuriousWakeup(c)
<1>0. /\ HoldsList /\ CancelTypes /\ QueueTypeOK /\ Kept!IInv
      /\ QueueFree <=> Kept!QueueFree
  BY CallingIs DEF CancelInv, CancelTypes, QueueTypeOK, Kept!CInv, Kept!IInv, Kept!TypeOK,
                   Kept!QueueTypeOK
<1>1. \A d \in Clients : cpc[d] # "cancel" => calling[d] = cpc[d]
  BY <1>0, CallingIs
<1>2. ASSUME UNCHANGED queueVars
      PROVE  HoldsList' /\ listed' = listed /\ UNCHANGED Kept!queueVars
  BY <1>0, <1>2, IdleListed DEF queueVars, Kept!queueVars
<1>3. CASE AddEnqueue(c)
  <2>1. calling[c] = "enqueue" /\ Enqueue(carg[c])
    BY <1>1, <1>3 DEF AddEnqueue
  <2>2. carg[c] \in Seq(Task) /\ IsInjective(carg[c]) /\ \A t \in ToSet(carg[c]) : ~listed[t]
    BY <1>0, <2>1, KeptAssumptions, Kept!ClientEnqueueable
    DEF Kept!Enqueueable, Kept!IsInjective, Kept!ToSet, IsInjective, ToSet
  <2>3. HoldsList' /\ Kept!Enqueue(carg[c])
    BY <1>0, <2>1, <2>2, EnqueueListed
  <2>4. PICK n \in {"notify", "notifyAll"} :
          (n = "notify" => Len(carg[c]) = 1) /\ cpc' = [cpc EXCEPT ![c] = n]
    BY <1>3 DEF AddEnqueue
  <2>5. calling' = [calling EXCEPT ![c] = n]
    BY <1>0, <2>4, CallingMoves
  <2>6. Kept!AddEnqueue(c)
    BY <1>0, <1>3, <2>1, <2>3, <2>4, <2>5
    DEF AddEnqueue, Kept!AddEnqueue, queueVars, runnerVars, groupVars, clientVars, quitVars, history,
        Kept!queueVars, Kept!runnerVars, Kept!groupVars, Kept!clientVars, Kept!quitVars,
        Kept!history
  <2> QED
    BY <2>3, <2>6 DEF Kept!ClientStep
<1>4. CASE DrainDequeue(c) /\ head # NoTask
  <2>1. Dequeue /\ cpc' = [cpc EXCEPT ![c] = "drainRun"] /\ calling[c] = "drain"
    BY <1>1, <1>4 DEF DrainDequeue
  <2>2. HoldsList' /\ listed' = [listed EXCEPT ![head] = FALSE]
    BY <1>0, <2>1, DequeueListed
  <2>3. Kept!Dequeue
    BY <2>1, <2>2 DEF Dequeue, Kept!Dequeue
  <2>4. calling' = [calling EXCEPT ![c] = "drainRun"]
    BY <1>0, <2>1, CallingMoves
  <2>5. Kept!DrainDequeue(c)
    BY <1>4, <2>1, <2>3, <2>4
    DEF DrainDequeue, Kept!DrainDequeue, queueVars, runnerVars, groupVars, clientVars, quitVars, history,
        Kept!queueVars, Kept!runnerVars, Kept!groupVars, Kept!clientVars, Kept!quitVars,
        Kept!history
  <2> QED
    BY <2>2, <2>5 DEF Kept!ClientStep
<1>5. CASE Add(c)
  <2>1. UNCHANGED queueVars /\ cpc' = [cpc EXCEPT ![c] = "enqueue"] /\ cpc[c] = "idle"
    BY <1>5 DEF Add, AddCount
  <2>2. calling' = [calling EXCEPT ![c] = "enqueue"] /\ calling[c] = "idle"
    BY <1>0, <1>1, <2>1, CallingMoves
  <2>3. HoldsList' /\ listed' = listed /\ UNCHANGED Kept!queueVars
    BY <1>2, <2>1
  <2>4. PICK S \in SUBSET Addable :
          Cardinality(S) \in 1..MaxBatch /\ \E ts \in SetToSeqs(S) : AddCount(c, ts)
    BY <1>5 DEF Add
  <2>5. PICK ts \in SetToSeqs(S) : AddCount(c, ts)
    BY <2>4
  <2>6. Kept!AddCount(c, ts)
    BY <2>2, <2>3, <2>5
    DEF AddCount, Kept!AddCount, ToSet, Kept!ToSet,
        queueVars, runnerVars, groupVars, clientVars, quitVars, history,
        Kept!queueVars, Kept!runnerVars, Kept!groupVars, Kept!clientVars, Kept!quitVars,
        Kept!history
  <2>7. Kept!Addable = Addable /\ Kept!SetToSeqs(S) = SetToSeqs(S)
    BY SameNotions DEF Addable, Kept!Addable
  <2>8. Kept!Add(c)
    BY <2>4, <2>6, <2>7, SameNotions DEF Kept!Add
  <2> QED
    BY <2>3, <2>8
<1>6. CASE AddNotify(c)
  <2>1. UNCHANGED queueVars /\ cpc' = [cpc EXCEPT ![c] = "idle"] /\ calling[c] = cpc[c]
    BY <1>1, <1>6 DEF AddNotify
  <2>2. calling' = [calling EXCEPT ![c] = "idle"]
    BY <1>0, <2>1, CallingMoves
  <2>3. HoldsList' /\ listed' = listed /\ UNCHANGED Kept!queueVars
    BY <1>2, <2>1
  <2>4. Kept!AddNotify(c)
    BY <1>6, <2>1, <2>2, <2>3
    DEF AddNotify, Kept!AddNotify, WakeOneRunner, Kept!WakeOneRunner, WakeAllRunners,
        Kept!WakeAllRunners, queueVars, runnerVars, groupVars, clientVars, quitVars, history,
        Kept!queueVars, Kept!runnerVars, Kept!groupVars, Kept!clientVars, Kept!quitVars,
        Kept!history
  <2> QED
    BY <2>3, <2>4 DEF Kept!ClientStep
<1>7. CASE WaitStart(c)
  <2> DEFINE x == IF Runners = {} THEN "drain" ELSE "wait"
  <2>1. UNCHANGED queueVars /\ cpc' = [cpc EXCEPT ![c] = x] /\ calling[c] = "idle" /\ x # "cancel"
    BY <1>1, <1>7 DEF WaitStart
  <2>2. calling' = [calling EXCEPT ![c] = x]
    BY <1>0, <2>1, CallingMoves
  <2>3. HoldsList' /\ listed' = listed /\ UNCHANGED Kept!queueVars
    BY <1>2, <2>1
  <2>4. Kept!WaitStart(c)
    BY <1>0, <1>7, <2>1, <2>2, <2>3
    DEF WaitStart, Kept!WaitStart, queueVars, runnerVars, groupVars, clientVars, quitVars, history,
        Kept!queueVars, Kept!runnerVars, Kept!groupVars, Kept!clientVars, Kept!quitVars,
        Kept!history
  <2> QED
    BY <2>3, <2>4
<1>8. CASE WaitCheck(c) \/ (DrainDequeue(c) /\ head = NoTask)
  <2> DEFINE x == IF cpc[c] = "drain" \/ num_unfinished = 0 THEN "returned" ELSE "asleep"
  <2>1. UNCHANGED queueVars /\ cpc' = [cpc EXCEPT ![c] = x] /\ calling[c] = cpc[c] /\ x # "cancel"
    BY <1>1, <1>8 DEF WaitCheck, DrainDequeue, queueVars
  <2>2. calling' = [calling EXCEPT ![c] = x]
    BY <1>0, <2>1, CallingMoves
  <2>3. HoldsList' /\ listed' = listed /\ UNCHANGED Kept!queueVars
    BY <1>2, <2>1
  <2>4. CASE WaitCheck(c)
    <3>1. Kept!WaitCheck(c)
      BY <2>1, <2>2, <2>3, <2>4
      DEF WaitCheck, Kept!WaitCheck, queueVars, runnerVars, groupVars, clientVars, quitVars, history,
          Kept!queueVars, Kept!runnerVars, Kept!groupVars, Kept!clientVars, Kept!quitVars,
          Kept!history
    <3> QED
      BY <2>3, <3>1 DEF Kept!ClientStep
  <2>5. CASE DrainDequeue(c) /\ head = NoTask
    <3>1. Kept!DrainDequeue(c)
      BY <2>1, <2>2, <2>3, <2>5
      DEF DrainDequeue, Kept!DrainDequeue, queueVars, runnerVars, groupVars, clientVars, quitVars, history,
          Kept!queueVars, Kept!runnerVars, Kept!groupVars, Kept!clientVars, Kept!quitVars,
          Kept!history
    <3> QED
      BY <2>3, <3>1 DEF Kept!ClientStep
  <2> QED
    BY <1>8, <2>4, <2>5
<1>9. CASE WaitReturn(c) \/ DrainEndRun(c) \/ DrainDec(c) \/ WaitSpuriousWakeup(c)
  <2> DEFINE x == CASE cpc[c] = "returned" -> "idle"
                    [] cpc[c] = "drainRun" -> "drainDec"
                    [] cpc[c] = "drainDec" -> "drain"
                    [] OTHER               -> "wait"
  <2>1. UNCHANGED queueVars /\ cpc' = [cpc EXCEPT ![c] = x] /\ calling[c] = cpc[c] /\ x # "cancel"
    BY <1>1, <1>9 DEF WaitReturn, DrainEndRun, DrainDec, WaitSpuriousWakeup
  <2>2. calling' = [calling EXCEPT ![c] = x]
    BY <1>0, <2>1, CallingMoves
  <2>3. HoldsList' /\ listed' = listed /\ UNCHANGED Kept!queueVars
    BY <1>2, <2>1
  <2>4. \/ Kept!WaitReturn(c) \/ Kept!DrainEndRun(c) \/ Kept!DrainDec(c)
        \/ Kept!WaitSpuriousWakeup(c)
    BY <1>9, <2>1, <2>2, <2>3
    DEF WaitReturn, DrainEndRun, DrainDec, WaitSpuriousWakeup, Kept!WaitReturn,
        Kept!DrainEndRun, Kept!DrainDec, Kept!WaitSpuriousWakeup, MayEnd, Kept!MayEnd,
        AfterEnd, Kept!AfterEnd, RecordEnd, Kept!RecordEnd,
        queueVars, runnerVars, groupVars, clientVars, quitVars, history,
        Kept!queueVars, Kept!runnerVars, Kept!groupVars, Kept!clientVars, Kept!quitVars,
        Kept!history
  <2> QED
    BY <2>3, <2>4 DEF Kept!ClientStep
<1> QED
  BY <1>3, <1>4, <1>5, <1>6, <1>7, <1>8, <1>9 DEF ClientStep

LEMMA QuitKept ==
    ASSUME CancelInv, QuitStep \/ QuitStart \/ Destroyed
    PROVE  HoldsList' /\ (Kept!QuitStep \/ Kept!QuitStart \/ Kept!Destroyed)
<1>0. /\ HoldsList /\ CancelTypes /\ QueueTypeOK /\ Kept!IInv
  BY DEF CancelInv, CancelTypes, QueueTypeOK, Kept!CInv, Kept!IInv, Kept!TypeOK,
         Kept!QueueTypeOK
<1>1. calling' = calling
  BY CallingKept
  DEF QuitStep, QuitStart, Destroyed, QuitEnqueue, QuitNotify, QuitJoin, clientVars, vars
<1>2. ASSUME UNCHANGED queueVars
      PROVE  HoldsList' /\ listed' = listed /\ UNCHANGED Kept!queueVars
  BY <1>0, <1>2, IdleListed DEF queueVars, Kept!queueVars
<1>3. ASSUME NEW q \in QuitTasks \ quits, QuitEnqueue, Enqueue(<<q>>), quits' = quits \cup {q},
             mpc' = "notify"
      PROVE  HoldsList' /\ Kept!QuitEnqueue
  <2>1. Kept!Enqueueable(<<q>>)
    BY <1>0, KeptAssumptions, Kept!QuitEnqueueable
  <2>2. /\ <<q>> \in Seq(Task) /\ IsInjective(<<q>>)
        /\ \A t \in ToSet(<<q>>) : ~listed[t]
    BY <2>1 DEF Kept!Enqueueable, Kept!IsInjective, Kept!ToSet, IsInjective, ToSet
  <2>3. HoldsList' /\ Kept!Enqueue(<<q>>)
    BY <1>0, <1>3, <2>2, EnqueueListed
  <2> QED
    BY <1>1, <1>3, <2>3
    DEF QuitEnqueue, Kept!QuitEnqueue, queueVars, runnerVars, groupVars, clientVars, quitVars, history,
        Kept!queueVars, Kept!runnerVars, Kept!groupVars, Kept!clientVars, Kept!quitVars,
        Kept!history
<1>4. CASE QuitEnqueue /\ UNCHANGED <<queueVars, quits>> /\ quits = QuitTasks /\ mpc' = "join"
  <2>1. HoldsList' /\ listed' = listed /\ UNCHANGED Kept!queueVars
    BY <1>2, <1>4
  <2>2. Kept!QuitEnqueue
    BY <1>1, <1>4, <2>1
    DEF QuitEnqueue, Kept!QuitEnqueue, queueVars, runnerVars, groupVars, clientVars, quitVars, history,
        Kept!queueVars, Kept!runnerVars, Kept!groupVars, Kept!clientVars, Kept!quitVars,
        Kept!history
  <2> QED
    BY <2>1, <2>2 DEF Kept!QuitStep
<1>5. CASE QuitNotify \/ QuitJoin \/ QuitStart \/ Destroyed
  <2>1. HoldsList' /\ listed' = listed /\ UNCHANGED Kept!queueVars
    BY <1>2, <1>5 DEF QuitNotify, QuitJoin, QuitStart, Destroyed, vars
  <2>2. CASE QuitNotify \/ QuitJoin
    <3>1. Kept!QuitNotify \/ Kept!QuitJoin
      BY <1>1, <2>1, <2>2
      DEF QuitNotify, QuitJoin, Kept!QuitNotify, Kept!QuitJoin, WakeOneRunner,
          Kept!WakeOneRunner, queueVars, runnerVars, groupVars, clientVars, quitVars, history,
          Kept!queueVars, Kept!runnerVars, Kept!groupVars, Kept!clientVars, Kept!quitVars,
          Kept!history
    <3> QED
      BY <2>1, <3>1 DEF Kept!QuitStep
  <2>3. CASE QuitStart
    <3>1. \A c \in Clients : calling[c] = "idle"
      BY <1>0, <2>3, CallingIs DEF QuitStart
    <3>2. Kept!QuitStart
      BY <1>1, <2>1, <2>3, <3>1
      DEF QuitStart, Kept!QuitStart, TopLevel, Kept!TopLevel,
          queueVars, runnerVars, groupVars, clientVars, quitVars, history,
          Kept!queueVars, Kept!runnerVars, Kept!groupVars, Kept!clientVars, Kept!quitVars,
          Kept!history
    <3> QED
      BY <2>1, <3>2
  <2>4. CASE Destroyed
    <3>1. Kept!Destroyed
      BY <1>1, <2>1, <2>4
      DEF Destroyed, Kept!Destroyed, vars, Kept!vars,
          queueVars, runnerVars, groupVars, clientVars, quitVars, history,
          Kept!queueVars, Kept!runnerVars, Kept!groupVars, Kept!clientVars, Kept!quitVars,
          Kept!history
    <3> QED
      BY <2>1, <3>1
  <2> QED
    BY <1>5, <2>2, <2>3, <2>4
<1> QED
  BY <1>3, <1>4, <1>5 DEF QuitStep, QuitEnqueue, Kept!QuitStep

LEMMA NextKept ==
    ASSUME CancelInv, Groups = {}, Next
    PROVE  HoldsList' /\ Kept!Next
<1>1. ASSUME NEW r \in Runners, RunnerStep(r) \/ RunnerSpuriousWakeup(r)
      PROVE  HoldsList' /\ Kept!Next
  BY <1>1, RunnerKept DEF Kept!Next, Kept!Working, Kept!SpuriousWakeup
<1>2. ASSUME NEW c \in Clients,
             ClientStep(c) \/ Add(c) \/ WaitStart(c) \/ WaitSpuriousWakeup(c)
      PROVE  HoldsList' /\ Kept!Next
  BY <1>2, ClientKept DEF Kept!Next, Kept!Working, Kept!Calling, Kept!SpuriousWakeup
<1>3. CASE QuitStep \/ QuitStart \/ Destroyed
  BY <1>3, QuitKept DEF Kept!Next, Kept!Working, Kept!Calling
<1> QED
  BY <1>1, <1>2, <1>3 DEF Next, Working, Calling, SpuriousWakeup

-----------------------------------------------------------------------------
(* A step of the rest of the manager starts and ends no cancellation.       *)
LEMMA QueueFlagsTyped ==
    ASSUME in_queue \in [Task -> BOOLEAN],
           \/ Dequeue \/ UNCHANGED queueVars
           \/ \E ts \in {carg[c] : c \in Clients} \cup {<<q>> : q \in QuitTasks} : Enqueue(ts)
    PROVE  in_queue' \in [Task -> BOOLEAN]
<1>1. ASSUME NEW ts, Enqueue(ts), Len(ts) # 0
      PROVE  in_queue' \in [Task -> BOOLEAN]
  BY <1>1 DEF Enqueue
<1>2. ASSUME NEW ts, Enqueue(ts), Len(ts) = 0
      PROVE  in_queue' = in_queue
  BY <1>2 DEF Enqueue, queueVars
<1>3. CASE Dequeue
  BY <1>3 DEF Dequeue
<1>4. CASE UNCHANGED queueVars
  BY <1>4 DEF queueVars
<1> QED
  BY <1>1, <1>2, <1>3, <1>4

LEMMA NextTyped ==
    ASSUME CancelTypes, Groups = {}, Next
    PROVE  /\ in_queue' \in [Task -> BOOLEAN]
           /\ cpc' \in [Clients -> CancelPC]
           /\ \A c \in Clients : cpc'[c] = "cancel" <=> cpc[c] = "cancel"
<1>0. /\ in_queue \in [Task -> BOOLEAN] /\ cpc \in [Clients -> CancelPC]
      /\ \A x \in {"idle", "enqueue", "notify", "notifyAll", "wait", "asleep",
                   "drain", "drainRun", "drainDec", "returned"} : x \in CancelPC /\ x # "cancel"
  BY DEF CancelTypes, CancelPC, ClientPC
<1>1. CASE \E r \in Runners : RunnerStep(r) \/ RunnerSpuriousWakeup(r)
  <2>1. PICK r \in Runners : RunnerStep(r) \/ RunnerSpuriousWakeup(r)
    BY <1>1
  <2>2. Dequeue \/ UNCHANGED queueVars
    BY <2>1
    DEF RunnerStep, RunnerDequeue, RunnerSetCurrent, RunnerEndRun, RunnerGroupDec,
        RunnerGroupNotify, RunnerClearCurrent, RunnerTaskFinished, RunnerFinishNotify,
        RunnerSpuriousWakeup
  <2>3. cpc' = cpc \/ WakeAllWaiters
    BY <2>1
    DEF RunnerStep, RunnerDequeue, RunnerSetCurrent, RunnerEndRun, RunnerGroupDec,
        RunnerGroupNotify, RunnerClearCurrent, RunnerTaskFinished, RunnerFinishNotify,
        RunnerSpuriousWakeup, clientVars
  <2>4. in_queue' \in [Task -> BOOLEAN]
    BY <1>0, <2>2, QueueFlagsTyped
  <2>5. /\ cpc' \in [Clients -> CancelPC]
        /\ \A c \in Clients : cpc'[c] = "cancel" <=> cpc[c] = "cancel"
    BY <1>0, <2>3 DEF WakeAllWaiters
  <2> QED
    BY <2>4, <2>5
<1>2. CASE \E c \in Clients : ClientStep(c) \/ Add(c) \/ WaitStart(c) \/ WaitSpuriousWakeup(c)
  <2>1. PICK c \in Clients : ClientStep(c) \/ Add(c) \/ WaitStart(c) \/ WaitSpuriousWakeup(c)
    BY <1>2
  <2>2. Dequeue \/ UNCHANGED queueVars \/ Enqueue(carg[c])
    BY <2>1
    DEF ClientStep, AddEnqueue, AddNotify, WaitCheck, WaitReturn, DrainDequeue, DrainEndRun,
        DrainDec, Add, AddCount, WaitStart, WaitSpuriousWakeup
  <2>3. in_queue' \in [Task -> BOOLEAN]
    BY <1>0, <2>2, QueueFlagsTyped
  <2>4. cpc[c] # "cancel" /\ \E x \in CancelPC \ {"cancel"} : cpc' = [cpc EXCEPT ![c] = x]
    BY <1>0, <2>1
    DEF ClientStep, AddEnqueue, AddNotify, WaitCheck, WaitReturn, DrainDequeue, DrainEndRun,
        DrainDec, Add, AddCount, WaitStart, WaitSpuriousWakeup
  <2>5. /\ cpc' \in [Clients -> CancelPC]
        /\ \A d \in Clients : cpc'[d] = "cancel" <=> cpc[d] = "cancel"
    BY <1>0, <2>4
  <2> QED
    BY <2>3, <2>5
<1>3. CASE QuitStep \/ QuitStart \/ Destroyed
  <2>1. cpc' = cpc
    BY <1>3
    DEF QuitStep, QuitStart, Destroyed, QuitEnqueue, QuitNotify, QuitJoin, clientVars, vars
  <2>2. UNCHANGED queueVars \/ \E q \in QuitTasks : Enqueue(<<q>>)
    BY <1>3
    DEF QuitStep, QuitStart, Destroyed, QuitEnqueue, QuitNotify, QuitJoin, vars, queueVars
  <2>3. in_queue' \in [Task -> BOOLEAN]
    BY <1>0, <2>2, QueueFlagsTyped
  <2> QED
    BY <1>0, <2>1, <2>3
<1> QED
  BY <1>1, <1>2, <1>3 DEF Next, Working, Calling, SpuriousWakeup

-----------------------------------------------------------------------------
(* removeQueuedTasks: what it takes off the list had not begun, and is      *)
(* counted out; what a runner or a client has stays as it was.              *)
LEMMA RemovalCounts ==
    ASSUME CancelInv, RemoveQueuedTasks, Listed \subseteq outstanding,
           UNCHANGED <<rpc, gpc>>, calling' = calling
    PROVE  Kept!Accounting'
<1>1. Kept!TypeOK /\ Kept!Accounting
  BY DEF CancelInv, Kept!CInv, Kept!IInv
<1>2. /\ IsFiniteSet(outstanding) /\ Cardinality(outstanding) \in Nat
      /\ Kept!Cardinality(Kept!RunnersOwing) \in Nat
      /\ Kept!Cardinality(Kept!GroupsOwing) \in Nat
      /\ Kept!Cardinality(Kept!ClientsOwing) \in Nat
      /\ num_unfinished = Cardinality(outstanding) + Kept!Cardinality(Kept!RunnersOwing)
           + Kept!Cardinality(Kept!GroupsOwing) + Kept!Cardinality(Kept!ClientsOwing)
  BY <1>1, KeptAssumptions, Kept!CountsAreNat, SameNotions
<1>3. /\ Kept!RunnersOwing' = Kept!RunnersOwing /\ Kept!GroupsOwing' = Kept!GroupsOwing
      /\ Kept!ClientsOwing' = Kept!ClientsOwing
  BY DEF Kept!RunnersOwing, Kept!GroupsOwing, Kept!ClientsOwing
<1>4. outstanding \cap Listed = Listed
  OBVIOUS
<1>5. /\ Cardinality(outstanding') = Cardinality(outstanding) - Cardinality(Listed)
      /\ num_unfinished' = num_unfinished - Cardinality(Listed)
      /\ Cardinality(Listed) \in Nat /\ Cardinality(outstanding') \in Nat
  <2>1. /\ IsFiniteSet(outstanding \ Listed)
        /\ Cardinality(outstanding \ Listed) = Cardinality(outstanding) - Cardinality(Listed)
    BY <1>2, <1>4, FS_Difference
  <2>2. IsFiniteSet(Listed)
    BY <1>2, FS_Subset
  <2>3. Cardinality(Listed) \in Nat /\ Cardinality(outstanding \ Listed) \in Nat
    BY <2>1, <2>2, FS_CardinalityType
  <2> QED
    BY <2>1, <2>3 DEF RemoveQueuedTasks
<1>6. num_unfinished' = Cardinality(outstanding')
        + (Kept!Cardinality(Kept!RunnersOwing) + Kept!Cardinality(Kept!GroupsOwing)
           + Kept!Cardinality(Kept!ClientsOwing))
  BY <1>2, <1>5
<1>7. Kept!IsFiniteSet(Kept!GroupsOwing) /\ Kept!IsFiniteSet(Kept!ClientsOwing)
  BY <1>1 DEF Kept!Accounting
<1>8. Kept!Reporting' = Kept!Cardinality(Kept!RunnersOwing) + Kept!Cardinality(Kept!GroupsOwing)
                          + Kept!Cardinality(Kept!ClientsOwing)
  <2>1. Kept!Reporting' = Kept!Reporting
    BY DEF Kept!Reporting
  <2> QED
    BY <2>1 DEF Kept!Reporting, Kept!RunnersOwing, Kept!GroupsOwing, Kept!ClientsOwing
<1>9. Kept!UnfinishedIsCounted'
  BY <1>6, <1>8, SameNotions DEF Kept!UnfinishedIsCounted
<1> QED
  BY <1>3, <1>7, <1>9 DEF Kept!Accounting

LEMMA RemovalKept ==
    ASSUME CancelInv, Groups = {}, mpc = "alive", RemoveQueuedTasks,
           UNCHANGED <<runnerVars, groupVars, carg, quitVars>>, calling' = calling,
           awaited' \in [Clients -> SUBSET Task],
           \A d \in Clients :
             /\ awaited'[d] \subseteq outstanding'
             /\ Runners # {} /\ calling[d] = "returned" => awaited'[d] = {}
    PROVE  HoldsList' /\ Kept!CInv'
<1>1. Kept!TypeOK /\ Kept!Custody /\ Kept!WaitsInv
  BY DEF CancelInv, Kept!CInv, Kept!IInv
<1>2. UNCHANGED <<rpc, rtask, gpc, gi, gcount, carg, mpc, quits, prev, next>>
  BY DEF RemoveQueuedTasks, runnerVars, groupVars, quitVars
<1>3. head' = NoTask /\ tail' = NoTask /\ outstanding' = outstanding \ Listed
  BY DEF RemoveQueuedTasks
<1>4. /\ HoldsList' /\ listed' \in [Task -> BOOLEAN]
      /\ \A t \in Task : ~listed'[t]
  BY <1>3, EmptyListed DEF NoneListed
<1>5. Listed \subseteq outstanding /\ Listed \subseteq Task
  <2>1. Listed \subseteq Task
    BY ListedAre DEF CancelInv, HoldsList
  <2>2. \A t \in Task : t \in Listed => t \in outstanding
    BY <1>1, FlagsNow DEF Kept!Custody, Kept!QueueInv, Kept!QuitInv
  <2> QED
    BY <2>1, <2>2
<1>6. \A t \in Task : t \in outstanding /\ ~listed[t] => t \in outstanding'
  BY <1>3, FlagsNow
<1>7. Kept!TypeOK'
  <2>1. num_unfinished' \in Int
    <3>1. IsFiniteSet(Listed)
      BY <1>5, TaskAssumption, FS_Subset
    <3>2. Cardinality(Listed) \in Nat
      BY <3>1, FS_CardinalityType
    <3> QED
      BY <1>1, <3>2 DEF Kept!TypeOK, RemoveQueuedTasks
  <2>2. Kept!QueueTypeOK'
    BY <1>1, <1>2, <1>3, <1>4 DEF Kept!TypeOK, Kept!QueueTypeOK
  <2> QED
    BY <1>1, <1>2, <1>3, <2>1, <2>2
    DEF Kept!TypeOK, Kept!RunnerPC, Kept!GroupPC, Kept!ClientPC, Kept!QuitPC
<1>8. Kept!LinksConsistent'
  BY <1>3, <1>4 DEF Kept!LinksConsistent
<1>9. Kept!Custody'
  <2>1. Kept!RunnersInv'
    BY <1>1, <1>2, <1>4, <1>6 DEF Kept!Custody, Kept!RunnersInv
  <2>2. Kept!GroupsInv' /\ Kept!GroupsAtRest'
    BY DEF Kept!GroupsInv, Kept!GroupsAtRest
  <2>3. \A c \in Clients, t \in Task : Kept!ClientHas(c, t)' <=> Kept!ClientHas(c, t)
    BY <1>2 DEF Kept!ClientHas, Kept!ToSet
  <2>4. Kept!ClientsInv'
    <3>1. \A c \in Clients, t \in Task :
            Kept!ClientHas(c, t)' => ~listed'[t] /\ t \in outstanding'
      BY <1>1, <1>4, <1>6, <2>3 DEF Kept!Custody, Kept!ClientsInv
    <3>2. /\ \A c \in Clients : calling'[c] = "enqueue" => Kept!IsInjective(carg'[c])
          /\ \A c \in Clients : calling'[c] = "drainRun" => Len(carg'[c]) = 1
      BY <1>1, <1>2 DEF Kept!Custody, Kept!ClientsInv
    <3> QED
      BY <3>1, <3>2 DEF Kept!ClientsInv
  <2>5. Kept!QueueInv'
    BY <1>4 DEF Kept!QueueInv
  <2>6. Kept!QuitInv'
    BY <1>1, <1>2, <1>3 DEF Kept!Custody, Kept!QuitInv
  <2>7. Kept!Exclusive'
    <3>1. \A r \in Runners, t \in Task : Kept!RunnerHas(r, t)' <=> Kept!RunnerHas(r, t)
      BY <1>2 DEF Kept!RunnerHas
    <3> QED
      BY <1>1, <2>3, <3>1 DEF Kept!Custody, Kept!Exclusive
  <2> QED
    BY <2>1, <2>2, <2>4, <2>5, <2>6, <2>7 DEF Kept!Custody
<1>10. Kept!CountCoversOwed'
  BY DEF Kept!CountCoversOwed
<1>11. Kept!Accounting'
  BY <1>2, <1>5, RemovalCounts
<1>12. Kept!WaitsInv'
  BY <1>1 DEF Kept!WaitsInv
<1> QED
  BY <1>4, <1>7, <1>8, <1>9, <1>10, <1>11, <1>12 DEF Kept!CInv, Kept!IInv

-----------------------------------------------------------------------------
(* Every step keeps the list and the invariants of the manager.             *)
LEMMA CancelKept ==
    ASSUME CancelInv, Groups = {}, CancelNext
    PROVE  HoldsList' /\ Kept!CInv'
<1>0. /\ CancelTypes /\ HoldsList /\ Kept!CInv
      /\ Kept!TypeOK /\ Kept!Custody /\ Kept!WaitsInv
  BY DEF CancelInv, Kept!CInv, Kept!IInv
<1>1. ASSUME [Kept!Next]_(Kept!vars)
      PROVE  Kept!CInv'
  BY <1>0, <1>1, KeptAssumptions, Kept!CountNextInv
<1>2. CASE Other(Next)
  <2>1. HoldsList' /\ Kept!Next
    BY <1>2, NextKept DEF Other
  <2> QED
    BY <2>1, <1>1
<1>3. ASSUME NEW c \in Clients, RemoveTasks(c)
      PROVE  HoldsList' /\ Kept!CInv'
  <2>1. calling' = calling
    BY <1>3, CallingKept DEF RemoveTasks, clientVars
  <2>2. awaited' = [d \in Clients |-> awaited[d] \ Listed] /\ outstanding' = outstanding \ Listed
    BY <1>3 DEF RemoveTasks, RemoveQueuedTasks
  <2>3. /\ awaited' \in [Clients -> SUBSET Task]
        /\ \A d \in Clients :
             /\ awaited'[d] \subseteq outstanding'
             /\ Runners # {} /\ calling[d] = "returned" => awaited'[d] = {}
    BY <1>0, <2>2 DEF Kept!TypeOK, Kept!WaitsInv
  <2> QED
    BY <1>3, <2>1, <2>3, RemovalKept DEF RemoveTasks, clientVars
<1>4. ASSUME NEW c \in Clients, CancelStart(c)
      PROVE  HoldsList' /\ Kept!CInv'
  <2>1. calling[c] = "idle" /\ calling' = calling
    BY <1>0, <1>4, CallingIs DEF CancelStart, CancelTypes, calling
  <2>2. /\ awaited' = [d \in Clients |-> IF d = c THEN {t \in Task : RunBy(t)}
                                         ELSE awaited[d] \ Listed]
        /\ outstanding' = outstanding \ Listed
    BY <1>4 DEF CancelStart, RemoveQueuedTasks
  <2>3. \A t \in Task : RunBy(t) => t \in outstanding \ Listed
    <3>1. \A t \in Task : RunBy(t) => \E r \in Runners : rpc[r] = "run" /\ rtask[r] = t
      BY <1>4 DEF CancelStart, RemoveQueuedTasks, QueueFree, RunBy
    <3>2. \A r \in Runners : rpc[r] = "run" => rtask[r] \in outstanding /\ ~listed[rtask[r]]
      BY <1>0 DEF Kept!Custody, Kept!RunnersInv
    <3> QED
      BY <3>1, <3>2, FlagsNow
  <2>4. awaited' \in [Clients -> SUBSET Task]
    BY <1>0, <2>2 DEF Kept!TypeOK
  <2>5. \A d \in Clients :
          /\ awaited'[d] \subseteq outstanding'
          /\ Runners # {} /\ calling[d] = "returned" => awaited'[d] = {}
    BY <1>0, <2>1, <2>2, <2>3 DEF Kept!WaitsInv
  <2> QED
    BY <1>4, <2>1, <2>4, <2>5, RemovalKept DEF CancelStart
<1>5. ASSUME NEW c \in Clients, CancelRunner(c)
      PROVE  HoldsList' /\ Kept!CInv'
  <2>1. UNCHANGED vars
    BY <1>5 DEF CancelRunner
  <2>2. HoldsList' /\ listed' = listed
    BY <1>0, <2>1, IdleListed DEF vars, queueVars
  <2>3. calling' = calling
    BY <2>1, CallingKept DEF vars, clientVars
  <2>4. UNCHANGED Kept!vars
    BY <2>1, <2>2, <2>3
    DEF vars, Kept!vars, queueVars, runnerVars, groupVars, clientVars, quitVars, history,
        Kept!queueVars, Kept!runnerVars, Kept!groupVars, Kept!clientVars, Kept!quitVars,
        Kept!history
  <2> QED
    BY <1>1, <2>2, <2>4
<1>6. ASSUME NEW c \in Clients, CancelWait(c)
      PROVE  HoldsList' /\ Kept!CInv'
  <2> DEFINE x == IF Runners = {} THEN "drain" ELSE "wait"
  <2>1. cpc[c] = "cancel" /\ cpc' = [cpc EXCEPT ![c] = x] /\ UNCHANGED queueVars
    BY <1>6 DEF CancelWait
  <2>2. calling[c] = "idle" /\ mpc = "alive"
    BY <1>0, <2>1, CallingIs DEF CancelInv, Reach
  <2>3. x # "cancel"
    OBVIOUS
  <2>4. calling' = [calling EXCEPT ![c] = x]
    BY <1>0, <2>1, <2>3, CallingMoves
  <2>5. HoldsList' /\ listed' = listed
    BY <1>0, <2>1, IdleListed DEF queueVars
  <2>6. QueueFree <=> Kept!QueueFree
    BY <1>0, CallingIs
  <2>7. Kept!WaitStart(c)
    BY <1>6, <2>2, <2>4, <2>5, <2>6
    DEF CancelWait, Kept!WaitStart, queueVars, runnerVars, groupVars, clientVars, quitVars, history,
        Kept!queueVars, Kept!runnerVars, Kept!groupVars, Kept!clientVars, Kept!quitVars,
        Kept!history
  <2>8. Kept!Next
    BY <2>7 DEF Kept!Next, Kept!Calling
  <2> QED
    BY <1>1, <2>5, <2>8
<1> QED
  BY <1>2, <1>3, <1>4, <1>5, <1>6 DEF CancelNext

(* A runner that executes a task goes on to, or the task has ended.         *)
LEMMA RunGoesOn ==
    ASSUME CancelInv, Groups = {}, Next, NEW r \in Runners, rpc[r] = "run"
    PROVE  \/ rpc'[r] = "run" /\ rtask'[r] = rtask[r]
           \/ \A c \in Clients : rtask[r] \notin awaited'[c]
<1>0. rpc \in [Runners -> Kept!RunnerPC] /\ rtask \in [Runners -> Task \cup {NoTask}]
  BY DEF CancelInv, Kept!CInv, Kept!IInv, Kept!TypeOK
<1>1. ASSUME WakeOneRunner \/ WakeAllRunners \/ rpc' = rpc, rtask' = rtask
      PROVE  rpc'[r] = "run" /\ rtask'[r] = rtask[r]
  BY <1>0, <1>1 DEF WakeOneRunner, WakeAllRunners
<1>2. ASSUME NEW s \in Runners, RunnerStep(s) \/ RunnerSpuriousWakeup(s), s # r
      PROVE  rpc'[r] = "run" /\ rtask'[r] = rtask[r]
  BY <1>0, <1>2
  DEF RunnerStep, RunnerDequeue, RunnerSetCurrent, RunnerEndRun, RunnerGroupDec,
      RunnerGroupNotify, RunnerClearCurrent, RunnerTaskFinished, RunnerFinishNotify,
      RunnerSpuriousWakeup
<1>3. ASSUME RunnerStep(r) \/ RunnerSpuriousWakeup(r)
      PROVE  \A c \in Clients : rtask[r] \notin awaited'[c]
  <2>1. RunnerEndRun(r)
    BY <1>3
    DEF RunnerStep, RunnerDequeue, RunnerSetCurrent, RunnerEndRun, RunnerGroupDec,
        RunnerGroupNotify, RunnerClearCurrent, RunnerTaskFinished, RunnerFinishNotify,
        RunnerSpuriousWakeup
  <2> QED
    BY <2>1 DEF RunnerEndRun, RecordEnd
<1>4. CASE \E c \in Clients : ClientStep(c) \/ Add(c) \/ WaitStart(c) \/ WaitSpuriousWakeup(c)
  <2>1. (WakeOneRunner \/ WakeAllRunners \/ rpc' = rpc) /\ rtask' = rtask
    BY <1>4
    DEF ClientStep, AddEnqueue, AddNotify, WaitCheck, WaitReturn, DrainDequeue, DrainEndRun,
        DrainDec, Add, AddCount, WaitStart, WaitSpuriousWakeup, runnerVars
  <2> QED
    BY <2>1, <1>1
<1>5. CASE QuitStep \/ QuitStart \/ Destroyed
  <2>1. (WakeOneRunner \/ rpc' = rpc) /\ rtask' = rtask
    BY <1>5
    DEF QuitStep, QuitStart, Destroyed, QuitEnqueue, QuitNotify, QuitJoin, runnerVars, vars
  <2> QED
    BY <2>1, <1>1
<1> QED
  BY <1>2, <1>3, <1>4, <1>5 DEF Next, Working, Calling, SpuriousWakeup

(* While a client cancels, no other step adds to what it has found running, *)
(* and the manager is not destroyed.                                        *)
LEMMA FoundKept ==
    ASSUME CancelInv, Groups = {}, Next, NEW c \in Clients, cpc[c] = "cancel"
    PROVE  awaited'[c] \subseteq awaited[c] /\ mpc' = "alive"
<1>0. mpc = "alive" /\ awaited \in [Clients -> SUBSET Task] /\ c \in Clients
  BY DEF CancelInv, Reach, Kept!CInv, Kept!IInv, Kept!TypeOK
<1>1. CASE \E r \in Runners : RunnerStep(r) \/ RunnerSpuriousWakeup(r)
  BY <1>0, <1>1
  DEF RunnerStep, RunnerDequeue, RunnerSetCurrent, RunnerEndRun, RunnerGroupDec,
      RunnerGroupNotify, RunnerClearCurrent, RunnerTaskFinished, RunnerFinishNotify,
      RunnerSpuriousWakeup, RecordEnd, quitVars, history
<1>2. ASSUME NEW d \in Clients,
             ClientStep(d) \/ Add(d) \/ WaitStart(d) \/ WaitSpuriousWakeup(d)
      PROVE  awaited'[c] \subseteq awaited[c] /\ mpc' = "alive"
  <2>1. c # d
    BY <1>2
    DEF ClientStep, AddEnqueue, AddNotify, WaitCheck, WaitReturn, DrainDequeue, DrainEndRun,
        DrainDec, Add, AddCount, WaitStart, WaitSpuriousWakeup
  <2> QED
    BY <1>0, <1>2, <2>1
    DEF ClientStep, AddEnqueue, AddNotify, WaitCheck, WaitReturn, DrainDequeue, DrainEndRun,
        DrainDec, Add, AddCount, WaitStart, WaitSpuriousWakeup, RecordEnd, quitVars, history
<1>3. CASE QuitStep \/ QuitStart \/ Destroyed
  BY <1>0, <1>3
  DEF QuitStep, QuitStart, Destroyed, QuitEnqueue, QuitNotify, QuitJoin
<1> QED
  BY <1>1, <1>2, <1>3 DEF Next, Working, Calling, SpuriousWakeup

LEMMA ReachKept ==
    ASSUME CancelInv, Groups = {}, CancelNext
    PROVE  CancelTypes' /\ Reach'
<1>0. /\ CancelTypes /\ Reach
      /\ \A r \in Runners : rpc[r] = "run" => rtask[r] \in Task
      /\ \A c \in Clients : awaited[c] \subseteq outstanding
      /\ awaited \in [Clients -> SUBSET Task]
      /\ "idle" \in CancelPC /\ "drain" \in CancelPC /\ "wait" \in CancelPC /\ "cancel" \in CancelPC
  BY DEF CancelInv, Kept!CInv, Kept!IInv, Kept!Custody, Kept!RunnersInv, Kept!WaitsInv,
         Kept!TypeOK, CancelPC, ClientPC
<1>1. CASE Other(Next)
  <2>1. Next /\ to_cancel' = to_cancel /\ cancelled' = cancelled \ (outstanding' \ outstanding)
    BY <1>1 DEF Other
  <2>2. /\ in_queue' \in [Task -> BOOLEAN] /\ cpc' \in [Clients -> CancelPC]
        /\ \A c \in Clients : cpc'[c] = "cancel" <=> cpc[c] = "cancel"
    BY <1>0, <2>1, NextTyped
  <2>3. CancelTypes'
    BY <1>0, <2>1, <2>2 DEF CancelTypes
  <2>4. ASSUME NEW c \in Clients, cpc'[c] = "cancel", NEW t \in awaited'[c]
        PROVE  t \in cancelled' \/ \E r \in to_cancel'[c] : rpc'[r] = "run" /\ rtask'[r] = t
    <3>1. cpc[c] = "cancel" /\ t \in awaited[c] /\ t \in outstanding
      BY <1>0, <2>1, <2>2, <2>4, FoundKept
    <3>2. CASE t \in cancelled
      BY <3>1, <3>2, <2>1
    <3>3. ASSUME NEW r \in to_cancel[c], rpc[r] = "run", rtask[r] = t
          PROVE  rpc'[r] = "run" /\ rtask'[r] = t
      <4>1. r \in Runners
        BY <1>0 DEF CancelTypes
      <4> QED
        BY <2>1, <2>4, <3>3, <4>1, RunGoesOn
    <3> QED
      BY <1>0, <2>1, <3>1, <3>2, <3>3 DEF Reach
  <2>5. \A c \in Clients : cpc'[c] = "cancel" => mpc' = "alive"
    BY <2>1, <2>2, FoundKept
  <2> QED
    BY <2>3, <2>4, <2>5 DEF Reach
<1>2. ASSUME NEW c \in Clients, RemoveTasks(c)
      PROVE  CancelTypes' /\ Reach'
  <2>1. /\ UNCHANGED <<in_queue, cpc, to_cancel, cancelled, mpc, rpc, rtask>>
        /\ \A d \in Clients : awaited'[d] \subseteq awaited[d]
    BY <1>2 DEF RemoveTasks, RemoveQueuedTasks, runnerVars, clientVars, quitVars
  <2> QED
    BY <1>0, <2>1 DEF CancelTypes, Reach
<1>3. ASSUME NEW c \in Clients, CancelStart(c)
      PROVE  CancelTypes' /\ Reach'
  <2>1. /\ UNCHANGED <<in_queue, cancelled, mpc, rpc, rtask>> /\ mpc = "alive"
        /\ cpc' = [cpc EXCEPT ![c] = "cancel"] /\ to_cancel' = [to_cancel EXCEPT ![c] = Runners]
        /\ awaited'[c] = {t \in Task : RunBy(t)}
        /\ \A d \in Clients : d # c => awaited'[d] \subseteq awaited[d]
    BY <1>3 DEF CancelStart, RemoveQueuedTasks, runnerVars, quitVars
  <2>2. \A t \in Task : RunBy(t) => \E r \in Runners : rpc[r] = "run" /\ rtask[r] = t
    BY <1>3 DEF CancelStart, RemoveQueuedTasks, QueueFree, RunBy
  <2>3. CancelTypes'
    BY <1>0, <2>1 DEF CancelTypes
  <2>4. to_cancel'[c] = Runners
    BY <1>0, <2>1 DEF CancelTypes
  <2>5. \A d \in Clients : d # c => cpc'[d] = cpc[d] /\ to_cancel'[d] = to_cancel[d]
    BY <1>0, <2>1 DEF CancelTypes
  <2> QED
    BY <1>0, <2>1, <2>2, <2>3, <2>4, <2>5 DEF Reach
<1>4. ASSUME NEW c \in Clients, CancelRunner(c)
      PROVE  CancelTypes' /\ Reach'
  <2>1. PICK r \in to_cancel[c] :
          /\ to_cancel' = [to_cancel EXCEPT ![c] = @ \ {r}]
          /\ cancelled' = cancelled \cup ({current_task(r)} \ {NoTask})
    BY <1>4 DEF CancelRunner
  <2>2. UNCHANGED <<in_queue, cpc, mpc, rpc, rtask, awaited>>
    BY <1>4 DEF CancelRunner, vars, queueVars, runnerVars, clientVars, quitVars, history
  <2>3. cancelled' \subseteq Task
    <3>1. r \in Runners
      BY <1>0 DEF CancelTypes
    <3>2. rtask[r] \in Task \cup {NoTask}
      BY <3>1 DEF CancelInv, Kept!CInv, Kept!IInv, Kept!TypeOK
    <3> QED
      BY <1>0, <2>1, <3>2 DEF CancelTypes, current_task
  <2>4. rpc[r] = "run" => rtask[r] \in cancelled'
    BY <1>0, <2>1, TaskAssumption DEF CancelTypes, current_task
  <2>5. /\ to_cancel'[c] = to_cancel[c] \ {r}
        /\ \A d \in Clients : d # c => to_cancel'[d] = to_cancel[d]
        /\ to_cancel' \in [Clients -> SUBSET Runners]
    BY <1>0, <2>1 DEF CancelTypes
  <2>6. CancelTypes'
    BY <1>0, <2>2, <2>3, <2>5 DEF CancelTypes
  <2>7. ASSUME NEW d \in Clients, cpc[d] = "cancel", NEW t \in awaited[d]
        PROVE  t \in cancelled' \/ \E s \in to_cancel'[d] : rpc[s] = "run" /\ rtask[s] = t
    BY <1>0, <2>1, <2>4, <2>5, <2>7 DEF Reach
  <2>8. \A d \in Clients : cpc[d] = "cancel" => mpc = "alive"
    BY <1>0 DEF Reach
  <2> QED
    BY <2>2, <2>6, <2>7, <2>8 DEF Reach
<1>5. ASSUME NEW c \in Clients, CancelWait(c)
      PROVE  CancelTypes' /\ Reach'
  <2> DEFINE x == IF Runners = {} THEN "drain" ELSE "wait"
  <2>1. /\ UNCHANGED <<in_queue, cancelled, to_cancel, mpc, rpc, rtask>>
        /\ cpc' = [cpc EXCEPT ![c] = x]
        /\ awaited' = [awaited EXCEPT ![c] = outstanding]
    BY <1>5 DEF CancelWait, queueVars, runnerVars, quitVars
  <2>2. x \in CancelPC /\ x # "cancel"
    BY <1>0
  <2> HIDE DEF x
  <2>3. CancelTypes'
    BY <1>0, <2>1, <2>2 DEF CancelTypes
  <2>4. /\ cpc'[c] # "cancel"
        /\ \A d \in Clients : d # c => cpc'[d] = cpc[d] /\ awaited'[d] = awaited[d]
    BY <1>0, <2>1, <2>2 DEF CancelTypes
  <2> QED
    BY <1>0, <2>1, <2>3, <2>4 DEF Reach
<1> QED
  BY <1>1, <1>2, <1>3, <1>4, <1>5 DEF CancelNext

-----------------------------------------------------------------------------
LEMMA CancelInitInv == CancelInit => CancelInv
<1> SUFFICES ASSUME CancelInit PROVE CancelInv
  OBVIOUS
<1>1. NoneListed
  BY EmptyListedNow DEF CancelInit, Init, QueueInit
<1>2. calling = [c \in Clients |-> "idle"]
  BY DEF CancelInit, Init, calling
<1>3. Kept!Init
  BY <1>1, <1>2 DEF CancelInit, Init, QueueInit, Kept!Init, Kept!QueueInit, NoneListed
<1>4. Kept!CInv
  BY <1>3, KeptAssumptions, Kept!CountInitInv
<1>5. CancelTypes /\ Reach
  BY DEF CancelInit, Init, QueueInit, CancelTypes, Reach, CancelPC, ClientPC
<1> QED
  BY <1>1, <1>4, <1>5 DEF CancelInv, NoneListed

LEMMA CancelNextInv ==
    ASSUME Groups = {}
    PROVE  CancelInv /\ [CancelNext]_cancelVars => CancelInv'
<1> SUFFICES ASSUME CancelInv, [CancelNext]_cancelVars
             PROVE  CancelInv'
  OBVIOUS
<1>1. CASE CancelNext
  BY <1>1, CancelKept, ReachKept DEF CancelInv
<1>2. CASE UNCHANGED cancelVars
  <2>1. UNCHANGED vars /\ UNCHANGED <<to_cancel, cancelled>>
    BY <1>2 DEF cancelVars
  <2>2. HoldsList' /\ listed' = listed
    BY <2>1, IdleListed DEF vars, queueVars, CancelInv
  <2>3. calling' = calling
    BY <2>1, CallingKept DEF vars, clientVars
  <2>4. UNCHANGED Kept!vars
    BY <2>1, <2>2, <2>3
    DEF vars, Kept!vars, queueVars, runnerVars, groupVars, clientVars, quitVars, history,
        Kept!queueVars, Kept!runnerVars, Kept!groupVars, Kept!clientVars, Kept!quitVars,
        Kept!history
  <2>5. Kept!CInv'
    BY <2>4, KeptAssumptions, Kept!CountNextInv DEF CancelInv
  <2>6. CancelTypes' /\ Reach'
    BY <2>1
    DEF CancelInv, CancelTypes, Reach, vars, queueVars, runnerVars, clientVars, quitVars, history
  <2> QED
    BY <2>2, <2>5, <2>6 DEF CancelInv
<1> QED
  BY <1>1, <1>2

LEMMA CancelInvariance ==
    ASSUME Groups = {}
    PROVE  CancelSpec => []CancelInv
BY CancelInitInv, CancelNextInv, PTL DEF CancelSpec

(* num_unfinished_tasks is exactly the number of tasks submitted and        *)
(* neither executed nor removed, or not yet reported, while clients add,    *)
(* wait for, remove and cancel tasks of a manager on which no group is run: *)
(* removeQueuedTasks counts out neither a task that a runner has taken nor  *)
(* one that addTasks has counted and not queued yet.                        *)
THEOREM RemovalCountsExactly ==
    ASSUME Groups = {}
    PROVE  CancelSpec => []UnfinishedIsCounted
<1>1. CancelInv => UnfinishedIsCounted
  <2> SUFFICES ASSUME CancelInv PROVE UnfinishedIsCounted
    OBVIOUS
  <2>1. Kept!UnfinishedIsCounted /\ CancelTypes
    BY DEF CancelInv, Kept!CInv, Kept!Accounting
  <2>2. \A c \in Clients : calling[c] = "drainDec" <=> cpc[c] = "drainDec"
    BY <2>1, CallingIs
  <2>3. {c \in Clients : calling[c] = "drainDec"} = {c \in Clients : cpc[c] = "drainDec"}
    BY <2>2
  <2>4. Kept!Reporting = Reporting
    BY <2>3, SameNotions DEF Kept!Reporting, Reporting
  <2> QED
    BY <2>1, <2>4, SameNotions DEF Kept!UnfinishedIsCounted, UnfinishedIsCounted
<1> QED
  BY <1>1, CancelInvariance, PTL

(* The assertion of taskFinished and removeQueuedTasks holds as long as no  *)
(* one calls runTaskGroup on the manager whose tasks are removed.           *)
THEOREM NeverNegativeWithoutGroups ==
    ASSUME Groups = {}
    PROVE  CancelSpec => []UnfinishedNotNegative
<1>1. CancelInv => UnfinishedNotNegative
  <2> SUFFICES ASSUME CancelInv PROVE UnfinishedNotNegative
    OBVIOUS
  <2>1. Kept!TypeOK /\ Kept!Accounting
    BY DEF CancelInv, Kept!CInv, Kept!IInv
  <2>2. /\ Kept!Cardinality(outstanding) \in Nat
        /\ Kept!Cardinality(Kept!RunnersOwing) \in Nat
        /\ Kept!Cardinality(Kept!GroupsOwing) \in Nat
        /\ Kept!Cardinality(Kept!ClientsOwing) \in Nat
        /\ num_unfinished = Kept!Cardinality(outstanding) + Kept!Cardinality(Kept!RunnersOwing)
             + Kept!Cardinality(Kept!GroupsOwing) + Kept!Cardinality(Kept!ClientsOwing)
    BY <2>1, KeptAssumptions, Kept!CountsAreNat
  <2> QED
    BY <2>2 DEF UnfinishedNotNegative
<1> QED
  BY <1>1, CancelInvariance, PTL

(* On a manager with runner threads a wait returns only when every task     *)
(* that was unfinished at the call has been executed or removed, also the   *)
(* wait at the end of a cancellation.                                       *)
THEOREM WaitCoversRemovals ==
    ASSUME Groups = {}, Runners # {}
    PROVE  CancelSpec => []WaitCoversTasks
<1>1. CancelInv => WaitCoversTasks
  <2> SUFFICES ASSUME CancelInv, NEW c \in Clients, cpc[c] = "returned"
               PROVE  awaited[c] = {}
    BY DEF WaitCoversTasks
  <2>1. calling[c] = "returned"
    BY CallingIs DEF CancelInv
  <2> QED
    BY <2>1 DEF CancelInv, Kept!CInv, Kept!WaitsInv
<1> QED
  BY <1>1, CancelInvariance, PTL

(* cancelAndWaitForTasksToComplete reaches every task whose run() was being *)
(* executed when it emptied the queue: before the call waits, the task has  *)
(* ended or been cancelled, whichever runner had it and whatever the        *)
(* runners and the other clients did meanwhile.                             *)
THEOREM CancelReaches ==
    ASSUME Groups = {}
    PROVE  CancelSpec => CancelReachesRunning
<1>1. CancelInv /\ [CancelNext]_cancelVars => [CancelCovers]_cancelVars
  <2> SUFFICES ASSUME CancelInv, CancelNext, NEW c \in Clients, cpc[c] = "cancel",
                      cpc'[c] # "cancel"
               PROVE  awaited[c] \subseteq cancelled
    BY DEF CancelCovers
  <2>0. CancelTypes
    BY DEF CancelInv
  <2>1. ~Other(Next)
    BY <2>0, NextTyped DEF Other
  <2>2. ASSUME NEW d \in Clients, RemoveTasks(d) \/ CancelStart(d) \/ CancelRunner(d)
        PROVE  cpc'[c] = "cancel"
    BY <2>0, <2>2 DEF CancelTypes, RemoveTasks, CancelStart, CancelRunner, vars, clientVars
  <2>3. PICK d \in Clients : CancelWait(d)
    BY <2>1, <2>2 DEF CancelNext
  <2>4. d = c
    BY <2>0, <2>3 DEF CancelTypes, CancelWait
  <2> QED
    BY <2>3, <2>4 DEF CancelInv, Reach, CancelWait
<1> QED
  BY <1>1, CancelInvariance, PTL DEF CancelSpec, CancelReachesRunning
=============================================================================
