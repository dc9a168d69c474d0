------------------------- MODULE TaskManagerProofs --------------------------
(***************************************************************************)
(* For every number of tasks, runners, clients and groups: a task that was *)
(* submitted is in the hands of one party only, the queue or a thread, so  *)
(* no two threads execute it; and a group's count is never less than the   *)
(* number of its tasks that are owed, so a call of runTaskGroup that       *)
(* returns has none left.                                                  *)
(***************************************************************************)
EXTENDS TaskManager, TaskQueueProofs

(* Who has task t out of the queue: a runner, until it has counted the      *)
(* task's group down; a group call, while it has yet to queue the task, or  *)
(* executes it and counts it out; a client, while it has yet to queue it,   *)
(* or executes it.                                                          *)
RunnerHas(r, t) == rpc[r] \in {"current", "run", "groupDec"} /\ rtask[r] = t

GroupHas(g, t) ==
    \/ gpc[g] = "enqueue" /\ t \in Members(g)
    \/ gpc[g] = "notifyAll" /\ t = GroupTasks[g][1]
    \/ gpc[g] = "take" /\ gi[g] = 1 /\ t = GroupTasks[g][1]
    \/ gpc[g] \in {"run", "finish", "finishNotify", "dec"} /\ t = Current(g)

ClientHas(c, t) == cpc[c] \in {"enqueue", "drainRun"} /\ t \in ToSet(carg[c])

-----------------------------------------------------------------------------
(* A task somebody has is not in the queue, and is outstanding until its    *)
(* run() has ended.                                                         *)
RunnersInv ==
    \A r \in Runners : rpc[r] \in {"current", "run", "groupDec"} =>
        /\ rtask[r] \in Task /\ ~in_queue[rtask[r]]
        /\ IF rpc[r] = "groupDec"
           THEN rtask[r] \notin outstanding /\ \E g \in Groups : rtask[r] \in Members(g)
           ELSE rtask[r] \in outstanding

GroupsInv ==
    /\ \A g \in Groups, t \in Task : GroupHas(g, t) =>
         /\ t \in Members(g) /\ ~in_queue[t]
         /\ IF gpc[g] \in {"finish", "finishNotify", "dec"}
            THEN t \notin outstanding ELSE t \in outstanding
    /\ \A g \in Groups : gpc[g] \in {"run", "finish", "finishNotify", "dec"}
                         => gi[g] \in DOMAIN GroupTasks[g]

ClientsInv ==
    /\ \A c \in Clients, t \in Task : ClientHas(c, t) => ~in_queue[t] /\ t \in outstanding
    /\ \A c \in Clients : cpc[c] = "enqueue" => IsInjective(carg[c])
    /\ \A c \in Clients : cpc[c] = "drainRun" => Len(carg[c]) = 1

QueueInv == \A t \in Task : in_queue[t] => t \in outstanding \cup quits

(* The QuitRunnerTasks are no submissions, and come when all calls are over. *)
QuitInv ==
    /\ outstanding \cap QuitTasks = {}
    /\ mpc = "alive" => quits = {}
    /\ \A c \in Clients : cpc[c] # "idle" => mpc = "alive"

(* Before the tasks of a group are submitted, and once the call is          *)
(* complete, none of them is with anyone.                                   *)
GroupsAtRest ==
    \A g \in Groups : gpc[g] \in {"idle", "count", "returned"} =>
        \A t \in Members(g) : t \notin outstanding /\ \A r \in Runners : ~RunnerHas(r, t)

(* No two have the same task.                                               *)
Exclusive ==
    \A t \in Task :
        /\ \A r, s \in Runners : RunnerHas(r, t) /\ RunnerHas(s, t) => r = s
        /\ \A c, d \in Clients : ClientHas(c, t) /\ ClientHas(d, t) => c = d
        /\ \A r \in Runners, g \in Groups : ~(RunnerHas(r, t) /\ GroupHas(g, t))
        /\ \A r \in Runners, c \in Clients : ~(RunnerHas(r, t) /\ ClientHas(c, t))
        /\ \A g \in Groups, c \in Clients : ~(GroupHas(g, t) /\ ClientHas(c, t))

Custody ==
    /\ RunnersInv /\ GroupsInv /\ ClientsInv /\ QueueInv /\ QuitInv
    /\ GroupsAtRest /\ Exclusive

(* A group's count is at least the number of its tasks owed.  It is more    *)
(* than that only if a client of a manager without threads, which does not  *)
(* count groups down, has run one of them.                                  *)
CountCoversOwed ==
    \A g \in Groups : gpc[g] # "idle" => gcount[g] >= Cardinality(Owed(g))

IInv == TypeOK /\ LinksConsistent /\ Custody /\ CountCoversOwed

-----------------------------------------------------------------------------
(* The tasks of a group: distinct, in no other group, not plain, not quit   *)
(* tasks.                                                                   *)
LEMMA GroupFacts ==
    /\ \A g \in Groups : /\ Len(GroupTasks[g]) \in Nat \ {0}
                         /\ DOMAIN GroupTasks[g] = 1..Len(GroupTasks[g])
                         /\ 1 \in DOMAIN GroupTasks[g]
                         /\ Members(g) \subseteq Task
    /\ \A g \in Groups : \A i \in DOMAIN GroupTasks[g] : GroupTasks[g][i] \in Members(g)
    /\ \A g \in Groups : \A i, j \in DOMAIN GroupTasks[g] :
         GroupTasks[g][i] = GroupTasks[g][j] => i = j
    /\ \A g, h \in Groups, t \in Task : t \in Members(g) /\ t \in Members(h) => g = h
    /\ \A g \in Groups : \A t \in Members(g) : t \notin PlainTasks /\ t \notin QuitTasks
<1>1. \A g \in Groups : GroupTasks[g] \in Seq(Task) /\ Len(GroupTasks[g]) > 0
  BY TaskManagerAssumption
<1>2. \A g \in Groups : /\ Len(GroupTasks[g]) \in Nat \ {0}
                        /\ DOMAIN GroupTasks[g] = 1..Len(GroupTasks[g])
                        /\ 1 \in DOMAIN GroupTasks[g]
                        /\ Members(g) \subseteq Task
  BY <1>1 DEF Members, ToSet
<1>3. \A g \in Groups : \A i \in DOMAIN GroupTasks[g] : GroupTasks[g][i] \in Members(g)
  BY DEF Members, ToSet
<1>4. \A g \in Groups : \A i, j \in DOMAIN GroupTasks[g] :
        GroupTasks[g][i] = GroupTasks[g][j] => i = j
  BY TaskManagerAssumption DEF IsInjective
<1>5. \A g, h \in Groups, t \in Task : t \in Members(g) /\ t \in Members(h) => g = h
  BY TaskManagerAssumption
<1>6. \A g \in Groups : \A t \in Members(g) : t \notin PlainTasks /\ t \notin QuitTasks
  BY TaskManagerAssumption
<1> QED
  BY <1>2, <1>3, <1>4, <1>5, <1>6

(* What a group call puts in the queue: its tasks but the first.            *)
LEMMA QueuedFacts ==
    ASSUME NEW g \in Groups
    PROVE  /\ Queued(g) \in Seq(Task) /\ IsInjective(Queued(g))
           /\ ToSet(Queued(g)) \subseteq Members(g)
           /\ GroupTasks[g][1] \notin ToSet(Queued(g))
           /\ \A t \in Members(g) : t # GroupTasks[g][1] => t \in ToSet(Queued(g))
<1> DEFINE n == Len(GroupTasks[g])
<1>1. GroupTasks[g] \in Seq(Task) /\ n \in Nat \ {0}
  BY TaskManagerAssumption
<1>2. /\ Queued(g) \in Seq(Task)
      /\ DOMAIN Queued(g) = 1..(n - 1)
      /\ \A i \in 1..(n - 1) : Queued(g)[i] = GroupTasks[g][i + 1]
  BY <1>1 DEF Queued
<1>3. /\ DOMAIN GroupTasks[g] = 1..n
      /\ \A i, j \in 1..n : GroupTasks[g][i] = GroupTasks[g][j] => i = j
  BY GroupFacts
<1> HIDE DEF n
<1>4. \A i \in 1..(n - 1) : i + 1 \in 1..n /\ i + 1 # 1
  BY <1>1
<1>5. IsInjective(Queued(g))
  <2> SUFFICES ASSUME NEW i \in 1..(n - 1), NEW j \in 1..(n - 1), Queued(g)[i] = Queued(g)[j]
               PROVE  i = j
    BY <1>2 DEF IsInjective
  <2>1. i + 1 = j + 1
    BY <1>2, <1>3, <1>4
  <2> QED
    BY <2>1
<1>6. ToSet(Queued(g)) \subseteq Members(g)
  BY <1>2, <1>3, <1>4 DEF Members, ToSet
<1>7. GroupTasks[g][1] \notin ToSet(Queued(g))
  <2> SUFFICES ASSUME NEW i \in 1..(n - 1), GroupTasks[g][1] = Queued(g)[i]
               PROVE  FALSE
    BY <1>2 DEF ToSet
  <2>1. 1 \in 1..n
    BY <1>1
  <2> QED
    BY <2>1, <1>2, <1>3, <1>4
<1>8. \A t \in Members(g) : t # GroupTasks[g][1] => t \in ToSet(Queued(g))
  <2> SUFFICES ASSUME NEW i \in 1..n, i # 1
               PROVE  GroupTasks[g][i] \in ToSet(Queued(g))
    BY <1>3 DEF Members, ToSet
  <2>1. i - 1 \in 1..(n - 1) /\ (i - 1) + 1 = i
    BY <1>1
  <2> QED
    BY <2>1, <1>2 DEF ToSet
<1> QED
  BY <1>2, <1>5, <1>6, <1>7, <1>8

(* Enqueue puts in the queue exactly the tasks it is given.                 *)
LEMMA EnqueueAdds ==
    ASSUME NEW ts, ts \in Seq(Task), Enqueue(ts), NEW t \in Task
    PROVE  in_queue'[t] <=> t \in ToSet(ts) \/ in_queue[t]
<1>1. CASE Len(ts) = 0
  <2>1. ToSet(ts) = {}
    BY <1>1 DEF ToSet
  <2> QED
    BY <1>1, <2>1 DEF Enqueue, queueVars
<1>2. CASE Len(ts) # 0
  BY <1>2 DEF Enqueue
<1> QED
  BY <1>1, <1>2

-----------------------------------------------------------------------------
(* What the enqueuing steps give to Enqueue.                                *)
LEMMA GroupEnqueueable ==
    ASSUME IInv, NEW g \in Groups, gpc[g] = "enqueue"
    PROVE  Enqueueable(Queued(g))
BY QueuedFacts, GroupFacts DEF IInv, Custody, GroupsInv, GroupHas, Enqueueable

LEMMA ClientEnqueueable ==
    ASSUME IInv, NEW c \in Clients, cpc[c] = "enqueue"
    PROVE  Enqueueable(carg[c])
<1>1. carg[c] \in Seq(Task)
  BY DEF IInv, TypeOK
<1>2. ToSet(carg[c]) \subseteq Task
  BY <1>1 DEF ToSet
<1> QED
  BY <1>1, <1>2 DEF IInv, Custody, ClientsInv, ClientHas, Enqueueable

LEMMA QuitEnqueueable ==
    ASSUME IInv, NEW q \in QuitTasks \ quits
    PROVE  Enqueueable(<<q>>)
<1>1. q \in Task /\ ~in_queue[q]
  BY TaskManagerAssumption DEF IInv, Custody, QueueInv, QuitInv
<1>2. <<q>> \in Seq(Task) /\ IsInjective(<<q>>) /\ ToSet(<<q>>) = {q}
  BY <1>1 DEF IsInjective, ToSet
<1> QED
  BY <1>1, <1>2 DEF Enqueueable

(* Whatever the pool does to the queue is one of the queue's operations,    *)
(* and an enqueue is of tasks that are not in it.                           *)
QueueOp ==
    \/ UNCHANGED queueVars
    \/ Dequeue
    \/ \E t \in Task : Unlink(t)
    \/ \E ts : Enqueueable(ts) /\ Enqueue(ts)

LEMMA StepIsQueueOp ==
    ASSUME IInv, [Next]_vars
    PROVE  QueueOp
<1>1. CASE UNCHANGED queueVars
  BY <1>1 DEF QueueOp
<1>2. CASE Dequeue
  BY <1>2 DEF QueueOp
<1>3. ASSUME NEW ts, Enqueueable(ts), Enqueue(ts)
      PROVE  QueueOp
  BY <1>3 DEF QueueOp
<1>4. ASSUME NEW g \in Groups, GroupTakeQueued(g)
      PROVE  QueueOp
  <2>1. Current(g) \in Task
    BY <1>4, GroupFacts DEF GroupTakeQueued, Current
  <2> QED
    BY <1>4, <2>1 DEF GroupTakeQueued, QueueOp
<1>5. ASSUME NEW g \in Groups, GroupEnqueue(g)
      PROVE  QueueOp
  BY <1>3, <1>5, GroupEnqueueable DEF GroupEnqueue
<1>6. ASSUME NEW c \in Clients, AddEnqueue(c)
      PROVE  QueueOp
  BY <1>3, <1>6, ClientEnqueueable DEF AddEnqueue
<1>7. CASE QuitEnqueue
  BY <1>1, <1>3, <1>7, QuitEnqueueable DEF QuitEnqueue
<1>8. ASSUME NEW r \in Runners, RunnerStep(r) \/ RunnerSpuriousWakeup(r)
      PROVE  QueueOp
  BY <1>1, <1>2, <1>8
  DEF RunnerStep, RunnerSpuriousWakeup, RunnerDequeue, RunnerSetCurrent, RunnerEndRun,
      RunnerGroupDec, RunnerGroupNotify, RunnerClearCurrent, RunnerTaskFinished,
      RunnerFinishNotify
<1>9. ASSUME NEW g \in Groups,
             GroupStep(g) \/ GroupStart(g) \/ GroupResume(g) \/ GroupSpuriousWakeup(g)
      PROVE  QueueOp
  BY <1>1, <1>4, <1>5, <1>9
  DEF GroupStep, GroupStart, GroupResume, GroupSpuriousWakeup, GroupCount, GroupNotifyAll,
      GroupTakeFirst, GroupSkipTaken, GroupLoopEnds, GroupEndRun, GroupTaskFinished,
      GroupFinishNotify, GroupDec, GroupWait
<1>10. ASSUME NEW c \in Clients,
              ClientStep(c) \/ Add(c) \/ WaitStart(c) \/ WaitSpuriousWakeup(c)
       PROVE  QueueOp
  BY <1>1, <1>2, <1>6, <1>10
  DEF ClientStep, Add, AddCount, WaitStart, WaitSpuriousWakeup, AddNotify, WaitCheck,
      WaitReturn, DrainDequeue, DrainEndRun, DrainDec
<1>11. CASE QuitStart \/ QuitNotify \/ QuitJoin \/ Destroyed
  BY <1>1, <1>11 DEF QuitStart, QuitNotify, QuitJoin, Destroyed, vars
<1>12. CASE UNCHANGED vars
  BY <1>1, <1>12 DEF vars
<1> QED
  BY <1>7, <1>8, <1>9, <1>10, <1>11, <1>12
  DEF Next, Working, Calling, SpuriousWakeup, QuitStep

(* Every step leaves the queue consistent.                                  *)
LEMMA QueueStep ==
    ASSUME IInv, [Next]_vars
    PROVE  QueueTypeOK' /\ LinksConsistent'
<1>1. QueueTypeOK /\ LinksConsistent
  BY DEF IInv, TypeOK
<1>2. CASE UNCHANGED queueVars
  BY <1>1, <1>2 DEF queueVars, QueueTypeOK, LinksConsistent
<1>3. CASE Dequeue
  BY <1>1, <1>3, DequeueLinks
<1>4. ASSUME NEW ts, Enqueueable(ts), Enqueue(ts)
      PROVE  QueueTypeOK' /\ LinksConsistent'
  BY <1>1, <1>4, EnqueueLinks
<1>5. ASSUME NEW t \in Task, Unlink(t)
      PROVE  QueueTypeOK' /\ LinksConsistent'
  BY <1>1, <1>5, UnlinkLinks
<1> QED
  BY <1>2, <1>3, <1>4, <1>5, StepIsQueueOp DEF QueueOp

(* Every step leaves the variables in their types.                          *)
LEMMA TypeStep ==
    ASSUME IInv, [Next]_vars
    PROVE  TypeOK'
<1>1. TypeOK /\ QueueTypeOK'
  BY QueueStep DEF IInv
<1>2. ASSUME NEW r \in Runners, RunnerStep(r) \/ RunnerSpuriousWakeup(r)
      PROVE  TypeOK'
  <2>1. CASE RunnerDequeue(r)
    BY <1>1, <2>1 DEF RunnerDequeue, TypeOK, RunnerPC, QueueTypeOK, Dequeue,
       groupVars, clientVars, quitVars, history
  <2>2. CASE RunnerSetCurrent(r) \/ RunnerClearCurrent(r) \/ RunnerSpuriousWakeup(r)
    BY <1>1, <2>2 DEF RunnerSetCurrent, RunnerClearCurrent, RunnerSpuriousWakeup, TypeOK,
       RunnerPC, groupVars, clientVars, quitVars, history
  <2>3. CASE RunnerEndRun(r)
    BY <1>1, <2>3 DEF RunnerEndRun, RecordEnd, AfterEnd, TypeOK, RunnerPC, GroupPC,
       clientVars, quitVars
  <2>4. CASE RunnerGroupDec(r)
    BY <1>1, <2>4 DEF RunnerGroupDec, TypeOK, RunnerPC, clientVars, quitVars, history
  <2>5. CASE RunnerGroupNotify(r)
    BY <1>1, <2>5 DEF RunnerGroupNotify, TypeOK, RunnerPC, GroupPC, clientVars, quitVars, history
  <2>6. CASE RunnerTaskFinished(r)
    BY <1>1, <2>6 DEF RunnerTaskFinished, TypeOK, RunnerPC, groupVars, clientVars, quitVars, history
  <2>7. CASE RunnerFinishNotify(r)
    BY <1>1, <2>7 DEF RunnerFinishNotify, WakeAllWaiters, TypeOK, RunnerPC, ClientPC,
       groupVars, quitVars, history
  <2> QED
    BY <1>2, <2>1, <2>2, <2>3, <2>4, <2>5, <2>6, <2>7 DEF RunnerStep
<1>3. ASSUME NEW g \in Groups,
             GroupStep(g) \/ GroupStart(g) \/ GroupResume(g) \/ GroupSpuriousWakeup(g)
      PROVE  TypeOK'
  <2>1. Len(GroupTasks[g]) \in Nat /\ Members(g) \subseteq Task
    BY GroupFacts
  <2>2. CASE GroupStart(g)
    BY <1>1, <2>1, <2>2 DEF GroupStart, TypeOK, GroupPC, runnerVars, clientVars, quitVars, history
  <2>3. CASE GroupCount(g)
    BY <1>1, <2>1, <2>3 DEF GroupCount, TypeOK, GroupPC, runnerVars, clientVars, quitVars
  <2>4. CASE GroupEnqueue(g) \/ GroupTakeQueued(g)
    BY <1>1, <2>4 DEF GroupEnqueue, GroupTakeQueued, TypeOK, GroupPC, runnerVars, clientVars,
       quitVars, history
  <2>5. CASE GroupNotifyAll(g)
    BY <1>1, <2>5 DEF GroupNotifyAll, WakeAllRunners, TypeOK, GroupPC, RunnerPC, clientVars,
       quitVars, history
  <2>6. CASE GroupTakeFirst(g) \/ GroupLoopEnds(g) \/ GroupWait(g) \/ GroupResume(g)
             \/ GroupSpuriousWakeup(g)
    BY <1>1, <2>6 DEF GroupTakeFirst, GroupLoopEnds, GroupWait, GroupResume,
       GroupSpuriousWakeup, TypeOK, GroupPC, runnerVars, clientVars, quitVars, history
  <2>7. CASE GroupSkipTaken(g)
    BY <1>1, <2>7 DEF GroupSkipTaken, TypeOK, runnerVars, clientVars, quitVars, history
  <2>8. CASE GroupEndRun(g)
    BY <1>1, <2>8 DEF GroupEndRun, RecordEnd, AfterEnd, TypeOK, GroupPC, runnerVars,
       clientVars, quitVars
  <2>9. CASE GroupTaskFinished(g)
    BY <1>1, <2>9 DEF GroupTaskFinished, TypeOK, GroupPC, runnerVars, clientVars, quitVars, history
  <2>10. CASE GroupFinishNotify(g)
    BY <1>1, <2>10 DEF GroupFinishNotify, WakeAllWaiters, TypeOK, GroupPC, ClientPC,
       runnerVars, quitVars, history
  <2>11. CASE GroupDec(g)
    BY <1>1, <2>11 DEF GroupDec, TypeOK, GroupPC, runnerVars, clientVars, quitVars, history
  <2> QED
    BY <1>3, <2>2, <2>3, <2>4, <2>5, <2>6, <2>7, <2>8, <2>9, <2>10, <2>11 DEF GroupStep
<1>4. ASSUME NEW c \in Clients,
             ClientStep(c) \/ Add(c) \/ WaitStart(c) \/ WaitSpuriousWakeup(c)
      PROVE  TypeOK'
  <2>1. CASE Add(c)
    <3>1. PICK S \in SUBSET Addable : \E ts \in SetToSeqs(S) : AddCount(c, ts)
      BY <2>1 DEF Add
    <3>2. PICK ts \in SetToSeqs(S) : AddCount(c, ts)
      BY <3>1
    <3>3. S \in SUBSET Task
      BY TaskManagerAssumption DEF Addable
    <3>4. ts \in Seq(Task) /\ ToSet(ts) \subseteq Task /\ Len(ts) \in Nat
      BY <3>3, <3>2, SetToSeqsIsInjective
    <3> QED
      BY <1>1, <3>2, <3>4 DEF AddCount, TypeOK, ClientPC, runnerVars, groupVars, quitVars
  <2>2. CASE AddEnqueue(c)
    BY <1>1, <2>2 DEF AddEnqueue, TypeOK, ClientPC, runnerVars, groupVars, quitVars, history
  <2>3. CASE AddNotify(c)
    BY <1>1, <2>3 DEF AddNotify, WakeOneRunner, WakeAllRunners, TypeOK, ClientPC, RunnerPC,
       groupVars, quitVars, history
  <2>4. CASE WaitStart(c) \/ WaitReturn(c)
    BY <1>1, <2>4 DEF WaitStart, WaitReturn, TypeOK, ClientPC, runnerVars, groupVars, quitVars
  <2>5. CASE WaitCheck(c) \/ WaitSpuriousWakeup(c)
    BY <1>1, <2>5 DEF WaitCheck, WaitSpuriousWakeup, TypeOK, ClientPC, runnerVars, groupVars,
       quitVars, history
  <2>6. CASE DrainDequeue(c)
    <3>1. head # NoTask => <<head>> \in Seq(Task)
      BY <1>1 DEF TypeOK, QueueTypeOK
    <3> QED
      BY <1>1, <2>6, <3>1 DEF DrainDequeue, TypeOK, ClientPC, runnerVars, groupVars, quitVars, history
  <2>7. CASE DrainEndRun(c)
    BY <1>1, <2>7 DEF DrainEndRun, RecordEnd, AfterEnd, TypeOK, ClientPC, GroupPC, runnerVars, quitVars
  <2>8. CASE DrainDec(c)
    BY <1>1, <2>8 DEF DrainDec, TypeOK, ClientPC, runnerVars, groupVars, quitVars, history
  <2> QED
    BY <1>4, <2>1, <2>2, <2>3, <2>4, <2>5, <2>6, <2>7, <2>8 DEF ClientStep
<1>5. CASE QuitStep \/ QuitStart
  <2>1. CASE QuitEnqueue
    BY <1>1, <2>1 DEF QuitEnqueue, TypeOK, QuitPC, runnerVars, groupVars, clientVars, history
  <2>2. CASE QuitNotify
    BY <1>1, <2>2 DEF QuitNotify, WakeOneRunner, TypeOK, QuitPC, RunnerPC, groupVars,
       clientVars, history
  <2>3. CASE QuitStart \/ QuitJoin
    BY <1>1, <2>3 DEF QuitStart, QuitJoin, TypeOK, QuitPC, runnerVars, groupVars, clientVars, history
  <2> QED
    BY <1>5, <2>1, <2>2, <2>3 DEF QuitStep
<1>6. CASE UNCHANGED vars
  BY <1>1, <1>6 DEF TypeOK, vars, runnerVars, groupVars, clientVars, quitVars, history
<1> QED
  BY <1>2, <1>3, <1>4, <1>5, <1>6 DEF Next, Working, Calling, SpuriousWakeup, Destroyed

-----------------------------------------------------------------------------
(* Dequeue takes out the head, and only it.                                 *)
LEMMA DequeueRemoves ==
    ASSUME IInv, Dequeue
    PROVE  /\ head \in Task /\ in_queue[head]
           /\ \A t \in Task : in_queue'[t] <=> in_queue[t] /\ t # head
BY DEF IInv, TypeOK, QueueTypeOK, LinksConsistent, Dequeue

(* A call that finds its group's count at 0 is owed nothing.                *)
LEMMA CountZero ==
    ASSUME IInv, NEW g \in Groups, gpc[g] = "wait", gcount[g] = 0
    PROVE  Owed(g) = {}
<1>1. IsFiniteSet(Owed(g))
  <2>1. Owed(g) \in SUBSET Task
    BY GroupFacts DEF Owed
  <2> QED
    BY <2>1, FS_Subset, TaskAssumption
<1>2. Cardinality(Owed(g)) \in Nat /\ (Cardinality(Owed(g)) = 0 <=> Owed(g) = {})
  BY <1>1, FS_CardinalityType, FS_EmptySet
<1>3. Cardinality(Owed(g)) <= 0
  BY DEF IInv, CountCoversOwed
<1> QED
  BY <1>2, <1>3

(* A step that moves nobody's hold on a task, but may let go of one that    *)
(* nobody is to run any more.                                               *)
RunnersKeep ==
    \A r \in Runners :
        rpc'[r] \in {"current", "run", "groupDec"}
          => /\ rpc[r] \in {"current", "run", "groupDec"} /\ rtask'[r] = rtask[r]
             /\ rpc'[r] = "groupDec" <=> rpc[r] = "groupDec"
GroupsKeep ==
    \A g \in Groups :
        /\ \A t \in Task : GroupHas(g, t)' =>
             /\ GroupHas(g, t)
             /\ gpc'[g] \in {"finish", "finishNotify", "dec"}
                  <=> gpc[g] \in {"finish", "finishNotify", "dec"}
        /\ gpc'[g] \in {"run", "finish", "finishNotify", "dec"} => gi'[g] \in DOMAIN GroupTasks[g]
        /\ gpc'[g] \in {"idle", "count", "returned"} => gpc[g] \in {"idle", "count", "returned"}
ClientsKeep ==
    \A c \in Clients :
        cpc'[c] \in {"enqueue", "drainRun"} => cpc'[c] = cpc[c] /\ carg'[c] = carg[c]

LEMMA CustodyKept ==
    ASSUME IInv, UNCHANGED <<in_queue, quits, outstanding>>,
           RunnersKeep, GroupsKeep, ClientsKeep, QuitInv'
    PROVE  Custody'
<1>0. /\ TypeOK /\ RunnersInv /\ GroupsInv /\ ClientsInv /\ QueueInv
      /\ GroupsAtRest /\ Exclusive
  BY DEF IInv, Custody
<1>1. /\ \A r \in Runners, t \in Task : RunnerHas(r, t)' => RunnerHas(r, t)
      /\ \A c \in Clients, t \in Task : ClientHas(c, t)' => ClientHas(c, t)
  BY DEF RunnersKeep, RunnerHas, ClientsKeep, ClientHas
<1>2. RunnersInv'
  BY <1>0 DEF RunnersInv, RunnersKeep
<1>3. GroupsInv'
  BY <1>0 DEF GroupsInv, GroupsKeep
<1>4. ClientsInv'
  BY <1>0, <1>1 DEF ClientsInv, ClientsKeep
<1>5. QueueInv'
  BY <1>0 DEF QueueInv
<1>6. GroupsAtRest'
  BY <1>0, <1>1, GroupFacts DEF GroupsAtRest, GroupsKeep
<1>7. Exclusive'
  BY <1>0, <1>1 DEF Exclusive, GroupsKeep
<1> QED
  BY <1>2, <1>3, <1>4, <1>5, <1>6, <1>7 DEF Custody

(* Who has what after a runner's step.                                      *)
LEMMA RunnerCustody ==
    ASSUME IInv, TypeOK', NEW r \in Runners, RunnerStep(r) \/ RunnerSpuriousWakeup(r)
    PROVE  Custody'
<1>0. /\ TypeOK /\ RunnersInv /\ GroupsInv /\ ClientsInv /\ QueueInv /\ QuitInv
      /\ GroupsAtRest /\ Exclusive /\ NoGroup \notin Groups
  BY TaskManagerAssumption DEF IInv, Custody
<1>1. CASE RunnerDequeue(r) /\ head # NoTask
  <2>1. /\ head \in Task /\ in_queue[head]
        /\ \A t \in Task : in_queue'[t] <=> in_queue[t] /\ t # head
    BY <1>1, DequeueRemoves DEF RunnerDequeue
  <2>2. rpc' = [rpc EXCEPT ![r] = IF head \in QuitTasks THEN "done" ELSE "current"]
        /\ rtask' = [rtask EXCEPT ![r] = head] /\ UNCHANGED <<gpc, gi, cpc, carg, mpc, quits, outstanding>>
    BY <1>1 DEF RunnerDequeue, groupVars, clientVars, quitVars, history
  <2>3. head \notin QuitTasks => head \in outstanding
    BY <1>0, <2>1 DEF QueueInv, TypeOK
  <2>4. \A s \in Runners, t \in Task :
          RunnerHas(s, t)' => RunnerHas(s, t) \/ (s = r /\ t = head /\ head \notin QuitTasks)
    BY <1>0, <2>2 DEF RunnerHas, TypeOK
  <2>5. \A t \in Task : /\ \A g \in Groups : GroupHas(g, t)' <=> GroupHas(g, t)
                        /\ \A c \in Clients : ClientHas(c, t)' <=> ClientHas(c, t)
    BY <2>2 DEF GroupHas, ClientHas, Current
  <2>6. /\ \A g \in Groups : ~GroupHas(g, head)
        /\ \A c \in Clients : ~ClientHas(c, head)
        /\ \A s \in Runners : ~RunnerHas(s, head)
    BY <1>0, <2>1 DEF GroupsInv, ClientsInv, RunnersInv, RunnerHas
  <2>11. RunnersInv'
    BY <1>0, <2>1, <2>2, <2>3, <2>6 DEF RunnersInv, TypeOK, RunnerHas
  <2>12. GroupsInv'
    BY <1>0, <2>1, <2>2, <2>5 DEF GroupsInv
  <2>13. ClientsInv'
    BY <1>0, <2>1, <2>2, <2>5 DEF ClientsInv
  <2>14. QueueInv'
    BY <1>0, <2>1, <2>2 DEF QueueInv
  <2>15. QuitInv'
    BY <1>0, <2>2 DEF QuitInv
  <2>16. GroupsAtRest'
    BY <1>0, <2>2, <2>3, <2>4, GroupFacts DEF GroupsAtRest
  <2>17. Exclusive'
    BY <1>0, <2>4, <2>5, <2>6 DEF Exclusive
  <2> QED
    BY <2>11, <2>12, <2>13, <2>14, <2>15, <2>16, <2>17 DEF Custody
<1>2. CASE RunnerEndRun(r)
  <2>1. RunnersInv' /\ QueueInv' /\ QuitInv' /\ ClientsInv'
    BY <1>0, <1>2 DEF RunnerEndRun, RecordEnd, AfterEnd, queueVars, clientVars, quitVars, TypeOK, QueueTypeOK,
       RunnersInv, QueueInv, QuitInv, ClientsInv, ClientHas, Exclusive, RunnerHas
  <2>2. GroupsInv'
    BY <1>0, <1>2, GroupFacts DEF RunnerEndRun, RecordEnd, MayEnd, AfterEnd, queueVars, TypeOK,
       GroupsInv, GroupHas, Current, Exclusive, RunnerHas
  <2>3. GroupsAtRest'
    BY <1>0, <1>2 DEF RunnerEndRun, RecordEnd, MayEnd, AfterEnd, TypeOK, GroupsAtRest, RunnerHas
  <2>4. Exclusive'
    BY <1>0, <1>2 DEF RunnerEndRun, RecordEnd, MayEnd, AfterEnd, clientVars, TypeOK, Exclusive,
       RunnerHas, GroupHas, ClientHas, Current
  <2> QED
    BY <2>1, <2>2, <2>3, <2>4 DEF Custody
<1>3. CASE \/ RunnerDequeue(r) /\ head = NoTask
           \/ RunnerSetCurrent(r) \/ RunnerGroupDec(r) \/ RunnerGroupNotify(r)
           \/ RunnerClearCurrent(r) \/ RunnerTaskFinished(r) \/ RunnerFinishNotify(r)
           \/ RunnerSpuriousWakeup(r)
  <2>1. UNCHANGED <<in_queue, gi, carg, mpc, quits, outstanding>> /\ RunnersKeep
    BY <1>0, <1>3
    DEF RunnersKeep, RunnerDequeue, RunnerSetCurrent, RunnerGroupDec, RunnerGroupNotify,
        RunnerClearCurrent, RunnerTaskFinished, RunnerFinishNotify, RunnerSpuriousWakeup,
        queueVars, groupVars, clientVars, quitVars, history, TypeOK
  <2>2. /\ \A g \in Groups : gpc'[g] = gpc[g] \/ (gpc[g] = "asleep" /\ gpc'[g] = "wait")
        /\ \A c \in Clients : cpc'[c] = cpc[c] \/ (cpc[c] = "asleep" /\ cpc'[c] = "wait")
    BY <1>0, <1>3
    DEF RunnerDequeue, RunnerSetCurrent, RunnerGroupDec, RunnerGroupNotify, WakeAllWaiters,
        RunnerClearCurrent, RunnerTaskFinished, RunnerFinishNotify, RunnerSpuriousWakeup,
        groupVars, clientVars, TypeOK
  <2>3. GroupsKeep /\ ClientsKeep /\ QuitInv'
    BY <1>0, <2>1, <2>2 DEF GroupsInv, GroupsKeep, GroupHas, Current, ClientsKeep, QuitInv
  <2> QED
    BY <2>1, <2>3, CustodyKept
<1> QED
  BY <1>1, <1>2, <1>3 DEF RunnerStep

(* Who has what after a step of a group call.                               *)
LEMMA GroupCustody ==
    ASSUME IInv, TypeOK', NEW g \in Groups,
           GroupStep(g) \/ GroupStart(g) \/ GroupResume(g) \/ GroupSpuriousWakeup(g)
    PROVE  Custody'
<1>0. /\ TypeOK /\ RunnersInv /\ GroupsInv /\ ClientsInv /\ QueueInv /\ QuitInv
      /\ GroupsAtRest /\ Exclusive /\ NoGroup \notin Groups
  BY TaskManagerAssumption DEF IInv, Custody
<1>1. CASE GroupCount(g)
  <2>1. RunnersInv'
    BY <1>0, <1>1, GroupFacts DEF GroupCount, queueVars, runnerVars, TypeOK, RunnersInv, GroupsAtRest, RunnerHas
  <2>2. GroupsInv' /\ ClientsInv' /\ QueueInv' /\ QuitInv'
    BY <1>0, <1>1, GroupFacts DEF GroupCount, queueVars, clientVars, quitVars, TypeOK,
       GroupsInv, GroupHas, Current, GroupsAtRest, ClientsInv, ClientHas, QueueInv, QuitInv
  <2>3. GroupsAtRest' /\ Exclusive'
    BY <1>0, <1>1, GroupFacts DEF GroupCount, runnerVars, clientVars, TypeOK, GroupsInv,
       ClientsInv, GroupHas, Current, ClientHas, RunnerHas, GroupsAtRest, Exclusive
  <2> QED
    BY <2>1, <2>2, <2>3 DEF Custody
<1>2. CASE GroupEnqueue(g)
  <2>1. /\ gpc' = [gpc EXCEPT ![g] = "notifyAll"] /\ gpc[g] = "enqueue"
        /\ UNCHANGED <<rpc, rtask, gi, cpc, carg, mpc, quits, outstanding>>
    BY <1>2 DEF GroupEnqueue, runnerVars, clientVars, quitVars, history
  <2>2. \A t \in Task : in_queue'[t] <=> t \in ToSet(Queued(g)) \/ in_queue[t]
    BY <1>2, QueuedFacts, EnqueueAdds DEF GroupEnqueue
  <2>3. \A t \in ToSet(Queued(g)) : t \in Members(g) /\ t \in Task /\ t # GroupTasks[g][1] /\ GroupHas(g, t)
    BY <2>1, QueuedFacts, GroupFacts DEF GroupHas
  <2>4. \A t \in ToSet(Queued(g)) :
          /\ t \in outstanding
          /\ \A r \in Runners : ~RunnerHas(r, t)
          /\ \A c \in Clients : ~ClientHas(c, t)
          /\ \A h \in Groups : ~GroupHas(h, t)'
    BY <1>0, <2>1, <2>3, GroupFacts DEF GroupsInv, Exclusive, GroupHas, Current, TypeOK
  <2>5. RunnersInv'
    BY <1>0, <2>1, <2>2, <2>4 DEF RunnersInv, RunnerHas
  <2>6. \A h \in Groups, t \in Task : GroupHas(h, t)' => GroupHas(h, t)
    BY <1>0, <2>1, GroupFacts DEF GroupHas, Current, TypeOK
  <2>7. GroupsInv'
    <3>1. \A h \in Groups, t \in Task : GroupHas(h, t)' =>
            /\ t \in Members(h) /\ ~in_queue'[t]
            /\ IF gpc'[h] \in {"finish", "finishNotify", "dec"}
               THEN t \notin outstanding ELSE t \in outstanding
      BY <1>0, <2>1, <2>2, <2>4, <2>6 DEF GroupsInv, TypeOK
    <3> QED
      BY <1>0, <2>1, <3>1 DEF GroupsInv, TypeOK
  <2>8. ClientsInv'
    BY <1>0, <2>1, <2>2, <2>4 DEF ClientsInv, ClientHas
  <2>9. QueueInv' /\ QuitInv'
    BY <1>0, <2>1, <2>2, <2>4 DEF QueueInv, QuitInv
  <2>10. GroupsAtRest'
    BY <1>0, <2>1 DEF GroupsAtRest, RunnerHas, TypeOK
  <2>11. Exclusive'
    BY <1>0, <2>1, <2>6 DEF Exclusive, RunnerHas, ClientHas
  <2> QED
    BY <2>5, <2>7, <2>8, <2>9, <2>10, <2>11 DEF Custody
<1>3. CASE GroupTakeQueued(g)
  <2>1. Current(g) \in Members(g) /\ Current(g) \in Task /\ in_queue[Current(g)]
    BY <1>3, GroupFacts DEF GroupTakeQueued, Unlink, Current
  <2>2. /\ in_queue' = [in_queue EXCEPT ![Current(g)] = FALSE]
        /\ gpc' = [gpc EXCEPT ![g] = "run"] /\ gpc[g] = "take" /\ gi[g] \in DOMAIN GroupTasks[g]
        /\ UNCHANGED <<rpc, rtask, gi, cpc, carg, mpc, quits, outstanding>>
    BY <1>3, GroupFacts DEF GroupTakeQueued, Unlink, runnerVars, clientVars, quitVars, history
  <2>3. Current(g) \in outstanding
    BY <1>0, <2>1, GroupFacts DEF QueueInv, TypeOK
  <2>4. \A h \in Groups, t \in Task : GroupHas(h, t)' => GroupHas(h, t) \/ (h = g /\ t = Current(g))
    BY <1>0, <2>2 DEF GroupHas, Current, TypeOK
  <2>5. /\ \A r \in Runners : ~RunnerHas(r, Current(g))
        /\ \A c \in Clients : ~ClientHas(c, Current(g))
    BY <1>0, <2>1 DEF RunnersInv, RunnerHas, ClientsInv
  <2>6. RunnersInv' /\ ClientsInv' /\ QueueInv' /\ QuitInv'
    BY <1>0, <2>2, <2>5
    DEF RunnersInv, RunnerHas, ClientsInv, ClientHas, QueueInv, QuitInv, TypeOK, QueueTypeOK
  <2>7. GroupsInv'
    BY <1>0, <2>1, <2>2, <2>3, <2>4 DEF GroupsInv, TypeOK, QueueTypeOK
  <2>8. GroupsAtRest'
    BY <1>0, <2>2 DEF GroupsAtRest, RunnerHas, TypeOK
  <2>9. Exclusive'
    BY <1>0, <2>2, <2>4, <2>5 DEF Exclusive, RunnerHas, ClientHas
  <2> QED
    BY <2>6, <2>7, <2>8, <2>9 DEF Custody
<1>4. CASE GroupEndRun(g)
  <2>1. Current(g) \in Members(g) /\ Current(g) \in Task /\ GroupHas(g, Current(g))
    BY <1>0, <1>4, GroupFacts DEF GroupsInv, GroupEndRun, GroupHas, Current
  <2>2. RunnersInv' /\ ClientsInv' /\ QueueInv' /\ QuitInv'
    BY <1>0, <1>4, <2>1
    DEF GroupEndRun, RecordEnd, queueVars, runnerVars, clientVars, quitVars, TypeOK, QueueTypeOK,
       RunnersInv, ClientsInv, ClientHas, QueueInv, GroupsInv, QuitInv, Exclusive, RunnerHas
  <2>3. GroupsInv'
    BY <1>0, <1>4, <2>1, GroupFacts DEF GroupEndRun, RecordEnd, MayEnd, AfterEnd, queueVars, TypeOK,
       GroupsInv, GroupHas, Current
  <2>4. GroupsAtRest'
    BY <1>0, <1>4 DEF GroupEndRun, RecordEnd, MayEnd, AfterEnd, runnerVars, TypeOK, GroupsAtRest, RunnerHas
  <2>5. Exclusive'
    BY <1>0, <1>4 DEF GroupEndRun, MayEnd, AfterEnd, runnerVars, clientVars, TypeOK, Exclusive,
       RunnerHas, GroupHas, ClientHas, Current
  <2> QED
    BY <2>2, <2>3, <2>4, <2>5 DEF Custody
<1>5. CASE GroupWait(g) /\ gcount[g] = 0
  <2>1. /\ gpc' = [gpc EXCEPT ![g] = "returned"] /\ gpc[g] = "wait"
        /\ UNCHANGED <<in_queue, rpc, rtask, gi, cpc, carg, mpc, quits, outstanding>>
    BY <1>5 DEF GroupWait, queueVars, runnerVars, clientVars, quitVars, history
  <2>2. \A t \in Members(g) :
          t \notin outstanding /\ \A r \in Runners : ~(rpc[r] = "groupDec" /\ rtask[r] = t)
    BY <1>5, <2>1, CountZero DEF Owed
  <2>3. GroupsAtRest'
    BY <1>0, <2>1, <2>2, GroupFacts DEF GroupsAtRest, RunnerHas, RunnersInv, TypeOK
  <2>4. \A h \in Groups, t \in Task : GroupHas(h, t)' => GroupHas(h, t) /\ h # g
    BY <1>0, <2>1 DEF GroupHas, Current, TypeOK
  <2>5. GroupsInv'
    BY <1>0, <2>1, <2>4 DEF GroupsInv, TypeOK
  <2>6. RunnersInv' /\ ClientsInv' /\ QueueInv' /\ QuitInv'
    BY <1>0, <2>1 DEF RunnersInv, ClientsInv, ClientHas, QueueInv, QuitInv
  <2>7. Exclusive'
    BY <1>0, <2>1, <2>4 DEF Exclusive, RunnerHas, ClientHas
  <2> QED
    BY <2>3, <2>5, <2>6, <2>7 DEF Custody
<1>6. CASE \/ GroupStart(g) \/ GroupResume(g) \/ GroupSpuriousWakeup(g) \/ GroupNotifyAll(g)
           \/ GroupTakeFirst(g) \/ GroupSkipTaken(g) \/ GroupLoopEnds(g)
           \/ GroupTaskFinished(g) \/ GroupFinishNotify(g) \/ GroupDec(g)
           \/ GroupWait(g) /\ gcount[g] # 0
  <2>1. UNCHANGED <<in_queue, rtask, carg, mpc, quits, outstanding>>
    BY <1>6
    DEF GroupStart, GroupResume, GroupSpuriousWakeup, GroupNotifyAll, GroupTakeFirst,
        GroupSkipTaken, GroupLoopEnds, GroupTaskFinished, GroupFinishNotify, GroupDec, GroupWait,
        queueVars, runnerVars, clientVars, quitVars, history
  <2>2. RunnersKeep /\ ClientsKeep /\ QuitInv'
    BY <1>0, <1>6, <2>1
    DEF GroupStart, GroupResume, GroupSpuriousWakeup, GroupNotifyAll, GroupTakeFirst,
        GroupSkipTaken, GroupLoopEnds, GroupTaskFinished, GroupFinishNotify, GroupDec, GroupWait,
        WakeAllRunners, WakeAllWaiters, runnerVars, clientVars, TypeOK, RunnersKeep, ClientsKeep, QuitInv
  <2>3. GroupsKeep
    <3>1. CASE GroupNotifyAll(g) \/ GroupTakeFirst(g)
      BY <1>0, <3>1, GroupFacts
      DEF GroupNotifyAll, GroupTakeFirst, TypeOK, GroupsKeep, GroupsInv, GroupHas, Current
    <3>2. CASE GroupSkipTaken(g) \/ GroupLoopEnds(g)
      BY <1>0, <3>2 DEF GroupSkipTaken, GroupLoopEnds, TypeOK, GroupsKeep, GroupsInv, GroupHas, Current
    <3>3. CASE GroupTaskFinished(g) \/ GroupFinishNotify(g) \/ GroupDec(g)
      BY <1>0, <3>3
      DEF GroupTaskFinished, GroupFinishNotify, GroupDec, TypeOK, GroupsKeep, GroupsInv, GroupHas, Current
    <3>4. CASE GroupStart(g) \/ GroupResume(g) \/ GroupSpuriousWakeup(g)
      BY <1>0, <3>4
      DEF GroupStart, GroupResume, GroupSpuriousWakeup, TypeOK, GroupsKeep, GroupsInv, GroupHas, Current
    <3>5. CASE GroupWait(g) /\ gcount[g] # 0
      BY <1>0, <3>5 DEF GroupWait, TypeOK, GroupsKeep, GroupsInv, GroupHas, Current
    <3> QED
      BY <1>6, <3>1, <3>2, <3>3, <3>4, <3>5
  <2> QED
    BY <2>1, <2>2, <2>3, CustodyKept
<1> QED
  BY <1>1, <1>2, <1>3, <1>4, <1>5, <1>6 DEF GroupStep

(* Who has what after a client's step.                                      *)
LEMMA ClientCustody ==
    ASSUME IInv, TypeOK', NEW c \in Clients,
           ClientStep(c) \/ Add(c) \/ WaitStart(c) \/ WaitSpuriousWakeup(c)
    PROVE  Custody'
<1>0. /\ TypeOK /\ RunnersInv /\ GroupsInv /\ ClientsInv /\ QueueInv /\ QuitInv
      /\ GroupsAtRest /\ Exclusive /\ NoGroup \notin Groups
  BY TaskManagerAssumption DEF IInv, Custody
<1>1. CASE Add(c)
  <2>1. PICK S \in SUBSET Addable : \E ts \in SetToSeqs(S) : AddCount(c, ts)
    BY <1>1 DEF Add
  <2>2. PICK ts \in SetToSeqs(S) : AddCount(c, ts)
    BY <2>1
  <2>3. IsInjective(ts) /\ ToSet(ts) \subseteq Task /\ ToSet(ts) \subseteq Addable
    <3>1. S \in SUBSET Task
      BY TaskManagerAssumption DEF Addable
    <3>2. ts \in Seq(Task) /\ IsInjective(ts) /\ ToSet(ts) \subseteq S
      BY <2>2, <3>1, SetToSeqsIsInjective
    <3> QED
      BY <3>1, <3>2
  <2>4. /\ cpc[c] = "idle" /\ mpc = "alive"
        /\ carg' = [carg EXCEPT ![c] = ts] /\ cpc' = [cpc EXCEPT ![c] = "enqueue"]
        /\ outstanding' = outstanding \cup ToSet(ts)
        /\ UNCHANGED <<in_queue, rpc, rtask, gpc, gi, mpc, quits>>
    BY <2>2 DEF AddCount, queueVars, runnerVars, groupVars, quitVars
  <2>5. \A t \in ToSet(ts) :
          /\ t \notin outstanding /\ t \notin QuitTasks /\ ~in_queue[t]
          /\ \A g \in Groups : t \notin Members(g)
    BY <1>0, <2>3, TaskManagerAssumption DEF Addable, QueueInv, TypeOK
  <2>6. \A t \in ToSet(ts) : /\ \A r \in Runners : ~RunnerHas(r, t)
                             /\ \A g \in Groups : ~GroupHas(g, t)
                             /\ \A d \in Clients : ~ClientHas(d, t)
    BY <1>0, <2>3, <2>5 DEF RunnersInv, RunnerHas, GroupsInv, ClientsInv
  <2>7. \A d \in Clients, t \in Task : ClientHas(d, t)' => ClientHas(d, t) \/ (d = c /\ t \in ToSet(ts))
    BY <1>0, <2>4 DEF ClientHas, TypeOK
  <2>8. \A g \in Groups, t \in Task : GroupHas(g, t)' <=> GroupHas(g, t)
    BY <2>4 DEF GroupHas, Current
  <2>9. RunnersInv'
    BY <1>0, <2>3, <2>4, <2>6 DEF RunnersInv, RunnerHas
  <2>10. GroupsInv'
    BY <1>0, <2>4, <2>5, <2>8 DEF GroupsInv
  <2>11. ClientsInv'
    BY <1>0, <2>3, <2>4, <2>5, <2>7 DEF ClientsInv, TypeOK
  <2>12. QueueInv' /\ QuitInv'
    BY <1>0, <2>4, <2>5 DEF QueueInv, QuitInv, TypeOK
  <2>13. GroupsAtRest'
    BY <1>0, <2>4, <2>5 DEF GroupsAtRest, RunnerHas
  <2>14. Exclusive'
    BY <1>0, <2>4, <2>6, <2>7, <2>8 DEF Exclusive, RunnerHas
  <2> QED
    BY <2>9, <2>10, <2>11, <2>12, <2>13, <2>14 DEF Custody
<1>2. CASE AddEnqueue(c)
  <2>1. /\ cpc[c] = "enqueue" /\ cpc'[c] \in {"notify", "notifyAll"}
        /\ \A d \in Clients : d # c => cpc'[d] = cpc[d] /\ carg'[d] = carg[d]
        /\ UNCHANGED <<rpc, rtask, gpc, gi, mpc, quits, outstanding>>
    BY <1>0, <1>2 DEF AddEnqueue, runnerVars, groupVars, quitVars, history, TypeOK
  <2>2. \A t \in Task : in_queue'[t] <=> t \in ToSet(carg[c]) \/ in_queue[t]
    BY <1>0, <1>2, EnqueueAdds DEF AddEnqueue, TypeOK
  <2>3. \A t \in Task : t \in ToSet(carg[c]) =>
          /\ ClientHas(c, t) /\ t \in outstanding
          /\ \A r \in Runners : ~RunnerHas(r, t)
          /\ \A g \in Groups : ~GroupHas(g, t)
          /\ \A d \in Clients : d # c => ~ClientHas(d, t)
    BY <1>0, <2>1 DEF ClientsInv, ClientHas, Exclusive
  <2>4. \A d \in Clients, t \in Task : ClientHas(d, t)' => d # c /\ ClientHas(d, t)
    BY <2>1 DEF ClientHas
  <2>5. \A g \in Groups, t \in Task : GroupHas(g, t)' <=> GroupHas(g, t)
    BY <2>1 DEF GroupHas, Current
  <2>6. RunnersInv'
    BY <1>0, <2>1, <2>2, <2>3 DEF RunnersInv, RunnerHas
  <2>7. GroupsInv'
    BY <1>0, <2>1, <2>2, <2>3, <2>5 DEF GroupsInv
  <2>8. ClientsInv'
    BY <1>0, <2>1, <2>2, <2>3, <2>4 DEF ClientsInv
  <2>9. QueueInv' /\ QuitInv'
    BY <1>0, <2>1, <2>2, <2>3 DEF QueueInv, QuitInv
  <2>10. GroupsAtRest'
    BY <1>0, <2>1 DEF GroupsAtRest, RunnerHas
  <2>11. Exclusive'
    BY <1>0, <2>1, <2>4, <2>5 DEF Exclusive, RunnerHas
  <2> QED
    BY <2>6, <2>7, <2>8, <2>9, <2>10, <2>11 DEF Custody
<1>3. CASE DrainDequeue(c) /\ head # NoTask
  <2>1. /\ head \in Task /\ in_queue[head]
        /\ \A t \in Task : in_queue'[t] <=> in_queue[t] /\ t # head
    BY <1>3, DequeueRemoves DEF DrainDequeue
  <2>2. /\ cpc[c] = "drain"
        /\ cpc' = [cpc EXCEPT ![c] = "drainRun"] /\ carg' = [carg EXCEPT ![c] = <<head>>]
        /\ UNCHANGED <<rpc, rtask, gpc, gi, mpc, quits, outstanding>>
    BY <1>3 DEF DrainDequeue, runnerVars, groupVars, quitVars, history
  <2>3. head \in outstanding
    BY <1>0, <2>1, <2>2 DEF QueueInv, QuitInv
  <2>4. ToSet(<<head>>) = {head} /\ Len(<<head>>) = 1
    BY DEF ToSet
  <2>5. \A d \in Clients, t \in Task : ClientHas(d, t)' => ClientHas(d, t) \/ (d = c /\ t = head)
    BY <1>0, <2>2, <2>4 DEF ClientHas, TypeOK
  <2>6. \A g \in Groups, t \in Task : GroupHas(g, t)' <=> GroupHas(g, t)
    BY <2>2 DEF GroupHas, Current
  <2>7. /\ \A g \in Groups : ~GroupHas(g, head)
        /\ \A d \in Clients : ~ClientHas(d, head)
        /\ \A r \in Runners : ~RunnerHas(r, head)
    BY <1>0, <2>1 DEF GroupsInv, ClientsInv, RunnersInv, RunnerHas
  <2>8. RunnersInv'
    BY <1>0, <2>1, <2>2, <2>7 DEF RunnersInv, RunnerHas
  <2>9. GroupsInv'
    BY <1>0, <2>1, <2>2, <2>6 DEF GroupsInv
  <2>10. ClientsInv'
    BY <1>0, <2>1, <2>2, <2>3, <2>4, <2>5 DEF ClientsInv, TypeOK
  <2>11. QueueInv' /\ QuitInv'
    BY <1>0, <2>1, <2>2 DEF QueueInv, QuitInv, TypeOK
  <2>12. GroupsAtRest'
    BY <1>0, <2>2 DEF GroupsAtRest, RunnerHas
  <2>13. Exclusive'
    BY <1>0, <2>2, <2>5, <2>6, <2>7 DEF Exclusive, RunnerHas
  <2> QED
    BY <2>8, <2>9, <2>10, <2>11, <2>12, <2>13 DEF Custody
<1>4. CASE DrainEndRun(c)
  <2> DEFINE t0 == carg[c][1]
  <2>1. /\ cpc[c] = "drainRun" /\ MayEnd(t0) /\ cpc' = [cpc EXCEPT ![c] = "drainDec"]
        /\ gpc' = AfterEnd(t0, gpc) /\ outstanding' = outstanding \ {t0}
        /\ carg' = [carg EXCEPT ![c] = <<>>]
        /\ UNCHANGED <<in_queue, rpc, rtask, gi, mpc, quits>>
    BY <1>4 DEF DrainEndRun, RecordEnd, queueVars, runnerVars, quitVars
  <2>2. t0 \in Task /\ t0 \in outstanding /\ ~in_queue[t0] /\ ClientHas(c, t0)
    <3>1. carg[c] \in Seq(Task) /\ Len(carg[c]) = 1
      BY <1>0, <2>1 DEF TypeOK, ClientsInv
    <3>2. t0 \in Task /\ t0 \in ToSet(carg[c])
      BY <3>1 DEF ToSet
    <3> QED
      BY <1>0, <2>1, <3>2 DEF ClientsInv, ClientHas
  <2> HIDE DEF t0
  <2>3. /\ \A r \in Runners : ~RunnerHas(r, t0)
        /\ \A g \in Groups : ~GroupHas(g, t0)
        /\ \A d \in Clients : d # c => ~ClientHas(d, t0)
    BY <1>0, <2>2 DEF Exclusive
  <2>4. \A g \in Groups : gpc'[g] = gpc[g] \/ (gpc[g] = "returned" /\ gpc'[g] = "idle")
    BY <1>0, <2>1 DEF MayEnd, AfterEnd, TypeOK
  <2>5. \A g \in Groups, t \in Task : GroupHas(g, t)' => GroupHas(g, t) /\ gpc'[g] = gpc[g]
    BY <2>1, <2>4 DEF GroupHas, Current
  <2>6. \A d \in Clients, t \in Task : ClientHas(d, t)' => ClientHas(d, t) /\ d # c
    BY <1>0, <2>1 DEF ClientHas, TypeOK
  <2>7. RunnersInv'
    BY <1>0, <2>1, <2>3 DEF RunnersInv, RunnerHas
  <2>8. GroupsInv'
    BY <1>0, <2>1, <2>3, <2>4, <2>5 DEF GroupsInv
  <2>9. ClientsInv'
    BY <1>0, <2>1, <2>3, <2>6 DEF ClientsInv, TypeOK
  <2>10. QueueInv' /\ QuitInv'
    BY <1>0, <2>1, <2>2 DEF QueueInv, QuitInv, TypeOK
  <2>11. GroupsAtRest'
    BY <1>0, <2>1, <2>4 DEF GroupsAtRest, RunnerHas
  <2>12. Exclusive'
    BY <1>0, <2>1, <2>5, <2>6 DEF Exclusive, RunnerHas
  <2> QED
    BY <2>7, <2>8, <2>9, <2>10, <2>11, <2>12 DEF Custody
<1>5. CASE \/ AddNotify(c) \/ WaitStart(c) \/ WaitCheck(c) \/ WaitSpuriousWakeup(c)
           \/ WaitReturn(c) \/ DrainDec(c)
           \/ DrainDequeue(c) /\ head = NoTask
  <2>1. UNCHANGED <<in_queue, rtask, gpc, gi, carg, mpc, quits, outstanding>>
    BY <1>5
    DEF AddNotify, WaitStart, WaitCheck, WaitSpuriousWakeup, WaitReturn, DrainDec, DrainDequeue,
        queueVars, runnerVars, groupVars, quitVars, history
  <2>2. RunnersKeep
    BY <1>0, <1>5, <2>1
    DEF AddNotify, WakeOneRunner, WakeAllRunners, WaitStart, WaitCheck, WaitSpuriousWakeup,
        WaitReturn, DrainDec, DrainDequeue, runnerVars, TypeOK, RunnersKeep
  <2>3. ClientsKeep /\ QuitInv'
    BY <1>0, <1>5, <2>1
    DEF AddNotify, WaitStart, WaitCheck, WaitSpuriousWakeup, WaitReturn, DrainDec, DrainDequeue,
        TypeOK, ClientsKeep, QuitInv
  <2>4. GroupsKeep
    BY <1>0, <2>1 DEF GroupsKeep, GroupsInv, GroupHas, Current
  <2> QED
    BY <2>1, <2>2, <2>3, <2>4, CustodyKept
<1> QED
  BY <1>1, <1>2, <1>3, <1>4, <1>5 DEF ClientStep

(* Who has what after a step of the destructor.                             *)
LEMMA QuitCustody ==
    ASSUME IInv, TypeOK', QuitStep \/ QuitStart
    PROVE  Custody'
<1>0. /\ TypeOK /\ RunnersInv /\ GroupsInv /\ ClientsInv /\ QueueInv /\ QuitInv
      /\ GroupsAtRest /\ Exclusive
  BY DEF IInv, Custody
<1>1. ASSUME NEW q \in QuitTasks \ quits, Enqueue(<<q>>), mpc = "enqueue", mpc' = "notify",
             quits' = quits \cup {q},
             UNCHANGED <<rpc, rtask, gpc, gi, cpc, carg, outstanding>>
      PROVE  Custody'
  <2>1. q \in Task /\ q \notin outstanding /\ \A g \in Groups : q \notin Members(g)
    BY <1>0, TaskManagerAssumption DEF QuitInv
  <2>2. \A t \in Task : in_queue'[t] <=> t = q \/ in_queue[t]
    <3>1. <<q>> \in Seq(Task) /\ ToSet(<<q>>) = {q}
      BY <2>1 DEF ToSet
    <3> QED
      BY <1>1, <3>1, EnqueueAdds
  <2>3. \A g \in Groups, t \in Task : GroupHas(g, t)' <=> GroupHas(g, t)
    BY <1>1 DEF GroupHas, Current
  <2>4. RunnersInv'
    BY <1>0, <1>1, <2>1, <2>2 DEF RunnersInv
  <2>5. GroupsInv'
    BY <1>0, <1>1, <2>1, <2>2, <2>3 DEF GroupsInv
  <2>6. ClientsInv'
    BY <1>0, <1>1, <2>1, <2>2 DEF ClientsInv, ClientHas
  <2>7. QueueInv' /\ QuitInv'
    BY <1>0, <1>1, <2>2 DEF QueueInv, QuitInv
  <2>8. GroupsAtRest' /\ Exclusive'
    BY <1>0, <1>1, <2>3 DEF GroupsAtRest, Exclusive, RunnerHas, ClientHas
  <2> QED
    BY <2>4, <2>5, <2>6, <2>7, <2>8 DEF Custody
<1>2. ASSUME mpc' \in {"enqueue", "join", "destroyed"}, RunnersKeep,
             \A c \in Clients : cpc[c] = "idle" \/ mpc # "alive",
             UNCHANGED <<in_queue, gpc, gi, cpc, carg, quits, outstanding>>
      PROVE  Custody'
  <2>1. QuitInv'
    BY <1>0, <1>2 DEF QuitInv
  <2>2. GroupsKeep /\ ClientsKeep
    BY <1>0, <1>2 DEF GroupsKeep, GroupsInv, GroupHas, Current, ClientsKeep
  <2> QED
    BY <1>2, <2>1, <2>2, CustodyKept
<1>3. CASE QuitEnqueue
  BY <1>1, <1>2, <1>3
  DEF QuitEnqueue, queueVars, runnerVars, groupVars, clientVars, history, RunnersKeep
<1>4. CASE QuitNotify
  <2>1. RunnersKeep
    BY <1>0, <1>4 DEF QuitNotify, WakeOneRunner, RunnersKeep, TypeOK
  <2> QED
    BY <1>2, <1>4, <2>1 DEF QuitNotify, queueVars, groupVars, clientVars, history
<1>5. CASE QuitStart \/ QuitJoin
  BY <1>2, <1>5
  DEF QuitStart, QuitJoin, queueVars, runnerVars, groupVars, clientVars, history, RunnersKeep
<1> QED
  BY <1>3, <1>4, <1>5 DEF QuitStep

(* Every step leaves each task in one party's hands.                        *)
LEMMA CustodyStep ==
    ASSUME IInv, [Next]_vars
    PROVE  Custody'
<1>1. TypeOK'
  BY TypeStep
<1>2. CASE UNCHANGED vars
  BY <1>2 DEF IInv, vars, queueVars, runnerVars, groupVars, clientVars, quitVars, history,
     Custody, RunnersInv, GroupsInv, ClientsInv, QueueInv, QuitInv, GroupsAtRest, Exclusive,
     RunnerHas, GroupHas, ClientHas, Current
<1> QED
  BY <1>1, <1>2, RunnerCustody, GroupCustody, ClientCustody, QuitCustody
  DEF Next, Working, Calling, SpuriousWakeup, Destroyed

-----------------------------------------------------------------------------
(* A group has no more tasks than its list is long.                         *)
LEMMA MembersCount ==
    ASSUME NEW g \in Groups
    PROVE  /\ IsFiniteSet(Members(g)) /\ Cardinality(Members(g)) \in Nat
           /\ Cardinality(Members(g)) <= Len(GroupTasks[g])
<1> DEFINE n == Len(GroupTasks[g])
<1>1. n \in Nat /\ GroupTasks[g] \in [1..n -> Members(g)]
      /\ \A t \in Members(g) : \E i \in 1..n : GroupTasks[g][i] = t
  <2>1. GroupTasks[g] \in Seq(Task) /\ n \in Nat /\ DOMAIN GroupTasks[g] = 1..n
    BY TaskManagerAssumption
  <2>2. \A i \in 1..n : GroupTasks[g][i] \in Members(g)
    BY <2>1 DEF Members, ToSet
  <2>3. \A t \in Members(g) : \E i \in 1..n : GroupTasks[g][i] = t
    BY <2>1 DEF Members, ToSet
  <2>4. GroupTasks[g] = [i \in 1..n |-> GroupTasks[g][i]]
    BY <2>1
  <2> QED
    BY <2>1, <2>2, <2>3, <2>4
<1> HIDE DEF n
<1>2. GroupTasks[g] \in Surjection(1..n, Members(g))
  BY <1>1 DEF Surjection
<1>3. ExistsSurjection(1..n, Members(g))
  BY <1>2 DEF ExistsSurjection
<1>4. Cardinality(Members(g)) <= n
  BY <1>1, <1>3, FS_SurjCardinalityBound
<1>5. IsFiniteSet(Members(g))
  BY <1>1, <1>3, FS_NatSurjection
<1> QED
  BY <1>4, <1>5, FS_CardinalityType DEF n

(* The count stays enough for a group whose owed tasks only become fewer,   *)
(* and for one that is counted down once for a task no longer owed.         *)
LEMMA OwedFewer ==
    ASSUME IInv, NEW g \in Groups, gpc[g] # "idle",
           \/ Owed(g)' \subseteq Owed(g) /\ gcount'[g] = gcount[g]
           \/ /\ \E t \in Owed(g) : Owed(g)' \subseteq Owed(g) \ {t}
              /\ gcount'[g] = gcount[g] - 1
    PROVE  gcount'[g] >= Cardinality(Owed(g)')
<1>1. gcount[g] \in Int /\ gcount[g] >= Cardinality(Owed(g))
  BY DEF IInv, TypeOK, CountCoversOwed
<1>2. IsFiniteSet(Owed(g))
  <2>1. Owed(g) \in SUBSET Members(g)
    BY DEF Owed
  <2> QED
    BY <2>1, MembersCount, FS_Subset
<1>3. Cardinality(Owed(g)) \in Nat
  BY <1>2, FS_CardinalityType
<1>4. CASE Owed(g)' \subseteq Owed(g) /\ gcount'[g] = gcount[g]
  <2>1. IsFiniteSet(Owed(g)') /\ Cardinality(Owed(g)') <= Cardinality(Owed(g))
    BY <1>2, <1>4, FS_Subset
  <2>2. Cardinality(Owed(g)') \in Nat
    BY <2>1, FS_CardinalityType
  <2> QED
    BY <1>1, <1>3, <1>4, <2>1, <2>2
<1>5. ASSUME NEW t \in Owed(g), Owed(g)' \subseteq Owed(g) \ {t}, gcount'[g] = gcount[g] - 1
      PROVE  gcount'[g] >= Cardinality(Owed(g)')
  <2>1. IsFiniteSet(Owed(g) \ {t}) /\ Cardinality(Owed(g) \ {t}) = Cardinality(Owed(g)) - 1
    BY <1>2, FS_RemoveElement
  <2>2. IsFiniteSet(Owed(g)') /\ Cardinality(Owed(g)') <= Cardinality(Owed(g) \ {t})
    BY <1>5, <2>1, FS_Subset
  <2>3. Cardinality(Owed(g)') \in Nat
    BY <2>2, FS_CardinalityType
  <2> QED
    BY <1>1, <1>3, <1>5, <2>1, <2>2, <2>3
<1> QED
  BY <1>4, <1>5

(* A runner's step.                                                         *)
LEMMA RunnerCount ==
    ASSUME IInv, TypeOK', NEW r \in Runners, RunnerStep(r) \/ RunnerSpuriousWakeup(r)
    PROVE  CountCoversOwed'
<1>0. TypeOK /\ RunnersInv /\ GroupsInv /\ GroupsAtRest /\ Exclusive /\ NoGroup \notin Groups
  BY TaskManagerAssumption DEF IInv, Custody
<1>1. SUFFICES ASSUME NEW g \in Groups, gpc'[g] # "idle"
               PROVE  gcount'[g] >= Cardinality(Owed(g)')
  BY DEF CountCoversOwed
<1>2. CASE RunnerEndRun(r)
  <2>1. gpc'[g] = gpc[g] /\ gcount' = gcount /\ gi' = gi /\ rtask' = rtask
        /\ outstanding' = outstanding \ {rtask[r]}
    BY <1>0, <1>1, <1>2 DEF RunnerEndRun, RecordEnd, MayEnd, AfterEnd, TypeOK
  <2>2. /\ rtask[r] \in outstanding
        /\ \A s \in Runners : rpc'[s] = "groupDec" => rpc[s] = "groupDec" \/ s = r
    BY <1>0, <1>2 DEF RunnerEndRun, RunnersInv, TypeOK
  <2>3. Owed(g)' \subseteq Owed(g)
    BY <2>1, <2>2 DEF Owed, Current
  <2> QED
    BY <1>1, <2>1, <2>3, OwedFewer
<1>3. CASE RunnerGroupDec(r)
  <2>1. PICK h \in Groups :
          /\ rtask[r] \in Members(h)
          /\ gcount' = [gcount EXCEPT ![h] = @ - 1]
          /\ rpc' = [rpc EXCEPT ![r] = IF gcount[h] = 1 THEN "groupNotify" ELSE "clear"]
    BY <1>3 DEF RunnerGroupDec
  <2>2. /\ rpc[r] = "groupDec" /\ UNCHANGED <<gpc, gi, outstanding, rtask>>
        /\ \A s \in Runners : rpc'[s] = "groupDec" => s # r /\ rpc[s] = "groupDec"
    BY <1>0, <1>3, <2>1 DEF RunnerGroupDec, history, TypeOK
  <2>3. Owed(g)' \subseteq Owed(g)
    BY <2>2 DEF Owed, Current
  <2>4. CASE g = h
    <3>1. rtask[r] \in Task /\ RunnerHas(r, rtask[r]) /\ rtask[r] \notin outstanding
      BY <1>0, <2>2 DEF RunnersInv, RunnerHas
    <3>2. gpc[g] # "count"
      BY <1>0, <2>1, <2>4, <3>1 DEF GroupsAtRest
    <3>3. rtask[r] \notin Owed(g)'
      BY <1>0, <2>2, <3>1, <3>2 DEF Owed, Current, Exclusive, RunnerHas, GroupHas
    <3>4. rtask[r] \in Owed(g)
      BY <2>1, <2>2, <2>4 DEF Owed
    <3>5. gcount'[g] = gcount[g] - 1
      BY <1>0, <2>1, <2>4 DEF TypeOK
    <3> QED
      BY <1>1, <2>2, <2>3, <3>3, <3>4, <3>5, OwedFewer
  <2>5. CASE g # h
    <3>1. gcount'[g] = gcount[g]
      BY <1>0, <2>1, <2>5 DEF TypeOK
    <3> QED
      BY <1>1, <2>2, <2>3, <3>1, OwedFewer
  <2> QED
    BY <2>4, <2>5
<1>4. CASE \/ RunnerDequeue(r) \/ RunnerSetCurrent(r) \/ RunnerGroupNotify(r)
           \/ RunnerClearCurrent(r) \/ RunnerTaskFinished(r) \/ RunnerFinishNotify(r)
           \/ RunnerSpuriousWakeup(r)
  <2>1. /\ UNCHANGED <<gcount, gi, outstanding>>
        /\ \A s \in Runners : rpc'[s] = "groupDec" => rpc[s] = "groupDec" /\ rtask'[s] = rtask[s]
    BY <1>0, <1>4
    DEF RunnerDequeue, RunnerSetCurrent, RunnerGroupNotify, RunnerClearCurrent, RunnerTaskFinished,
        RunnerFinishNotify, RunnerSpuriousWakeup, groupVars, history, TypeOK
  <2>2. gpc'[g] = gpc[g] \/ (gpc[g] = "asleep" /\ gpc'[g] = "wait")
    BY <1>0, <1>4
    DEF RunnerDequeue, RunnerSetCurrent, RunnerGroupNotify, RunnerClearCurrent, RunnerTaskFinished,
        RunnerFinishNotify, RunnerSpuriousWakeup, groupVars, TypeOK
  <2>3. Owed(g)' \subseteq Owed(g) /\ gpc[g] # "idle"
    BY <1>1, <2>1, <2>2 DEF Owed, Current
  <2> QED
    BY <2>1, <2>3, OwedFewer
<1> QED
  BY <1>2, <1>3, <1>4 DEF RunnerStep

(* A step of a group call.                                                  *)
LEMMA GroupCountStep ==
    ASSUME IInv, TypeOK', NEW h \in Groups,
           GroupStep(h) \/ GroupStart(h) \/ GroupResume(h) \/ GroupSpuriousWakeup(h)
    PROVE  CountCoversOwed'
<1>0. TypeOK /\ GroupsInv /\ Exclusive /\ NoGroup \notin Groups
  BY TaskManagerAssumption DEF IInv, Custody
<1>1. SUFFICES ASSUME NEW g \in Groups, gpc'[g] # "idle"
               PROVE  gcount'[g] >= Cardinality(Owed(g)')
  BY DEF CountCoversOwed
<1>2. CASE GroupStart(h)
  <2>1. CASE g = h
    <3>1. gcount'[g] = Len(GroupTasks[g]) /\ Len(GroupTasks[g]) \in Nat
      BY <1>0, <1>2, <2>1, GroupFacts DEF GroupStart, TypeOK
    <3>2. Owed(g)' \in SUBSET Members(g)
      BY DEF Owed
    <3>3. /\ IsFiniteSet(Owed(g)') /\ Cardinality(Owed(g)') \in Nat
          /\ Cardinality(Owed(g)') <= Cardinality(Members(g))
      BY <3>2, MembersCount, FS_Subset, FS_CardinalityType
    <3> QED
      BY <3>1, <3>3, MembersCount
  <2>2. CASE g # h
    <3>1. gpc'[g] = gpc[g] /\ gcount'[g] = gcount[g]
      BY <1>0, <1>2, <2>2 DEF GroupStart, TypeOK
    <3>2. Owed(g)' \subseteq Owed(g)
      BY <1>2, <3>1 DEF GroupStart, runnerVars, history, Owed, Current
    <3> QED
      BY <1>1, <3>1, <3>2, OwedFewer
  <2> QED
    BY <2>1, <2>2
<1>3. CASE GroupCount(h)
  <2>1. /\ UNCHANGED <<rpc, rtask, gi, gcount>> /\ outstanding' = outstanding \cup Members(h)
        /\ gpc' = [gpc EXCEPT ![h] = "enqueue"] /\ gpc[h] = "count"
    BY <1>3 DEF GroupCount, runnerVars
  <2>2. g # h => \A t \in Members(g) : t \notin Members(h)
    BY GroupFacts
  <2>3. Owed(g)' \subseteq Owed(g) /\ gpc[g] # "idle"
    BY <1>0, <1>1, <2>1, <2>2 DEF Owed, Current, TypeOK
  <2> QED
    BY <2>1, <2>3, OwedFewer
<1>4. CASE GroupEndRun(h)
  <2>1. Current(h) \in outstanding /\ Current(h) \in Task
    BY <1>0, <1>4, GroupFacts DEF GroupEndRun, GroupsInv, GroupHas, Current
  <2>2. /\ UNCHANGED <<rpc, rtask, gi, gcount>> /\ outstanding' = outstanding \ {Current(h)}
        /\ gpc'[g] = gpc[g] \/ (g = h /\ gpc[g] = "run" /\ gpc'[g] = "finish")
    BY <1>0, <1>1, <1>4 DEF GroupEndRun, RecordEnd, MayEnd, AfterEnd, runnerVars, TypeOK
  <2>3. Owed(g)' \subseteq Owed(g) /\ gpc[g] # "idle"
    BY <1>1, <2>1, <2>2 DEF Owed, Current
  <2> QED
    BY <2>2, <2>3, OwedFewer
<1>5. CASE GroupDec(h)
  <2>1. /\ UNCHANGED <<rpc, rtask, outstanding>> /\ gpc[h] = "dec"
        /\ gpc' = [gpc EXCEPT ![h] = "take"] /\ gi' = [gi EXCEPT ![h] = @ + 1]
        /\ gcount' = [gcount EXCEPT ![h] = @ - 1]
    BY <1>5 DEF GroupDec, runnerVars, history
  <2>2. CASE g = h
    <3>1. Current(g) \in Members(g) /\ Current(g) \in Task /\ GroupHas(g, Current(g))
          /\ Current(g) \notin outstanding
      BY <1>0, <2>1, <2>2, GroupFacts DEF GroupsInv, GroupHas, Current
    <3>2. Owed(g)' \subseteq Owed(g) /\ Current(g) \in Owed(g)
      BY <1>0, <2>1, <2>2, <3>1 DEF Owed, TypeOK
    <3>3. Current(g) \notin Owed(g)'
      BY <1>0, <2>1, <2>2, <3>1 DEF Owed, TypeOK, Exclusive, RunnerHas
    <3>4. gpc[g] # "idle" /\ gcount'[g] = gcount[g] - 1
      BY <1>0, <2>1, <2>2 DEF TypeOK
    <3> QED
      BY <3>2, <3>3, <3>4, OwedFewer
  <2>3. CASE g # h
    <3>1. gpc'[g] = gpc[g] /\ gcount'[g] = gcount[g] /\ Owed(g)' \subseteq Owed(g)
      BY <1>0, <2>1, <2>3 DEF Owed, Current, TypeOK
    <3> QED
      BY <1>1, <3>1, OwedFewer
  <2> QED
    BY <2>2, <2>3
<1>6. CASE \/ GroupResume(h) \/ GroupSpuriousWakeup(h) \/ GroupEnqueue(h) \/ GroupNotifyAll(h)
           \/ GroupTakeFirst(h) \/ GroupTakeQueued(h) \/ GroupSkipTaken(h) \/ GroupLoopEnds(h)
           \/ GroupTaskFinished(h) \/ GroupFinishNotify(h) \/ GroupWait(h)
  <2>1. /\ UNCHANGED <<rtask, gcount, outstanding>> /\ gpc[g] # "idle"
        /\ \A s \in Runners : rpc'[s] = "groupDec" => rpc[s] = "groupDec"
        /\ gpc'[g] = "count" => gpc[g] = "count"
        /\ gpc'[g] \in {"finish", "finishNotify", "dec"}
             => gpc[g] \in {"finish", "finishNotify", "dec"} /\ gi'[g] = gi[g]
    BY <1>0, <1>1, <1>6
    DEF GroupResume, GroupSpuriousWakeup, GroupEnqueue, GroupNotifyAll, GroupTakeFirst,
        GroupTakeQueued, GroupSkipTaken, GroupLoopEnds, GroupTaskFinished, GroupFinishNotify,
        GroupWait, WakeAllRunners, runnerVars, history, TypeOK
  <2>2. Owed(g)' \subseteq Owed(g)
    BY <2>1 DEF Owed, Current
  <2> QED
    BY <2>1, <2>2, OwedFewer
<1> QED
  BY <1>2, <1>3, <1>4, <1>5, <1>6 DEF GroupStep

(* A client's step, or the destructor's.                                    *)
LEMMA OtherCount ==
    ASSUME IInv, TypeOK',
           \/ \E c \in Clients : ClientStep(c) \/ Add(c) \/ WaitStart(c) \/ WaitSpuriousWakeup(c)
           \/ QuitStep \/ QuitStart \/ UNCHANGED vars
    PROVE  CountCoversOwed'
<1>0. TypeOK /\ NoGroup \notin Groups
  BY TaskManagerAssumption DEF IInv, Custody
<1>1. SUFFICES ASSUME NEW g \in Groups, gpc'[g] # "idle"
               PROVE  gcount'[g] >= Cardinality(Owed(g)')
  BY DEF CountCoversOwed
<1>2. ASSUME UNCHANGED <<rtask, gi, gcount>>, gpc'[g] = gpc[g],
             \A s \in Runners : rpc'[s] = "groupDec" => rpc[s] = "groupDec",
             \A t \in Members(g) : t \in outstanding' => t \in outstanding
      PROVE  gcount'[g] >= Cardinality(Owed(g)')
  <2>1. Owed(g)' \subseteq Owed(g)
    BY <1>2 DEF Owed, Current
  <2> QED
    BY <1>1, <1>2, <2>1, OwedFewer
<1>3. ASSUME NEW c \in Clients, Add(c)
      PROVE  gcount'[g] >= Cardinality(Owed(g)')
  <2>1. PICK S \in SUBSET Addable : \E ts \in SetToSeqs(S) : AddCount(c, ts)
    BY <1>3 DEF Add
  <2>2. PICK ts \in SetToSeqs(S) : AddCount(c, ts)
    BY <2>1
  <2>3. ToSet(ts) \subseteq PlainTasks
    <3>1. S \in SUBSET Task /\ S \subseteq PlainTasks
      BY TaskManagerAssumption DEF Addable
    <3> QED
      BY <2>2, <3>1, SetToSeqsIsInjective
  <2>4. \A t \in Members(g) : t \in outstanding' => t \in outstanding
    BY <2>2, <2>3, GroupFacts DEF AddCount
  <2> QED
    BY <1>2, <2>2, <2>4 DEF AddCount, runnerVars, groupVars
<1>4. ASSUME NEW c \in Clients, DrainEndRun(c)
      PROVE  gcount'[g] >= Cardinality(Owed(g)')
  <2>1. gpc'[g] = gpc[g]
    BY <1>0, <1>1, <1>4 DEF DrainEndRun, MayEnd, AfterEnd, TypeOK
  <2> QED
    BY <1>2, <1>4, <2>1 DEF DrainEndRun, RecordEnd, runnerVars
<1>5. ASSUME NEW c \in Clients,
             \/ AddEnqueue(c) \/ AddNotify(c) \/ WaitStart(c) \/ WaitCheck(c)
             \/ WaitSpuriousWakeup(c) \/ WaitReturn(c) \/ DrainDec(c) \/ DrainDequeue(c)
      PROVE  gcount'[g] >= Cardinality(Owed(g)')
  <2>1. /\ UNCHANGED <<rtask, gi, gcount, gpc, outstanding>>
        /\ \A s \in Runners : rpc'[s] = "groupDec" => rpc[s] = "groupDec"
    BY <1>0, <1>5
    DEF AddEnqueue, AddNotify, WakeOneRunner, WakeAllRunners, WaitStart, WaitCheck,
        WaitSpuriousWakeup, WaitReturn, DrainDec, DrainDequeue, runnerVars, groupVars, history, TypeOK
  <2> QED
    BY <1>2, <2>1
<1>6. CASE QuitStep \/ QuitStart \/ UNCHANGED vars
  <2>1. /\ UNCHANGED <<rtask, gi, gcount, gpc, outstanding>>
        /\ \A s \in Runners : rpc'[s] = "groupDec" => rpc[s] = "groupDec"
    BY <1>0, <1>6
    DEF QuitStep, QuitStart, QuitEnqueue, QuitNotify, QuitJoin, WakeOneRunner, vars, runnerVars,
        groupVars, history, TypeOK
  <2> QED
    BY <1>2, <2>1
<1> QED
  BY <1>3, <1>4, <1>5, <1>6 DEF ClientStep

LEMMA CountStep ==
    ASSUME IInv, [Next]_vars
    PROVE  CountCoversOwed'
BY TypeStep, RunnerCount, GroupCountStep, OtherCount
DEF Next, Working, Calling, SpuriousWakeup, Destroyed

-----------------------------------------------------------------------------
LEMMA InitInv == Init => IInv
<1> SUFFICES ASSUME Init PROVE IInv
  OBVIOUS
<1>1. QueueTypeOK /\ LinksConsistent
  BY QueueInitLinks DEF Init
<1>2. TypeOK
  BY <1>1 DEF Init, TypeOK, RunnerPC, GroupPC, ClientPC, QuitPC
<1>3. Custody
  BY DEF Init, QueueInit, Custody, RunnersInv, GroupsInv, GroupHas, ClientsInv, ClientHas,
     QueueInv, QuitInv, GroupsAtRest, Exclusive, RunnerHas
<1>4. CountCoversOwed
  BY DEF Init, CountCoversOwed
<1> QED
  BY <1>1, <1>2, <1>3, <1>4 DEF IInv

LEMMA NextInv == IInv /\ [Next]_vars => IInv'
BY QueueStep, TypeStep, CustodyStep, CountStep DEF IInv

(* A task whose run() is executed is unfinished and out of the queue.       *)
LEMMA RunByOutstanding ==
    ASSUME IInv, NEW t \in Task, RunBy(t)
    PROVE  t \in outstanding /\ ~in_queue[t]
<1>1. CASE \E r \in Runners : rpc[r] = "run" /\ rtask[r] = t
  BY <1>1 DEF IInv, Custody, RunnersInv
<1>2. CASE \E g \in Groups : gpc[g] = "run" /\ Current(g) = t
  BY <1>2 DEF IInv, Custody, GroupsInv, GroupHas
<1>3. ASSUME NEW c \in Clients, cpc[c] = "drainRun", carg[c] = <<t>>
      PROVE  t \in outstanding /\ ~in_queue[t]
  <2>1. ClientHas(c, t)
    BY <1>3 DEF ClientHas, ToSet
  <2> QED
    BY <2>1 DEF IInv, Custody, ClientsInv
<1> QED
  BY <1>1, <1>2, <1>3 DEF RunBy

(* The invariant holds throughout every behaviour of the manager, with any  *)
(* number of runners, clients, groups and tasks, nested calls included.     *)
THEOREM Invariance == Spec => []IInv
BY InitInv, NextInv, PTL DEF Spec

(* The variables of the manager keep their types.                           *)
THEOREM TypeCorrect == Spec => []TypeOK
<1>1. IInv => TypeOK
  BY DEF IInv
<1> QED
  BY <1>1, Invariance, PTL

(* The list of queued tasks stays consistent under the dequeues of the      *)
(* runners, the enqueues of addTasks and runTaskGroup, and the removals     *)
(* from the middle that runTaskGroup makes.                                 *)
THEOREM QueueLinked == Spec => []LinksConsistent
<1>1. IInv => LinksConsistent
  BY DEF IInv
<1> QED
  BY <1>1, Invariance, PTL

(* No submission of a task is executed twice, nor by two threads at once:   *)
(* a runner's dequeue and the removal by a caller of runTaskGroup never     *)
(* hand the same task to both.                                              *)
THEOREM RunOnce == Spec => []RunOncePerSubmission
<1>1. IInv => RunOncePerSubmission
  <2> SUFFICES ASSUME IInv PROVE RunOncePerSubmission
    OBVIOUS
  <2>1. \A r \in Runners : rpc[r] = "run" => rtask[r] \in Task /\ RunnerHas(r, rtask[r])
    BY DEF IInv, Custody, RunnersInv, RunnerHas
  <2>2. \A g \in Groups : gpc[g] = "run" => Current(g) \in Task /\ GroupHas(g, Current(g))
    BY GroupFacts DEF IInv, Custody, GroupsInv, GroupHas, Current
  <2>3. Exclusive
    BY DEF IInv, Custody
  <2>4. \A r, s \in Runners :
          r # s /\ rpc[r] = "run" /\ rpc[s] = "run" => rtask[r] # rtask[s]
    BY <2>1, <2>3 DEF Exclusive
  <2>5. \A r \in Runners, g \in Groups :
          rpc[r] = "run" /\ gpc[g] = "run" => rtask[r] # Current(g)
    BY <2>1, <2>2, <2>3 DEF Exclusive
  <2> QED
    BY <2>4, <2>5, RunByOutstanding DEF RunOncePerSubmission
<1> QED
  BY <1>1, Invariance, PTL

(* A call of runTaskGroup returns only when every task of its group has     *)
(* been executed, whichever threads ran them: by then none is queued,       *)
(* running or waiting to be run.                                            *)
THEOREM GroupComplete == Spec => []GroupCompleteOnReturn
<1>1. IInv => GroupCompleteOnReturn
  <2> SUFFICES ASSUME IInv, NEW g \in Groups, gpc[g] = "returned", NEW t \in Members(g)
               PROVE  t \notin outstanding /\ ~in_queue[t] /\ ~RunBy(t)
    BY DEF GroupCompleteOnReturn
  <2>1. t \in Task /\ t \notin QuitTasks
    BY GroupFacts
  <2>2. t \notin outstanding
    BY DEF IInv, Custody, GroupsAtRest
  <2>3. ~in_queue[t]
    BY <2>1, <2>2 DEF IInv, TypeOK, Custody, QueueInv
  <2> QED
    BY <2>1, <2>2, <2>3, RunByOutstanding
<1> QED
  BY <1>1, Invariance, PTL

(* Some sequence of tasks is in the list.                                   *)
ListHoldsQueue == \E q \in Seq(Task) : IsQueue(q)

LEMMA PoolQueueStep ==
    IInv /\ ListHoldsQueue /\ [Next]_vars => ListHoldsQueue' /\ [Fifo!Next]_QueueSeq
<1> SUFFICES ASSUME IInv, NEW q \in Seq(Task), IsQueue(q), [Next]_vars
             PROVE  ListHoldsQueue' /\ [Fifo!Next]_QueueSeq
  BY DEF ListHoldsQueue
<1>1. QueueTypeOK
  BY DEF IInv, TypeOK
<1>2. PICK r \in Seq(Task) : IsQueue(r)' /\ FifoStep(q, r)
  BY <1>1, StepIsQueueOp, EnqueueFifo, DequeueFifo, UnlinkFifo, IdleFifo DEF QueueOp
<1>3. ListHoldsQueue'
  BY <1>2 DEF ListHoldsQueue
<1>4. [Fifo!Next]_QueueSeq
  BY <1>2, FifoStepIsNext
<1> QED
  BY <1>3, <1>4

(* Inside the pool too the queue is a FIFO from which runTaskGroup pulls    *)
(* tasks of its own: no interleaving of runners, task groups, clients and   *)
(* the destructor loses, repeats or reorders a task that waits in it.       *)
THEOREM PoolQueueIsFifo == Spec => ImplementsFifo
<1>1. Init => ListHoldsQueue /\ Fifo!Init
  BY QueueInitFifo DEF Init, Fifo!Init, ListHoldsQueue
<1> QED
  BY <1>1, PoolQueueStep, Invariance, PTL DEF Spec, ImplementsFifo, Fifo!Spec

(* In the whole pool in_queue says whether a walk along the list would meet *)
(* the task, on which runTaskGroup decides who runs it.                     *)
THEOREM FlagTellsMembershipInPool == Spec => []InQueueIsListed
<1>1. Init => ListHoldsQueue
  BY QueueInitFifo DEF Init, ListHoldsQueue
<1>2. ListHoldsQueue => InQueueIsListed
  BY QueueIsFlagged DEF ListHoldsQueue
<1> QED
  BY <1>1, <1>2, PoolQueueStep, Invariance, PTL DEF Spec
=============================================================================
