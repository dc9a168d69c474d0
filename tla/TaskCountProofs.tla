-------------------------- MODULE TaskCountProofs ---------------------------
(***************************************************************************)
(* num_unfinished_tasks, for every number of tasks, runners, clients and   *)
(* groups: it counts the tasks submitted whose run() has not ended and the *)
(* threads that have yet to report one that has.  A wait that finds it at  *)
(* 0 has nothing left to wait for.  On that rest the destructor, which     *)
(* drains the queue, and the refinement: the manager is a TaskPool.  Last, *)
(* that no wakeup is lost and that no call of runTaskGroup, wait or        *)
(* destructor is left with nobody to end it.                               *)
(***************************************************************************)
EXTENDS TaskManagerProofs, TaskManagerPool

(* Who has yet to report a task whose run() has ended.                      *)
RunnersOwing == {r \in Runners : rpc[r] \in {"groupDec", "groupNotify", "clear", "finish"}}
GroupsOwing  == {g \in Groups : gpc[g] = "finish"}
ClientsOwing == {c \in Clients : cpc[c] = "drainDec"}

(* Only finitely many callers are inside the manager at a time.             *)
Accounting == IsFiniteSet(GroupsOwing) /\ IsFiniteSet(ClientsOwing) /\ UnfinishedIsCounted

(* A wait awaits only what is still outstanding, and nothing once it is     *)
(* over; only a manager without threads runs tasks in the wait.             *)
WaitsInv ==
    \A c \in Clients :
        /\ awaited[c] \subseteq outstanding
        /\ Runners # {} => /\ cpc[c] \notin {"drain", "drainRun", "drainDec"}
                           /\ cpc[c] = "returned" => awaited[c] = {}

CInv == IInv /\ Accounting /\ WaitsInv

-----------------------------------------------------------------------------
(* The sets that are counted are finite, the counts natural numbers.        *)
LEMMA CountsAreNat ==
    ASSUME TypeOK, Accounting
    PROVE  /\ IsFiniteSet(outstanding) /\ Cardinality(outstanding) \in Nat
           /\ IsFiniteSet(RunnersOwing) /\ Cardinality(RunnersOwing) \in Nat
           /\ Cardinality(GroupsOwing) \in Nat /\ Cardinality(ClientsOwing) \in Nat
           /\ num_unfinished = Cardinality(outstanding) + Cardinality(RunnersOwing)
                               + Cardinality(GroupsOwing) + Cardinality(ClientsOwing)
<1>1. outstanding \in SUBSET Task /\ IsFiniteSet(Task)
  BY TaskAssumption DEF TypeOK
<1>2. RunnersOwing \in SUBSET Runners /\ IsFiniteSet(Runners)
  BY TaskManagerAssumption DEF RunnersOwing
<1>3. IsFiniteSet(outstanding) /\ IsFiniteSet(RunnersOwing)
  BY <1>1, <1>2, FS_Subset
<1>4. /\ Cardinality(outstanding) \in Nat /\ Cardinality(RunnersOwing) \in Nat
      /\ Cardinality(GroupsOwing) \in Nat /\ Cardinality(ClientsOwing) \in Nat
  BY <1>3, FS_CardinalityType DEF Accounting
<1>5. num_unfinished = Cardinality(outstanding)
                       + (Cardinality(RunnersOwing) + Cardinality(GroupsOwing)
                          + Cardinality(ClientsOwing))
  BY DEF Accounting, UnfinishedIsCounted, Reporting, RunnersOwing, GroupsOwing, ClientsOwing
<1> QED
  BY <1>3, <1>4, <1>5

(* What the accounting of the next state comes to.                          *)
LEMMA AccountingNext ==
    ASSUME IsFiniteSet(GroupsOwing'), IsFiniteSet(ClientsOwing'),
           num_unfinished' = Cardinality(outstanding') + (Cardinality(RunnersOwing')
                              + Cardinality(GroupsOwing') + Cardinality(ClientsOwing'))
    PROVE  Accounting'
BY DEF Accounting, UnfinishedIsCounted, Reporting, RunnersOwing, GroupsOwing, ClientsOwing

(* A step that ends no run(), reports no task and submits none.             *)
LEMMA AccountingKept ==
    ASSUME CInv, UNCHANGED <<num_unfinished, outstanding>>,
           RunnersOwing' = RunnersOwing, GroupsOwing' = GroupsOwing, ClientsOwing' = ClientsOwing
    PROVE  Accounting'
<1>1. TypeOK /\ Accounting
  BY DEF CInv, IInv
<1>2. /\ Cardinality(outstanding) \in Nat /\ Cardinality(RunnersOwing) \in Nat
      /\ Cardinality(GroupsOwing) \in Nat /\ Cardinality(ClientsOwing) \in Nat
      /\ num_unfinished = Cardinality(outstanding) + Cardinality(RunnersOwing)
                          + Cardinality(GroupsOwing) + Cardinality(ClientsOwing)
  BY <1>1, CountsAreNat
<1>3. IsFiniteSet(GroupsOwing') /\ IsFiniteSet(ClientsOwing')
  BY <1>1 DEF Accounting
<1> QED
  BY <1>2, <1>3, AccountingNext

(* The end of a run() moves its task from the outstanding to a thread that  *)
(* owes the report.                                                         *)
LEMMA AccountingEnd ==
    ASSUME CInv, NEW t \in outstanding, NEW x,
           num_unfinished' = num_unfinished, outstanding' = outstanding \ {t},
           \/ /\ x \notin RunnersOwing /\ RunnersOwing' = RunnersOwing \cup {x}
              /\ GroupsOwing' = GroupsOwing /\ ClientsOwing' = ClientsOwing
           \/ /\ x \notin GroupsOwing /\ GroupsOwing' = GroupsOwing \cup {x}
              /\ RunnersOwing' = RunnersOwing /\ ClientsOwing' = ClientsOwing
           \/ /\ x \notin ClientsOwing /\ ClientsOwing' = ClientsOwing \cup {x}
              /\ RunnersOwing' = RunnersOwing /\ GroupsOwing' = GroupsOwing
    PROVE  Accounting'
<1>1. TypeOK /\ Accounting
  BY DEF CInv, IInv
<1>2. /\ IsFiniteSet(outstanding) /\ Cardinality(outstanding) \in Nat
      /\ IsFiniteSet(RunnersOwing) /\ Cardinality(RunnersOwing) \in Nat
      /\ Cardinality(GroupsOwing) \in Nat /\ Cardinality(ClientsOwing) \in Nat
      /\ num_unfinished = Cardinality(outstanding) + Cardinality(RunnersOwing)
                          + Cardinality(GroupsOwing) + Cardinality(ClientsOwing)
  BY <1>1, CountsAreNat
<1>3. IsFiniteSet(GroupsOwing) /\ IsFiniteSet(ClientsOwing)
  BY <1>1 DEF Accounting
<1>4. Cardinality(outstanding') = Cardinality(outstanding) - 1
  BY <1>2, FS_RemoveElement
<1>5. \A S : IsFiniteSet(S) /\ x \notin S
             => IsFiniteSet(S \cup {x}) /\ Cardinality(S \cup {x}) = Cardinality(S) + 1
  BY FS_AddElement
<1>6. IsFiniteSet(GroupsOwing') /\ IsFiniteSet(ClientsOwing')
  BY <1>3, <1>5
<1>7. Cardinality(RunnersOwing') + Cardinality(GroupsOwing') + Cardinality(ClientsOwing')
      = Cardinality(RunnersOwing) + Cardinality(GroupsOwing) + Cardinality(ClientsOwing) + 1
  <2>1. CASE /\ x \notin RunnersOwing /\ RunnersOwing' = RunnersOwing \cup {x}
             /\ GroupsOwing' = GroupsOwing /\ ClientsOwing' = ClientsOwing
    <3>1. Cardinality(RunnersOwing') = Cardinality(RunnersOwing) + 1
      BY <2>1, <1>2, <1>3, <1>5
    <3> QED
      BY <2>1, <3>1, <1>2
  <2>2. CASE /\ x \notin GroupsOwing /\ GroupsOwing' = GroupsOwing \cup {x}
             /\ RunnersOwing' = RunnersOwing /\ ClientsOwing' = ClientsOwing
    <3>1. Cardinality(GroupsOwing') = Cardinality(GroupsOwing) + 1
      BY <2>2, <1>2, <1>3, <1>5
    <3> QED
      BY <2>2, <3>1, <1>2
  <2>3. CASE /\ x \notin ClientsOwing /\ ClientsOwing' = ClientsOwing \cup {x}
             /\ RunnersOwing' = RunnersOwing /\ GroupsOwing' = GroupsOwing
    <3>1. Cardinality(ClientsOwing') = Cardinality(ClientsOwing) + 1
      BY <2>3, <1>2, <1>3, <1>5
    <3> QED
      BY <2>3, <3>1, <1>2
  <2> QED
    BY <2>1, <2>2, <2>3
<1>8. num_unfinished' = Cardinality(outstanding')
        + (Cardinality(RunnersOwing') + Cardinality(GroupsOwing') + Cardinality(ClientsOwing'))
  BY <1>2, <1>4, <1>7
<1> QED
  BY <1>6, <1>8, AccountingNext

(* A report: one of those that owe one no longer does.                      *)
LEMMA AccountingReport ==
    ASSUME CInv, NEW x,
           num_unfinished' = num_unfinished - 1, outstanding' = outstanding,
           \/ /\ x \in RunnersOwing /\ RunnersOwing' = RunnersOwing \ {x}
              /\ GroupsOwing' = GroupsOwing /\ ClientsOwing' = ClientsOwing
           \/ /\ x \in GroupsOwing /\ GroupsOwing' = GroupsOwing \ {x}
              /\ RunnersOwing' = RunnersOwing /\ ClientsOwing' = ClientsOwing
           \/ /\ x \in ClientsOwing /\ ClientsOwing' = ClientsOwing \ {x}
              /\ RunnersOwing' = RunnersOwing /\ GroupsOwing' = GroupsOwing
    PROVE  Accounting'
<1>1. TypeOK /\ Accounting
  BY DEF CInv, IInv
<1>2. /\ Cardinality(outstanding) \in Nat
      /\ IsFiniteSet(RunnersOwing) /\ Cardinality(RunnersOwing) \in Nat
      /\ Cardinality(GroupsOwing) \in Nat /\ Cardinality(ClientsOwing) \in Nat
      /\ num_unfinished = Cardinality(outstanding) + Cardinality(RunnersOwing)
                          + Cardinality(GroupsOwing) + Cardinality(ClientsOwing)
  BY <1>1, CountsAreNat
<1>3. IsFiniteSet(GroupsOwing) /\ IsFiniteSet(ClientsOwing)
  BY <1>1 DEF Accounting
<1>4. \A S : IsFiniteSet(S) /\ x \in S
             => IsFiniteSet(S \ {x}) /\ Cardinality(S \ {x}) = Cardinality(S) - 1
  BY FS_RemoveElement
<1>5. IsFiniteSet(GroupsOwing') /\ IsFiniteSet(ClientsOwing')
  BY <1>3, <1>4
<1>6. Cardinality(RunnersOwing') + Cardinality(GroupsOwing') + Cardinality(ClientsOwing')
      = Cardinality(RunnersOwing) + Cardinality(GroupsOwing) + Cardinality(ClientsOwing) - 1
  <2>1. CASE /\ x \in RunnersOwing /\ RunnersOwing' = RunnersOwing \ {x}
             /\ GroupsOwing' = GroupsOwing /\ ClientsOwing' = ClientsOwing
    <3>1. Cardinality(RunnersOwing') = Cardinality(RunnersOwing) - 1
      BY <2>1, <1>2, <1>3, <1>4
    <3> QED
      BY <2>1, <3>1, <1>2
  <2>2. CASE /\ x \in GroupsOwing /\ GroupsOwing' = GroupsOwing \ {x}
             /\ RunnersOwing' = RunnersOwing /\ ClientsOwing' = ClientsOwing
    <3>1. Cardinality(GroupsOwing') = Cardinality(GroupsOwing) - 1
      BY <2>2, <1>2, <1>3, <1>4
    <3> QED
      BY <2>2, <3>1, <1>2
  <2>3. CASE /\ x \in ClientsOwing /\ ClientsOwing' = ClientsOwing \ {x}
             /\ RunnersOwing' = RunnersOwing /\ GroupsOwing' = GroupsOwing
    <3>1. Cardinality(ClientsOwing') = Cardinality(ClientsOwing) - 1
      BY <2>3, <1>2, <1>3, <1>4
    <3> QED
      BY <2>3, <3>1, <1>2
  <2> QED
    BY <2>1, <2>2, <2>3
<1>7. num_unfinished' = Cardinality(outstanding')
        + (Cardinality(RunnersOwing') + Cardinality(GroupsOwing') + Cardinality(ClientsOwing'))
  BY <1>2, <1>6
<1> QED
  BY <1>5, <1>7, AccountingNext

(* A submission: the tasks are not outstanding yet, and are counted in.     *)
LEMMA AccountingAdd ==
    ASSUME CInv, NEW S \in SUBSET Task, S \cap outstanding = {},
           num_unfinished' = num_unfinished + Cardinality(S),
           outstanding' = outstanding \cup S,
           RunnersOwing' = RunnersOwing, GroupsOwing' = GroupsOwing, ClientsOwing' = ClientsOwing
    PROVE  Accounting'
<1>1. TypeOK /\ Accounting
  BY DEF CInv, IInv
<1>2. /\ IsFiniteSet(outstanding) /\ Cardinality(outstanding) \in Nat
      /\ Cardinality(RunnersOwing) \in Nat
      /\ Cardinality(GroupsOwing) \in Nat /\ Cardinality(ClientsOwing) \in Nat
      /\ num_unfinished = Cardinality(outstanding) + Cardinality(RunnersOwing)
                          + Cardinality(GroupsOwing) + Cardinality(ClientsOwing)
  BY <1>1, CountsAreNat
<1>3. IsFiniteSet(GroupsOwing') /\ IsFiniteSet(ClientsOwing')
  BY <1>1 DEF Accounting
<1>4. IsFiniteSet(S) /\ Cardinality(S) \in Nat
  BY TaskAssumption, FS_Subset, FS_CardinalityType
<1>5. Cardinality(outstanding \cup S) = Cardinality(outstanding) + Cardinality(S)
  <2>1. outstanding \cap S = {}
    OBVIOUS
  <2>2. Cardinality(outstanding \cup S)
          = Cardinality(outstanding) + Cardinality(S) - Cardinality(outstanding \cap S)
    BY <1>2, <1>4, FS_Union
  <2>3. Cardinality(outstanding \cap S) = 0
    BY <2>1, FS_EmptySet
  <2> QED
    BY <1>2, <1>4, <2>2, <2>3
<1>6. num_unfinished' = Cardinality(outstanding')
        + (Cardinality(RunnersOwing') + Cardinality(GroupsOwing') + Cardinality(ClientsOwing'))
  BY <1>2, <1>4, <1>5
<1> QED
  BY <1>3, <1>6, AccountingNext

(* A sequence of distinct tasks is as long as it has tasks.                 *)
LEMMA DistinctCount ==
    ASSUME NEW ts \in Seq(Task), IsInjective(ts)
    PROVE  Cardinality(ToSet(ts)) = Len(ts)
<1> DEFINE n == Len(ts)
<1>1. n \in Nat /\ DOMAIN ts = 1..n
  OBVIOUS
<1>2. ToSet(ts) = {ts[i] : i \in 1..n}
  BY <1>1 DEF ToSet
<1>3. ts \in [1..n -> ToSet(ts)] /\ \A t \in ToSet(ts) : \E i \in 1..n : ts[i] = t
  BY <1>1, <1>2
<1> HIDE DEF n
<1>4. ts \in Injection(1..n, ToSet(ts)) /\ ts \in Surjection(1..n, ToSet(ts))
  BY <1>3 DEF Injection, Surjection
<1>5. ExistsBijection(1..n, ToSet(ts))
  BY <1>4 DEF ExistsBijection, Bijection
<1> QED
  BY <1>1, <1>5, FS_CountingElements DEF n

-----------------------------------------------------------------------------
(* A runner's step.                                                         *)
LEMMA RunnerAccounting ==
    ASSUME CInv, NEW r \in Runners, RunnerStep(r) \/ RunnerSpuriousWakeup(r)
    PROVE  Accounting'
<1>0. TypeOK /\ RunnersInv /\ NoGroup \notin Groups
  BY TaskManagerAssumption DEF CInv, IInv, Custody
<1>1. CASE RunnerEndRun(r)
  <2>1. rtask[r] \in outstanding
    BY <1>0, <1>1 DEF RunnerEndRun, RunnersInv
  <2>2. r \notin RunnersOwing /\ RunnersOwing' = RunnersOwing \cup {r}
    BY <1>0, <1>1 DEF RunnerEndRun, RunnersOwing, TypeOK
  <2>3. GroupsOwing' = GroupsOwing
    BY <1>0, <1>1 DEF RunnerEndRun, MayEnd, AfterEnd, GroupsOwing, TypeOK
  <2>4. ClientsOwing' = ClientsOwing /\ num_unfinished' = num_unfinished
        /\ outstanding' = outstanding \ {rtask[r]}
    BY <1>1 DEF RunnerEndRun, RecordEnd, clientVars, ClientsOwing
  <2> QED
    BY <2>1, <2>2, <2>3, <2>4, AccountingEnd
<1>2. CASE RunnerTaskFinished(r)
  <2>1. r \in RunnersOwing /\ RunnersOwing' = RunnersOwing \ {r}
    BY <1>0, <1>2 DEF RunnerTaskFinished, RunnersOwing, TypeOK
  <2>2. /\ num_unfinished' = num_unfinished - 1 /\ outstanding' = outstanding
        /\ GroupsOwing' = GroupsOwing /\ ClientsOwing' = ClientsOwing
    BY <1>2 DEF RunnerTaskFinished, groupVars, clientVars, history, GroupsOwing, ClientsOwing
  <2> QED
    BY <2>1, <2>2, AccountingReport
<1>3. CASE \/ RunnerDequeue(r) \/ RunnerSetCurrent(r) \/ RunnerGroupDec(r) \/ RunnerGroupNotify(r)
           \/ RunnerClearCurrent(r) \/ RunnerFinishNotify(r) \/ RunnerSpuriousWakeup(r)
  <2>1. UNCHANGED <<num_unfinished, outstanding>> /\ RunnersOwing' = RunnersOwing
    BY <1>0, <1>3
    DEF RunnerDequeue, RunnerSetCurrent, RunnerGroupDec, RunnerGroupNotify, RunnerClearCurrent,
        RunnerFinishNotify, RunnerSpuriousWakeup, history, RunnersOwing, TypeOK
  <2>2. GroupsOwing' = GroupsOwing
    BY <1>0, <1>3
    DEF RunnerDequeue, RunnerSetCurrent, RunnerGroupDec, RunnerGroupNotify, RunnerClearCurrent,
        RunnerFinishNotify, RunnerSpuriousWakeup, groupVars, GroupsOwing, TypeOK
  <2>3. ClientsOwing' = ClientsOwing
    BY <1>0, <1>3
    DEF RunnerDequeue, RunnerSetCurrent, RunnerGroupDec, RunnerGroupNotify, RunnerClearCurrent,
        RunnerFinishNotify, RunnerSpuriousWakeup, WakeAllWaiters, clientVars, ClientsOwing, TypeOK
  <2> QED
    BY <2>1, <2>2, <2>3, AccountingKept
<1> QED
  BY <1>1, <1>2, <1>3 DEF RunnerStep

(* A step of a group call.                                                  *)
LEMMA GroupAccounting ==
    ASSUME CInv, NEW g \in Groups,
           GroupStep(g) \/ GroupStart(g) \/ GroupResume(g) \/ GroupSpuriousWakeup(g)
    PROVE  Accounting'
<1>0. TypeOK /\ GroupsInv /\ GroupsAtRest /\ NoGroup \notin Groups
  BY TaskManagerAssumption DEF CInv, IInv, Custody
<1>1. CASE GroupCount(g)
  <2>1. Members(g) \in SUBSET Task /\ Members(g) \cap outstanding = {}
    BY <1>0, <1>1, GroupFacts DEF GroupCount, GroupsAtRest
  <2>2. Cardinality(Members(g)) = Len(GroupTasks[g])
    BY TaskManagerAssumption, DistinctCount DEF Members
  <2>3. num_unfinished' = num_unfinished + Cardinality(Members(g))
        /\ outstanding' = outstanding \cup Members(g)
    BY <1>1, <2>2 DEF GroupCount
  <2>4. /\ RunnersOwing' = RunnersOwing /\ GroupsOwing' = GroupsOwing
        /\ ClientsOwing' = ClientsOwing
    BY <1>0, <1>1
    DEF GroupCount, runnerVars, clientVars, RunnersOwing, GroupsOwing, ClientsOwing, TypeOK
  <2> QED
    BY <2>1, <2>3, <2>4, AccountingAdd
<1>2. CASE GroupEndRun(g)
  <2>1. Current(g) \in outstanding
    BY <1>0, <1>2, GroupFacts DEF GroupEndRun, GroupsInv, GroupHas, Current
  <2>2. g \notin GroupsOwing /\ GroupsOwing' = GroupsOwing \cup {g}
    BY <1>0, <1>2 DEF GroupEndRun, MayEnd, AfterEnd, GroupsOwing, TypeOK
  <2>3. /\ num_unfinished' = num_unfinished /\ outstanding' = outstanding \ {Current(g)}
        /\ RunnersOwing' = RunnersOwing /\ ClientsOwing' = ClientsOwing
    BY <1>2
    DEF GroupEndRun, RecordEnd, runnerVars, clientVars, RunnersOwing, ClientsOwing
  <2> QED
    BY <2>1, <2>2, <2>3, AccountingEnd
<1>3. CASE GroupTaskFinished(g)
  <2>1. g \in GroupsOwing /\ GroupsOwing' = GroupsOwing \ {g}
    BY <1>0, <1>3 DEF GroupTaskFinished, GroupsOwing, TypeOK
  <2>2. /\ num_unfinished' = num_unfinished - 1 /\ outstanding' = outstanding
        /\ RunnersOwing' = RunnersOwing /\ ClientsOwing' = ClientsOwing
    BY <1>3
    DEF GroupTaskFinished, runnerVars, clientVars, history, RunnersOwing, ClientsOwing
  <2> QED
    BY <2>1, <2>2, AccountingReport
<1>4. CASE \/ GroupStart(g) \/ GroupResume(g) \/ GroupSpuriousWakeup(g) \/ GroupEnqueue(g)
           \/ GroupNotifyAll(g) \/ GroupTakeFirst(g) \/ GroupTakeQueued(g) \/ GroupSkipTaken(g)
           \/ GroupLoopEnds(g) \/ GroupFinishNotify(g) \/ GroupDec(g) \/ GroupWait(g)
  <2>1. UNCHANGED <<num_unfinished, outstanding>> /\ GroupsOwing' = GroupsOwing
    BY <1>0, <1>4
    DEF GroupStart, GroupResume, GroupSpuriousWakeup, GroupEnqueue, GroupNotifyAll,
        GroupTakeFirst, GroupTakeQueued, GroupSkipTaken, GroupLoopEnds, GroupFinishNotify,
        GroupDec, GroupWait, history, GroupsOwing, TypeOK
  <2>2. RunnersOwing' = RunnersOwing
    BY <1>0, <1>4
    DEF GroupStart, GroupResume, GroupSpuriousWakeup, GroupEnqueue, GroupNotifyAll,
        GroupTakeFirst, GroupTakeQueued, GroupSkipTaken, GroupLoopEnds, GroupFinishNotify,
        GroupDec, GroupWait, WakeAllRunners, runnerVars, RunnersOwing, TypeOK
  <2>3. ClientsOwing' = ClientsOwing
    BY <1>0, <1>4
    DEF GroupStart, GroupResume, GroupSpuriousWakeup, GroupEnqueue, GroupNotifyAll,
        GroupTakeFirst, GroupTakeQueued, GroupSkipTaken, GroupLoopEnds, GroupFinishNotify,
        GroupDec, GroupWait, WakeAllWaiters, clientVars, ClientsOwing, TypeOK
  <2> QED
    BY <2>1, <2>2, <2>3, AccountingKept
<1> QED
  BY <1>1, <1>2, <1>3, <1>4 DEF GroupStep

(* A client's step.                                                         *)
LEMMA ClientAccounting ==
    ASSUME CInv, NEW c \in Clients,
           ClientStep(c) \/ Add(c) \/ WaitStart(c) \/ WaitSpuriousWakeup(c)
    PROVE  Accounting'
<1>0. TypeOK /\ ClientsInv /\ NoGroup \notin Groups
  BY TaskManagerAssumption DEF CInv, IInv, Custody
<1>1. CASE Add(c)
  <2>1. PICK S \in SUBSET Addable : \E ts \in SetToSeqs(S) : AddCount(c, ts)
    BY <1>1 DEF Add
  <2>2. PICK ts \in SetToSeqs(S) : AddCount(c, ts)
    BY <2>1
  <2>3. S \in SUBSET Task /\ S \cap outstanding = {}
    BY TaskManagerAssumption DEF Addable
  <2>4. ts \in Seq(Task) /\ IsInjective(ts) /\ ToSet(ts) \subseteq S
    BY <2>2, <2>3, SetToSeqsIsInjective
  <2>5. ToSet(ts) \in SUBSET Task /\ ToSet(ts) \cap outstanding = {}
        /\ Cardinality(ToSet(ts)) = Len(ts)
    BY <2>3, <2>4, DistinctCount
  <2>6. num_unfinished' = num_unfinished + Cardinality(ToSet(ts))
        /\ outstanding' = outstanding \cup ToSet(ts)
    BY <2>2, <2>5 DEF AddCount
  <2>7. /\ RunnersOwing' = RunnersOwing /\ GroupsOwing' = GroupsOwing
        /\ ClientsOwing' = ClientsOwing
    BY <1>0, <2>2
    DEF AddCount, runnerVars, groupVars, RunnersOwing, GroupsOwing, ClientsOwing, TypeOK
  <2> QED
    BY <2>5, <2>6, <2>7, AccountingAdd
<1>2. CASE DrainEndRun(c)
  <2>1. carg[c][1] \in outstanding
    <3>1. Len(carg[c]) = 1 /\ carg[c] \in Seq(Task)
      BY <1>0, <1>2 DEF DrainEndRun, ClientsInv, TypeOK
    <3>2. carg[c][1] \in Task /\ carg[c][1] \in ToSet(carg[c])
      BY <3>1 DEF ToSet
    <3> QED
      BY <1>0, <1>2, <3>2 DEF DrainEndRun, ClientsInv, ClientHas
  <2>2. c \notin ClientsOwing /\ ClientsOwing' = ClientsOwing \cup {c}
    BY <1>0, <1>2 DEF DrainEndRun, ClientsOwing, TypeOK
  <2>3. GroupsOwing' = GroupsOwing
    BY <1>0, <1>2 DEF DrainEndRun, MayEnd, AfterEnd, GroupsOwing, TypeOK
  <2>4. /\ num_unfinished' = num_unfinished /\ outstanding' = outstanding \ {carg[c][1]}
        /\ RunnersOwing' = RunnersOwing
    BY <1>2 DEF DrainEndRun, RecordEnd, runnerVars, RunnersOwing
  <2> QED
    BY <2>1, <2>2, <2>3, <2>4, AccountingEnd
<1>3. CASE DrainDec(c)
  <2>1. c \in ClientsOwing /\ ClientsOwing' = ClientsOwing \ {c}
    BY <1>0, <1>3 DEF DrainDec, ClientsOwing, TypeOK
  <2>2. /\ num_unfinished' = num_unfinished - 1 /\ outstanding' = outstanding
        /\ RunnersOwing' = RunnersOwing /\ GroupsOwing' = GroupsOwing
    BY <1>3 DEF DrainDec, runnerVars, groupVars, history, RunnersOwing, GroupsOwing
  <2> QED
    BY <2>1, <2>2, AccountingReport
<1>4. CASE \/ AddEnqueue(c) \/ AddNotify(c) \/ WaitStart(c) \/ WaitCheck(c)
           \/ WaitSpuriousWakeup(c) \/ WaitReturn(c) \/ DrainDequeue(c)
  <2>1. /\ UNCHANGED <<num_unfinished, outstanding>> /\ ClientsOwing' = ClientsOwing
        /\ GroupsOwing' = GroupsOwing
    BY <1>0, <1>4
    DEF AddEnqueue, AddNotify, WaitStart, WaitCheck, WaitSpuriousWakeup, WaitReturn, DrainDequeue,
        groupVars, history, ClientsOwing, GroupsOwing, TypeOK
  <2>2. RunnersOwing' = RunnersOwing
    BY <1>0, <1>4
    DEF AddEnqueue, AddNotify, WaitStart, WaitCheck, WaitSpuriousWakeup, WaitReturn, DrainDequeue,
        WakeOneRunner, WakeAllRunners, runnerVars, RunnersOwing, TypeOK
  <2> QED
    BY <2>1, <2>2, AccountingKept
<1> QED
  BY <1>1, <1>2, <1>3, <1>4 DEF ClientStep

(* Every step.                                                              *)
LEMMA AccountingStep ==
    ASSUME CInv, [Next]_vars
    PROVE  Accounting'
<1>1. TypeOK
  BY DEF CInv, IInv
<1>2. CASE QuitStep \/ QuitStart \/ UNCHANGED vars
  <2>1. /\ UNCHANGED <<num_unfinished, outstanding>> /\ ClientsOwing' = ClientsOwing
        /\ GroupsOwing' = GroupsOwing
    BY <1>2
    DEF QuitStep, QuitStart, QuitEnqueue, QuitNotify, QuitJoin, vars, groupVars, clientVars, history,
        ClientsOwing, GroupsOwing
  <2>2. RunnersOwing' = RunnersOwing
    BY <1>1, <1>2
    DEF QuitStep, QuitStart, QuitEnqueue, QuitNotify, QuitJoin, WakeOneRunner, vars, runnerVars,
        RunnersOwing, TypeOK
  <2> QED
    BY <2>1, <2>2, AccountingKept
<1> QED
  BY <1>2, RunnerAccounting, GroupAccounting, ClientAccounting
  DEF Next, Working, Calling, SpuriousWakeup, Destroyed

-----------------------------------------------------------------------------
(* Nothing is outstanding when the counter is 0.                            *)
LEMMA NoneUnfinished ==
    ASSUME CInv, num_unfinished = 0
    PROVE  outstanding = {}
<1>1. /\ IsFiniteSet(outstanding) /\ Cardinality(outstanding) \in Nat
      /\ Cardinality(RunnersOwing) \in Nat
      /\ Cardinality(GroupsOwing) \in Nat /\ Cardinality(ClientsOwing) \in Nat
      /\ num_unfinished = Cardinality(outstanding) + Cardinality(RunnersOwing)
                          + Cardinality(GroupsOwing) + Cardinality(ClientsOwing)
  BY CountsAreNat DEF CInv, IInv
<1>2. Cardinality(outstanding) = 0
  BY <1>1
<1> QED
  BY <1>1, <1>2, FS_EmptySet

(* A step of no client that only ends a run() or submits tasks.             *)
LEMMA WaitsKept ==
    ASSUME CInv,
           \/ outstanding \subseteq outstanding' /\ awaited' = awaited
           \/ \E t \in Task : RecordEnd(t),
           \A c \in Clients : \/ cpc'[c] = cpc[c]
                              \/ cpc'[c] \notin {"returned", "drain", "drainRun", "drainDec"}
                              \/ Runners = {}
    PROVE  WaitsInv'
<1>1. TypeOK /\ WaitsInv
  BY DEF CInv, IInv
<1>2. SUFFICES ASSUME NEW c \in Clients
               PROVE  /\ awaited'[c] \subseteq outstanding'
                      /\ Runners # {} => /\ cpc'[c] \notin {"drain", "drainRun", "drainDec"}
                                         /\ cpc'[c] = "returned" => awaited'[c] = {}
  BY DEF WaitsInv
<1>3. CASE outstanding \subseteq outstanding' /\ awaited' = awaited
  BY <1>1, <1>2, <1>3 DEF WaitsInv
<1>4. ASSUME NEW t \in Task, RecordEnd(t)
      PROVE  /\ awaited'[c] \subseteq outstanding'
             /\ Runners # {} => /\ cpc'[c] \notin {"drain", "drainRun", "drainDec"}
                                /\ cpc'[c] = "returned" => awaited'[c] = {}
  <2>1. awaited'[c] = awaited[c] \ {t} /\ outstanding' = outstanding \ {t}
    BY <1>4 DEF RecordEnd
  <2> QED
    BY <1>1, <1>2, <2>1 DEF WaitsInv
<1> QED
  BY <1>3, <1>4

LEMMA WaitsStep ==
    ASSUME CInv, [Next]_vars
    PROVE  WaitsInv'
<1>0. TypeOK /\ WaitsInv /\ RunnersInv /\ GroupsInv /\ ClientsInv
  BY DEF CInv, IInv, Custody
<1>1. ASSUME NEW r \in Runners, RunnerStep(r) \/ RunnerSpuriousWakeup(r)
      PROVE  WaitsInv'
  <2>1. \A c \in Clients : cpc'[c] = cpc[c] \/ cpc'[c] = "wait"
    BY <1>0, <1>1
    DEF RunnerStep, RunnerDequeue, RunnerSetCurrent, RunnerEndRun, RunnerGroupDec,
        RunnerGroupNotify, RunnerClearCurrent, RunnerTaskFinished, RunnerFinishNotify,
        RunnerSpuriousWakeup, WakeAllWaiters, clientVars, TypeOK
  <2>2. CASE RunnerEndRun(r)
    <3>1. rtask[r] \in Task /\ RecordEnd(rtask[r])
      BY <1>0, <2>2 DEF RunnerEndRun, RunnersInv
    <3> QED
      BY <2>1, <3>1, WaitsKept
  <2>3. CASE ~RunnerEndRun(r)
    <3>1. UNCHANGED <<outstanding, awaited>>
      BY <1>1, <2>3
      DEF RunnerStep, RunnerDequeue, RunnerSetCurrent, RunnerGroupDec, RunnerGroupNotify,
          RunnerClearCurrent, RunnerTaskFinished, RunnerFinishNotify, RunnerSpuriousWakeup, history
    <3> QED
      BY <2>1, <3>1, WaitsKept
  <2> QED
    BY <2>2, <2>3
<1>2. ASSUME NEW g \in Groups,
             GroupStep(g) \/ GroupStart(g) \/ GroupResume(g) \/ GroupSpuriousWakeup(g)
      PROVE  WaitsInv'
  <2>1. \A c \in Clients : cpc'[c] = cpc[c] \/ cpc'[c] = "wait"
    BY <1>0, <1>2
    DEF GroupStep, GroupStart, GroupResume, GroupSpuriousWakeup, GroupCount, GroupEnqueue,
        GroupNotifyAll, GroupTakeFirst, GroupTakeQueued, GroupSkipTaken, GroupLoopEnds, GroupEndRun,
        GroupTaskFinished, GroupFinishNotify, GroupDec, GroupWait, WakeAllWaiters, clientVars, TypeOK
  <2>2. CASE GroupEndRun(g)
    <3>1. Current(g) \in Task /\ RecordEnd(Current(g))
      BY <1>0, <2>2, GroupFacts DEF GroupEndRun, GroupsInv, Current
    <3> QED
      BY <2>1, <3>1, WaitsKept
  <2>3. CASE ~GroupEndRun(g)
    <3>1. outstanding \subseteq outstanding' /\ awaited' = awaited
      BY <1>2, <2>3
      DEF GroupStep, GroupStart, GroupResume, GroupSpuriousWakeup, GroupCount, GroupEnqueue,
          GroupNotifyAll, GroupTakeFirst, GroupTakeQueued, GroupSkipTaken, GroupLoopEnds,
          GroupTaskFinished, GroupFinishNotify, GroupDec, GroupWait, history
    <3> QED
      BY <2>1, <3>1, WaitsKept
  <2> QED
    BY <2>2, <2>3
<1>3. ASSUME NEW c \in Clients, WaitStart(c)
      PROVE  WaitsInv'
  BY <1>0, <1>3 DEF WaitStart, WaitsInv, TypeOK
<1>4. ASSUME NEW c \in Clients, WaitCheck(c)
      PROVE  WaitsInv'
  <2>1. num_unfinished = 0 => awaited[c] = {}
    BY <1>0, NoneUnfinished DEF WaitsInv
  <2>2. UNCHANGED <<outstanding, awaited>>
        /\ cpc' = [cpc EXCEPT ![c] = IF num_unfinished = 0 THEN "returned" ELSE "asleep"]
    BY <1>4 DEF WaitCheck, history
  <2> QED
    BY <1>0, <2>1, <2>2 DEF WaitsInv, TypeOK
<1>5. ASSUME NEW c \in Clients, WaitReturn(c)
      PROVE  WaitsInv'
  BY <1>0, <1>5 DEF WaitReturn, WaitsInv, TypeOK
<1>6. ASSUME NEW c \in Clients, DrainDequeue(c) \/ DrainDec(c)
      PROVE  WaitsInv'
  <2>1. Runners = {}
    BY <1>0, <1>6 DEF DrainDequeue, DrainDec, WaitsInv
  <2>2. UNCHANGED <<outstanding, awaited>>
    BY <1>6 DEF DrainDequeue, DrainDec, history
  <2> QED
    BY <2>1, <2>2, WaitsKept
<1>7. ASSUME NEW c \in Clients, DrainEndRun(c)
      PROVE  WaitsInv'
  <2>1. Runners = {}
    BY <1>0, <1>7 DEF DrainEndRun, WaitsInv
  <2>2. carg[c][1] \in Task /\ RecordEnd(carg[c][1])
    <3>1. Len(carg[c]) = 1 /\ carg[c] \in Seq(Task)
      BY <1>0, <1>7 DEF DrainEndRun, ClientsInv, TypeOK
    <3> QED
      BY <1>7, <3>1 DEF DrainEndRun
  <2> QED
    BY <2>1, <2>2, WaitsKept
<1>8. ASSUME NEW c \in Clients, Add(c) \/ AddEnqueue(c) \/ AddNotify(c) \/ WaitSpuriousWakeup(c)
      PROVE  WaitsInv'
  <2>1. outstanding \subseteq outstanding' /\ awaited' = awaited
    BY <1>8 DEF Add, AddCount, AddEnqueue, AddNotify, WaitSpuriousWakeup, history
  <2>2. \A d \in Clients :
          cpc'[d] = cpc[d] \/ cpc'[d] \in {"enqueue", "notify", "notifyAll", "idle", "wait"}
    BY <1>0, <1>8 DEF Add, AddCount, AddEnqueue, AddNotify, WaitSpuriousWakeup, TypeOK
  <2> QED
    BY <2>1, <2>2, WaitsKept
<1>9. CASE QuitStep \/ QuitStart \/ UNCHANGED vars
  <2>1. UNCHANGED <<outstanding, awaited, cpc>>
    BY <1>9
    DEF QuitStep, QuitStart, QuitEnqueue, QuitNotify, QuitJoin, vars, clientVars, history
  <2> QED
    BY <2>1, WaitsKept
<1> QED
  BY <1>1, <1>2, <1>3, <1>4, <1>5, <1>6, <1>7, <1>8, <1>9
  DEF Next, Working, Calling, SpuriousWakeup, Destroyed, ClientStep

-----------------------------------------------------------------------------
LEMMA CountInitInv == Init => CInv
<1> SUFFICES ASSUME Init PROVE CInv
  OBVIOUS
<1>1. IInv
  BY InitInv
<1>2. outstanding = {} /\ RunnersOwing = {} /\ GroupsOwing = {} /\ ClientsOwing = {}
      /\ num_unfinished = 0
  BY DEF Init, RunnersOwing, GroupsOwing, ClientsOwing
<1>3. Accounting
  BY <1>2, FS_EmptySet
  DEF Accounting, UnfinishedIsCounted, Reporting, RunnersOwing, GroupsOwing, ClientsOwing
<1>4. WaitsInv
  BY DEF Init, WaitsInv
<1> QED
  BY <1>1, <1>3, <1>4 DEF CInv

LEMMA CountNextInv == CInv /\ [Next]_vars => CInv'
BY NextInv, AccountingStep, WaitsStep DEF CInv

LEMMA CountInvariance == Spec => []CInv
BY CountInitInv, CountNextInv, PTL DEF Spec

(* num_unfinished_tasks is exactly the number of tasks submitted and not    *)
(* executed or not yet reported, however runners, group callers and clients *)
(* interleave: the assertion of taskFinished holds, and the notifyAll it    *)
(* makes at 0 comes when nothing is left.                                   *)
THEOREM CountIsExact == Spec => []UnfinishedIsCounted
<1>1. CInv => UnfinishedIsCounted
  BY DEF CInv, Accounting
<1> QED
  BY <1>1, CountInvariance, PTL

(* On a manager with runner threads waitForTasksToComplete returns only     *)
(* when every task that was unfinished at the call has been executed,       *)
(* whatever was submitted meanwhile.                                        *)
THEOREM WaitIsComplete ==
    ASSUME Runners # {}
    PROVE  Spec => []WaitCoversTasks
<1>1. CInv => WaitCoversTasks
  BY DEF CInv, WaitsInv, WaitCoversTasks
<1> QED
  BY <1>1, CountInvariance, PTL

-----------------------------------------------------------------------------
(* The count of a group, on a manager with runner threads: it is exactly    *)
(* the number of the group's tasks that are owed, so the caller that waits  *)
(* for it to reach 0 is neither let go early nor kept when none is left.    *)

(* With runner threads no client runs tasks off the queue, and so every     *)
(* task of a group is counted down by who ran it.                           *)
GInv == Runners # {} /\ CInv /\ GroupCountIsOwed

-----------------------------------------------------------------------------
LEMMA OwedIsFinite ==
    ASSUME NEW g \in Groups
    PROVE  Owed(g) \in SUBSET Members(g) /\ IsFiniteSet(Owed(g)) /\ Cardinality(Owed(g)) \in Nat
<1>1. Owed(g) \in SUBSET Members(g)
  BY DEF Owed
<1> QED
  BY <1>1, MembersCount, FS_Subset, FS_CardinalityType

(* The count stays right for a group that is owed the same tasks, and for   *)
(* one that is counted down for the one task no longer owed.                *)
LEMMA OwedExactly ==
    ASSUME GroupCountIsOwed, TypeOK, NEW g \in Groups, gpc[g] # "idle",
           \/ Owed(g)' = Owed(g) /\ gcount'[g] = gcount[g]
           \/ /\ \E t \in Owed(g) : Owed(g)' = Owed(g) \ {t}
              /\ gcount'[g] = gcount[g] - 1
    PROVE  gcount'[g] = Cardinality(Owed(g)')
<1>1. gcount[g] = Cardinality(Owed(g)) /\ IsFiniteSet(Owed(g)) /\ Cardinality(Owed(g)) \in Nat
  BY OwedIsFinite DEF GroupCountIsOwed
<1>2. ASSUME NEW t \in Owed(g), Owed(g)' = Owed(g) \ {t}, gcount'[g] = gcount[g] - 1
      PROVE  gcount'[g] = Cardinality(Owed(g)')
  BY <1>1, <1>2, FS_RemoveElement
<1> QED
  BY <1>1, <1>2

(* Groups have no task in common.                                           *)
LEMMA NotInTwoGroups ==
    ASSUME NEW g \in Groups, NEW h \in Groups, g # h
    PROVE  \A t \in Members(g) : t \notin Members(h)
BY GroupFacts

-----------------------------------------------------------------------------
(* A runner's step.                                                         *)
LEMMA RunnerOwed ==
    ASSUME GInv, NEW r \in Runners, RunnerStep(r) \/ RunnerSpuriousWakeup(r)
    PROVE  GroupCountIsOwed'
<1>0. /\ TypeOK /\ RunnersInv /\ GroupsInv /\ GroupsAtRest /\ Exclusive /\ GroupCountIsOwed
      /\ NoGroup \notin Groups
  BY TaskManagerAssumption DEF GInv, CInv, IInv, Custody
<1>1. SUFFICES ASSUME NEW g \in Groups, gpc'[g] # "idle"
               PROVE  gcount'[g] = Cardinality(Owed(g)')
  BY DEF GroupCountIsOwed
<1>2. CASE RunnerEndRun(r)
  <2>1. gpc'[g] = gpc[g] /\ gcount' = gcount /\ gi' = gi /\ rtask' = rtask
        /\ outstanding' = outstanding \ {rtask[r]}
    BY <1>0, <1>1, <1>2 DEF RunnerEndRun, RecordEnd, MayEnd, AfterEnd, TypeOK
  <2>2. /\ rtask[r] \in outstanding
        /\ \A s \in Runners : s # r => rpc'[s] = rpc[s]
        /\ rpc[r] = "run" /\ (rtask[r] \in Members(g) => rpc'[r] = "groupDec")
    BY <1>0, <1>2 DEF RunnerEndRun, RunnersInv, TypeOK
  <2>3. \A s \in Runners : rpc'[s] = "groupDec" => rpc[s] = "groupDec" \/ s = r
    BY <2>2
  <2>4. \A s \in Runners : rpc[s] = "groupDec" => rpc'[s] = "groupDec"
    BY <2>2
  <2>5. Owed(g)' \subseteq Owed(g)
    BY <2>1, <2>2, <2>3 DEF Owed, Current
  <2>6. Owed(g) \subseteq Owed(g)'
    BY <2>1, <2>2, <2>4 DEF Owed, Current
  <2>7. Owed(g)' = Owed(g) /\ gpc[g] # "idle"
    BY <1>1, <2>1, <2>5, <2>6
  <2> QED
    BY <1>0, <2>1, <2>7, OwedExactly
<1>3. CASE RunnerGroupDec(r)
  <2>1. PICK h \in Groups :
          /\ rtask[r] \in Members(h)
          /\ gcount' = [gcount EXCEPT ![h] = @ - 1]
          /\ rpc' = [rpc EXCEPT ![r] = IF gcount[h] = 1 THEN "groupNotify" ELSE "clear"]
    BY <1>3 DEF RunnerGroupDec
  <2>2. /\ rpc[r] = "groupDec" /\ UNCHANGED <<gpc, gi, outstanding, rtask>>
        /\ \A s \in Runners : rpc'[s] = "groupDec" <=> s # r /\ rpc[s] = "groupDec"
    BY <1>0, <1>3, <2>1 DEF RunnerGroupDec, history, TypeOK
  <2>3. Owed(g)' \subseteq Owed(g) /\ Owed(g) \ {rtask[r]} \subseteq Owed(g)'
    BY <2>2 DEF Owed, Current
  <2>4. CASE g = h
    <3>1. rtask[r] \in Task /\ RunnerHas(r, rtask[r]) /\ rtask[r] \notin outstanding
      BY <1>0, <2>2 DEF RunnersInv, RunnerHas
    <3>2. gpc[g] # "count"
      BY <1>0, <2>1, <2>4, <3>1 DEF GroupsAtRest
    <3>3. rtask[r] \notin Owed(g)'
      BY <1>0, <2>2, <3>1, <3>2 DEF Owed, Current, Exclusive, RunnerHas, GroupHas
    <3>4. rtask[r] \in Owed(g)
      BY <2>1, <2>2, <2>4 DEF Owed
    <3>5. gcount'[g] = gcount[g] - 1
      BY <1>0, <2>1, <2>4 DEF TypeOK
    <3>6. Owed(g)' = Owed(g) \ {rtask[r]}
      BY <2>3, <3>3
    <3> QED
      BY <1>0, <1>1, <2>2, <3>4, <3>5, <3>6, OwedExactly
  <2>5. CASE g # h
    <3>1. gcount'[g] = gcount[g]
      BY <1>0, <2>1, <2>5 DEF TypeOK
    <3>2. rtask[r] \notin Owed(g)
      BY <2>1, <2>5, NotInTwoGroups DEF Owed
    <3>3. Owed(g)' = Owed(g) /\ gpc[g] # "idle"
      BY <1>1, <2>2, <2>3, <3>2
    <3> QED
      BY <1>0, <3>1, <3>3, OwedExactly
  <2> QED
    BY <2>4, <2>5
<1>4. CASE \/ RunnerDequeue(r) \/ RunnerSetCurrent(r) \/ RunnerGroupNotify(r)
           \/ RunnerClearCurrent(r) \/ RunnerTaskFinished(r) \/ RunnerFinishNotify(r)
           \/ RunnerSpuriousWakeup(r)
  <2>1. /\ UNCHANGED <<gcount, gi, outstanding>>
        /\ \A s \in Runners :
             /\ rpc'[s] = "groupDec" <=> rpc[s] = "groupDec"
             /\ rpc[s] = "groupDec" => rtask'[s] = rtask[s]
    BY <1>0, <1>4
    DEF RunnerDequeue, RunnerSetCurrent, RunnerGroupNotify, RunnerClearCurrent, RunnerTaskFinished,
        RunnerFinishNotify, RunnerSpuriousWakeup, groupVars, history, TypeOK
  <2>2. gpc'[g] = gpc[g] \/ (gpc[g] = "asleep" /\ gpc'[g] = "wait")
    BY <1>0, <1>4
    DEF RunnerDequeue, RunnerSetCurrent, RunnerGroupNotify, RunnerClearCurrent, RunnerTaskFinished,
        RunnerFinishNotify, RunnerSpuriousWakeup, groupVars, TypeOK
  <2>3. Owed(g)' = Owed(g) /\ gpc[g] # "idle"
    BY <1>1, <2>1, <2>2 DEF Owed, Current
  <2> QED
    BY <1>0, <2>1, <2>3, OwedExactly
<1> QED
  BY <1>2, <1>3, <1>4 DEF RunnerStep

(* A step of a group call.                                                  *)
LEMMA GroupOwed ==
    ASSUME GInv, NEW h \in Groups,
           GroupStep(h) \/ GroupStart(h) \/ GroupResume(h) \/ GroupSpuriousWakeup(h)
    PROVE  GroupCountIsOwed'
<1>0. /\ TypeOK /\ GroupsInv /\ Exclusive /\ GroupCountIsOwed /\ NoGroup \notin Groups
  BY TaskManagerAssumption DEF GInv, CInv, IInv, Custody
<1>1. SUFFICES ASSUME NEW g \in Groups, gpc'[g] # "idle"
               PROVE  gcount'[g] = Cardinality(Owed(g)')
  BY DEF GroupCountIsOwed
<1>2. CASE GroupStart(h)
  <2>1. CASE g = h
    <3>1. gcount'[g] = Len(GroupTasks[g]) /\ gpc'[g] = "count"
      BY <1>0, <1>2, <2>1 DEF GroupStart, TypeOK
    <3>2. Owed(g)' = Members(g)
      BY <3>1 DEF Owed
    <3>3. GroupTasks[g] \in Seq(Task) /\ IsInjective(GroupTasks[g])
      BY TaskManagerAssumption
    <3>4. Cardinality(Members(g)) = Len(GroupTasks[g])
      BY <3>3, DistinctCount DEF Members
    <3> QED
      BY <3>1, <3>2, <3>4
  <2>2. CASE g # h
    <3>1. gpc'[g] = gpc[g] /\ gcount'[g] = gcount[g]
      BY <1>0, <1>2, <2>2 DEF GroupStart, TypeOK
    <3>2. Owed(g)' = Owed(g)
      BY <1>2, <3>1 DEF GroupStart, runnerVars, history, Owed, Current
    <3> QED
      BY <1>0, <1>1, <3>1, <3>2, OwedExactly
  <2> QED
    BY <2>1, <2>2
<1>3. CASE GroupCount(h)
  <2>1. /\ UNCHANGED <<rpc, rtask, gi, gcount>> /\ outstanding' = outstanding \cup Members(h)
        /\ gpc' = [gpc EXCEPT ![h] = "enqueue"] /\ gpc[h] = "count"
    BY <1>3 DEF GroupCount, runnerVars
  <2>2. CASE g = h
    <3>1. Owed(g) = Members(g) /\ Owed(g)' = Members(g) /\ gpc[g] # "idle"
      BY <2>1, <2>2 DEF Owed
    <3> QED
      BY <1>0, <2>1, <3>1, OwedExactly
  <2>3. CASE g # h
    <3>1. gpc'[g] = gpc[g]
      BY <1>0, <2>1, <2>3 DEF TypeOK
    <3>2. \A t \in Members(g) : t \in outstanding' <=> t \in outstanding
      BY <2>1, <2>3, NotInTwoGroups
    <3>3. Owed(g)' = Owed(g)
      BY <2>1, <3>1, <3>2 DEF Owed, Current
    <3> QED
      BY <1>0, <1>1, <2>1, <3>1, <3>3, OwedExactly
  <2> QED
    BY <2>2, <2>3
<1>4. CASE GroupEndRun(h)
  <2>1. Current(h) \in Members(h) /\ Current(h) \in Task /\ Current(h) \in outstanding
    BY <1>0, <1>4, GroupFacts DEF GroupEndRun, GroupsInv, GroupHas, Current
  <2>2. /\ UNCHANGED <<rpc, rtask, gi, gcount>> /\ outstanding' = outstanding \ {Current(h)}
    BY <1>4 DEF GroupEndRun, RecordEnd, runnerVars
  <2>3. CASE g = h
    <3>1. gpc[g] = "run" /\ gpc'[g] = "finish"
      BY <1>0, <1>1, <1>4, <2>3 DEF GroupEndRun, MayEnd, AfterEnd, TypeOK
    <3>2. Owed(g)' = Owed(g)
      BY <2>1, <2>2, <2>3, <3>1 DEF Owed, Current
    <3> QED
      BY <1>0, <2>2, <3>1, <3>2, OwedExactly
  <2>4. CASE g # h
    <3>1. gpc'[g] = gpc[g]
      BY <1>0, <1>1, <1>4, <2>4 DEF GroupEndRun, MayEnd, AfterEnd, TypeOK
    <3>2. \A t \in Members(g) : t \in outstanding' <=> t \in outstanding
      BY <2>1, <2>2, <2>4, NotInTwoGroups
    <3>3. Owed(g)' = Owed(g)
      BY <2>2, <3>1, <3>2 DEF Owed, Current
    <3> QED
      BY <1>0, <1>1, <2>2, <3>1, <3>3, OwedExactly
  <2> QED
    BY <2>3, <2>4
<1>5. CASE GroupDec(h)
  <2>1. /\ UNCHANGED <<rpc, rtask, outstanding>> /\ gpc[h] = "dec"
        /\ gpc' = [gpc EXCEPT ![h] = "take"] /\ gi' = [gi EXCEPT ![h] = @ + 1]
        /\ gcount' = [gcount EXCEPT ![h] = @ - 1]
    BY <1>5 DEF GroupDec, runnerVars, history
  <2>2. CASE g = h
    <3>1. Current(g) \in Members(g) /\ Current(g) \in Task /\ GroupHas(g, Current(g))
          /\ Current(g) \notin outstanding
      BY <1>0, <2>1, <2>2, GroupFacts DEF GroupsInv, GroupHas, Current
    <3>2. /\ Owed(g)' \subseteq Owed(g) /\ Current(g) \in Owed(g)
          /\ Owed(g) \ {Current(g)} \subseteq Owed(g)'
      BY <1>0, <2>1, <2>2, <3>1 DEF Owed, TypeOK
    <3>3. Current(g) \notin Owed(g)'
      BY <1>0, <2>1, <2>2, <3>1 DEF Owed, TypeOK, Exclusive, RunnerHas
    <3>4. gpc[g] # "idle" /\ gcount'[g] = gcount[g] - 1
      BY <1>0, <2>1, <2>2 DEF TypeOK
    <3>5. Owed(g)' = Owed(g) \ {Current(g)}
      BY <3>2, <3>3
    <3> QED
      BY <1>0, <3>2, <3>4, <3>5, OwedExactly
  <2>3. CASE g # h
    <3>1. gpc'[g] = gpc[g] /\ gcount'[g] = gcount[g] /\ Owed(g)' = Owed(g)
      BY <1>0, <2>1, <2>3 DEF Owed, Current, TypeOK
    <3> QED
      BY <1>0, <1>1, <3>1, OwedExactly
  <2> QED
    BY <2>2, <2>3
<1>6. CASE \/ GroupResume(h) \/ GroupSpuriousWakeup(h) \/ GroupEnqueue(h) \/ GroupNotifyAll(h)
           \/ GroupTakeFirst(h) \/ GroupTakeQueued(h) \/ GroupSkipTaken(h) \/ GroupLoopEnds(h)
           \/ GroupTaskFinished(h) \/ GroupFinishNotify(h) \/ GroupWait(h)
  <2>1. /\ UNCHANGED <<rtask, gcount, outstanding>> /\ gpc[g] # "idle"
        /\ \A s \in Runners : rpc'[s] = "groupDec" <=> rpc[s] = "groupDec"
        /\ gpc'[g] = "count" <=> gpc[g] = "count"
        /\ gpc'[g] \in {"finish", "finishNotify", "dec"}
             <=> gpc[g] \in {"finish", "finishNotify", "dec"}
        /\ gpc[g] \in {"finish", "finishNotify", "dec"} => gi'[g] = gi[g]
    BY <1>0, <1>1, <1>6
    DEF GroupResume, GroupSpuriousWakeup, GroupEnqueue, GroupNotifyAll, GroupTakeFirst,
        GroupTakeQueued, GroupSkipTaken, GroupLoopEnds, GroupTaskFinished, GroupFinishNotify,
        GroupWait, WakeAllRunners, runnerVars, history, TypeOK
  <2>2. Owed(g)' = Owed(g)
    BY <2>1 DEF Owed, Current
  <2> QED
    BY <1>0, <2>1, <2>2, OwedExactly
<1> QED
  BY <1>2, <1>3, <1>4, <1>5, <1>6 DEF GroupStep

(* A client's step, or the destructor's: none of them runs a group's task.  *)
LEMMA OtherOwed ==
    ASSUME GInv,
           \/ \E c \in Clients : ClientStep(c) \/ Add(c) \/ WaitStart(c) \/ WaitSpuriousWakeup(c)
           \/ QuitStep \/ QuitStart \/ UNCHANGED vars
    PROVE  GroupCountIsOwed'
<1>0. /\ TypeOK /\ GroupCountIsOwed
      /\ \A c \in Clients : cpc[c] \notin {"drain", "drainRun", "drainDec"}
  BY DEF GInv, CInv, IInv, WaitsInv
<1>1. SUFFICES ASSUME NEW g \in Groups, gpc'[g] # "idle"
               PROVE  gcount'[g] = Cardinality(Owed(g)')
  BY DEF GroupCountIsOwed
<1>2. ASSUME UNCHANGED <<rtask, gi, gcount, gpc>>,
             \A s \in Runners : rpc'[s] = "groupDec" <=> rpc[s] = "groupDec",
             \A t \in Members(g) : t \in outstanding' <=> t \in outstanding
      PROVE  gcount'[g] = Cardinality(Owed(g)')
  <2>1. Owed(g)' = Owed(g)
    BY <1>2 DEF Owed, Current
  <2> QED
    BY <1>0, <1>1, <1>2, <2>1, OwedExactly
<1>3. ASSUME NEW c \in Clients, Add(c)
      PROVE  gcount'[g] = Cardinality(Owed(g)')
  <2>1. PICK S \in SUBSET Addable : \E ts \in SetToSeqs(S) : AddCount(c, ts)
    BY <1>3 DEF Add
  <2>2. PICK ts \in SetToSeqs(S) : AddCount(c, ts)
    BY <2>1
  <2>3. ToSet(ts) \subseteq PlainTasks
    <3>1. S \in SUBSET Task /\ S \subseteq PlainTasks
      BY TaskManagerAssumption DEF Addable
    <3> QED
      BY <2>2, <3>1, SetToSeqsIsInjective
  <2>4. \A t \in Members(g) : t \in outstanding' <=> t \in outstanding
    BY <2>2, <2>3, GroupFacts DEF AddCount
  <2> QED
    BY <1>2, <2>2, <2>4 DEF AddCount, runnerVars, groupVars
<1>4. ASSUME NEW c \in Clients,
             \/ AddEnqueue(c) \/ AddNotify(c) \/ WaitStart(c) \/ WaitCheck(c)
             \/ WaitSpuriousWakeup(c) \/ WaitReturn(c)
      PROVE  gcount'[g] = Cardinality(Owed(g)')
  <2>1. /\ UNCHANGED <<rtask, gi, gcount, gpc, outstanding>>
        /\ \A s \in Runners : rpc'[s] = "groupDec" <=> rpc[s] = "groupDec"
    BY <1>0, <1>4
    DEF AddEnqueue, AddNotify, WakeOneRunner, WakeAllRunners, WaitStart, WaitCheck,
        WaitSpuriousWakeup, WaitReturn, runnerVars, groupVars, history, TypeOK
  <2> QED
    BY <1>2, <2>1
<1>5. ASSUME NEW c \in Clients, DrainDequeue(c) \/ DrainEndRun(c) \/ DrainDec(c)
      PROVE  FALSE
  BY <1>0, <1>5 DEF DrainDequeue, DrainEndRun, DrainDec
<1>6. CASE QuitStep \/ QuitStart \/ UNCHANGED vars
  <2>1. /\ UNCHANGED <<rtask, gi, gcount, gpc, outstanding>>
        /\ \A s \in Runners : rpc'[s] = "groupDec" <=> rpc[s] = "groupDec"
    BY <1>0, <1>6
    DEF QuitStep, QuitStart, QuitEnqueue, QuitNotify, QuitJoin, WakeOneRunner, vars, runnerVars,
        groupVars, history, TypeOK
  <2> QED
    BY <1>2, <2>1
<1> QED
  BY <1>3, <1>4, <1>5, <1>6 DEF ClientStep

-----------------------------------------------------------------------------
(* On a manager with runner threads a group's num_unfinished_tasks is       *)
(* exactly the number of its tasks whose thread has not counted the group   *)
(* down, whoever runs them and in whatever order they end: the caller's     *)
(* wait ends when, and only when, none is left.                             *)
THEOREM GroupCountIsExact ==
    ASSUME Runners # {}
    PROVE  Spec => []GroupCountIsOwed
<1>1. Init => GInv
  BY CountInitInv DEF GInv, GroupCountIsOwed, Init
<1>2. GInv /\ [Next]_vars => GInv'
  BY CountNextInv, RunnerOwed, GroupOwed, OtherOwed
  DEF GInv, Next, Working, Calling, SpuriousWakeup, Destroyed
<1>3. GInv => GroupCountIsOwed
  BY DEF GInv
<1> QED
  BY <1>1, <1>2, <1>3, PTL DEF Spec

-----------------------------------------------------------------------------
(* ~TaskManager: the QuitRunnerTasks stand behind every task that clients   *)
(* added, so when all runners have taken one, nothing that was added is     *)
(* left.                                                                    *)

Queue == {t \in Task : in_queue[t]}

(* A part of the queue that is linked to nothing in front of it but itself. *)
FrontClosed(X) ==
    X \subseteq Queue /\ \A t \in X : prev[t] = NoTask \/ prev[t] \in X

(* The queue is one list: no part of it is cut off from the head.           *)
OneList == \A X \in SUBSET Task : X # {} /\ FrontClosed(X) => head \in X

(* Some front part of the queue holds the clients' tasks and no quit task.  *)
QuitsLast ==
    \E L \in SUBSET Task : /\ FrontClosed(L)
                           /\ Queue \cap PlainTasks \subseteq L
                           /\ L \cap quits = {}

(* As long as a client's task is queued, every quit task sent is.           *)
PlainFirst == (\E t \in PlainTasks : in_queue[t]) => \A q \in quits : in_queue[q]

-----------------------------------------------------------------------------
(* The three operations leave the queue one list.                           *)
LEMMA DequeueOneList ==
    ASSUME QueueTypeOK, LinksConsistent, OneList, Dequeue
    PROVE  OneList'
<1>1. /\ head \in Task /\ prev[head] = NoTask /\ head' = next[head]
      /\ \A t \in Task : in_queue'[t] <=> in_queue[t] /\ t # head
      /\ \A t \in Task : prev'[t] = IF t = next[head] THEN NoTask ELSE prev[t]
  BY DEF Dequeue, QueueTypeOK, LinksConsistent
<1>2. SUFFICES ASSUME NEW X \in SUBSET Task, X # {}, FrontClosed(X)'
               PROVE  next[head] \in X
  BY <1>1 DEF OneList
<1>3. SUFFICES ASSUME next[head] \notin X
               PROVE  FALSE
  OBVIOUS
<1>4. FrontClosed(X)
  BY <1>1, <1>2, <1>3 DEF FrontClosed, Queue
<1>5. head \in X
  BY <1>2, <1>4 DEF OneList
<1> QED
  BY <1>1, <1>2, <1>5 DEF FrontClosed, Queue

LEMMA UnlinkOneList ==
    ASSUME QueueTypeOK, LinksConsistent, OneList, NEW t \in Task, Unlink(t)
    PROVE  OneList'
<1>1. /\ in_queue[t] /\ head' = IF head = t THEN next[t] ELSE head
      /\ \A u \in Task : in_queue'[u] <=> in_queue[u] /\ u # t
      /\ \A u \in Task : prev'[u] = IF u = next[t] THEN prev[t] ELSE prev[u]
  BY DEF Unlink, QueueTypeOK
<1>2. SUFFICES ASSUME NEW X \in SUBSET Task, X # {}, FrontClosed(X)'
               PROVE  head' \in X
  BY DEF OneList
<1>3. t \notin X /\ \A u \in X : in_queue[u]
  BY <1>1, <1>2 DEF FrontClosed, Queue
<1>4. CASE next[t] \in X
  <2>1. prev[t] = NoTask \/ prev[t] \in X
    BY <1>1, <1>2, <1>4 DEF FrontClosed
  <2>2. prev[next[t]] = t
    BY <1>1, <1>4, TaskAssumption DEF LinksConsistent
  <2>3. FrontClosed(X \cup {t})
    BY <1>1, <1>2, <1>3, <2>1, <2>2 DEF FrontClosed, Queue
  <2>4. head \in X \cup {t}
    BY <2>3 DEF OneList
  <2> QED
    BY <1>1, <1>4, <2>4
<1>5. CASE next[t] \notin X
  <2>1. FrontClosed(X)
    BY <1>1, <1>2, <1>3, <1>5 DEF FrontClosed, Queue
  <2> QED
    BY <1>1, <1>2, <1>3, <2>1 DEF OneList
<1> QED
  BY <1>4, <1>5

(* Enqueue leaves the tasks that were queued as they are, and links each    *)
(* new one to the one before it, the first to the old tail.                 *)
LEMMA EnqueueBehind ==
    ASSUME QueueTypeOK, LinksConsistent, NEW ts, Enqueueable(ts), Enqueue(ts)
    PROVE  /\ Len(ts) \in Nat /\ \A i \in 1..Len(ts) : ts[i] \in Task /\ ~in_queue[ts[i]]
           /\ \A t \in Task : in_queue'[t] <=> in_queue[t] \/ \E i \in 1..Len(ts) : t = ts[i]
           /\ \A t \in Task : in_queue[t] => prev'[t] = prev[t]
           /\ \A i \in 1..Len(ts) : prev'[ts[i]] = IF i = 1 THEN tail ELSE ts[i - 1]
           /\ head' = IF tail = NoTask /\ Len(ts) # 0 THEN ts[1] ELSE head
<1> DEFINE n == Len(ts)
<1>1. n \in Nat /\ DOMAIN ts = 1..n /\ \A i \in 1..n : ts[i] \in Task
  BY DEF Enqueueable
<1>2. \A t : t \in ToSet(ts) <=> \E i \in 1..n : t = ts[i]
  BY <1>1 DEF ToSet
<1>3. \A i \in 1..n : ~in_queue[ts[i]] /\ Position(ts, ts[i]) = i
  BY <1>1, <1>2, PositionIsIndex DEF Enqueueable
<1>4. CASE n = 0
  BY <1>1, <1>4 DEF Enqueue, queueVars
<1>5. CASE n # 0
  <2>1. /\ head' = IF tail = NoTask THEN ts[1] ELSE head
        /\ in_queue' = [t \in Task |-> t \in ToSet(ts) \/ in_queue[t]]
        /\ prev' = [t \in Task |-> IF t \in ToSet(ts)
                                   THEN IF Position(ts, t) = 1 THEN tail ELSE ts[Position(ts, t) - 1]
                                   ELSE prev[t]]
    BY <1>5 DEF Enqueue
  <2>2. \A t \in Task : in_queue'[t] <=> in_queue[t] \/ \E i \in 1..n : t = ts[i]
    BY <1>2, <2>1
  <2>3. \A t \in Task : in_queue[t] => prev'[t] = prev[t]
    BY <1>2, <1>3, <2>1
  <2>4. \A i \in 1..n : prev'[ts[i]] = IF i = 1 THEN tail ELSE ts[i - 1]
    BY <1>1, <1>2, <1>3, <2>1
  <2> QED
    BY <1>1, <1>3, <1>5, <2>1, <2>2, <2>3, <2>4
<1> QED
  BY <1>4, <1>5

LEMMA EnqueueOneList ==
    ASSUME QueueTypeOK, LinksConsistent, OneList, NEW ts, Enqueueable(ts), Enqueue(ts)
    PROVE  OneList'
<1> DEFINE n == Len(ts)
<1>1. /\ n \in Nat /\ \A i \in 1..n : ts[i] \in Task /\ ~in_queue[ts[i]]
      /\ \A t \in Task : in_queue'[t] <=> in_queue[t] \/ \E i \in 1..n : t = ts[i]
      /\ \A t \in Task : in_queue[t] => prev'[t] = prev[t]
      /\ \A i \in 1..n : prev'[ts[i]] = IF i = 1 THEN tail ELSE ts[i - 1]
      /\ head' = IF tail = NoTask /\ n # 0 THEN ts[1] ELSE head
  BY EnqueueBehind
<1> HIDE DEF n
<1>2. SUFFICES ASSUME NEW X \in SUBSET Task, X # {}, FrontClosed(X)'
               PROVE  head' \in X
  BY DEF OneList
<1>3. CASE \E t \in X : in_queue[t]
  <2>1. FrontClosed(X \cap Queue)
    <3>1. ASSUME NEW t \in X, in_queue[t], prev[t] # NoTask
          PROVE  prev[t] \in X /\ in_queue[prev[t]] /\ prev[t] \in Task
      BY <1>1, <1>2, <3>1 DEF FrontClosed, LinksConsistent, QueueTypeOK
    <3> QED
      BY <3>1 DEF FrontClosed, Queue
  <2>2. head \in X /\ in_queue[head] /\ head \in Task
    BY <1>3, <2>1 DEF OneList, Queue
  <2>3. tail # NoTask
    BY <2>2, TaskAssumption DEF LinksConsistent
  <2> QED
    BY <1>1, <2>2, <2>3
<1>4. CASE \A t \in X : ~in_queue[t]
  <2> DEFINE I == {i \in 1..n : ts[i] \in X}
  <2>1. I \subseteq Nat /\ I # {}
    <3>1. \A t \in X : \E i \in 1..n : t = ts[i]
      BY <1>1, <1>2, <1>4 DEF FrontClosed, Queue
    <3> QED
      BY <1>1, <1>2, <3>1
  <2>2. PICK m \in I : \A i \in I : m <= i
    BY <2>1, LeastNatural
  <2>3. m \in 1..n /\ ts[m] \in X /\ \A i \in 1..n : i < m => ts[i] \notin X
    BY <1>1, <2>2
  <2>4. m = 1
    <3>1. SUFFICES ASSUME m # 1 PROVE FALSE
      OBVIOUS
    <3>2. m - 1 \in 1..n /\ m - 1 < m
      BY <1>1, <2>3, <3>1
    <3>3. prev'[ts[m]] = ts[m - 1]
      BY <1>1, <2>3, <3>1
    <3>4. ts[m - 1] \in Task /\ ts[m - 1] \notin X
      BY <1>1, <2>3, <3>2
    <3> QED
      BY <1>2, <2>3, <3>3, <3>4, TaskAssumption DEF FrontClosed
  <2>5. prev'[ts[1]] = tail /\ ts[1] \in X
    BY <1>1, <2>3, <2>4
  <2>6. tail = NoTask
    BY <1>2, <1>4, <2>5 DEF FrontClosed, LinksConsistent
  <2> QED
    BY <1>1, <2>3, <2>4, <2>6
<1> QED
  BY <1>3, <1>4
-----------------------------------------------------------------------------
(* A runner that is done took a quit task, and no other runner took it.     *)
DoneInv ==
    /\ \A r \in Runners : rpc[r] = "done" => rtask[r] \in quits /\ ~in_queue[rtask[r]]
    /\ \A r, s \in Runners :
         rpc[r] = "done" /\ rpc[s] = "done" /\ rtask[r] = rtask[s] => r = s

(* What is outstanding is a group's, or a client's that is in the queue,    *)
(* yet to be queued, or with a runner.                                      *)
Placed ==
    \A t \in outstanding :
        \/ \E g \in Groups : t \in Members(g)
        \/ t \in PlainTasks /\ \/ in_queue[t]
                               \/ \E c \in Clients : cpc[c] = "enqueue" /\ ClientHas(c, t)
                               \/ \E r \in Runners : rpc[r] \in {"current", "run"} /\ rtask[r] = t

(* A nested group call goes on only while the run() that makes it does; and *)
(* no calls are nested in each other's tasks only, with no runner below.    *)
Nests(h, g) == gpc[h] = "run" /\ Nested[Current(h)] = g
Parents == \A g \in Groups : gpc[g] # "idle" /\ ~TopLevel(g) => \E t \in Task : Nested[t] = g /\ RunBy(t)
Grounded ==
    \A X \in SUBSET Groups :
        (\A g \in X : gpc[g] # "idle" /\ \E h \in X : Nests(h, g)) => X = {}

(* How far the destructor is.                                               *)
QuitPhase ==
    /\ mpc # "alive" => \A g \in Groups : TopLevel(g) => gpc[g] = "idle"
    /\ mpc \in {"join", "destroyed"} => quits = QuitTasks
    /\ mpc = "destroyed" => \A r \in Runners : rpc[r] = "done"

SInv ==
    /\ Runners # {} /\ CInv
    /\ OneList /\ QuitsLast /\ PlainFirst
    /\ DoneInv /\ Placed /\ Parents /\ Grounded /\ QuitPhase

(* What CInv says of the parts the steps below use.                         *)
LEMMA SInvFacts ==
    ASSUME SInv
    PROVE  /\ TypeOK /\ QueueTypeOK /\ LinksConsistent /\ IInv /\ CInv
           /\ RunnersInv /\ GroupsInv /\ ClientsInv /\ QueueInv /\ QuitInv /\ GroupsAtRest /\ Exclusive
           /\ \A c \in Clients : cpc[c] \notin {"drain", "drainRun", "drainDec"}
           /\ OneList /\ QuitsLast /\ PlainFirst
           /\ DoneInv /\ Placed /\ Parents /\ Grounded /\ QuitPhase
BY DEF SInv, CInv, IInv, TypeOK, Custody, WaitsInv

(* The steps that touch the queue.                                          *)
LEMMA QueueCases ==
    ASSUME SInv, [Next]_vars
    PROVE  \/ UNCHANGED <<queueVars, quits>>
           \/ \E r \in Runners : RunnerDequeue(r) /\ Dequeue
           \/ \E g \in Groups : GroupTakeQueued(g) \/ GroupEnqueue(g)
           \/ \E c \in Clients : AddEnqueue(c)
           \/ \E q \in QuitTasks \ quits :
                mpc = "enqueue" /\ Enqueue(<<q>>) /\ quits' = quits \cup {q}
<1>0. \A c \in Clients : cpc[c] \notin {"drain", "drainRun", "drainDec"}
  BY SInvFacts
<1>1. ASSUME NEW r \in Runners, RunnerStep(r) \/ RunnerSpuriousWakeup(r)
      PROVE  UNCHANGED <<queueVars, quits>> \/ (RunnerDequeue(r) /\ Dequeue)
  <2>1. CASE RunnerDequeue(r)
    <3>1. UNCHANGED queueVars \/ Dequeue
      BY <2>1 DEF RunnerDequeue
    <3>2. quits' = quits
      BY <2>1 DEF RunnerDequeue, quitVars
    <3> QED
      BY <2>1, <3>1, <3>2
  <2>2. CASE ~RunnerDequeue(r)
    BY <1>1, <2>2
    DEF RunnerStep, RunnerSpuriousWakeup, RunnerSetCurrent, RunnerEndRun, RunnerGroupDec,
        RunnerGroupNotify, RunnerClearCurrent, RunnerTaskFinished, RunnerFinishNotify, quitVars
  <2> QED
    BY <2>1, <2>2
<1>2. ASSUME NEW g \in Groups,
             GroupStep(g) \/ GroupStart(g) \/ GroupResume(g) \/ GroupSpuriousWakeup(g)
      PROVE  UNCHANGED <<queueVars, quits>> \/ GroupTakeQueued(g) \/ GroupEnqueue(g)
  BY <1>2
  DEF GroupStep, GroupStart, GroupResume, GroupSpuriousWakeup, GroupCount, GroupNotifyAll,
      GroupTakeFirst, GroupSkipTaken, GroupLoopEnds, GroupEndRun, GroupTaskFinished,
      GroupFinishNotify, GroupDec, GroupWait, quitVars
<1>3. ASSUME NEW c \in Clients, ClientStep(c) \/ Add(c) \/ WaitStart(c) \/ WaitSpuriousWakeup(c)
      PROVE  UNCHANGED <<queueVars, quits>> \/ AddEnqueue(c)
  BY <1>0, <1>3
  DEF ClientStep, Add, AddCount, WaitStart, WaitSpuriousWakeup, AddNotify, WaitCheck,
      WaitReturn, DrainDequeue, DrainEndRun, DrainDec, quitVars
<1>4. CASE QuitStep \/ QuitStart \/ UNCHANGED vars
  BY <1>4 DEF QuitStep, QuitStart, QuitEnqueue, QuitNotify, QuitJoin, vars, quitVars
<1> QED
  BY <1>1, <1>2, <1>3, <1>4 DEF Next, Working, Calling, SpuriousWakeup, Destroyed

LEMMA OneListStep ==
    ASSUME SInv, [Next]_vars
    PROVE  OneList'
<1>0. QueueTypeOK /\ LinksConsistent /\ OneList /\ IInv
  BY SInvFacts
<1>1. CASE UNCHANGED queueVars
  BY <1>0, <1>1 DEF queueVars, OneList, FrontClosed, Queue
<1>2. CASE Dequeue
  BY <1>0, <1>2, DequeueOneList
<1>3. ASSUME NEW g \in Groups, GroupTakeQueued(g)
      PROVE  OneList'
  <2>1. Current(g) \in Task
    BY <1>3, GroupFacts DEF GroupTakeQueued, Current
  <2> QED
    BY <1>0, <1>3, <2>1, UnlinkOneList DEF GroupTakeQueued
<1>4. ASSUME NEW g \in Groups, GroupEnqueue(g)
      PROVE  OneList'
  BY <1>0, <1>4, GroupEnqueueable, EnqueueOneList DEF GroupEnqueue
<1>5. ASSUME NEW c \in Clients, AddEnqueue(c)
      PROVE  OneList'
  BY <1>0, <1>5, ClientEnqueueable, EnqueueOneList DEF AddEnqueue
<1>6. ASSUME NEW q \in QuitTasks \ quits, Enqueue(<<q>>)
      PROVE  OneList'
  BY <1>0, <1>6, QuitEnqueueable, EnqueueOneList
<1> QED
  BY <1>1, <1>2, <1>3, <1>4, <1>5, <1>6, QueueCases

(* The part of the queue the clients' tasks are in stays in front when      *)
(* tasks are taken out, and when tasks that no client added go in behind.   *)
LEMMA QuitsLastTakenOut ==
    ASSUME QueueTypeOK, LinksConsistent, QuitsLast, NEW t \in Task,
           (Dequeue /\ t = head) \/ Unlink(t), quits' = quits
    PROVE  QuitsLast'
<1>1. PICK L \in SUBSET Task :
        FrontClosed(L) /\ Queue \cap PlainTasks \subseteq L /\ L \cap quits = {}
  BY DEF QuitsLast
<1>2. /\ in_queue[t] /\ \A u \in Task : in_queue'[u] <=> in_queue[u] /\ u # t
      /\ \A u \in Task : prev'[u] = IF u = next[t] THEN prev[t] ELSE prev[u]
  BY DEF Dequeue, Unlink, QueueTypeOK, LinksConsistent
<1>3. \A u \in L \ {t} : in_queue'[u] /\ (prev'[u] = NoTask \/ prev'[u] \in L \ {t})
  <2> SUFFICES ASSUME NEW u \in L \ {t}
               PROVE  in_queue'[u] /\ (prev'[u] = NoTask \/ prev'[u] \in L \ {t})
    OBVIOUS
  <2>1. u \in Task /\ in_queue[u] /\ in_queue'[u] /\ (prev[u] = NoTask \/ prev[u] \in L)
    BY <1>1, <1>2 DEF FrontClosed, Queue
  <2>2. CASE u = next[t]
    <3>1. prev[u] = t /\ t \in L /\ prev'[u] = prev[t]
      BY <1>2, <2>1, <2>2, TaskAssumption DEF LinksConsistent, QueueTypeOK
    <3>2. prev[t] = NoTask \/ prev[t] \in L
      BY <1>1, <3>1 DEF FrontClosed
    <3>3. prev[t] # t
      <4> SUFFICES ASSUME prev[t] = t PROVE FALSE
        OBVIOUS
      <4>1. next[t] = t
        BY <1>2, TaskAssumption DEF LinksConsistent
      <4> QED
        BY <2>2, <4>1
    <3> QED
      BY <2>1, <3>1, <3>2, <3>3
  <2>3. CASE u # next[t]
    <3>1. prev'[u] = prev[u]
      BY <1>2, <2>1, <2>3
    <3>2. prev[u] # t
      BY <2>1, <2>3, TaskAssumption DEF LinksConsistent
    <3> QED
      BY <2>1, <3>1, <3>2
  <2> QED
    BY <2>2, <2>3
<1>4. FrontClosed(L \ {t})'
  BY <1>3 DEF FrontClosed, Queue
<1>5. (Queue \cap PlainTasks)' \subseteq L \ {t} /\ (L \ {t}) \cap quits' = {}
  BY <1>1, <1>2 DEF Queue
<1> QED
  BY <1>4, <1>5 DEF QuitsLast

LEMMA QuitsLastPutIn ==
    ASSUME QueueTypeOK, LinksConsistent, QuitsLast, NEW ts, Enqueueable(ts), Enqueue(ts),
           \A t \in ToSet(ts) : t \notin PlainTasks, quits' \subseteq quits \cup ToSet(ts)
    PROVE  QuitsLast'
<1>1. PICK L \in SUBSET Task :
        FrontClosed(L) /\ Queue \cap PlainTasks \subseteq L /\ L \cap quits = {}
  BY DEF QuitsLast
<1>2. /\ \A t \in Task : in_queue'[t] <=> in_queue[t] \/ t \in ToSet(ts)
      /\ \A t \in Task : in_queue[t] => prev'[t] = prev[t]
      /\ \A t \in ToSet(ts) : ~in_queue[t]
  <2>1. \A t : t \in ToSet(ts) <=> \E i \in 1..Len(ts) : t = ts[i]
    BY DEF Enqueueable, ToSet
  <2> QED
    BY <2>1, EnqueueBehind
<1>3. FrontClosed(L)'
  BY <1>1, <1>2 DEF FrontClosed, Queue
<1>4. (Queue \cap PlainTasks)' \subseteq L /\ L \cap quits' = {}
  BY <1>1, <1>2 DEF Queue, FrontClosed
<1> QED
  BY <1>3, <1>4 DEF QuitsLast

LEMMA QuitsLastStep ==
    ASSUME SInv, [Next]_vars
    PROVE  QuitsLast' /\ PlainFirst'
<1>0. /\ QueueTypeOK /\ LinksConsistent /\ OneList /\ QuitsLast /\ PlainFirst /\ IInv /\ TypeOK
      /\ QuitInv /\ PlainTasks \subseteq Task /\ QuitTasks \subseteq Task /\ quits \subseteq QuitTasks
  BY SInvFacts, TaskManagerAssumption DEF TypeOK
<1>1. CASE UNCHANGED <<queueVars, quits>>
  BY <1>0, <1>1 DEF queueVars, QuitsLast, FrontClosed, Queue, PlainFirst
<1>2. ASSUME NEW r \in Runners, RunnerDequeue(r), Dequeue
      PROVE  QuitsLast' /\ PlainFirst'
  <2>1. /\ quits' = quits /\ head \in Task
        /\ \A t \in Task : in_queue'[t] <=> in_queue[t] /\ t # head
    BY <1>0, <1>2, DequeueRemoves DEF RunnerDequeue, quitVars
  <2>2. QuitsLast'
    BY <1>0, <1>2, <2>1, QuitsLastTakenOut
  <2>3. ASSUME NEW p \in PlainTasks, in_queue'[p]
        PROVE  head \notin quits
    <3>1. p \in Task /\ in_queue[p]
      BY <1>0, <2>1, <2>3
    <3>2. PICK L \in SUBSET Task :
            FrontClosed(L) /\ Queue \cap PlainTasks \subseteq L /\ L \cap quits = {}
      BY <1>0 DEF QuitsLast
    <3>3. p \in L
      BY <3>1, <3>2 DEF Queue
    <3> QED
      BY <1>0, <3>2, <3>3 DEF OneList
  <2>4. PlainFirst'
    BY <1>0, <2>1, <2>3 DEF PlainFirst
  <2> QED
    BY <2>2, <2>4
<1>3. ASSUME NEW g \in Groups, GroupTakeQueued(g)
      PROVE  QuitsLast' /\ PlainFirst'
  <2>1. Current(g) \in Task /\ Current(g) \notin QuitTasks
    BY <1>3, GroupFacts DEF GroupTakeQueued, Current
  <2>2. Unlink(Current(g)) /\ quits' = quits
    BY <1>3 DEF GroupTakeQueued, quitVars
  <2>3. QuitsLast'
    BY <1>0, <2>1, <2>2, QuitsLastTakenOut
  <2>4. \A t \in Task : in_queue'[t] <=> in_queue[t] /\ t # Current(g)
    BY <1>0, <2>1, <2>2 DEF Unlink, QueueTypeOK
  <2>5. PlainFirst'
    BY <1>0, <2>1, <2>2, <2>4 DEF PlainFirst
  <2> QED
    BY <2>3, <2>5
<1>4. ASSUME NEW g \in Groups, GroupEnqueue(g)
      PROVE  QuitsLast' /\ PlainFirst'
  <2>1. /\ Enqueueable(Queued(g)) /\ Enqueue(Queued(g)) /\ quits' = quits
        /\ Queued(g) \in Seq(Task) /\ \A t \in ToSet(Queued(g)) : t \in Members(g)
    BY <1>0, <1>4, GroupEnqueueable, QueuedFacts DEF GroupEnqueue, quitVars
  <2>2. \A t \in ToSet(Queued(g)) : t \notin PlainTasks
    BY <2>1, GroupFacts
  <2>3. QuitsLast'
    BY <1>0, <2>1, <2>2, QuitsLastPutIn
  <2>4. \A t \in Task : in_queue'[t] <=> t \in ToSet(Queued(g)) \/ in_queue[t]
    BY <2>1, EnqueueAdds
  <2>5. PlainFirst'
    BY <1>0, <2>1, <2>2, <2>4 DEF PlainFirst
  <2> QED
    BY <2>3, <2>5
<1>5. ASSUME NEW c \in Clients, AddEnqueue(c)
      PROVE  QuitsLast' /\ PlainFirst'
  <2>1. quits = {} /\ quits' = {}
    BY <1>0, <1>5 DEF AddEnqueue, QuitInv, quitVars
  <2>2. QueueTypeOK' /\ LinksConsistent'
    BY <1>0, QueueStep
  <2>3. FrontClosed(Queue)'
    <3>1. ASSUME NEW t \in Task, in_queue'[t]
          PROVE  prev'[t] = NoTask \/ (prev'[t] \in Task /\ in_queue'[prev'[t]])
      BY <2>2, <3>1 DEF QueueTypeOK, LinksConsistent
    <3> QED
      BY <3>1 DEF FrontClosed, Queue
  <2>4. QuitsLast'
    BY <2>1, <2>3 DEF QuitsLast, Queue
  <2> QED
    BY <2>1, <2>4 DEF PlainFirst
<1>6. ASSUME NEW q \in QuitTasks \ quits, Enqueue(<<q>>), quits' = quits \cup {q}
      PROVE  QuitsLast' /\ PlainFirst'
  <2>1. Enqueueable(<<q>>) /\ ToSet(<<q>>) = {q} /\ <<q>> \in Seq(Task) /\ q \notin PlainTasks
    BY <1>0, QuitEnqueueable, TaskManagerAssumption DEF ToSet
  <2>2. QuitsLast'
    BY <1>0, <1>6, <2>1, QuitsLastPutIn
  <2>3. \A t \in Task : in_queue'[t] <=> t = q \/ in_queue[t]
    BY <1>6, <2>1, EnqueueAdds
  <2>4. PlainFirst'
    BY <1>0, <1>6, <2>1, <2>3 DEF PlainFirst
  <2> QED
    BY <2>2, <2>4
<1> QED
  BY <1>1, <1>2, <1>3, <1>4, <1>5, <1>6, QueueCases
-----------------------------------------------------------------------------
(* A quit task that was taken out of the queue is not put in again.         *)
LEMMA NotRequeued ==
    ASSUME SInv, [Next]_vars
    PROVE  quits \subseteq quits' /\ \A q \in quits : ~in_queue[q] => ~in_queue'[q]
<1>0. /\ TypeOK /\ IInv /\ QuitInv /\ ClientsInv /\ QueueTypeOK /\ LinksConsistent
      /\ QuitTasks \subseteq Task /\ quits \subseteq QuitTasks
  BY SInvFacts, TaskManagerAssumption DEF TypeOK
<1>1. CASE UNCHANGED <<queueVars, quits>>
  BY <1>1 DEF queueVars
<1>2. ASSUME NEW r \in Runners, RunnerDequeue(r), Dequeue
      PROVE  quits' = quits /\ \A t \in Task : in_queue'[t] => in_queue[t]
  BY <1>0, <1>2, DequeueRemoves DEF RunnerDequeue, quitVars
<1>3. ASSUME NEW g \in Groups, GroupTakeQueued(g)
      PROVE  quits' = quits /\ \A t \in Task : in_queue'[t] => in_queue[t]
  BY <1>0, <1>3 DEF GroupTakeQueued, Unlink, QueueTypeOK, quitVars
<1>4. ASSUME NEW g \in Groups, GroupEnqueue(g)
      PROVE  /\ quits' = quits
             /\ \A t \in QuitTasks : in_queue'[t] => in_queue[t]
  <2>1. Queued(g) \in Seq(Task) /\ \A t \in ToSet(Queued(g)) : t \in Members(g)
    BY QueuedFacts
  <2>2. \A t \in Task : in_queue'[t] <=> t \in ToSet(Queued(g)) \/ in_queue[t]
    BY <1>4, <2>1, EnqueueAdds DEF GroupEnqueue
  <2> QED
    BY <1>0, <1>4, <2>1, <2>2, GroupFacts DEF GroupEnqueue, quitVars
<1>5. ASSUME NEW c \in Clients, AddEnqueue(c)
      PROVE  quits' = quits /\ quits = {}
  BY <1>0, <1>5 DEF AddEnqueue, QuitInv, quitVars
<1>6. ASSUME NEW q \in QuitTasks \ quits, Enqueue(<<q>>), quits' = quits \cup {q}
      PROVE  \A t \in quits : in_queue'[t] => in_queue[t]
  <2>1. <<q>> \in Seq(Task) /\ ToSet(<<q>>) = {q}
    BY <1>0 DEF ToSet
  <2> QED
    BY <1>0, <1>6, <2>1, EnqueueAdds
<1> QED
  BY <1>0, <1>1, <1>2, <1>3, <1>4, <1>5, <1>6, QueueCases

(* A runner becomes done by taking a quit task, and stays so.               *)
LEMMA DoneCases ==
    ASSUME SInv, [Next]_vars, NEW s \in Runners
    PROVE  /\ rpc[s] = "done" => rpc'[s] = "done"
           /\ rpc'[s] = "done" =>
                \/ rpc[s] = "done" /\ rtask'[s] = rtask[s]
                \/ RunnerDequeue(s) /\ Dequeue /\ rtask'[s] = head /\ head \in QuitTasks
<1>0. TypeOK
  BY SInvFacts
<1>1. ASSUME NEW r \in Runners, RunnerDequeue(r)
      PROVE  /\ rpc[s] = "done" => rpc'[s] = "done"
             /\ rpc'[s] = "done" =>
                  \/ rpc[s] = "done" /\ rtask'[s] = rtask[s]
                  \/ RunnerDequeue(s) /\ Dequeue /\ rtask'[s] = head /\ head \in QuitTasks
  <2>1. CASE head = NoTask
    BY <1>0, <1>1, <2>1 DEF RunnerDequeue, TypeOK
  <2>2. CASE head # NoTask
    <3>1. /\ rpc[r] = "dequeue" /\ Dequeue /\ rtask' = [rtask EXCEPT ![r] = head]
          /\ rpc' = [rpc EXCEPT ![r] = IF head \in QuitTasks THEN "done" ELSE "current"]
      BY <1>1, <2>2 DEF RunnerDequeue
    <3> QED
      BY <1>0, <1>1, <3>1 DEF TypeOK
  <2> QED
    BY <2>1, <2>2
<1>2. ASSUME NEW r \in Runners, RunnerStep(r) \/ RunnerSpuriousWakeup(r), ~RunnerDequeue(r)
      PROVE  rpc'[s] = "done" <=> rpc[s] = "done"
  BY <1>0, <1>2
  DEF RunnerStep, RunnerSpuriousWakeup, RunnerSetCurrent, RunnerEndRun, RunnerGroupDec,
      RunnerGroupNotify, RunnerClearCurrent, RunnerTaskFinished, RunnerFinishNotify, TypeOK
<1>3. ASSUME NEW r \in Runners, RunnerStep(r) \/ RunnerSpuriousWakeup(r), ~RunnerDequeue(r),
             rpc[s] = "done"
      PROVE  rtask'[s] = rtask[s]
  BY <1>0, <1>3
  DEF RunnerStep, RunnerSpuriousWakeup, RunnerSetCurrent, RunnerEndRun, RunnerGroupDec,
      RunnerGroupNotify, RunnerClearCurrent, RunnerTaskFinished, RunnerFinishNotify, TypeOK
<1>4. ASSUME NEW g \in Groups,
             GroupStep(g) \/ GroupStart(g) \/ GroupResume(g) \/ GroupSpuriousWakeup(g)
      PROVE  (rpc'[s] = "done" <=> rpc[s] = "done") /\ rtask' = rtask
  BY <1>0, <1>4
  DEF GroupStep, GroupStart, GroupResume, GroupSpuriousWakeup, GroupCount, GroupEnqueue,
      GroupNotifyAll, GroupTakeFirst, GroupTakeQueued, GroupSkipTaken, GroupLoopEnds, GroupEndRun,
      GroupTaskFinished, GroupFinishNotify, GroupDec, GroupWait, WakeAllRunners, runnerVars, TypeOK
<1>5. ASSUME NEW c \in Clients, ClientStep(c) \/ Add(c) \/ WaitStart(c) \/ WaitSpuriousWakeup(c)
      PROVE  (rpc'[s] = "done" <=> rpc[s] = "done") /\ rtask' = rtask
  BY <1>0, <1>5
  DEF ClientStep, Add, AddCount, WaitStart, WaitSpuriousWakeup, AddEnqueue, AddNotify, WaitCheck,
      WaitReturn, DrainDequeue, DrainEndRun, DrainDec, WakeOneRunner, WakeAllRunners, runnerVars,
      TypeOK
<1>6. CASE QuitStep \/ QuitStart \/ UNCHANGED vars
  <2>1. (rpc'[s] = "done" <=> rpc[s] = "done") /\ rtask' = rtask
    BY <1>0, <1>6
    DEF QuitStep, QuitStart, QuitEnqueue, QuitNotify, QuitJoin, WakeOneRunner, vars, runnerVars,
        TypeOK
  <2> QED
    BY <2>1
<1> QED
  BY <1>1, <1>2, <1>3, <1>4, <1>5, <1>6 DEF Next, Working, Calling, SpuriousWakeup, Destroyed

LEMMA DoneStep ==
    ASSUME SInv, [Next]_vars
    PROVE  DoneInv'
<1>0. TypeOK /\ IInv /\ QueueInv /\ QuitInv /\ DoneInv /\ quits \subseteq QuitTasks
  BY SInvFacts DEF TypeOK
<1>1. quits \subseteq quits' /\ \A q \in quits : ~in_queue[q] => ~in_queue'[q]
  BY NotRequeued
<1>2. ASSUME NEW s \in Runners, RunnerDequeue(s), Dequeue, head \in QuitTasks
      PROVE  head \in quits /\ in_queue[head] /\ ~in_queue'[head]
  BY <1>0, <1>2, DequeueRemoves DEF QueueInv, QuitInv
<1>3. ASSUME NEW s \in Runners, rpc'[s] = "done"
      PROVE  rtask'[s] \in quits' /\ ~in_queue'[rtask'[s]]
  BY <1>0, <1>1, <1>2, <1>3, DoneCases DEF DoneInv
<1>4. ASSUME NEW r \in Runners, NEW s \in Runners,
             rpc'[r] = "done", rpc'[s] = "done", rtask'[r] = rtask'[s]
      PROVE  r = s
  <2>1. CASE rpc[r] = "done" /\ rpc[s] = "done" /\ rtask'[r] = rtask[r] /\ rtask'[s] = rtask[s]
    BY <1>0, <1>4, <2>1 DEF DoneInv
  <2>2. ASSUME NEW u \in Runners, NEW w \in Runners, rtask'[u] = rtask'[w],
               rpc[u] = "done", rtask'[u] = rtask[u],
               RunnerDequeue(w), Dequeue, rtask'[w] = head, head \in QuitTasks
        PROVE  FALSE
    BY <1>0, <1>2, <2>2 DEF DoneInv
  <2>3. CASE /\ RunnerDequeue(r) /\ RunnerDequeue(s) /\ Dequeue
             /\ rpc[r] # "done" /\ rpc[s] # "done"
    <3>1. head # NoTask
      BY <2>3 DEF Dequeue
    <3>2. \A u \in Runners : RunnerDequeue(u) /\ rpc'[u] = "done" =>
            rpc' = [rpc EXCEPT ![u] = "done"]
      BY <1>0, <3>1 DEF RunnerDequeue, TypeOK
    <3> QED
      BY <1>0, <1>4, <2>3, <3>2 DEF TypeOK
  <2>4. rpc[r] = "done" \/ (RunnerDequeue(r) /\ Dequeue /\ rtask'[r] = head /\ head \in QuitTasks)
    BY <1>4, DoneCases
  <2>5. rpc[s] = "done" \/ (RunnerDequeue(s) /\ Dequeue /\ rtask'[s] = head /\ head \in QuitTasks)
    BY <1>4, DoneCases
  <2>6. \A u \in {r, s} : rpc[u] = "done" => rtask'[u] = rtask[u]
    <3>1. \A u \in Runners : RunnerDequeue(u) => rpc[u] # "done"
      BY DEF RunnerDequeue
    <3> QED
      BY <1>4, <3>1, DoneCases
  <2> QED
    BY <1>4, <2>1, <2>2, <2>3, <2>4, <2>5, <2>6
<1> QED
  BY <1>3, <1>4 DEF DoneInv

-----------------------------------------------------------------------------
(* Steps that leave the clients' tasks where they are.                      *)
LEMMA PlacedKept ==
    ASSUME SInv,
           \A t \in outstanding' : t \in outstanding \/ \E g \in Groups : t \in Members(g),
           \A t \in PlainTasks : in_queue[t] => in_queue'[t],
           \A c \in Clients : cpc[c] = "enqueue" => cpc'[c] = "enqueue" /\ carg'[c] = carg[c],
           \A r \in Runners : rpc[r] \in {"current", "run"} =>
               \/ rpc'[r] \in {"current", "run"} /\ rtask'[r] = rtask[r]
               \/ rtask[r] \notin outstanding'
    PROVE  Placed'
<1>1. Placed
  BY SInvFacts
<1> QED
  BY <1>1 DEF Placed, ClientHas

LEMMA PlacedStep ==
    ASSUME SInv, [Next]_vars
    PROVE  Placed'
<1>0. /\ TypeOK /\ IInv /\ Placed /\ QuitInv /\ QueueTypeOK
      /\ PlainTasks \subseteq Task /\ \A c \in Clients : cpc[c] \notin {"drain", "drainRun", "drainDec"}
  BY SInvFacts, TaskManagerAssumption
<1>1. ASSUME NEW r \in Runners, RunnerDequeue(r)
      PROVE  Placed'
  <2>1. CASE head = NoTask
    BY <1>0, <1>1, <2>1, PlacedKept DEF RunnerDequeue, queueVars, clientVars, history, TypeOK
  <2>2. CASE head # NoTask
    <3>1. /\ rpc[r] = "dequeue" /\ Dequeue /\ rtask' = [rtask EXCEPT ![r] = head]
          /\ rpc' = [rpc EXCEPT ![r] = IF head \in QuitTasks THEN "done" ELSE "current"]
          /\ UNCHANGED <<cpc, carg, outstanding>>
      BY <1>1, <2>2 DEF RunnerDequeue, clientVars, history
    <3>2. \A t \in Task : in_queue'[t] <=> in_queue[t] /\ t # head
      BY <1>0, <3>1, DequeueRemoves
    <3>3. head \in outstanding => rpc'[r] = "current" /\ rtask'[r] = head
      BY <1>0, <3>1 DEF QuitInv, TypeOK
    <3>4. \A s \in Runners : rpc[s] \in {"current", "run"} => rpc'[s] = rpc[s] /\ rtask'[s] = rtask[s]
      BY <1>0, <3>1 DEF TypeOK
    <3>5. \A c \in Clients, t \in Task : ClientHas(c, t)' <=> ClientHas(c, t)
      BY <3>1 DEF ClientHas
    <3> QED
      BY <1>0, <3>1, <3>2, <3>3, <3>4, <3>5 DEF Placed
  <2> QED
    BY <2>1, <2>2
<1>2. ASSUME NEW r \in Runners, RunnerStep(r) \/ RunnerSpuriousWakeup(r), ~RunnerDequeue(r)
      PROVE  Placed'
  <2>1. /\ outstanding' \subseteq outstanding /\ UNCHANGED <<in_queue, carg>>
        /\ \A c \in Clients : cpc[c] = "enqueue" => cpc'[c] = "enqueue"
    BY <1>0, <1>2
    DEF RunnerStep, RunnerSpuriousWakeup, RunnerSetCurrent, RunnerEndRun, RecordEnd, RunnerGroupDec,
        RunnerGroupNotify, RunnerClearCurrent, RunnerTaskFinished, RunnerFinishNotify,
        WakeAllWaiters, queueVars, clientVars, history, TypeOK
  <2>2. \A s \in Runners : rpc[s] \in {"current", "run"} =>
            \/ rpc'[s] \in {"current", "run"} /\ rtask'[s] = rtask[s]
            \/ rtask[s] \notin outstanding'
    BY <1>0, <1>2
    DEF RunnerStep, RunnerSpuriousWakeup, RunnerSetCurrent, RunnerEndRun, RecordEnd, RunnerGroupDec,
        RunnerGroupNotify, RunnerClearCurrent, RunnerTaskFinished, RunnerFinishNotify, TypeOK
  <2> QED
    BY <2>1, <2>2, PlacedKept
<1>3. ASSUME NEW g \in Groups,
             GroupStep(g) \/ GroupStart(g) \/ GroupResume(g) \/ GroupSpuriousWakeup(g)
      PROVE  Placed'
  <2>1. /\ outstanding' \subseteq outstanding \cup Members(g)
        /\ carg' = carg /\ \A c \in Clients : cpc[c] = "enqueue" => cpc'[c] = "enqueue"
    BY <1>0, <1>3
    DEF GroupStep, GroupStart, GroupResume, GroupSpuriousWakeup, GroupCount, GroupEnqueue,
        GroupNotifyAll, GroupTakeFirst, GroupTakeQueued, GroupSkipTaken, GroupLoopEnds, GroupEndRun,
        RecordEnd, GroupTaskFinished, GroupFinishNotify, GroupDec, GroupWait, WakeAllWaiters,
        clientVars, history, TypeOK
  <2>2. \A s \in Runners : rpc[s] \in {"current", "run"} => rpc'[s] = rpc[s] /\ rtask'[s] = rtask[s]
    BY <1>0, <1>3
    DEF GroupStep, GroupStart, GroupResume, GroupSpuriousWakeup, GroupCount, GroupEnqueue,
        GroupNotifyAll, GroupTakeFirst, GroupTakeQueued, GroupSkipTaken, GroupLoopEnds, GroupEndRun,
        GroupTaskFinished, GroupFinishNotify, GroupDec, GroupWait, WakeAllRunners, runnerVars, TypeOK
  <2>3. \A t \in PlainTasks : in_queue[t] => in_queue'[t]
    <3>1. CASE GroupEnqueue(g)
      BY <1>0, <3>1, QueuedFacts, EnqueueAdds DEF GroupEnqueue
    <3>2. CASE GroupTakeQueued(g)
      <4>1. Current(g) \notin PlainTasks
        BY <3>2, GroupFacts DEF GroupTakeQueued, Current
      <4> QED
        BY <1>0, <3>2, <4>1 DEF GroupTakeQueued, Unlink, QueueTypeOK
    <3>3. CASE ~GroupEnqueue(g) /\ ~GroupTakeQueued(g)
      <4>1. in_queue' = in_queue
        BY <1>3, <3>3
        DEF GroupStep, GroupStart, GroupResume, GroupSpuriousWakeup, GroupCount, GroupNotifyAll,
            GroupTakeFirst, GroupSkipTaken, GroupLoopEnds, GroupEndRun, GroupTaskFinished,
            GroupFinishNotify, GroupDec, GroupWait, queueVars
      <4> QED
        BY <4>1
    <3> QED
      BY <3>1, <3>2, <3>3
  <2> QED
    BY <2>1, <2>2, <2>3, PlacedKept
<1>4. ASSUME NEW c \in Clients, Add(c)
      PROVE  Placed'
  <2>1. PICK S \in SUBSET Addable : \E ts \in SetToSeqs(S) : AddCount(c, ts)
    BY <1>4 DEF Add
  <2>2. PICK ts \in SetToSeqs(S) : AddCount(c, ts)
    BY <2>1
  <2>3. ToSet(ts) \subseteq PlainTasks
    <3>1. S \in SUBSET Task /\ S \subseteq PlainTasks
      BY <1>0 DEF Addable
    <3> QED
      BY <2>2, <3>1, SetToSeqsIsInjective
  <2>4. /\ cpc[c] = "idle" /\ cpc' = [cpc EXCEPT ![c] = "enqueue"] /\ carg' = [carg EXCEPT ![c] = ts]
        /\ UNCHANGED <<in_queue, rpc, rtask>> /\ outstanding' = outstanding \cup ToSet(ts)
    BY <2>2 DEF AddCount, queueVars, runnerVars
  <2>5. \A d \in Clients, t \in Task :
          cpc[d] = "enqueue" /\ ClientHas(d, t) => cpc'[d] = "enqueue" /\ ClientHas(d, t)'
    BY <1>0, <2>4 DEF ClientHas, TypeOK
  <2>6. \A t \in ToSet(ts) : cpc'[c] = "enqueue" /\ ClientHas(c, t)'
    BY <1>0, <2>4 DEF ClientHas, TypeOK
  <2> QED
    BY <1>0, <2>3, <2>4, <2>5, <2>6 DEF Placed
<1>5. ASSUME NEW c \in Clients, AddEnqueue(c)
      PROVE  Placed'
  <2>1. /\ cpc[c] = "enqueue" /\ UNCHANGED <<rpc, rtask, outstanding>>
        /\ \A d \in Clients : d # c => cpc'[d] = cpc[d] /\ carg'[d] = carg[d]
    BY <1>0, <1>5 DEF AddEnqueue, runnerVars, history, TypeOK
  <2>2. \A t \in Task : in_queue'[t] <=> t \in ToSet(carg[c]) \/ in_queue[t]
    BY <1>0, <1>5, EnqueueAdds DEF AddEnqueue, TypeOK
  <2>3. \A d \in Clients, t \in Task : d # c /\ ClientHas(d, t) => ClientHas(d, t)'
    BY <2>1 DEF ClientHas
  <2>4. \A t \in Task : ClientHas(c, t) => in_queue'[t]
    BY <2>2 DEF ClientHas
  <2> QED
    BY <1>0, <2>1, <2>2, <2>3, <2>4 DEF Placed
<1>6. ASSUME NEW c \in Clients,
             \/ AddNotify(c) \/ WaitStart(c) \/ WaitCheck(c) \/ WaitSpuriousWakeup(c) \/ WaitReturn(c)
      PROVE  Placed'
  <2>1. /\ UNCHANGED <<in_queue, outstanding, rtask, carg>>
        /\ \A d \in Clients : cpc[d] = "enqueue" => cpc'[d] = "enqueue"
        /\ \A s \in Runners : rpc[s] \in {"current", "run"} => rpc'[s] = rpc[s]
    BY <1>0, <1>6
    DEF AddNotify, WaitStart, WaitCheck, WaitSpuriousWakeup, WaitReturn, WakeOneRunner,
        WakeAllRunners, queueVars, runnerVars, history, TypeOK
  <2> QED
    BY <2>1, PlacedKept
<1>7. CASE QuitStep \/ QuitStart \/ UNCHANGED vars
  <2>1. /\ UNCHANGED <<outstanding, rtask, cpc, carg>>
        /\ \A s \in Runners : rpc[s] \in {"current", "run"} => rpc'[s] = rpc[s]
    BY <1>0, <1>7
    DEF QuitStep, QuitStart, QuitEnqueue, QuitNotify, QuitJoin, WakeOneRunner, vars, runnerVars,
        clientVars, history, TypeOK
  <2>2. \A t \in PlainTasks : in_queue[t] => in_queue'[t]
    <3>1. ASSUME NEW q \in QuitTasks \ quits, Enqueue(<<q>>)
          PROVE  \A t \in PlainTasks : in_queue[t] => in_queue'[t]
      <4>1. <<q>> \in Seq(Task)
        BY TaskManagerAssumption
      <4> QED
        BY <1>0, <3>1, <4>1, EnqueueAdds
    <3>2. UNCHANGED queueVars \/ \E q \in QuitTasks \ quits : Enqueue(<<q>>)
      BY <1>7 DEF QuitStep, QuitStart, QuitEnqueue, QuitNotify, QuitJoin, vars
    <3> QED
      BY <3>1, <3>2 DEF queueVars
  <2> QED
    BY <2>1, <2>2, PlacedKept
<1> QED
  BY <1>0, <1>1, <1>2, <1>3, <1>4, <1>5, <1>6, <1>7
  DEF Next, Working, Calling, SpuriousWakeup, Destroyed, ClientStep, DrainDequeue, DrainEndRun, DrainDec
-----------------------------------------------------------------------------
(* Steps that end no run() and begin no call.                               *)
LEMMA NestingKept ==
    ASSUME SInv,
           \A g \in Groups : gpc'[g] # "idle" => gpc[g] # "idle",
           \A t \in Task : RunBy(t) => RunBy(t)',
           \A h, g \in Groups : Nests(h, g)' /\ gpc'[g] # "idle" => Nests(h, g)
    PROVE  Parents' /\ Grounded'
<1>1. Parents /\ Grounded
  BY SInvFacts
<1>2. Parents'
  BY <1>1 DEF Parents, TopLevel
<1>3. Grounded'
  <2> SUFFICES ASSUME NEW X \in SUBSET Groups,
                      \A g \in X : gpc'[g] # "idle" /\ \E h \in X : Nests(h, g)'
               PROVE  X = {}
    BY DEF Grounded
  <2>1. \A g \in X : gpc[g] # "idle" /\ \E h \in X : Nests(h, g)
    OBVIOUS
  <2> QED
    BY <1>1, <2>1 DEF Grounded
<1> QED
  BY <1>2, <1>3

(* The end of t's run() is the end of its call, and of no other.            *)
LEMMA NestingEnd ==
    ASSUME SInv, NEW t \in Task, MayEnd(t),
           \A g \in Groups : gpc'[g] # "idle" => gpc[g] # "idle" /\ g # Nested[t],
           \A u \in Task : u # t /\ RunBy(u) => RunBy(u)',
           \A h, g \in Groups : Nests(h, g)' /\ gpc'[g] # "idle" => Nests(h, g)
    PROVE  Parents' /\ Grounded'
<1>1. Parents /\ Grounded
  BY SInvFacts
<1>2. Parents'
  <2> SUFFICES ASSUME NEW g \in Groups, gpc'[g] # "idle", ~TopLevel(g)
               PROVE  \E u \in Task : Nested[u] = g /\ RunBy(u)'
    BY DEF Parents, TopLevel
  <2>1. PICK u \in Task : Nested[u] = g /\ RunBy(u)
    BY <1>1 DEF Parents
  <2> QED
    BY <2>1
<1>3. Grounded'
  <2> SUFFICES ASSUME NEW X \in SUBSET Groups,
                      \A g \in X : gpc'[g] # "idle" /\ \E h \in X : Nests(h, g)'
               PROVE  X = {}
    BY DEF Grounded
  <2>1. \A g \in X : gpc[g] # "idle" /\ \E h \in X : Nests(h, g)
    OBVIOUS
  <2> QED
    BY <1>1, <2>1 DEF Grounded
<1> QED
  BY <1>2, <1>3

(* A group call that is about to run its next task has not run it yet, so   *)
(* that the call this task is to make has not begun.                        *)
LEMMA NextNotBegun ==
    ASSUME SInv, NEW g \in Groups, GroupTakeFirst(g) \/ GroupTakeQueued(g)
    PROVE  \A k \in Groups : Nested[Current(g)] = k => gpc[k] = "idle"
<1>0. /\ TypeOK /\ IInv /\ Exclusive /\ Parents /\ NoGroup \notin Groups
      /\ \A c \in Clients : cpc[c] \notin {"drain", "drainRun", "drainDec"}
  BY SInvFacts, TaskManagerAssumption
<1>1. gpc[g] = "take" /\ Current(g) \in Task /\ Current(g) \in Members(g)
  BY GroupFacts DEF GroupTakeFirst, GroupTakeQueued, Current
<1>2. ~RunBy(Current(g))
  <2>1. CASE GroupTakeFirst(g)
    <3>1. GroupHas(g, Current(g))
      BY <2>1 DEF GroupTakeFirst, GroupHas, Current
    <3>2. \A r \in Runners : ~(rpc[r] = "run" /\ rtask[r] = Current(g))
      BY <1>0, <1>1, <3>1 DEF Exclusive, RunnerHas
    <3>3. \A h \in Groups : ~(gpc[h] = "run" /\ Current(h) = Current(g))
      <4> SUFFICES ASSUME NEW h \in Groups, gpc[h] = "run", Current(h) = Current(g)
                   PROVE  FALSE
        OBVIOUS
      <4>1. Current(h) \in Members(h)
        BY <1>0, GroupFacts DEF IInv, Custody, GroupsInv, Current
      <4>2. h = g
        BY <1>1, <4>1, GroupFacts
      <4> QED
        BY <1>1, <4>2
    <3> QED
      BY <1>0, <3>2, <3>3 DEF RunBy
  <2>2. CASE GroupTakeQueued(g)
    <3>1. in_queue[Current(g)]
      BY <2>2 DEF GroupTakeQueued, Unlink
    <3> QED
      BY <1>0, <1>1, <3>1, RunByOutstanding
  <2> QED
    BY <2>1, <2>2
<1>3. SUFFICES ASSUME NEW k \in Groups, Nested[Current(g)] = k, gpc[k] # "idle"
               PROVE  FALSE
  OBVIOUS
<1>4. ~TopLevel(k)
  BY <1>1, <1>3 DEF TopLevel
<1>5. PICK u \in Task : Nested[u] = k /\ RunBy(u)
  BY <1>0, <1>3, <1>4 DEF Parents
<1>6. u = Current(g)
  BY <1>0, <1>1, <1>3, <1>5, TaskManagerAssumption
<1> QED
  BY <1>2, <1>5, <1>6

LEMMA NestingStep ==
    ASSUME SInv, [Next]_vars
    PROVE  Parents' /\ Grounded'
<1>0. /\ TypeOK /\ RunnersInv /\ GroupsInv /\ Parents /\ Grounded
      /\ NoGroup \notin Groups
      /\ \A c \in Clients : cpc[c] \notin {"drain", "drainRun", "drainDec"}
  BY SInvFacts, TaskManagerAssumption
<1>1. ASSUME NEW r \in Runners, RunnerEndRun(r)
      PROVE  Parents' /\ Grounded'
  <2> DEFINE t == rtask[r]
  <2>1. /\ t \in Task /\ MayEnd(t) /\ rpc[r] = "run" /\ UNCHANGED <<rtask, gi, cpc, carg>>
        /\ gpc' = AfterEnd(t, gpc)
        /\ \A s \in Runners : s # r => rpc'[s] = rpc[s]
    BY <1>0, <1>1 DEF RunnerEndRun, RunnersInv, clientVars, TypeOK
  <2> HIDE DEF t
  <2>2. \A g \in Groups : gpc'[g] # "idle" => gpc'[g] = gpc[g] /\ g # Nested[t]
    BY <2>1 DEF AfterEnd
  <2>3. \A g \in Groups : gpc[g] = "run" => gpc'[g] = "run"
    BY <1>0, <2>1 DEF AfterEnd, MayEnd
  <2>4. \A u \in Task : u # t /\ RunBy(u) => RunBy(u)'
    BY <1>0, <2>1, <2>3 DEF RunBy, Current, t
  <2>5. \A h, g \in Groups : Nests(h, g)' /\ gpc'[g] # "idle" => Nests(h, g)
    BY <2>1, <2>2 DEF Nests, Current
  <2> QED
    BY <2>1, <2>2, <2>4, <2>5, NestingEnd
<1>2. ASSUME NEW r \in Runners, RunnerStep(r) \/ RunnerSpuriousWakeup(r), ~RunnerEndRun(r)
      PROVE  Parents' /\ Grounded'
  <2>1. /\ gi' = gi /\ carg' = carg
        /\ \A g \in Groups : gpc'[g] = gpc[g] \/ (gpc[g] = "asleep" /\ gpc'[g] = "wait")
    BY <1>0, <1>2
    DEF RunnerStep, RunnerSpuriousWakeup, RunnerDequeue, RunnerSetCurrent, RunnerGroupDec,
        RunnerGroupNotify, RunnerClearCurrent, RunnerTaskFinished, RunnerFinishNotify,
        groupVars, clientVars, TypeOK
  <2>2. \A s \in Runners : rpc[s] = "run" => rpc'[s] = "run" /\ rtask'[s] = rtask[s]
    BY <1>0, <1>2
    DEF RunnerStep, RunnerSpuriousWakeup, RunnerDequeue, RunnerSetCurrent, RunnerGroupDec,
        RunnerGroupNotify, RunnerClearCurrent, RunnerTaskFinished, RunnerFinishNotify, TypeOK
  <2>3. \A u \in Task : RunBy(u) => RunBy(u)'
    BY <1>0, <2>1, <2>2 DEF RunBy, Current
  <2>4. \A h, g \in Groups : Nests(h, g)' => Nests(h, g)
    BY <2>1 DEF Nests, Current
  <2> QED
    BY <2>1, <2>3, <2>4, NestingKept
<1>3. ASSUME NEW g \in Groups, GroupStart(g)
      PROVE  Parents' /\ Grounded'
  <2>1. /\ gpc[g] = "idle" /\ gpc' = [gpc EXCEPT ![g] = "count"]
        /\ UNCHANGED <<rpc, rtask, gi, cpc, carg>>
        /\ TopLevel(g) \/ \E t \in Task : Nested[t] = g /\ RunBy(t)
    BY <1>3 DEF GroupStart, runnerVars, clientVars
  <2>2. \A h \in Groups : gpc'[h] = IF h = g THEN "count" ELSE gpc[h]
    BY <1>0, <2>1 DEF TypeOK
  <2>3. \A u \in Task : RunBy(u) <=> RunBy(u)'
    BY <2>1, <2>2 DEF RunBy, Current
  <2>4. \A h, k \in Groups : Nests(h, k)' => Nests(h, k) /\ h # g
    BY <2>1, <2>2 DEF Nests, Current
  <2>5. Parents'
    <3> SUFFICES ASSUME NEW k \in Groups, gpc'[k] # "idle", ~TopLevel(k)
                 PROVE  \E u \in Task : Nested[u] = k /\ RunBy(u)'
      BY DEF Parents, TopLevel
    <3>1. CASE k = g
      BY <2>1, <2>3, <3>1
    <3>2. CASE k # g
      BY <1>0, <2>2, <2>3, <3>2 DEF Parents
    <3> QED
      BY <3>1, <3>2
  <2>6. Grounded'
    <3> SUFFICES ASSUME NEW X \in SUBSET Groups,
                        \A k \in X : gpc'[k] # "idle" /\ \E h \in X : Nests(h, k)'
                 PROVE  X = {}
      BY DEF Grounded
    <3>1. \A k \in X \ {g} : gpc[k] # "idle" /\ \E h \in X \ {g} : Nests(h, k)
      BY <2>2, <2>4
    <3>2. X \ {g} = {}
      BY <1>0, <3>1 DEF Grounded
    <3> QED
      BY <2>4, <3>2
  <2> QED
    BY <2>5, <2>6
<1>4. ASSUME NEW g \in Groups, GroupTakeFirst(g) \/ GroupTakeQueued(g)
      PROVE  Parents' /\ Grounded'
  <2>1. /\ gpc[g] = "take" /\ gpc' = [gpc EXCEPT ![g] = "run"]
        /\ UNCHANGED <<rpc, rtask, gi, cpc, carg>>
    BY <1>4 DEF GroupTakeFirst, GroupTakeQueued, runnerVars, clientVars
  <2>2. \A h \in Groups : gpc'[h] = IF h = g THEN "run" ELSE gpc[h]
    BY <1>0, <2>1 DEF TypeOK
  <2>3. \A u \in Task : RunBy(u) => RunBy(u)'
    BY <2>1, <2>2 DEF RunBy, Current
  <2>4. \A h, k \in Groups : Nests(h, k)' /\ gpc'[k] # "idle" => Nests(h, k)
    <3> SUFFICES ASSUME NEW h \in Groups, NEW k \in Groups, Nests(h, k)', gpc'[k] # "idle"
                 PROVE  Nests(h, k)
      OBVIOUS
    <3>1. CASE h = g
      <4>1. Nested[Current(g)] = k
        BY <2>1, <3>1 DEF Nests, Current
      <4>2. gpc[k] = "idle"
        BY <1>4, <4>1, NextNotBegun
      <4> QED
        BY <2>1, <2>2, <4>2
    <3>2. CASE h # g
      BY <2>1, <2>2, <3>2 DEF Nests, Current
    <3> QED
      BY <3>1, <3>2
  <2> QED
    BY <2>1, <2>2, <2>3, <2>4, NestingKept
<1>5. ASSUME NEW g \in Groups, GroupEndRun(g)
      PROVE  Parents' /\ Grounded'
  <2> DEFINE t == Current(g)
  <2>1. /\ t \in Task /\ MayEnd(t) /\ gpc[g] = "run" /\ UNCHANGED <<rpc, rtask, gi, cpc, carg>>
        /\ gpc' = AfterEnd(t, [gpc EXCEPT ![g] = "finish"])
    BY <1>0, <1>5, GroupFacts DEF GroupEndRun, GroupsInv, Current, runnerVars, clientVars
  <2> HIDE DEF t
  <2>2. \A h \in Groups :
          gpc'[h] = IF h = Nested[t] THEN "idle" ELSE IF h = g THEN "finish" ELSE gpc[h]
    BY <1>0, <2>1 DEF AfterEnd, TypeOK
  <2>3. \A h \in Groups : gpc[h] = "run" /\ h # g => gpc'[h] = "run"
    BY <1>0, <2>1, <2>2 DEF MayEnd
  <2>4. \A u \in Task : u # t /\ RunBy(u) => RunBy(u)'
    BY <1>0, <2>1, <2>3 DEF RunBy, Current, t
  <2>5. \A h, k \in Groups : Nests(h, k)' => Nests(h, k)
    BY <2>1, <2>2 DEF Nests, Current
  <2> QED
    BY <2>1, <2>2, <2>4, <2>5, NestingEnd
<1>6. ASSUME NEW g \in Groups,
             \/ GroupResume(g) \/ GroupSpuriousWakeup(g) \/ GroupCount(g) \/ GroupEnqueue(g)
             \/ GroupNotifyAll(g) \/ GroupSkipTaken(g) \/ GroupLoopEnds(g) \/ GroupTaskFinished(g)
             \/ GroupFinishNotify(g) \/ GroupDec(g) \/ GroupWait(g)
      PROVE  Parents' /\ Grounded'
  <2>1. /\ \A h \in Groups : /\ gpc'[h] # "idle" => gpc[h] # "idle"
                             /\ gpc'[h] = "run" <=> gpc[h] = "run"
                             /\ gpc[h] = "run" => gi'[h] = gi[h]
        /\ rtask' = rtask /\ carg' = carg
    BY <1>0, <1>6
    DEF GroupResume, GroupSpuriousWakeup, GroupCount, GroupEnqueue, GroupNotifyAll, GroupSkipTaken,
        GroupLoopEnds, GroupTaskFinished, GroupFinishNotify, GroupDec, GroupWait, runnerVars,
        clientVars, TypeOK
  <2>2. \A s \in Runners : rpc[s] = "run" => rpc'[s] = "run"
    BY <1>0, <1>6
    DEF GroupResume, GroupSpuriousWakeup, GroupCount, GroupEnqueue, GroupNotifyAll, GroupSkipTaken,
        GroupLoopEnds, GroupTaskFinished, GroupFinishNotify, GroupDec, GroupWait, WakeAllRunners,
        runnerVars, TypeOK
  <2>3. \A u \in Task : RunBy(u) => RunBy(u)'
    BY <1>0, <2>1, <2>2 DEF RunBy, Current
  <2>4. \A h, k \in Groups : Nests(h, k)' => Nests(h, k)
    BY <2>1 DEF Nests, Current
  <2> QED
    BY <2>1, <2>3, <2>4, NestingKept
<1>7. ASSUME \/ \E c \in Clients : ClientStep(c) \/ Add(c) \/ WaitStart(c) \/ WaitSpuriousWakeup(c)
             \/ QuitStep \/ QuitStart \/ UNCHANGED vars
      PROVE  Parents' /\ Grounded'
  <2>1. UNCHANGED <<rtask, gpc, gi>>
    BY <1>0, <1>7
    DEF ClientStep, Add, AddCount, WaitStart, WaitSpuriousWakeup, AddEnqueue, AddNotify, WaitCheck,
        WaitReturn, DrainDequeue, DrainEndRun, DrainDec, QuitStep, QuitStart, QuitEnqueue,
        QuitNotify, QuitJoin, vars, runnerVars, groupVars
  <2>2. \A s \in Runners : rpc[s] = "run" => rpc'[s] = "run"
    BY <1>0, <1>7
    DEF ClientStep, Add, AddCount, WaitStart, WaitSpuriousWakeup, AddEnqueue, AddNotify, WaitCheck,
        WaitReturn, DrainDequeue, DrainEndRun, DrainDec, QuitStep, QuitStart, QuitEnqueue,
        QuitNotify, QuitJoin, WakeOneRunner, WakeAllRunners, vars, runnerVars, TypeOK
  <2>3. \A u \in Task : RunBy(u) => RunBy(u)'
    BY <1>0, <2>1, <2>2 DEF RunBy, Current
  <2>4. \A h, k \in Groups : Nests(h, k)' => Nests(h, k)
    BY <2>1 DEF Nests, Current
  <2> QED
    BY <2>1, <2>3, <2>4, NestingKept
<1> QED
  BY <1>1, <1>2, <1>3, <1>4, <1>5, <1>6, <1>7
  DEF Next, Working, Calling, SpuriousWakeup, Destroyed, GroupStep

-----------------------------------------------------------------------------
LEMMA QuitPhaseStep ==
    ASSUME SInv, [Next]_vars
    PROVE  QuitPhase'
<1>0. TypeOK /\ QuitPhase
  BY SInvFacts
<1>1. \A s \in Runners : rpc[s] = "done" => rpc'[s] = "done"
  BY DoneCases
<1>2. ASSUME UNCHANGED <<mpc, quits>>,
             mpc # "alive" => \A g \in Groups : TopLevel(g) /\ gpc[g] = "idle" => gpc'[g] = "idle"
      PROVE  QuitPhase'
  BY <1>0, <1>1, <1>2 DEF QuitPhase, TopLevel
<1>3. ASSUME NEW r \in Runners, RunnerStep(r) \/ RunnerSpuriousWakeup(r)
      PROVE  QuitPhase'
  <2>1. UNCHANGED <<mpc, quits>> /\ \A g \in Groups : gpc[g] = "idle" => gpc'[g] = "idle"
    BY <1>0, <1>3
    DEF RunnerStep, RunnerSpuriousWakeup, RunnerDequeue, RunnerSetCurrent, RunnerEndRun, AfterEnd,
        RunnerGroupDec, RunnerGroupNotify, RunnerClearCurrent, RunnerTaskFinished,
        RunnerFinishNotify, groupVars, quitVars, TypeOK
  <2> QED
    BY <1>2, <2>1
<1>4. ASSUME NEW g \in Groups, GroupStart(g)
      PROVE  QuitPhase'
  BY <1>0, <1>2, <1>4 DEF GroupStart, quitVars, TypeOK
<1>5. ASSUME NEW g \in Groups, GroupStep(g) \/ GroupResume(g) \/ GroupSpuriousWakeup(g)
      PROVE  QuitPhase'
  <2>1. UNCHANGED <<mpc, quits>> /\ \A h \in Groups : gpc[h] = "idle" => gpc'[h] = "idle"
    BY <1>0, <1>5
    DEF GroupStep, GroupResume, GroupSpuriousWakeup, GroupCount, GroupEnqueue, GroupNotifyAll,
        GroupTakeFirst, GroupTakeQueued, GroupSkipTaken, GroupLoopEnds, GroupEndRun, AfterEnd,
        GroupTaskFinished, GroupFinishNotify, GroupDec, GroupWait, quitVars, TypeOK
  <2> QED
    BY <1>2, <2>1
<1>6. ASSUME NEW c \in Clients, ClientStep(c) \/ Add(c) \/ WaitStart(c) \/ WaitSpuriousWakeup(c)
      PROVE  QuitPhase'
  <2>1. UNCHANGED <<mpc, quits>> /\ \A h \in Groups : gpc[h] = "idle" => gpc'[h] = "idle"
    BY <1>0, <1>6
    DEF ClientStep, Add, AddCount, WaitStart, WaitSpuriousWakeup, AddEnqueue, AddNotify, WaitCheck,
        WaitReturn, DrainDequeue, DrainEndRun, DrainDec, AfterEnd, groupVars, quitVars, TypeOK
  <2> QED
    BY <1>2, <2>1
<1>7. CASE QuitStep \/ QuitStart
  BY <1>0, <1>7 DEF QuitStep, QuitStart, QuitEnqueue, QuitNotify, QuitJoin, groupVars, runnerVars,
     QuitPhase, TopLevel
<1>8. CASE UNCHANGED vars
  BY <1>2, <1>8 DEF vars, groupVars, quitVars
<1> QED
  BY <1>3, <1>4, <1>5, <1>6, <1>7, <1>8 DEF Next, Working, Calling, SpuriousWakeup, Destroyed

-----------------------------------------------------------------------------
LEMMA ShutdownInit ==
    ASSUME Runners # {}, Init
    PROVE  SInv
<1>1. CInv
  BY CountInitInv
<1>2. OneList /\ QuitsLast /\ PlainFirst
  <2>1. Queue = {} /\ quits = {}
    BY DEF Init, QueueInit, Queue
  <2> QED
    BY <2>1 DEF OneList, QuitsLast, PlainFirst, FrontClosed
<1>3. DoneInv /\ Placed /\ Parents /\ QuitPhase
  BY DEF Init, DoneInv, Placed, Parents, QuitPhase
<1>4. Grounded
  BY DEF Init, Grounded
<1> QED
  BY <1>1, <1>2, <1>3, <1>4 DEF SInv

LEMMA ShutdownNext ==
    ASSUME SInv, [Next]_vars
    PROVE  SInv'
<1>1. CInv'
  BY SInvFacts, CountNextInv
<1>2. Runners # {}
  BY DEF SInv
<1> QED
  BY <1>1, <1>2, OneListStep, QuitsLastStep, DoneStep, PlacedStep, NestingStep, QuitPhaseStep
  DEF SInv

(* A manager that is destroyed is in no call: a nested one would need a     *)
(* run() under it.                                                          *)
LEMMA NoneInCall ==
    ASSUME SInv, mpc = "destroyed"
    PROVE  /\ \A r \in Runners : rpc[r] = "done"
           /\ \A c \in Clients : cpc[c] = "idle"
           /\ \A g \in Groups : gpc[g] = "idle"
           /\ quits = QuitTasks
<1>0. QuitInv /\ Parents /\ Grounded /\ QuitPhase
  BY SInvFacts
<1>1. /\ \A r \in Runners : rpc[r] = "done"
      /\ \A c \in Clients : cpc[c] = "idle"
      /\ quits = QuitTasks
  BY <1>0 DEF QuitPhase, QuitInv
<1>2. \A g \in Groups : gpc[g] = "idle"
  <2> DEFINE X == {g \in Groups : gpc[g] # "idle"}
  <2>1. \A g \in X : \E h \in X : Nests(h, g)
    <3> SUFFICES ASSUME NEW g \in X PROVE \E h \in X : Nests(h, g)
      OBVIOUS
    <3>1. ~TopLevel(g)
      BY <1>0 DEF QuitPhase
    <3>2. PICK t \in Task : Nested[t] = g /\ RunBy(t)
      BY <1>0, <3>1 DEF Parents
    <3>3. PICK h \in Groups : gpc[h] = "run" /\ Current(h) = t
      BY <1>1, <3>2 DEF RunBy
    <3> QED
      BY <3>2, <3>3 DEF Nests
  <2>2. X = {}
    BY <1>0, <2>1 DEF Grounded
  <2> QED
    BY <2>2
<1> QED
  BY <1>1, <1>2

(* When every runner has taken a quit task there is nothing in the queue    *)
(* and nothing outstanding.                                                 *)
LEMMA ShutdownComplete ==
    ASSUME SInv
    PROVE  DestroyedAfterAllTasks
<1>0. /\ TypeOK /\ LinksConsistent /\ QueueTypeOK /\ QueueInv /\ QuitInv /\ GroupsAtRest
      /\ PlainFirst /\ DoneInv /\ Placed /\ QuitPhase /\ CInv
      /\ quits \subseteq QuitTasks /\ Runners # {}
      /\ \A c \in Clients : cpc[c] \notin {"drain", "drainRun", "drainDec"}
  BY SInvFacts DEF TypeOK, SInv
<1>1. SUFFICES ASSUME mpc = "destroyed"
               PROVE  outstanding = {} /\ num_unfinished = 0 /\ head = NoTask
  BY DEF DestroyedAfterAllTasks
<1>2. /\ \A r \in Runners : rpc[r] = "done"
      /\ \A c \in Clients : cpc[c] = "idle"
      /\ quits = QuitTasks
  BY <1>1, NoneInCall
<1>3. \A g \in Groups : gpc[g] = "idle"
  BY <1>1, NoneInCall
<1>4. \A q \in QuitTasks : ~in_queue[q]
  <2> DEFINE took == [r \in Runners |-> rtask[r]]
  <2>1. took \in Injection(Runners, QuitTasks)
    BY <1>0, <1>2 DEF DoneInv, Injection, IsInjective
  <2>2. took \in Surjection(Runners, QuitTasks)
    BY <2>1, TaskManagerAssumption, FS_Injection
  <2>3. \A q \in QuitTasks : \E r \in Runners : rtask[r] = q
    BY <2>2 DEF Surjection
  <2> QED
    BY <1>0, <1>2, <2>3 DEF DoneInv
<1>5. \A t \in PlainTasks : ~in_queue[t]
  <2>1. PICK r \in Runners : TRUE
    BY <1>0
  <2>2. rtask[r] \in quits /\ ~in_queue[rtask[r]]
    BY <1>0, <1>2 DEF DoneInv
  <2> QED
    BY <1>0, <2>2 DEF PlainFirst
<1>6. outstanding = {}
  BY <1>0, <1>2, <1>3, <1>5 DEF Placed, GroupsAtRest, TypeOK
<1>7. head = NoTask
  BY <1>0, <1>4, <1>6, <1>2 DEF LinksConsistent, QueueTypeOK, QueueInv
<1>8. num_unfinished = 0
  <2>1. RunnersOwing = {} /\ GroupsOwing = {} /\ ClientsOwing = {}
    BY <1>2, <1>3 DEF RunnersOwing, GroupsOwing, ClientsOwing
  <2>2. num_unfinished = Cardinality(outstanding) + Cardinality(RunnersOwing)
                         + Cardinality(GroupsOwing) + Cardinality(ClientsOwing)
    BY <1>0, CountsAreNat DEF CInv
  <2> QED
    BY <1>6, <2>1, <2>2, FS_EmptySet
<1> QED
  BY <1>6, <1>7, <1>8

(* ~TaskManager with runner threads returns only after every task ever      *)
(* added has been executed and reported, those in nested group calls        *)
(* included: the quit tasks go behind all others, and one runner takes each. *)
THEOREM ShutdownDrains ==
    ASSUME Runners # {}
    PROVE  Spec => []DestroyedAfterAllTasks
<1>1. Init => SInv
  BY ShutdownInit
<1>2. SInv /\ [Next]_vars => SInv'
  BY ShutdownNext
<1>3. SInv => DestroyedAfterAllTasks
  BY ShutdownComplete
<1> QED
  BY <1>1, <1>2, <1>3, PTL DEF Spec

-----------------------------------------------------------------------------
(* The manager, with runner threads, is a TaskPool.                         *)

(* What is being executed, by runners and group callers.                    *)
RunsNow == {rtask[r] : r \in {s \in Runners : rpc[s] = "run"}}
CallsRun == {Current(g) : g \in {h \in Groups : gpc[h] = "run"}}

LEMMA UnderwayAre ==
    ASSUME SInv
    PROVE  /\ Underway = RunsNow \cup CallsRun
           /\ Underway \subseteq outstanding
           /\ InWait = {c \in Clients : cpc[c] \in {"wait", "asleep"}}
<1>0. /\ TypeOK /\ RunnersInv /\ GroupsInv
      /\ \A c \in Clients : cpc[c] \notin {"drain", "drainRun", "drainDec"}
  BY SInvFacts
<1>1. Underway = RunsNow \cup CallsRun
  <2>1. {d \in Clients : cpc[d] = "drainRun"} = {}
    BY <1>0
  <2>2. \A S : S = {} => {carg[c][1] : c \in S} = {}
    OBVIOUS
  <2>3. {carg[c][1] : c \in {d \in Clients : cpc[d] = "drainRun"}} = {}
    BY <2>1, <2>2
  <2> QED
    BY <2>3 DEF Underway, RunsNow, CallsRun, Current
<1>2. \A r \in Runners : rpc[r] = "run" => rtask[r] \in outstanding
  BY <1>0 DEF RunnersInv
<1>3. \A g \in Groups : gpc[g] = "run" => Current(g) \in outstanding
  <2> SUFFICES ASSUME NEW g \in Groups, gpc[g] = "run" PROVE Current(g) \in outstanding
    OBVIOUS
  <2>1. Current(g) \in Task
    BY <1>0, GroupFacts DEF GroupsInv, Current
  <2> QED
    BY <1>0, <2>1 DEF GroupsInv, GroupHas
<1>4. InWait = {c \in Clients : cpc[c] \in {"wait", "asleep"}}
  BY <1>0 DEF InWait
<1> QED
  BY <1>1, <1>2, <1>3, <1>4 DEF RunsNow, CallsRun, Current

UnderwayKnown == SInv =>
    /\ Underway = RunsNow \cup CallsRun
    /\ Underway \subseteq outstanding
    /\ InWait = {c \in Clients : cpc[c] \in {"wait", "asleep"}}

LEMMA UnderwayKnownNow == UnderwayKnown
BY UnderwayAre DEF UnderwayKnown

LEMMA UnderwayKnownNext == UnderwayKnown'
BY UnderwayKnownNow, PTL

(* Nothing is submitted, begun or ended, and nobody comes or goes.          *)
LEMMA PoolKept ==
    ASSUME SInv, SInv', UNCHANGED <<outstanding, awaited>>,
           mpc' = mpc \/ (mpc # "destroyed" /\ mpc' # "destroyed"),
           RunsNow' = RunsNow, CallsRun' = CallsRun, CallOf' = CallOf, InWait' = InWait
    PROVE  UNCHANGED Pool!vars
<1>1. Underway' = Underway
  BY UnderwayKnownNow, UnderwayKnownNext DEF UnderwayKnown
<1>2. (mpc = "destroyed")' = (mpc = "destroyed")
  OBVIOUS
<1> QED
  BY <1>1, <1>2 DEF Pool!vars

LEMMA PoolBegins ==
    ASSUME SInv, SInv', NEW t \in outstanding, t \notin Underway,
           UNCHANGED <<outstanding, awaited, mpc>>, CallOf' = CallOf, InWait' = InWait,
           \/ RunsNow' = RunsNow \cup {t} /\ CallsRun' = CallsRun
           \/ RunsNow' = RunsNow /\ CallsRun' = CallsRun \cup {t}
    PROVE  Pool!Next
<1>1. Underway' = Underway \cup {t}
  BY UnderwayKnownNow, UnderwayKnownNext DEF UnderwayKnown
<1>2. Pool!Begin(t)
  BY <1>1 DEF Pool!Begin
<1>3. t \in outstanding \ Underway
  OBVIOUS
<1> QED
  BY <1>2, <1>3 DEF Pool!Next

LEMMA PoolEnds ==
    ASSUME SInv, SInv', NEW t \in Underway, RecordEnd(t), UNCHANGED mpc,
           CallOf' = CallOf, InWait' = InWait, Underway' = Underway \ {t}
    PROVE  Pool!Next
<1>1. outstanding' \ Underway' = outstanding \ Underway
  BY DEF RecordEnd
<1>2. Pool!End(t)
  BY <1>1 DEF Pool!End, RecordEnd
<1> QED
  BY <1>2 DEF Pool!Next

(* A step leaves the readings as they are if it does not move anyone from   *)
(* one reading to another.                                                  *)
LEMMA SameRuns ==
    ASSUME \A r \in Runners : rpc'[r] = "run" <=> rpc[r] = "run",
           \A r \in Runners : rpc[r] = "run" => rtask'[r] = rtask[r]
    PROVE  RunsNow' = RunsNow
BY DEF RunsNow

LEMMA SameCallsRun ==
    ASSUME \A g \in Groups : gpc'[g] = "run" <=> gpc[g] = "run",
           \A g \in Groups : gpc[g] = "run" => gi'[g] = gi[g]
    PROVE  CallsRun' = CallsRun
BY DEF CallsRun, Current

SameCall(p, q) ==
    \/ p = q \/ {p, q} \subseteq {"idle", "returned"}
    \/ {p, q} \cap {"idle", "returned", "count"} = {}

LEMMA SameCalls ==
    ASSUME \A g \in Groups : SameCall(gpc[g], gpc'[g])
    PROVE  CallOf' = CallOf
BY DEF CallOf, SameCall

LEMMA SameWaits ==
    ASSUME SInv, SInv',
           \A c \in Clients : cpc'[c] \in {"wait", "asleep"} <=> cpc[c] \in {"wait", "asleep"}
    PROVE  InWait' = InWait
BY UnderwayKnownNow, UnderwayKnownNext DEF UnderwayKnown

-----------------------------------------------------------------------------
LEMMA RunnerInPool ==
    ASSUME SInv, SInv', NEW r \in Runners, RunnerStep(r) \/ RunnerSpuriousWakeup(r)
    PROVE  Pool!Next \/ UNCHANGED Pool!vars
<1>0. /\ TypeOK /\ RunnersInv /\ GroupsInv /\ Exclusive
      /\ NoGroup \notin Groups
  BY SInvFacts, TaskManagerAssumption
<1>1. InWait' = InWait /\ mpc' = mpc
  <2>1. \A c \in Clients : cpc'[c] \in {"wait", "asleep"} <=> cpc[c] \in {"wait", "asleep"}
    BY <1>0
    DEF RunnerStep, RunnerDequeue, RunnerSetCurrent, RunnerEndRun, RunnerGroupDec,
        RunnerGroupNotify, RunnerClearCurrent, RunnerTaskFinished, RunnerFinishNotify,
        RunnerSpuriousWakeup, WakeAllWaiters, clientVars, TypeOK
  <2>2. mpc' = mpc
    BY DEF RunnerStep, RunnerDequeue, RunnerSetCurrent, RunnerEndRun, RunnerGroupDec,
           RunnerGroupNotify, RunnerClearCurrent, RunnerTaskFinished, RunnerFinishNotify,
           RunnerSpuriousWakeup, quitVars
  <2> QED
    BY <2>1, <2>2, SameWaits
<1>2. CallOf' = CallOf
  <2>1. \A g \in Groups : SameCall(gpc[g], gpc'[g])
    BY <1>0
    DEF RunnerStep, RunnerDequeue, RunnerSetCurrent, RunnerEndRun, RunnerGroupDec,
        RunnerGroupNotify, RunnerClearCurrent, RunnerTaskFinished, RunnerFinishNotify,
        RunnerSpuriousWakeup, MayEnd, AfterEnd, groupVars, TypeOK, SameCall
  <2> QED
    BY <2>1, SameCalls
<1>3. CallsRun' = CallsRun
  <2>1. \A g \in Groups : (gpc'[g] = "run" <=> gpc[g] = "run") /\ gi'[g] = gi[g]
    BY <1>0
    DEF RunnerStep, RunnerDequeue, RunnerSetCurrent, RunnerEndRun, RunnerGroupDec,
        RunnerGroupNotify, RunnerClearCurrent, RunnerTaskFinished, RunnerFinishNotify,
        RunnerSpuriousWakeup, MayEnd, AfterEnd, groupVars, TypeOK
  <2> QED
    BY <2>1, SameCallsRun
<1>4. CASE RunnerSetCurrent(r)
  <2>1. rtask[r] \in outstanding /\ rtask[r] \in Task
    BY <1>0, <1>4 DEF RunnersInv, RunnerSetCurrent
  <2>2. rtask[r] \notin Underway
    <3>1. ASSUME NEW s \in Runners, rpc[s] = "run", rtask[s] = rtask[r]
          PROVE  FALSE
      BY <1>0, <1>4, <2>1, <3>1 DEF Exclusive, RunnerHas, RunnerSetCurrent
    <3>2. ASSUME NEW g \in Groups, gpc[g] = "run", Current(g) = rtask[r]
          PROVE  FALSE
      BY <1>0, <1>4, <2>1, <3>2 DEF Exclusive, RunnerHas, GroupHas, RunnerSetCurrent
    <3> QED
      BY <3>1, <3>2, UnderwayAre DEF RunsNow, CallsRun, Current
  <2>3. RunsNow' = RunsNow \cup {rtask[r]}
    <3>1. /\ rtask' = rtask /\ rpc'[r] = "run"
          /\ \A s \in Runners : s # r => rpc'[s] = rpc[s]
      BY <1>0, <1>4 DEF RunnerSetCurrent, TypeOK
    <3> QED
      BY <3>1 DEF RunsNow
  <2>4. UNCHANGED <<outstanding, awaited>>
    BY <1>4 DEF RunnerSetCurrent, history
  <2> QED
    BY <1>1, <1>2, <1>3, <2>1, <2>2, <2>3, <2>4, PoolBegins
<1>5. CASE RunnerEndRun(r)
  <2>1. /\ rtask[r] \in Task /\ rpc[r] = "run" /\ RecordEnd(rtask[r]) /\ rtask' = rtask
        /\ rpc'[r] # "run" /\ \A s \in Runners : s # r => rpc'[s] = rpc[s]
    BY <1>0, <1>5 DEF RunnersInv, RunnerEndRun, TypeOK
  <2>2. rtask[r] \in Underway
    BY <2>1, UnderwayAre DEF RunsNow
  <2>3. \A s \in Runners : rpc[s] = "run" /\ rtask[s] = rtask[r] => s = r
    BY <1>0, <2>1 DEF Exclusive, RunnerHas
  <2>4. RunsNow' = RunsNow \ {rtask[r]}
    BY <2>1, <2>3 DEF RunsNow
  <2>5. rtask[r] \notin CallsRun
    BY <1>0, <2>1 DEF CallsRun, Current, Exclusive, RunnerHas, GroupHas
  <2>6. Underway' = Underway \ {rtask[r]}
    BY <1>3, <2>4, <2>5, UnderwayKnownNow, UnderwayKnownNext DEF UnderwayKnown
  <2> QED
    BY <1>1, <1>2, <2>1, <2>2, <2>6, PoolEnds
<1>6. CASE ~RunnerSetCurrent(r) /\ ~RunnerEndRun(r)
  <2>1. UNCHANGED <<outstanding, awaited>>
    BY <1>6
    DEF RunnerStep, RunnerDequeue, RunnerGroupDec, RunnerGroupNotify, RunnerClearCurrent,
        RunnerTaskFinished, RunnerFinishNotify, RunnerSpuriousWakeup, history
  <2>2. /\ \A s \in Runners : rpc'[s] = "run" <=> rpc[s] = "run"
        /\ \A s \in Runners : rpc[s] = "run" => rtask'[s] = rtask[s]
    BY <1>0, <1>6
    DEF RunnerStep, RunnerDequeue, RunnerGroupDec, RunnerGroupNotify, RunnerClearCurrent,
        RunnerTaskFinished, RunnerFinishNotify, RunnerSpuriousWakeup, TypeOK
  <2>3. RunsNow' = RunsNow
    BY <2>2, SameRuns
  <2> QED
    BY <1>1, <1>2, <1>3, <2>1, <2>3, PoolKept
<1> QED
  BY <1>4, <1>5, <1>6

LEMMA GroupInPool ==
    ASSUME SInv, SInv', NEW g \in Groups,
           GroupStep(g) \/ GroupStart(g) \/ GroupResume(g) \/ GroupSpuriousWakeup(g)
    PROVE  Pool!Next \/ UNCHANGED Pool!vars
<1>0. /\ TypeOK /\ RunnersInv /\ GroupsInv /\ QueueInv /\ Exclusive /\ CInv
      /\ NoGroup \notin Groups
  BY SInvFacts, TaskManagerAssumption
<1>1. InWait' = InWait /\ mpc' = mpc
  <2>1. \A c \in Clients : cpc'[c] \in {"wait", "asleep"} <=> cpc[c] \in {"wait", "asleep"}
    BY <1>0
    DEF GroupStep, GroupStart, GroupResume, GroupSpuriousWakeup, GroupCount, GroupEnqueue,
        GroupNotifyAll, GroupTakeFirst, GroupTakeQueued, GroupSkipTaken, GroupLoopEnds, GroupEndRun,
        GroupTaskFinished, GroupFinishNotify, GroupDec, GroupWait, WakeAllWaiters, clientVars, TypeOK
  <2>2. mpc' = mpc
    BY DEF GroupStep, GroupStart, GroupResume, GroupSpuriousWakeup, GroupCount, GroupEnqueue,
        GroupNotifyAll, GroupTakeFirst, GroupTakeQueued, GroupSkipTaken, GroupLoopEnds, GroupEndRun,
        GroupTaskFinished, GroupFinishNotify, GroupDec, GroupWait, quitVars
  <2> QED
    BY <2>1, <2>2, SameWaits
<1>2. RunsNow' = RunsNow
  <2>1. \A r \in Runners : (rpc'[r] = "run" <=> rpc[r] = "run") /\ rtask'[r] = rtask[r]
    BY <1>0
    DEF GroupStep, GroupStart, GroupResume, GroupSpuriousWakeup, GroupCount, GroupEnqueue,
        GroupNotifyAll, GroupTakeFirst, GroupTakeQueued, GroupSkipTaken, GroupLoopEnds, GroupEndRun,
        GroupTaskFinished, GroupFinishNotify, GroupDec, GroupWait, WakeAllRunners, runnerVars, TypeOK
  <2> QED
    BY <2>1, SameRuns
<1>3. CASE GroupTakeFirst(g) \/ GroupTakeQueued(g)
  <2>1. /\ gpc[g] = "take" /\ gi[g] \in DOMAIN GroupTasks[g]
        /\ gpc' = [gpc EXCEPT ![g] = "run"] /\ gi' = gi /\ UNCHANGED <<outstanding, awaited>>
    BY <1>3, GroupFacts DEF GroupTakeFirst, GroupTakeQueued, history
  <2>2. Current(g) \in Members(g) /\ Current(g) \in Task
    BY <2>1, GroupFacts DEF Current
  <2>3. Current(g) \in outstanding
    <3>1. CASE GroupTakeFirst(g)
      <4>1. GroupHas(g, Current(g))
        BY <2>1, <3>1 DEF GroupTakeFirst, GroupHas, Current
      <4> QED
        BY <1>0, <2>1, <2>2, <4>1 DEF GroupsInv
    <3>2. CASE GroupTakeQueued(g)
      <4>1. in_queue[Current(g)]
        BY <3>2 DEF GroupTakeQueued, Unlink
      <4>2. Current(g) \notin quits
        BY <1>0, <2>2, GroupFacts DEF TypeOK
      <4> QED
        BY <1>0, <2>2, <4>1, <4>2 DEF QueueInv
    <3> QED
      BY <1>3, <3>1, <3>2
  <2>4. Current(g) \notin Underway
    <3>1. ASSUME NEW h \in Groups, gpc[h] = "run", Current(h) = Current(g)
          PROVE  FALSE
      <4>1. GroupHas(h, Current(g))
        BY <3>1 DEF GroupHas
      <4>2. Current(g) \in Members(h)
        BY <1>0, <2>2, <4>1 DEF GroupsInv
      <4> QED
        BY <2>1, <2>2, <3>1, <4>2, GroupFacts
    <3>2. ASSUME NEW r \in Runners, rpc[r] = "run", rtask[r] = Current(g)
          PROVE  FALSE
      <4>1. CASE GroupTakeFirst(g)
        <5>1. GroupHas(g, Current(g)) /\ RunnerHas(r, Current(g))
          BY <2>1, <3>2, <4>1 DEF GroupTakeFirst, GroupHas, RunnerHas, Current
        <5> QED
          BY <1>0, <2>2, <5>1 DEF Exclusive
      <4>2. CASE GroupTakeQueued(g)
        <5>1. in_queue[Current(g)]
          BY <4>2 DEF GroupTakeQueued, Unlink
        <5>2. ~in_queue[rtask[r]]
          BY <1>0, <3>2 DEF RunnersInv
        <5> QED
          BY <3>2, <5>1, <5>2
      <4> QED
        BY <1>3, <4>1, <4>2
    <3> QED
      BY <3>1, <3>2, UnderwayAre DEF RunsNow, CallsRun, Current
  <2>5. /\ gpc'[g] = "run" /\ \A h \in Groups : h # g => gpc'[h] = gpc[h]
    BY <1>0, <2>1 DEF TypeOK
  <2>6. CallsRun' = CallsRun \cup {Current(g)}
    <3>1. {h \in Groups : gpc'[h] = "run"} = {h \in Groups : gpc[h] = "run"} \cup {g}
      BY <2>5
    <3> QED
      BY <2>1, <3>1 DEF CallsRun, Current
  <2>7. CallOf' = CallOf
    <3>1. \A h \in Groups : SameCall(gpc[h], gpc'[h])
      BY <2>1, <2>5 DEF SameCall
    <3> QED
      BY <3>1, SameCalls
  <2> QED
    BY <1>1, <1>2, <2>1, <2>3, <2>4, <2>6, <2>7, PoolBegins
<1>4. CASE GroupEndRun(g)
  <2> DEFINE t == Current(g)
  <2>1. gpc[g] = "run" /\ gi[g] \in DOMAIN GroupTasks[g] /\ RecordEnd(t) /\ gi' = gi /\ MayEnd(t)
        /\ gpc' = AfterEnd(t, [gpc EXCEPT ![g] = "finish"])
    BY <1>0, <1>4 DEF GroupEndRun, GroupsInv
  <2>2. t \in Members(g) /\ t \in Task /\ GroupHas(g, t)
    BY <2>1, GroupFacts DEF Current, GroupHas
  <2>3. /\ gpc'[g] = "finish"
        /\ \A h \in Groups : h # g => gpc'[h] = gpc[h] \/ (gpc[h] = "returned" /\ gpc'[h] = "idle")
    BY <1>0, <2>1, <2>2, TaskManagerAssumption DEF AfterEnd, MayEnd, TypeOK
  <2>4. CallsRun' = CallsRun \ {t}
    <3>1. \A h \in Groups : gpc[h] = "run" /\ Current(h) = t => h = g
      <4>1. ASSUME NEW h \in Groups, gpc[h] = "run", Current(h) = t
            PROVE  h = g
        <5>1. GroupHas(h, t)
          BY <4>1 DEF GroupHas
        <5>2. t \in Members(h)
          BY <1>0, <2>2, <5>1 DEF GroupsInv
        <5> QED
          BY <2>2, <5>2, GroupFacts
      <4> QED
        BY <4>1
    <3>2. {h \in Groups : gpc'[h] = "run"} = {h \in Groups : gpc[h] = "run"} \ {g}
      BY <2>1, <2>3
    <3>3. CallsRun' = {GroupTasks[h][gi[h]] : h \in {k \in Groups : gpc'[k] = "run"}}
      BY <2>1 DEF CallsRun, Current
    <3>4. CallsRun = {GroupTasks[h][gi[h]] : h \in {k \in Groups : gpc[k] = "run"}}
      BY DEF CallsRun, Current
    <3>5. \A h \in {k \in Groups : gpc[k] = "run"} \ {g} : GroupTasks[h][gi[h]] # t
      BY <3>1 DEF Current
    <3>6. t = GroupTasks[g][gi[g]] /\ g \in {k \in Groups : gpc[k] = "run"}
      BY <2>1 DEF Current
    <3> DEFINE R == {k \in Groups : gpc[k] = "run"}
               T(S) == {GroupTasks[h][gi[h]] : h \in S}
    <3>7. CallsRun' = T(R \ {g}) /\ CallsRun = T(R)
      BY <3>2, <3>3, <3>4
    <3>8. T(R) = T(R \ {g}) \cup {t} /\ t \notin T(R \ {g})
      <4> HIDE DEF t, R
      <4> QED
        BY <3>5, <3>6 DEF R
    <3> QED
      BY <3>7, <3>8
  <2>5. t \in CallsRun
    BY <2>1 DEF CallsRun, Current
  <2>6. t \notin RunsNow
    BY <1>0, <2>2 DEF RunsNow, Exclusive, RunnerHas
  <2>7. t \in Underway /\ Underway' = Underway \ {t}
    BY <1>2, <2>4, <2>5, <2>6, UnderwayKnownNow, UnderwayKnownNext DEF UnderwayKnown
  <2>8. CallOf' = CallOf
    <3>1. \A h \in Groups : SameCall(gpc[h], gpc'[h])
      BY <2>1, <2>3 DEF SameCall
    <3> QED
      BY <3>1, SameCalls
  <2> HIDE DEF t
  <2> QED
    BY <1>1, <2>1, <2>7, <2>8, PoolEnds
<1>5. ASSUME NEW p, gpc' = [gpc EXCEPT ![g] = p], gpc[g] # "run", p # "run",
             gi' = gi \/ \E n \in Nat : gi' = [gi EXCEPT ![g] = n]
      PROVE  /\ CallsRun' = CallsRun
             /\ CallOf' = [CallOf EXCEPT ![g] = IF p \in {"idle", "returned"} THEN "none"
                                                ELSE IF p = "count" THEN "called" ELSE "submitted"]
  <2>1. gpc'[g] = p /\ \A h \in Groups : h # g => gpc'[h] = gpc[h]
    BY <1>0, <1>5 DEF TypeOK
  <2>2. \A h \in Groups : h # g => gi'[h] = gi[h]
    BY <1>0, <1>5 DEF TypeOK
  <2>3. CallsRun' = CallsRun
    BY <1>5, <2>1, <2>2, SameCallsRun
  <2> QED
    BY <2>1, <2>3 DEF CallOf
<1>6. CASE GroupStart(g)
  <2>1. gpc[g] = "idle" /\ gpc' = [gpc EXCEPT ![g] = "count"] /\ gi' = gi
        /\ UNCHANGED <<outstanding, awaited>>
    BY <1>6 DEF GroupStart, history
  <2>2. CallsRun' = CallsRun /\ CallOf' = [CallOf EXCEPT ![g] = "called"]
    BY <1>5, <2>1
  <2>3. CallOf[g] = "none"
    BY <2>1 DEF CallOf
  <2>4. mpc # "destroyed"
    <3>1. CASE TopLevel(g)
      BY <1>6, <3>1 DEF GroupStart
    <3>2. CASE ~TopLevel(g)
      <4>1. PICK t \in Task : RunBy(t)
        BY <1>6, <3>2 DEF GroupStart
      <4>2. \/ \E r \in Runners : rpc[r] = "run"
            \/ \E h \in Groups : gpc[h] = "run"
            \/ \E c \in Clients : cpc[c] = "drainRun"
        BY <4>1 DEF RunBy
      <4> QED
        BY <4>2, NoneInCall
    <3> QED
      BY <3>1, <3>2
  <2>5. Underway' = Underway
    BY <1>2, <2>2, UnderwayKnownNow, UnderwayKnownNext DEF UnderwayKnown
  <2>6. (mpc = "destroyed")' = (mpc = "destroyed")
    BY <1>1
  <2>7. Pool!Call(g)
    BY <1>1, <2>1, <2>2, <2>3, <2>4, <2>5, <2>6 DEF Pool!Call
  <2> QED
    BY <2>7 DEF Pool!Next
<1>7. CASE GroupCount(g)
  <2>1. gpc[g] = "count" /\ gpc' = [gpc EXCEPT ![g] = "enqueue"] /\ gi' = gi
        /\ outstanding' = outstanding \cup Members(g) /\ awaited' = awaited
    BY <1>7 DEF GroupCount
  <2>2. CallsRun' = CallsRun /\ CallOf' = [CallOf EXCEPT ![g] = "submitted"]
    <3>1. "enqueue" # "run" /\ "enqueue" \notin {"idle", "returned"} /\ "enqueue" # "count"
      OBVIOUS
    <3>2. gpc[g] # "run"
      BY <2>1
    <3> QED
      BY <1>5, <2>1, <3>1, <3>2
  <2>3. CallOf[g] = "called"
    BY <2>1 DEF CallOf
  <2>4. Underway' = Underway /\ Underway \subseteq outstanding
    BY <1>2, <2>2, UnderwayKnownNow, UnderwayKnownNext DEF UnderwayKnown
  <2>5. Members(g) \cap outstanding = {}
    BY <2>1, SInvFacts DEF GroupsAtRest
  <2>6. (mpc = "destroyed")' = (mpc = "destroyed")
    BY <1>1
  <2>7. Pool!SubmitWork(g)
    BY <1>1, <2>1, <2>2, <2>3, <2>4, <2>5, <2>6
    DEF Pool!SubmitWork, Pool!Submitted, Pool!Unfinished
  <2> QED
    BY <2>7 DEF Pool!Next
<1>8. CASE GroupWait(g) /\ gcount[g] = 0
  <2>1. gpc[g] = "wait" /\ gpc' = [gpc EXCEPT ![g] = "returned"] /\ gi' = gi
        /\ UNCHANGED <<outstanding, awaited>>
    BY <1>8 DEF GroupWait, history
  <2>2. CallsRun' = CallsRun /\ CallOf' = [CallOf EXCEPT ![g] = "none"]
    BY <1>5, <2>1
  <2>3. CallOf[g] = "submitted"
    BY <2>1 DEF CallOf
  <2>4. Underway' = Underway /\ Underway \subseteq outstanding
    BY <1>2, <2>2, UnderwayKnownNow, UnderwayKnownNext DEF UnderwayKnown
  <2>5. Members(g) \cap outstanding = {}
    <3>1. CountCoversOwed
      BY SInvFacts DEF IInv
    <3>2. 0 >= Cardinality(Owed(g))
      BY <1>8, <2>1, <3>1 DEF CountCoversOwed
    <3>3. Owed(g) = {}
      BY <3>2, OwedIsFinite, FS_EmptySet
    <3> QED
      BY <3>3 DEF Owed
  <2>6. (mpc = "destroyed")' = (mpc = "destroyed")
    BY <1>1
  <2>7. Pool!Return(g)
    BY <1>1, <2>1, <2>2, <2>3, <2>4, <2>5, <2>6 DEF Pool!Return, Pool!Unfinished
  <2> QED
    BY <2>7 DEF Pool!Next
<1>9. CASE \/ GroupEnqueue(g) \/ GroupNotifyAll(g) \/ GroupSkipTaken(g) \/ GroupLoopEnds(g)
           \/ GroupTaskFinished(g) \/ GroupFinishNotify(g) \/ GroupDec(g)
           \/ GroupWait(g) /\ gcount[g] # 0
           \/ GroupSpuriousWakeup(g) \/ GroupResume(g)
  <2>1. UNCHANGED <<outstanding, awaited>>
    BY <1>9
    DEF GroupResume, GroupSpuriousWakeup, GroupEnqueue, GroupNotifyAll, GroupSkipTaken,
        GroupLoopEnds, GroupTaskFinished, GroupFinishNotify, GroupDec, GroupWait, history
  <2>2. /\ gpc[g] # "run" /\ gpc'[g] # "run" /\ SameCall(gpc[g], gpc'[g])
        /\ \A h \in Groups : h # g => gpc'[h] = gpc[h] /\ gi'[h] = gi[h]
    BY <1>0, <1>9
    DEF GroupResume, GroupSpuriousWakeup, GroupEnqueue, GroupNotifyAll, GroupSkipTaken,
        GroupLoopEnds, GroupTaskFinished, GroupFinishNotify, GroupDec, GroupWait, TypeOK, SameCall
  <2>3. CallsRun' = CallsRun
    BY <2>2, SameCallsRun
  <2>4. \A h \in Groups : SameCall(gpc[h], gpc'[h])
    BY <2>2 DEF SameCall
  <2>5. CallOf' = CallOf
    BY <2>4, SameCalls
  <2> QED
    BY <1>1, <1>2, <2>1, <2>3, <2>5, PoolKept
<1> QED
  BY <1>3, <1>4, <1>6, <1>7, <1>8, <1>9 DEF GroupStep

(* A client's step.  Tasks are submitted when they are counted; a wait that *)
(* finds none counted has nothing left to wait for.                         *)
LEMMA ClientInPool ==
    ASSUME SInv, SInv', NEW c \in Clients,
           ClientStep(c) \/ Add(c) \/ WaitStart(c) \/ WaitSpuriousWakeup(c)
    PROVE  Pool!Next \/ UNCHANGED Pool!vars
<1>0. /\ TypeOK /\ RunnersInv /\ CInv /\ WaitsInv
      /\ cpc[c] \notin {"drain", "drainRun", "drainDec"} /\ Runners # {}
  BY SInvFacts DEF SInv, CInv
<1>1. UNCHANGED <<gpc, gi, rtask>> /\ mpc' = mpc
  BY <1>0
  DEF ClientStep, Add, AddCount, WaitStart, WaitSpuriousWakeup, AddEnqueue, AddNotify, WaitCheck,
      WaitReturn, DrainDequeue, DrainEndRun, DrainDec, runnerVars, groupVars, quitVars
<1>2. \A r \in Runners : rpc'[r] = "run" <=> rpc[r] = "run"
  BY <1>0
  DEF ClientStep, Add, AddCount, WaitStart, WaitSpuriousWakeup, AddEnqueue, AddNotify, WaitCheck,
      WaitReturn, DrainDequeue, DrainEndRun, DrainDec, WakeOneRunner, WakeAllRunners, runnerVars,
      TypeOK
<1>3. RunsNow' = RunsNow /\ CallsRun' = CallsRun /\ CallOf' = CallOf
  <2>1. RunsNow' = RunsNow
    BY <1>1, <1>2, SameRuns
  <2>2. CallsRun' = CallsRun
    BY <1>1 DEF CallsRun, Current
  <2>3. CallOf' = CallOf
    BY <1>1 DEF CallOf
  <2> QED
    BY <2>1, <2>2, <2>3
<1>4. Underway' = Underway /\ Underway \subseteq outstanding
  BY <1>3, UnderwayKnownNow, UnderwayKnownNext DEF UnderwayKnown
<1>5. (mpc = "destroyed")' = (mpc = "destroyed")
  BY <1>1
<1>6. CASE Add(c)
  <2>1. PICK A \in SUBSET Addable : \E ts \in SetToSeqs(A) : AddCount(c, ts)
    BY <1>6 DEF Add
  <2>2. PICK ts \in SetToSeqs(A) : AddCount(c, ts)
    BY <2>1
  <2> DEFINE S == ToSet(ts)
  <2>3. S \subseteq A
    <3>1. A \subseteq Task
      BY TaskManagerAssumption DEF Addable
    <3> QED
      BY <2>2, <3>1, SetToSeqsIsInjective
  <2>4. S \subseteq PlainTasks /\ S \cap outstanding = {} /\ S \subseteq Task
    BY <2>3, TaskManagerAssumption DEF Addable
  <2>5. /\ outstanding' = outstanding \cup S /\ awaited' = awaited
        /\ cpc[c] = "idle" /\ cpc' = [cpc EXCEPT ![c] = "enqueue"]
        /\ mpc = "alive"
    BY <2>2 DEF AddCount
  <2> HIDE DEF S
  <2>6. InWait' = InWait
    <3>1. \A d \in Clients : cpc'[d] \in {"wait", "asleep"} <=> cpc[d] \in {"wait", "asleep"}
      BY <1>0, <2>5 DEF TypeOK
    <3> QED
      BY <3>1, SameWaits
  <2>7. outstanding' \ Underway' = (outstanding \ Underway) \cup S
    BY <1>4, <2>4, <2>5
  <2>8. (outstanding' \ Underway') \ (outstanding \ Underway) = S
    BY <1>4, <2>4, <2>7
  <2>9. S \cap UNION {Members(g) : g \in Groups} = {}
    BY <2>4, TaskManagerAssumption
  <2>10. Pool!GroupWork = UNION {Members(g) : g \in Groups}
    BY DEF Pool!GroupWork
  <2>11. S \cap Pool!Unfinished = {}
    BY <1>4, <2>4 DEF Pool!Unfinished
  <2>12. Pool!Submit
    BY <1>1, <1>3, <1>4, <1>5, <2>5, <2>6, <2>7, <2>8, <2>9, <2>10, <2>11
    DEF Pool!Submit, Pool!Submitted
  <2> QED
    BY <2>12 DEF Pool!Next
<1>7. CASE WaitStart(c)
  <2>1. /\ cpc[c] = "idle" /\ mpc = "alive" /\ cpc' = [cpc EXCEPT ![c] = "wait"]
        /\ awaited' = [awaited EXCEPT ![c] = outstanding] /\ outstanding' = outstanding
    BY <1>0, <1>7 DEF WaitStart
  <2>2. c \notin InWait /\ InWait' = InWait \cup {c}
    <3>1. /\ cpc'[c] = "wait" /\ \A d \in Clients : d # c => cpc'[d] = cpc[d]
      BY <1>0, <2>1 DEF TypeOK
    <3> QED
      BY <2>1, <3>1 DEF InWait
  <2>3. Pool!Unfinished = outstanding
    BY <1>4 DEF Pool!Unfinished
  <2>4. Pool!Wait(c)
    BY <1>3, <1>4, <1>5, <2>1, <2>2, <2>3 DEF Pool!Wait
  <2> QED
    BY <2>4 DEF Pool!Next
<1>8. CASE WaitCheck(c) /\ num_unfinished = 0
  <2>1. /\ cpc[c] = "wait" /\ cpc' = [cpc EXCEPT ![c] = "returned"]
        /\ UNCHANGED <<outstanding, awaited>>
    BY <1>8 DEF WaitCheck, history
  <2>2. c \in InWait /\ InWait' = InWait \ {c}
    <3>1. /\ cpc'[c] = "returned" /\ \A d \in Clients : d # c => cpc'[d] = cpc[d]
      BY <1>0, <2>1 DEF TypeOK
    <3> QED
      BY <2>1, <3>1 DEF InWait
  <2>3. awaited[c] = {}
    BY <1>0, <1>8, NoneUnfinished DEF WaitsInv
  <2>4. Pool!EndWait(c)
    BY <1>3, <1>4, <1>5, <2>1, <2>2, <2>3 DEF Pool!EndWait
  <2> QED
    BY <2>4 DEF Pool!Next
<1>9. CASE \/ AddEnqueue(c) \/ AddNotify(c) \/ WaitReturn(c) \/ WaitSpuriousWakeup(c)
           \/ WaitCheck(c) /\ num_unfinished # 0
  <2>1. \A d \in Clients : cpc'[d] \in {"wait", "asleep"} <=> cpc[d] \in {"wait", "asleep"}
    BY <1>0, <1>9
    DEF WaitSpuriousWakeup, AddEnqueue, AddNotify, WaitCheck, WaitReturn, TypeOK
  <2>2. InWait' = InWait
    BY <2>1, SameWaits
  <2>3. UNCHANGED <<outstanding, awaited>>
    <3>1. CASE WaitReturn(c)
      <4>1. awaited[c] = {}
        BY <1>0, <3>1 DEF WaitsInv, WaitReturn
      <4>2. outstanding' = outstanding /\ awaited' = [awaited EXCEPT ![c] = {}]
        BY <3>1 DEF WaitReturn
      <4> QED
        BY <1>0, <4>1, <4>2 DEF TypeOK
    <3>2. CASE ~WaitReturn(c)
      BY <1>9, <3>2 DEF WaitSpuriousWakeup, AddEnqueue, AddNotify, WaitCheck, history
    <3> QED
      BY <3>1, <3>2
  <2> QED
    BY <1>1, <1>3, <2>2, <2>3, PoolKept
<1> QED
  BY <1>0, <1>6, <1>7, <1>8, <1>9 DEF ClientStep, DrainDequeue, DrainEndRun, DrainDec

DestroyedKnown == SInv /\ mpc = "destroyed" =>
    /\ outstanding = {}
    /\ \A c \in Clients : cpc[c] = "idle"
    /\ \A g \in Groups : gpc[g] = "idle"

LEMMA DestroyedKnownNow == DestroyedKnown
BY NoneInCall, ShutdownComplete DEF DestroyedKnown, DestroyedAfterAllTasks

LEMMA DestroyedKnownNext == DestroyedKnown'
BY DestroyedKnownNow, PTL

(* The destructor is seen from outside when it has joined every runner: all *)
(* that was submitted has been executed by then.                            *)
LEMMA QuitInPool ==
    ASSUME SInv, SInv', QuitStep \/ QuitStart \/ UNCHANGED vars
    PROVE  Pool!Next \/ UNCHANGED Pool!vars
<1>0. TypeOK
  BY SInvFacts
<1>1. UNCHANGED <<gpc, gi, rtask, cpc, outstanding, awaited>>
  BY DEF QuitStep, QuitStart, QuitEnqueue, QuitNotify, QuitJoin, vars, runnerVars, groupVars,
         clientVars, history
<1>2. \A r \in Runners : rpc'[r] = "run" <=> rpc[r] = "run"
  BY <1>0
  DEF QuitStep, QuitStart, QuitEnqueue, QuitNotify, QuitJoin, WakeOneRunner, vars, runnerVars,
      TypeOK
<1>3. RunsNow' = RunsNow /\ CallsRun' = CallsRun /\ CallOf' = CallOf /\ InWait' = InWait
  <2>1. RunsNow' = RunsNow
    BY <1>1, <1>2, SameRuns
  <2>2. CallsRun' = CallsRun
    BY <1>1 DEF CallsRun, Current
  <2>3. CallOf' = CallOf /\ InWait' = InWait
    BY <1>1 DEF CallOf, InWait
  <2> QED
    BY <2>1, <2>2, <2>3
<1>4. CASE QuitJoin
  <2>1. mpc = "join" /\ mpc' = "destroyed"
    BY <1>4 DEF QuitJoin
  <2>2. outstanding' = {}
    BY <2>1, DestroyedKnownNext DEF DestroyedKnown
  <2>3. /\ \A d \in Clients : cpc'[d] = "idle"
        /\ \A g \in Groups : gpc'[g] = "idle"
    BY <2>1, DestroyedKnownNext DEF DestroyedKnown
  <2>4. Underway' = Underway /\ Underway \subseteq outstanding /\ outstanding = {}
    BY <1>1, <1>3, <2>2, UnderwayKnownNow, UnderwayKnownNext DEF UnderwayKnown
  <2>5. Pool!Unfinished = {}
    BY <2>4 DEF Pool!Unfinished
  <2>6. InWait = {}
    BY <1>1, <2>3 DEF InWait
  <2>7. \A g \in Groups : CallOf[g] = "none"
    BY <1>1, <2>3 DEF CallOf
  <2>8. (mpc = "destroyed") = FALSE /\ (mpc = "destroyed")' = TRUE
    BY <2>1
  <2>9. Pool!Destroy
    BY <1>1, <1>3, <2>4, <2>5, <2>6, <2>7, <2>8 DEF Pool!Destroy
  <2> QED
    BY <2>9 DEF Pool!Next
<1>5. CASE ~QuitJoin
  <2>1. mpc' = mpc \/ (mpc # "destroyed" /\ mpc' # "destroyed")
    BY <1>5 DEF QuitStep, QuitStart, QuitEnqueue, QuitNotify, vars, quitVars
  <2> QED
    BY <1>1, <1>3, <2>1, PoolKept
<1> QED
  BY <1>4, <1>5

LEMMA PoolInit ==
    ASSUME Init
    PROVE  Pool!Init
<1>1. /\ \A r \in Runners : rpc[r] # "run"
      /\ \A g \in Groups : gpc[g] = "idle"
      /\ \A c \in Clients : cpc[c] = "idle"
  BY DEF Init
<1>2. outstanding = {} /\ awaited = [c \in Clients |-> {}] /\ mpc = "alive"
  BY DEF Init
<1>3. \A S : S = {} => /\ {rtask[r] : r \in S} = {} /\ {Current(g) : g \in S} = {}
                       /\ {carg[c][1] : c \in S} = {}
  OBVIOUS
<1>4. Underway = {}
  BY <1>1, <1>3 DEF Underway, Current
<1>5. InWait = {}
  BY <1>1 DEF InWait
<1>6. CallOf = [g \in Groups |-> "none"]
  BY <1>1 DEF CallOf
<1> QED
  BY <1>2, <1>4, <1>5, <1>6 DEF Pool!Init

LEMMA PoolNext ==
    ASSUME SInv, SInv', [Next]_vars
    PROVE  [Pool!Next]_Pool!vars
BY RunnerInPool, GroupInPool, ClientInPool, QuitInPool
DEF Next, Working, Calling, SpuriousWakeup, Destroyed

(* The manager with runner threads is a TaskPool, whatever the number of    *)
(* threads, callers and tasks and however group calls nest: each submitted  *)
(* task is executed once, and group calls, waits and the destructor return  *)
(* only when what they are about has been.                                  *)
THEOREM IsTaskPool ==
    ASSUME Runners # {}
    PROVE  Spec => ImplementsPool
<1>1. Init => SInv /\ Pool!Init
  BY ShutdownInit, PoolInit
<1>2. SInv /\ [Next]_vars => SInv'
  BY ShutdownNext
<1>3. SInv /\ SInv' /\ [Next]_vars => [Pool!Next]_Pool!vars
  BY PoolNext
<1> QED
  BY <1>1, <1>2, <1>3, PTL DEF Spec, ImplementsPool, Pool!Spec

-----------------------------------------------------------------------------
(* No wakeup is lost, on a manager with runner threads.                     *)

(* The clients about to notify one runner.                                  *)
NotifyingClients == {c \in Clients : cpc[c] = "notify"}

(* What is counted is finite; the clients inside addTask are, since no step *)
(* brings more than one.                                                    *)
LEMMA WakeupCounts ==
    ASSUME TypeOK, IsFiniteSet(NotifyingClients)
    PROVE  /\ IsFiniteSet(Queue) /\ Cardinality(Queue) \in Nat
           /\ IsFiniteSet(Awake) /\ Cardinality(Awake) \in Nat
           /\ Cardinality(NotifyingClients) \in Nat
           /\ NotifyingOne = Cardinality(NotifyingClients) + (IF mpc = "notify" THEN 1 ELSE 0)
           /\ NotifyingOne \in Nat
<1>1. IsFiniteSet(Queue) /\ IsFiniteSet(Awake)
  <2>1. Queue \in SUBSET Task /\ Awake \in SUBSET Runners
    BY DEF Queue, Awake
  <2> QED
    BY <2>1, FS_Subset, TaskAssumption, TaskManagerAssumption
<1>2. Cardinality(Queue) \in Nat /\ Cardinality(Awake) \in Nat /\ Cardinality(NotifyingClients) \in Nat
  BY <1>1, FS_CardinalityType
<1>3. NotifyingOne = Cardinality(NotifyingClients) + (IF mpc = "notify" THEN 1 ELSE 0)
  BY DEF NotifyingOne, NotifyingClients
<1> QED
  BY <1>1, <1>2, <1>3

(* The runners that are up stay up, no task comes, no notify goes.          *)
LEMMA RunnersWokenKept ==
    ASSUME RunnersGetWoken, TypeOK, TypeOK',
           IsFiniteSet(NotifyingClients), IsFiniteSet(NotifyingClients'),
           (\E r \in Runners : rpc'[r] = "asleep") => \E r \in Runners : rpc[r] = "asleep",
           (\E c \in Clients : cpc[c] = "notifyAll") => \E c \in Clients : cpc'[c] = "notifyAll",
           (\E g \in Groups : gpc[g] = "notifyAll") => \E g \in Groups : gpc'[g] = "notifyAll",
           Cardinality(Queue') - Cardinality(Awake') - Cardinality(NotifyingClients')
             - (IF mpc' = "notify" THEN 1 ELSE 0)
           <= Cardinality(Queue) - Cardinality(Awake) - Cardinality(NotifyingClients)
             - (IF mpc = "notify" THEN 1 ELSE 0)
    PROVE  RunnersGetWoken'
<1> DEFINE m == IF mpc = "notify" THEN 1 ELSE 0
           n == IF mpc' = "notify" THEN 1 ELSE 0
<1>1. /\ Cardinality(Queue) \in Nat /\ Cardinality(Awake) \in Nat
      /\ Cardinality(NotifyingClients) \in Nat
      /\ NotifyingOne = Cardinality(NotifyingClients) + m
  BY WakeupCounts
<1>2. /\ Cardinality(Queue') \in Nat /\ Cardinality(Awake') \in Nat
      /\ Cardinality(NotifyingClients') \in Nat
      /\ NotifyingOne' = Cardinality(NotifyingClients') + n
  <2>1. LET Q == Queue' IN Cardinality(Q) \in Nat
    <3>1. Queue' \in SUBSET Task
      BY DEF Queue
    <3> QED
      BY <3>1, FS_Subset, FS_CardinalityType, TaskAssumption
  <2>2. Cardinality(Awake') \in Nat
    <3>1. Awake' \in SUBSET Runners
      BY DEF Awake
    <3> QED
      BY <3>1, FS_Subset, FS_CardinalityType, TaskManagerAssumption
  <2>3. Cardinality(NotifyingClients') \in Nat
    BY FS_CardinalityType
  <2>4. NotifyingOne' = Cardinality(NotifyingClients') + n
    BY DEF NotifyingOne, NotifyingClients
  <2> QED
    BY <2>1, <2>2, <2>3, <2>4
<1>3. Cardinality(Queue) <= Cardinality(Awake) + NotifyingOne
      => Cardinality(Queue') <= Cardinality(Awake') + NotifyingOne'
  <2>1. m \in {0, 1} /\ n \in {0, 1}
    OBVIOUS
  <2>2. Cardinality(Queue') - Cardinality(Awake') - Cardinality(NotifyingClients') - n
        <= Cardinality(Queue) - Cardinality(Awake) - Cardinality(NotifyingClients) - m
    OBVIOUS
  <2> QED
    BY ONLY <1>1, <1>2, <2>1, <2>2
<1> QED
  BY <1>3 DEF RunnersGetWoken, Queue

(* A step that wakes no one and needs no one woken.                         *)
LEMMA RunnersStayWoken ==
    ASSUME RunnersGetWoken, TypeOK, TypeOK', IsFiniteSet(NotifyingClients),
           \A t \in Task : in_queue'[t] => in_queue[t],
           \A r \in Runners : rpc'[r] = "asleep" => rpc[r] = "asleep",
           \A r \in Runners : r \in Awake => r \in Awake',
           \A c \in Clients : /\ cpc[c] = "notify" <=> cpc'[c] = "notify"
                              /\ cpc[c] = "notifyAll" => cpc'[c] = "notifyAll",
           \A g \in Groups : gpc[g] = "notifyAll" => gpc'[g] = "notifyAll",
           mpc = "notify" <=> mpc' = "notify"
    PROVE  IsFiniteSet(NotifyingClients') /\ RunnersGetWoken'
<1>1. NotifyingClients' = NotifyingClients
  BY DEF NotifyingClients
<1>2. Queue' \in SUBSET Queue
  BY DEF Queue
<1>3. Awake \in SUBSET Awake'
  BY DEF Awake
<1>4. IsFiniteSet(Queue) /\ IsFiniteSet(Awake')
  <2>1. Awake' \in SUBSET Runners
    BY DEF Awake
  <2> QED
    BY <2>1, WakeupCounts, FS_Subset, TaskManagerAssumption
<1>5. /\ Cardinality(Queue') \in Nat /\ Cardinality(Queue) \in Nat
      /\ Cardinality(Awake') \in Nat /\ Cardinality(Awake) \in Nat
      /\ Cardinality(NotifyingClients) \in Nat
      /\ Cardinality(Queue') <= Cardinality(Queue) /\ Cardinality(Awake) <= Cardinality(Awake')
  BY <1>2, <1>3, <1>4, WakeupCounts, FS_Subset, FS_CardinalityType
<1>6. Cardinality(Queue') - Cardinality(Awake') - Cardinality(NotifyingClients')
        - (IF mpc' = "notify" THEN 1 ELSE 0)
      <= Cardinality(Queue) - Cardinality(Awake) - Cardinality(NotifyingClients)
        - (IF mpc = "notify" THEN 1 ELSE 0)
  BY <1>1, <1>5
<1> QED
  BY <1>1, <1>6, RunnersWokenKept

(* A runner takes a task, or finds the queue empty.                         *)
LEMMA RunnersWokenDequeue ==
    ASSUME SInv, RunnersGetWoken, TypeOK', IsFiniteSet(NotifyingClients),
           NEW r \in Runners, RunnerDequeue(r)
    PROVE  IsFiniteSet(NotifyingClients') /\ RunnersGetWoken'
<1>0. TypeOK /\ IInv /\ QueueTypeOK /\ LinksConsistent /\ OneList
  BY SInvFacts
<1>1. UNCHANGED <<gpc, cpc, mpc>> /\ rpc[r] = "dequeue"
  BY DEF RunnerDequeue, groupVars, clientVars, quitVars
<1>2. NotifyingClients' = NotifyingClients
  BY <1>1 DEF NotifyingClients
<1>3. CASE head = NoTask
  <2>1. in_queue' = in_queue
    BY <1>3 DEF RunnerDequeue, queueVars
  <2>2. \A t \in Task : ~in_queue[t]
    <3>1. FrontClosed(Queue)
      BY <1>0, TaskAssumption DEF FrontClosed, Queue, LinksConsistent, QueueTypeOK
    <3> QED
      BY <1>0, <1>3, <3>1, TaskAssumption DEF OneList, Queue
  <2>3. Queue' = {}
    BY <2>1, <2>2 DEF Queue
  <2>4. /\ Cardinality(Queue') = 0
        /\ Cardinality(Awake') \in Nat /\ NotifyingOne' \in Nat
    <3>1. Awake' \in SUBSET Runners
      BY DEF Awake
    <3>2. Cardinality(Awake') \in Nat
      BY <3>1, FS_Subset, FS_CardinalityType, TaskManagerAssumption
    <3>3. NotifyingOne' = NotifyingOne
      BY <1>1 DEF NotifyingOne
    <3> QED
      BY <1>0, <2>3, <3>2, <3>3, WakeupCounts, FS_EmptySet
  <2> QED
    BY <1>2, <2>4 DEF RunnersGetWoken, Queue
<1>4. CASE head # NoTask
  <2>1. Dequeue /\ rpc' = [rpc EXCEPT ![r] = IF head \in QuitTasks THEN "done" ELSE "current"]
    BY <1>4 DEF RunnerDequeue
  <2>2. head \in Queue /\ Queue' = Queue \ {head}
    BY <1>0, <2>1, DequeueRemoves DEF Queue
  <2>3. r \in Awake /\ Awake \ {r} \in SUBSET Awake'
    BY <1>0, <1>1, <2>1 DEF Awake, TypeOK
  <2>4. /\ Cardinality(Queue') = Cardinality(Queue) - 1 /\ Cardinality(Queue) \in Nat
        /\ Cardinality(Awake \ {r}) = Cardinality(Awake) - 1 /\ Cardinality(Awake) \in Nat
    BY <1>0, <2>2, <2>3, WakeupCounts, FS_RemoveElement
  <2>5. Cardinality(Awake \ {r}) <= Cardinality(Awake') /\ Cardinality(Awake') \in Nat
    <3>1. Awake' \in SUBSET Runners
      BY DEF Awake
    <3>2. IsFiniteSet(Awake')
      BY <3>1, FS_Subset, TaskManagerAssumption
    <3> QED
      BY <2>3, <3>2, FS_Subset, FS_CardinalityType
  <2>6. Cardinality(NotifyingClients) \in Nat
    BY FS_CardinalityType
  <2>7. Cardinality(Queue') - Cardinality(Awake') - Cardinality(NotifyingClients')
          - (IF mpc' = "notify" THEN 1 ELSE 0)
        <= Cardinality(Queue) - Cardinality(Awake) - Cardinality(NotifyingClients)
          - (IF mpc = "notify" THEN 1 ELSE 0)
    BY <1>1, <1>2, <2>4, <2>5, <2>6
  <2>8. (\E s \in Runners : rpc'[s] = "asleep") => \E s \in Runners : rpc[s] = "asleep"
    BY <1>0, <2>1 DEF TypeOK
  <2> QED
    BY <1>0, <1>1, <1>2, <2>7, <2>8, RunnersWokenKept
<1> QED
  BY <1>3, <1>4

(* A notify of one wakes a runner, unless none sleeps.                      *)
LEMMA RunnersWokenNotify ==
    ASSUME RunnersGetWoken, TypeOK, TypeOK',
           IsFiniteSet(NotifyingClients), IsFiniteSet(NotifyingClients'),
           WakeOneRunner, UNCHANGED <<in_queue, gpc>>,
           (\E c \in Clients : cpc[c] = "notifyAll") => \E c \in Clients : cpc'[c] = "notifyAll",
           Cardinality(NotifyingClients) + (IF mpc = "notify" THEN 1 ELSE 0)
           = Cardinality(NotifyingClients') + (IF mpc' = "notify" THEN 1 ELSE 0) + 1
    PROVE  RunnersGetWoken'
<1>1. CASE \A r \in Runners : rpc[r] # "asleep"
  BY <1>1 DEF WakeOneRunner, RunnersGetWoken
<1>2. CASE \E r \in Runners : rpc[r] = "asleep"
  <2>1. PICK r \in Runners : rpc[r] = "asleep" /\ rpc' = [rpc EXCEPT ![r] = "dequeue"]
    BY <1>2 DEF WakeOneRunner
  <2>2. Awake' = Awake \cup {r} /\ r \notin Awake
    BY <2>1 DEF Awake, TypeOK
  <2>3. Cardinality(Awake') = Cardinality(Awake) + 1 /\ Cardinality(Awake) \in Nat
    BY <2>2, WakeupCounts, FS_AddElement
  <2>4. Queue' = Queue /\ Cardinality(Queue) \in Nat
    BY WakeupCounts DEF Queue
  <2>5. Cardinality(NotifyingClients) \in Nat /\ Cardinality(NotifyingClients') \in Nat
    BY FS_CardinalityType
  <2>6. Cardinality(Queue') - Cardinality(Awake') - Cardinality(NotifyingClients')
          - (IF mpc' = "notify" THEN 1 ELSE 0)
        <= Cardinality(Queue) - Cardinality(Awake) - Cardinality(NotifyingClients)
          - (IF mpc = "notify" THEN 1 ELSE 0)
    BY <2>3, <2>4, <2>5
  <2> QED
    BY <1>2, <2>6, RunnersWokenKept
<1> QED
  BY <1>1, <1>2

(* A task goes into the queue and a notify is due for it, of one runner or  *)
(* of all.                                                                  *)
LEMMA RunnersWokenAdd ==
    ASSUME RunnersGetWoken, TypeOK, TypeOK',
           IsFiniteSet(NotifyingClients), IsFiniteSet(NotifyingClients'),
           UNCHANGED <<rpc, gpc>>,
           (\E c \in Clients : cpc[c] = "notifyAll") => \E c \in Clients : cpc'[c] = "notifyAll",
           NEW u \in Task, \A t \in Task : in_queue'[t] <=> t = u \/ in_queue[t],
           Cardinality(NotifyingClients) + (IF mpc = "notify" THEN 1 ELSE 0) + 1
           = Cardinality(NotifyingClients') + (IF mpc' = "notify" THEN 1 ELSE 0)
    PROVE  RunnersGetWoken'
<1>1. Queue' = Queue \cup {u}
  BY DEF Queue
<1>2. /\ Cardinality(Queue') <= Cardinality(Queue) + 1
      /\ Cardinality(Queue) \in Nat /\ Cardinality(Queue') \in Nat
  <2>1. IsFiniteSet(Queue) /\ Cardinality(Queue) \in Nat
    BY WakeupCounts
  <2>2. Cardinality(Queue \cup {u}) = IF u \in Queue THEN Cardinality(Queue) ELSE Cardinality(Queue) + 1
    BY <2>1, FS_AddElement
  <2> QED
    BY <1>1, <2>1, <2>2
<1>3. Awake' = Awake /\ Cardinality(Awake) \in Nat
  BY WakeupCounts DEF Awake
<1>4. Cardinality(NotifyingClients) \in Nat /\ Cardinality(NotifyingClients') \in Nat
  BY FS_CardinalityType
<1>5. Cardinality(Queue') - Cardinality(Awake') - Cardinality(NotifyingClients')
        - (IF mpc' = "notify" THEN 1 ELSE 0)
      <= Cardinality(Queue) - Cardinality(Awake) - Cardinality(NotifyingClients)
        - (IF mpc = "notify" THEN 1 ELSE 0)
  BY <1>2, <1>3, <1>4
<1> QED
  BY <1>5, RunnersWokenKept

(* A client's step, in addTask or addTasks.                                 *)
LEMMA RunnersWokenClient ==
    ASSUME SInv, RunnersGetWoken, TypeOK', IsFiniteSet(NotifyingClients),
           NEW c \in Clients, AddEnqueue(c) \/ AddNotify(c)
    PROVE  IsFiniteSet(NotifyingClients') /\ RunnersGetWoken'
<1>0. TypeOK /\ IInv
  BY SInvFacts
<1>1. gpc' = gpc /\ mpc' = mpc
  BY DEF AddEnqueue, AddNotify, groupVars, quitVars
<1>2. CASE AddEnqueue(c)
  <2>1. PICK n \in {"notify", "notifyAll"} :
          /\ n = "notify" => Len(carg[c]) = 1
          /\ cpc' = [cpc EXCEPT ![c] = n]
    BY <1>2 DEF AddEnqueue
  <2>2. cpc[c] = "enqueue" /\ rpc' = rpc /\ Enqueue(carg[c]) /\ carg[c] \in Seq(Task)
    BY <1>0, <1>2 DEF AddEnqueue, runnerVars, TypeOK
  <2>3. \A d \in Clients : cpc'[d] = IF d = c THEN n ELSE cpc[d]
    BY <1>0, <2>1 DEF TypeOK
  <2>4. CASE n = "notifyAll"
    <3>1. NotifyingClients' = NotifyingClients
      BY <2>2, <2>3, <2>4 DEF NotifyingClients
    <3> QED
      BY <2>3, <2>4, <3>1 DEF RunnersGetWoken
  <2>5. CASE n = "notify"
    <3>1. NotifyingClients' = NotifyingClients \cup {c} /\ c \notin NotifyingClients
      BY <2>2, <2>3, <2>5 DEF NotifyingClients
    <3>2. /\ IsFiniteSet(NotifyingClients') /\ Cardinality(NotifyingClients) \in Nat
          /\ Cardinality(NotifyingClients') = Cardinality(NotifyingClients) + 1
      BY <3>1, FS_AddElement, FS_CardinalityType
    <3>3. Len(carg[c]) = 1 /\ ToSet(carg[c]) = {carg[c][1]} /\ carg[c][1] \in Task
      BY <2>1, <2>2, <2>5 DEF ToSet
    <3>4. \A t \in Task : in_queue'[t] <=> t = carg[c][1] \/ in_queue[t]
      BY <2>2, <3>3, EnqueueAdds
    <3>5. (\E d \in Clients : cpc[d] = "notifyAll") => \E d \in Clients : cpc'[d] = "notifyAll"
      BY <2>2, <2>3
    <3>6. Cardinality(NotifyingClients) + (IF mpc = "notify" THEN 1 ELSE 0) + 1
          = Cardinality(NotifyingClients') + (IF mpc' = "notify" THEN 1 ELSE 0)
      BY <1>1, <3>2
    <3> QED
      BY <1>0, <1>1, <2>2, <3>2, <3>3, <3>4, <3>5, <3>6, RunnersWokenAdd
  <2> QED
    BY <2>4, <2>5
<1>3. CASE AddNotify(c)
  <2>1. /\ in_queue' = in_queue /\ cpc' = [cpc EXCEPT ![c] = "idle"]
        /\ \/ cpc[c] = "notify" /\ WakeOneRunner
           \/ cpc[c] = "notifyAll" /\ WakeAllRunners
    BY <1>3 DEF AddNotify, queueVars
  <2>2. \A d \in Clients : cpc'[d] = IF d = c THEN "idle" ELSE cpc[d]
    BY <1>0, <2>1 DEF TypeOK
  <2>3. CASE cpc[c] = "notify" /\ WakeOneRunner
    <3>1. NotifyingClients' = NotifyingClients \ {c} /\ c \in NotifyingClients
      BY <2>2, <2>3 DEF NotifyingClients
    <3>2. /\ IsFiniteSet(NotifyingClients') /\ Cardinality(NotifyingClients) \in Nat
          /\ Cardinality(NotifyingClients') = Cardinality(NotifyingClients) - 1
      BY <3>1, FS_RemoveElement, FS_CardinalityType
    <3>3. (\E d \in Clients : cpc[d] = "notifyAll") => \E d \in Clients : cpc'[d] = "notifyAll"
      BY <2>2, <2>3
    <3>4. Cardinality(NotifyingClients) + (IF mpc = "notify" THEN 1 ELSE 0)
          = Cardinality(NotifyingClients') + (IF mpc' = "notify" THEN 1 ELSE 0) + 1
      BY <1>1, <3>2
    <3> QED
      BY <1>0, <1>1, <2>1, <2>3, <3>2, <3>3, <3>4, RunnersWokenNotify
  <2>4. CASE cpc[c] = "notifyAll" /\ WakeAllRunners
    <3>1. NotifyingClients' = NotifyingClients
      BY <2>2, <2>4 DEF NotifyingClients
    <3>2. \A r \in Runners : rpc'[r] # "asleep"
      BY <2>4 DEF WakeAllRunners
    <3> QED
      BY <3>1, <3>2 DEF RunnersGetWoken
  <2> QED
    BY <2>1, <2>3, <2>4
<1> QED
  BY <1>2, <1>3

(* A step of the destructor, which puts its tasks in one by one.            *)
LEMMA RunnersWokenQuit ==
    ASSUME SInv, RunnersGetWoken, TypeOK', IsFiniteSet(NotifyingClients), QuitEnqueue \/ QuitNotify
    PROVE  IsFiniteSet(NotifyingClients') /\ RunnersGetWoken'
<1>0. TypeOK /\ IInv /\ QuitTasks \subseteq Task
  BY SInvFacts, TaskManagerAssumption
<1>1. gpc' = gpc /\ cpc' = cpc
  BY DEF QuitEnqueue, QuitNotify, groupVars, clientVars
<1>2. NotifyingClients' = NotifyingClients /\ Cardinality(NotifyingClients) \in Nat
  BY <1>1, FS_CardinalityType DEF NotifyingClients
<1>3. ASSUME NEW q \in QuitTasks, mpc = "enqueue", Enqueue(<<q>>), mpc' = "notify", rpc' = rpc
      PROVE  RunnersGetWoken'
  <2>1. <<q>> \in Seq(Task) /\ ToSet(<<q>>) = {q}
    BY <1>0 DEF ToSet
  <2>2. \A t \in Task : in_queue'[t] <=> t = q \/ in_queue[t]
    BY <1>3, <2>1, EnqueueAdds
  <2>3. Cardinality(NotifyingClients) + (IF mpc = "notify" THEN 1 ELSE 0) + 1
        = Cardinality(NotifyingClients') + (IF mpc' = "notify" THEN 1 ELSE 0)
    BY <1>2, <1>3
  <2> QED
    BY <1>0, <1>1, <1>2, <1>3, <2>2, <2>3, RunnersWokenAdd
<1>4. CASE mpc = "enqueue" /\ mpc' = "join" /\ UNCHANGED <<in_queue, rpc>>
  BY <1>0, <1>1, <1>4, RunnersStayWoken DEF Awake
<1>5. CASE QuitNotify
  <2>1. mpc = "notify" /\ mpc' = "enqueue" /\ WakeOneRunner /\ in_queue' = in_queue
    BY <1>5 DEF QuitNotify, queueVars
  <2>2. Cardinality(NotifyingClients) + (IF mpc = "notify" THEN 1 ELSE 0)
        = Cardinality(NotifyingClients') + (IF mpc' = "notify" THEN 1 ELSE 0) + 1
    BY <1>2, <2>1
  <2> QED
    BY <1>0, <1>1, <1>2, <2>1, <2>2, RunnersWokenNotify
<1>6. QuitEnqueue => \/ mpc = "enqueue" /\ mpc' = "join" /\ UNCHANGED <<in_queue, rpc>>
                     \/ \E q \in QuitTasks :
                          mpc = "enqueue" /\ Enqueue(<<q>>) /\ mpc' = "notify" /\ rpc' = rpc
  BY DEF QuitEnqueue, queueVars, runnerVars
<1> QED
  BY <1>2, <1>3, <1>4, <1>5, <1>6

LEMMA RunnersWokenStep ==
    ASSUME SInv, RunnersGetWoken, IsFiniteSet(NotifyingClients), [Next]_vars
    PROVE  IsFiniteSet(NotifyingClients') /\ RunnersGetWoken'
<1>0. /\ TypeOK /\ TypeOK' /\ IInv /\ QueueTypeOK
      /\ \A c \in Clients : cpc[c] \notin {"drain", "drainRun", "drainDec"}
      /\ NoGroup \notin Groups
  <2>1. SInv'
    BY ShutdownNext
  <2> QED
    BY <2>1, SInvFacts, TaskManagerAssumption DEF SInv, CInv, IInv
<1>1. ASSUME NEW r \in Runners, RunnerStep(r) \/ RunnerSpuriousWakeup(r), ~RunnerDequeue(r)
      PROVE  IsFiniteSet(NotifyingClients') /\ RunnersGetWoken'
  <2>1. /\ in_queue' = in_queue /\ mpc' = mpc
        /\ \A g \in Groups : gpc[g] = "notifyAll" => gpc'[g] = "notifyAll"
    BY <1>0, <1>1
    DEF RunnerStep, RunnerSpuriousWakeup, RunnerSetCurrent, RunnerEndRun, MayEnd, AfterEnd,
        RunnerGroupDec, RunnerGroupNotify, RunnerClearCurrent, RunnerTaskFinished,
        RunnerFinishNotify, queueVars, groupVars, quitVars, TypeOK
  <2>3. cpc' = cpc \/ WakeAllWaiters
    BY <1>1
    DEF RunnerStep, RunnerSpuriousWakeup, RunnerSetCurrent, RunnerEndRun, RunnerGroupDec,
        RunnerGroupNotify, RunnerClearCurrent, RunnerTaskFinished, RunnerFinishNotify, clientVars
  <2>4. \A c \in Clients : /\ cpc[c] = "notify" <=> cpc'[c] = "notify"
                           /\ cpc[c] = "notifyAll" => cpc'[c] = "notifyAll"
    BY <1>0, <2>3 DEF WakeAllWaiters, TypeOK
  <2>2. /\ \A s \in Runners : rpc'[s] = "asleep" => rpc[s] = "asleep"
        /\ \A s \in Runners : s \in Awake => s \in Awake'
    BY <1>0, <1>1
    DEF RunnerStep, RunnerSpuriousWakeup, RunnerSetCurrent, RunnerEndRun, RunnerGroupDec,
        RunnerGroupNotify, RunnerClearCurrent, RunnerTaskFinished, RunnerFinishNotify, Awake, TypeOK
  <2> QED
    BY <1>0, <2>1, <2>2, <2>4, RunnersStayWoken
<1>2. ASSUME NEW g \in Groups, GroupEnqueue(g) \/ GroupNotifyAll(g)
      PROVE  IsFiniteSet(NotifyingClients') /\ RunnersGetWoken'
  <2>1. NotifyingClients' = NotifyingClients
    BY <1>2 DEF GroupEnqueue, GroupNotifyAll, clientVars, NotifyingClients
  <2>2. gpc'[g] = "notifyAll" \/ \A r \in Runners : rpc'[r] # "asleep"
    BY <1>0, <1>2 DEF GroupEnqueue, GroupNotifyAll, WakeAllRunners, TypeOK
  <2> QED
    BY <2>1, <2>2 DEF RunnersGetWoken
<1>3. ASSUME NEW g \in Groups,
             GroupStep(g) \/ GroupStart(g) \/ GroupResume(g) \/ GroupSpuriousWakeup(g),
             ~GroupEnqueue(g), ~GroupNotifyAll(g)
      PROVE  IsFiniteSet(NotifyingClients') /\ RunnersGetWoken'
  <2>1. rpc' = rpc /\ mpc' = mpc
    BY <1>3
    DEF GroupStep, GroupStart, GroupResume, GroupSpuriousWakeup, GroupCount, GroupTakeFirst,
        GroupTakeQueued, GroupSkipTaken, GroupLoopEnds, GroupEndRun, GroupTaskFinished,
        GroupFinishNotify, GroupDec, GroupWait, runnerVars, quitVars
  <2>2. \A t \in Task : in_queue'[t] => in_queue[t]
    <3>1. CASE GroupTakeQueued(g)
      BY <1>0, <3>1 DEF GroupTakeQueued, Unlink, QueueTypeOK
    <3>2. CASE ~GroupTakeQueued(g)
      BY <1>3, <3>2
      DEF GroupStep, GroupStart, GroupResume, GroupSpuriousWakeup, GroupCount, GroupTakeFirst,
          GroupSkipTaken, GroupLoopEnds, GroupEndRun, GroupTaskFinished, GroupFinishNotify,
          GroupDec, GroupWait, queueVars
    <3> QED
      BY <3>1, <3>2
  <2>3. \A h \in Groups : gpc[h] = "notifyAll" => gpc'[h] = "notifyAll"
    BY <1>0, <1>3
    DEF GroupStep, GroupStart, GroupResume, GroupSpuriousWakeup, GroupCount, GroupTakeFirst,
        GroupTakeQueued, GroupSkipTaken, GroupLoopEnds, GroupEndRun, MayEnd, AfterEnd,
        GroupTaskFinished, GroupFinishNotify, GroupDec, GroupWait, TypeOK
  <2>4. cpc' = cpc \/ WakeAllWaiters
    BY <1>3
    DEF GroupStep, GroupStart, GroupResume, GroupSpuriousWakeup, GroupCount, GroupTakeFirst,
        GroupTakeQueued, GroupSkipTaken, GroupLoopEnds, GroupEndRun, GroupTaskFinished,
        GroupFinishNotify, GroupDec, GroupWait, clientVars
  <2>5. \A c \in Clients : /\ cpc[c] = "notify" <=> cpc'[c] = "notify"
                           /\ cpc[c] = "notifyAll" => cpc'[c] = "notifyAll"
    BY <1>0, <2>4 DEF WakeAllWaiters, TypeOK
  <2> QED
    BY <1>0, <2>1, <2>2, <2>3, <2>5, RunnersStayWoken DEF Awake
<1>4. ASSUME NEW c \in Clients, ClientStep(c) \/ Add(c) \/ WaitStart(c) \/ WaitSpuriousWakeup(c),
             ~AddEnqueue(c), ~AddNotify(c)
      PROVE  IsFiniteSet(NotifyingClients') /\ RunnersGetWoken'
  <2>1. /\ UNCHANGED <<in_queue, rpc, gpc, mpc>>
        /\ \A d \in Clients : /\ cpc[d] = "notify" <=> cpc'[d] = "notify"
                              /\ cpc[d] = "notifyAll" => cpc'[d] = "notifyAll"
    BY <1>0, <1>4
    DEF ClientStep, Add, AddCount, WaitStart, WaitSpuriousWakeup, WaitCheck, WaitReturn,
        DrainDequeue, DrainEndRun, DrainDec, queueVars, runnerVars, groupVars, quitVars, TypeOK
  <2> QED
    BY <1>0, <2>1, RunnersStayWoken DEF Awake
<1>5. CASE QuitJoin \/ QuitStart \/ UNCHANGED vars
  <2>1. /\ UNCHANGED <<in_queue, rpc, gpc, cpc>>
        /\ mpc = "notify" <=> mpc' = "notify"
    BY <1>5 DEF QuitJoin, QuitStart, vars, queueVars, runnerVars, groupVars, clientVars, quitVars
  <2> QED
    BY <1>0, <2>1, RunnersStayWoken DEF Awake
<1> QED
  BY <1>0, <1>1, <1>2, <1>3, <1>4, <1>5, RunnersWokenDequeue, RunnersWokenClient, RunnersWokenQuit
  DEF Next, Working, Calling, SpuriousWakeup, QuitStep, Destroyed

-----------------------------------------------------------------------------
(* A client that sleeps while tasks are unfinished is woken when none is.   *)
LEMMA WaitersWokenStep ==
    ASSUME SInv, WaitersGetWoken, [Next]_vars
    PROVE  WaitersGetWoken'
<1>0. /\ TypeOK /\ NoGroup \notin Groups
      /\ \A c \in Clients : cpc[c] \notin {"drain", "drainRun", "drainDec"}
  BY SInvFacts, TaskManagerAssumption
<1>1. num_unfinished \in Nat
  <2>1. Accounting
    BY DEF SInv, CInv
  <2> QED
    BY <1>0, <2>1, CountsAreNat
<1>2. ASSUME \A c \in Clients : cpc'[c] = "asleep" => cpc[c] = "asleep" \/ num_unfinished' # 0,
             num_unfinished' = 0 => num_unfinished = 0,
             \A r \in Runners : rpc[r] = "finishNotify" => rpc'[r] = "finishNotify",
             \A g \in Groups : gpc[g] = "finishNotify" => gpc'[g] = "finishNotify"
      PROVE  WaitersGetWoken'
  BY <1>2 DEF WaitersGetWoken
<1>3. ASSUME NEW r \in Runners, RunnerTaskFinished(r)
      PROVE  WaitersGetWoken'
  <2>1. /\ num_unfinished' = num_unfinished - 1 /\ UNCHANGED <<gpc, cpc>>
        /\ rpc' = [rpc EXCEPT ![r] = IF num_unfinished = 1 THEN "finishNotify" ELSE "dequeue"]
    BY <1>3 DEF RunnerTaskFinished, groupVars, clientVars
  <2> QED
    BY <1>0, <1>1, <2>1 DEF WaitersGetWoken, TypeOK
<1>4. ASSUME NEW g \in Groups, GroupTaskFinished(g)
      PROVE  WaitersGetWoken'
  <2>1. /\ num_unfinished' = num_unfinished - 1 /\ UNCHANGED <<rpc, cpc>>
        /\ gpc' = [gpc EXCEPT ![g] = IF num_unfinished = 1 THEN "finishNotify" ELSE "dec"]
    BY <1>4 DEF GroupTaskFinished, runnerVars, clientVars
  <2> QED
    BY <1>0, <1>1, <2>1 DEF WaitersGetWoken, TypeOK
<1>5. ASSUME WakeAllWaiters
      PROVE  WaitersGetWoken'
  BY <1>5 DEF WakeAllWaiters, WaitersGetWoken
<1>6. ASSUME NEW r \in Runners, RunnerStep(r) \/ RunnerSpuriousWakeup(r),
             ~RunnerTaskFinished(r), ~RunnerFinishNotify(r)
      PROVE  WaitersGetWoken'
  <2>1. num_unfinished' = num_unfinished /\ cpc' = cpc
    BY <1>6
    DEF RunnerStep, RunnerSpuriousWakeup, RunnerDequeue, RunnerSetCurrent, RunnerEndRun,
        RunnerGroupDec, RunnerGroupNotify, RunnerClearCurrent, clientVars
  <2>2. /\ \A s \in Runners : rpc[s] = "finishNotify" => rpc'[s] = "finishNotify"
        /\ \A g \in Groups : gpc[g] = "finishNotify" => gpc'[g] = "finishNotify"
    BY <1>0, <1>6
    DEF RunnerStep, RunnerSpuriousWakeup, RunnerDequeue, RunnerSetCurrent, RunnerEndRun, MayEnd,
        AfterEnd, RunnerGroupDec, RunnerGroupNotify, RunnerClearCurrent, groupVars, TypeOK
  <2> QED
    BY <1>2, <2>1, <2>2
<1>7. ASSUME NEW g \in Groups,
             GroupStep(g) \/ GroupStart(g) \/ GroupResume(g) \/ GroupSpuriousWakeup(g),
             ~GroupTaskFinished(g), ~GroupFinishNotify(g)
      PROVE  WaitersGetWoken'
  <2>1. cpc' = cpc
    BY <1>7
    DEF GroupStep, GroupStart, GroupResume, GroupSpuriousWakeup, GroupCount, GroupEnqueue,
        GroupNotifyAll, GroupTakeFirst, GroupTakeQueued, GroupSkipTaken, GroupLoopEnds, GroupEndRun,
        GroupDec, GroupWait, clientVars
  <2>2. num_unfinished' = num_unfinished \/ num_unfinished' = num_unfinished + Len(GroupTasks[g])
    BY <1>7
    DEF GroupStep, GroupStart, GroupResume, GroupSpuriousWakeup, GroupCount, GroupEnqueue,
        GroupNotifyAll, GroupTakeFirst, GroupTakeQueued, GroupSkipTaken, GroupLoopEnds, GroupEndRun,
        GroupDec, GroupWait
  <2>3. num_unfinished' = 0 => num_unfinished = 0
    BY <1>1, <2>2, GroupFacts
  <2>4. \A h \in Groups : gpc[h] = "finishNotify" => gpc'[h] = "finishNotify"
    BY <1>0, <1>7
    DEF GroupStep, GroupStart, GroupResume, GroupSpuriousWakeup, GroupCount, GroupEnqueue,
        GroupNotifyAll, GroupTakeFirst, GroupTakeQueued, GroupSkipTaken, GroupLoopEnds, GroupEndRun,
        MayEnd, AfterEnd, GroupDec, GroupWait, TypeOK
  <2>5. \A s \in Runners : rpc[s] = "finishNotify" => rpc'[s] = "finishNotify"
    BY <1>0, <1>7
    DEF GroupStep, GroupStart, GroupResume, GroupSpuriousWakeup, GroupCount, GroupEnqueue,
        GroupNotifyAll, WakeAllRunners, GroupTakeFirst, GroupTakeQueued, GroupSkipTaken,
        GroupLoopEnds, GroupEndRun, GroupDec, GroupWait, runnerVars, TypeOK
  <2> QED
    BY <1>2, <2>1, <2>3, <2>4, <2>5
<1>8. ASSUME NEW c \in Clients, Add(c)
      PROVE  WaitersGetWoken'
  <2>1. PICK S \in SUBSET Addable : \E ts \in SetToSeqs(S) : AddCount(c, ts)
    BY <1>8 DEF Add
  <2>2. PICK ts \in SetToSeqs(S) : AddCount(c, ts)
    BY <2>1
  <2>3. ts \in Seq(Task)
    <3>1. S \in SUBSET Task
      BY TaskManagerAssumption DEF Addable
    <3> QED
      BY <3>1, <2>2, SetToSeqsIsInjective
  <2>4. /\ num_unfinished' = num_unfinished + Len(ts) /\ UNCHANGED <<rpc, gpc>>
        /\ cpc' = [cpc EXCEPT ![c] = "enqueue"]
    BY <2>2 DEF AddCount, runnerVars, groupVars
  <2>5. num_unfinished' = 0 => num_unfinished = 0
    BY <1>1, <2>3, <2>4
  <2> QED
    BY <1>0, <1>2, <2>4, <2>5 DEF TypeOK
<1>9. ASSUME NEW c \in Clients, ClientStep(c) \/ WaitStart(c) \/ WaitSpuriousWakeup(c)
      PROVE  WaitersGetWoken'
  <2>1. num_unfinished' = num_unfinished /\ gpc' = gpc
    BY <1>0, <1>9
    DEF ClientStep, WaitStart, WaitSpuriousWakeup, AddEnqueue, AddNotify, WaitCheck, WaitReturn,
        DrainDequeue, DrainEndRun, DrainDec, groupVars
  <2>2. \A d \in Clients : cpc'[d] = "asleep" => cpc[d] = "asleep" \/ num_unfinished # 0
    BY <1>0, <1>9
    DEF ClientStep, WaitStart, WaitSpuriousWakeup, AddEnqueue, AddNotify, WaitCheck, WaitReturn,
        DrainDequeue, DrainEndRun, DrainDec, TypeOK
  <2>3. \A s \in Runners : rpc[s] = "finishNotify" => rpc'[s] = "finishNotify"
    BY <1>0, <1>9
    DEF ClientStep, WaitStart, WaitSpuriousWakeup, AddEnqueue, AddNotify, WaitCheck, WaitReturn,
        DrainDequeue, DrainEndRun, DrainDec, WakeOneRunner, WakeAllRunners, runnerVars, TypeOK
  <2> QED
    BY <1>2, <2>1, <2>2, <2>3
<1>10. CASE QuitStep \/ QuitStart \/ UNCHANGED vars
  <2>1. UNCHANGED <<num_unfinished, gpc, cpc>>
    BY <1>10 DEF QuitStep, QuitStart, QuitEnqueue, QuitNotify, QuitJoin, vars, groupVars, clientVars
  <2>2. \A s \in Runners : rpc[s] = "finishNotify" => rpc'[s] = "finishNotify"
    BY <1>0, <1>10
    DEF QuitStep, QuitStart, QuitEnqueue, QuitNotify, QuitJoin, WakeOneRunner, vars, runnerVars,
        TypeOK
  <2> QED
    BY <1>2, <2>1, <2>2
<1> QED
  BY <1>3, <1>4, <1>5, <1>6, <1>7, <1>8, <1>9, <1>10
  DEF Next, Working, Calling, SpuriousWakeup, Destroyed, RunnerFinishNotify, GroupFinishNotify

(* A caller that sleeps while its group is owed tasks is woken by whoever   *)
(* counts the last one down.                                                *)
LEMMA CallersWokenStep ==
    ASSUME SInv, CallersGetWoken, [Next]_vars
    PROVE  CallersGetWoken'
<1>0. /\ TypeOK /\ NoGroup \notin Groups
      /\ \A c \in Clients : cpc[c] \notin {"drain", "drainRun", "drainDec"}
  BY SInvFacts, TaskManagerAssumption
<1>1. ASSUME \A g \in Groups : gpc'[g] = "asleep" /\ gcount'[g] = 0 =>
                                  gpc[g] = "asleep" /\ gcount[g] = 0,
             \A r \in Runners : rpc[r] = "groupNotify" =>
                                  rpc'[r] = "groupNotify" /\ rtask'[r] = rtask[r]
      PROVE  CallersGetWoken'
  BY <1>1 DEF CallersGetWoken
<1>2. ASSUME NEW r \in Runners, RunnerGroupDec(r)
      PROVE  CallersGetWoken'
  <2>1. PICK h \in Groups :
          /\ rtask[r] \in Members(h)
          /\ gcount' = [gcount EXCEPT ![h] = @ - 1]
          /\ rpc' = [rpc EXCEPT ![r] = IF gcount[h] = 1 THEN "groupNotify" ELSE "clear"]
    BY <1>2 DEF RunnerGroupDec
  <2>2. rpc[r] = "groupDec" /\ rtask' = rtask /\ gpc' = gpc
    BY <1>2 DEF RunnerGroupDec
  <2>3. SUFFICES ASSUME NEW g \in Groups, gpc'[g] = "asleep", gcount'[g] = 0
                 PROVE  \E s \in Runners : rpc'[s] = "groupNotify" /\ rtask'[s] \in Members(g)
    BY DEF CallersGetWoken
  <2>4. CASE g = h
    BY <1>0, <2>1, <2>2, <2>3, <2>4 DEF TypeOK
  <2>5. CASE g # h
    <3>1. gcount[g] = 0 /\ gpc[g] = "asleep"
      BY <1>0, <2>1, <2>2, <2>3, <2>5 DEF TypeOK
    <3>2. PICK s \in Runners : rpc[s] = "groupNotify" /\ rtask[s] \in Members(g)
      BY <3>1 DEF CallersGetWoken
    <3> QED
      BY <1>0, <2>1, <2>2, <3>2 DEF TypeOK
  <2> QED
    BY <2>4, <2>5
<1>3. ASSUME NEW r \in Runners, RunnerGroupNotify(r)
      PROVE  CallersGetWoken'
  <2>1. PICK h \in Groups :
          rtask[r] \in Members(h) /\ gpc' = [gpc EXCEPT ![h] = IF @ = "asleep" THEN "wait" ELSE @]
    BY <1>3 DEF RunnerGroupNotify
  <2>2. rpc' = [rpc EXCEPT ![r] = "clear"] /\ rtask' = rtask /\ gcount' = gcount
    BY <1>3 DEF RunnerGroupNotify
  <2>3. SUFFICES ASSUME NEW g \in Groups, gpc'[g] = "asleep", gcount'[g] = 0
                 PROVE  \E s \in Runners : rpc'[s] = "groupNotify" /\ rtask'[s] \in Members(g)
    BY DEF CallersGetWoken
  <2>4. g # h /\ gpc[g] = "asleep" /\ gcount[g] = 0
    BY <1>0, <2>1, <2>2, <2>3 DEF TypeOK
  <2>5. PICK s \in Runners : rpc[s] = "groupNotify" /\ rtask[s] \in Members(g)
    BY <2>4 DEF CallersGetWoken
  <2>6. s # r
    BY <2>1, <2>4, <2>5, NotInTwoGroups
  <2> QED
    BY <1>0, <2>2, <2>5, <2>6 DEF TypeOK
<1>4. ASSUME NEW r \in Runners, RunnerStep(r) \/ RunnerSpuriousWakeup(r),
             ~RunnerGroupDec(r), ~RunnerGroupNotify(r)
      PROVE  CallersGetWoken'
  <2>1. gcount' = gcount /\ \A g \in Groups : gpc'[g] = "asleep" => gpc[g] = "asleep"
    BY <1>0, <1>4
    DEF RunnerStep, RunnerSpuriousWakeup, RunnerDequeue, RunnerSetCurrent, RunnerEndRun, AfterEnd,
        RunnerClearCurrent, RunnerTaskFinished, RunnerFinishNotify, groupVars, TypeOK
  <2>2. \A s \in Runners : rpc[s] = "groupNotify" =>
                             rpc'[s] = "groupNotify" /\ rtask'[s] = rtask[s]
    BY <1>0, <1>4
    DEF RunnerStep, RunnerSpuriousWakeup, RunnerDequeue, RunnerSetCurrent, RunnerEndRun,
        RunnerClearCurrent, RunnerTaskFinished, RunnerFinishNotify, TypeOK
  <2> QED
    BY <1>1, <2>1, <2>2
<1>5. ASSUME NEW g \in Groups,
             GroupStep(g) \/ GroupStart(g) \/ GroupResume(g) \/ GroupSpuriousWakeup(g)
      PROVE  CallersGetWoken'
  <2>1. \A h \in Groups : gpc'[h] = "asleep" /\ gcount'[h] = 0 => gpc[h] = "asleep" /\ gcount[h] = 0
    BY <1>0, <1>5
    DEF GroupStep, GroupStart, GroupResume, GroupSpuriousWakeup, GroupCount, GroupEnqueue,
        GroupNotifyAll, GroupTakeFirst, GroupTakeQueued, GroupSkipTaken, GroupLoopEnds, GroupEndRun,
        AfterEnd, GroupTaskFinished, GroupFinishNotify, GroupDec, GroupWait, TypeOK
  <2>2. rtask' = rtask
    BY <1>5
    DEF GroupStep, GroupStart, GroupResume, GroupSpuriousWakeup, GroupCount, GroupEnqueue,
        GroupNotifyAll, GroupTakeFirst, GroupTakeQueued, GroupSkipTaken, GroupLoopEnds, GroupEndRun,
        GroupTaskFinished, GroupFinishNotify, GroupDec, GroupWait, runnerVars
  <2>3. \A s \in Runners : rpc[s] = "groupNotify" => rpc'[s] = "groupNotify"
    BY <1>0, <1>5
    DEF GroupStep, GroupStart, GroupResume, GroupSpuriousWakeup, GroupCount, GroupEnqueue,
        GroupNotifyAll, WakeAllRunners, GroupTakeFirst, GroupTakeQueued, GroupSkipTaken,
        GroupLoopEnds, GroupEndRun, GroupTaskFinished, GroupFinishNotify, GroupDec, GroupWait,
        runnerVars, TypeOK
  <2> QED
    BY <1>1, <2>1, <2>2, <2>3
<1>6. ASSUME \/ \E c \in Clients : ClientStep(c) \/ Add(c) \/ WaitStart(c) \/ WaitSpuriousWakeup(c)
             \/ QuitStep \/ QuitStart \/ UNCHANGED vars
      PROVE  CallersGetWoken'
  <2>1. UNCHANGED <<gpc, gcount, rtask>>
    BY <1>0, <1>6
    DEF ClientStep, Add, AddCount, WaitStart, WaitSpuriousWakeup, AddEnqueue, AddNotify, WaitCheck,
        WaitReturn, DrainDequeue, DrainEndRun, DrainDec, QuitStep, QuitStart, QuitEnqueue,
        QuitNotify, QuitJoin, vars, runnerVars, groupVars
  <2>2. \A s \in Runners : rpc[s] = "groupNotify" => rpc'[s] = "groupNotify"
    BY <1>0, <1>6
    DEF ClientStep, Add, AddCount, WaitStart, WaitSpuriousWakeup, AddEnqueue, AddNotify, WaitCheck,
        WaitReturn, DrainDequeue, DrainEndRun, DrainDec, QuitStep, QuitStart, QuitEnqueue,
        QuitNotify, QuitJoin, WakeOneRunner, WakeAllRunners, vars, runnerVars, TypeOK
  <2> QED
    BY <1>1, <2>1, <2>2
<1> QED
  BY <1>2, <1>3, <1>4, <1>5, <1>6 DEF Next, Working, Calling, SpuriousWakeup, Destroyed

(* On a manager with runner threads no wakeup is lost: no runner sleeps on  *)
(* with more tasks queued than there are runners up and notifies on their   *)
(* way, no client with no task unfinished, no caller of runTaskGroup with   *)
(* none of its tasks owed.                                                  *)
THEOREM WakeupsReachSleepers ==
    ASSUME Runners # {}
    PROVE  Spec => []NoWakeupLost
<1> DEFINE Inv == SInv /\ IsFiniteSet(NotifyingClients) /\ NoWakeupLost
<1>1. Init => Inv
  <2>1. Init => NotifyingClients = {} /\ NoWakeupLost
    BY DEF Init, NotifyingClients, NoWakeupLost, RunnersGetWoken, WaitersGetWoken, CallersGetWoken
  <2> QED
    BY <2>1, ShutdownInit, FS_EmptySet
<1>2. Inv /\ [Next]_vars => Inv'
  BY ShutdownNext, RunnersWokenStep, WaitersWokenStep, CallersWokenStep DEF NoWakeupLost
<1>3. Inv => NoWakeupLost
  OBVIOUS
<1> QED
  BY <1>1, <1>2, <1>3, PTL DEF Spec

-----------------------------------------------------------------------------
(* No deadlock, on a manager with runner threads.  Where a group's tasks    *)
(* are, and how its calls are nested in others.                             *)

(* An outstanding task of a group is in the queue, with the group's call or *)
(* with a runner.                                                           *)
GroupPlaced ==
    \A g \in Groups : \A t \in Members(g) :
        t \in outstanding => in_queue[t] \/ GroupHas(g, t) \/ \E r \in Runners : RunnerHas(r, t)

(* A call has left no task it has passed in the queue.                      *)
IsPast(g, i) ==
    \/ gpc[g] \in {"take", "run", "finish", "finishNotify", "dec"} /\ i < gi[g]
    \/ gpc[g] \in {"wait", "asleep"}
Passed == \A g \in Groups : \A i \in DOMAIN GroupTasks[g] : IsPast(g, i) => ~in_queue[GroupTasks[g][i]]

(* No calls are made by each other's tasks only, whoever runs those.        *)
Below(g, h) == \E t \in Members(g) : Nested[t] = h /\ RunBy(t)
Rooted ==
    \A X \in SUBSET Groups : (\A h \in X : gpc[h] # "idle" /\ \E g \in X : Below(g, h)) => X = {}

(* A quit task that has left the queue made a runner exit.                  *)
QuitsTaken == \A q \in quits : in_queue[q] \/ \E r \in Runners : rpc[r] = "done" /\ rtask[r] = q

LInv ==
    /\ SInv /\ GroupCountIsOwed
    /\ IsFiniteSet(NotifyingClients) /\ NoWakeupLost
    /\ GroupPlaced /\ Passed /\ Rooted /\ QuitsTaken

LEMMA LInvFacts ==
    ASSUME LInv
    PROVE  /\ SInv /\ GroupCountIsOwed /\ GInv /\ NoWakeupLost /\ IsFiniteSet(NotifyingClients)
           /\ GroupPlaced /\ Passed /\ Rooted /\ QuitsTaken
BY DEF LInv, GInv, SInv

-----------------------------------------------------------------------------
(* A task whose run() has not begun has not begun its call either.          *)
LEMMA CallNotBegun ==
    ASSUME SInv, NEW t \in Task, ~RunBy(t), NEW g \in Groups, Nested[t] = g
    PROVE  gpc[g] = "idle"
<1>0. Parents /\ NoGroup \notin Groups
  BY SInvFacts, TaskManagerAssumption
<1>1. SUFFICES ASSUME gpc[g] # "idle"
               PROVE  FALSE
  OBVIOUS
<1>2. ~TopLevel(g)
  BY DEF TopLevel
<1>3. PICK u \in Task : Nested[u] = g /\ RunBy(u)
  BY <1>0, <1>1, <1>2 DEF Parents
<1>4. u = t
  BY <1>0, <1>3, TaskManagerAssumption
<1> QED
  BY <1>3, <1>4

(* So only the start of a call could close a ring of calls, and the tasks   *)
(* of a call that starts are not running.                                   *)
LEMMA RootedStep ==
    ASSUME SInv, Rooted, [Next]_vars
    PROVE  Rooted'
<1>0. TypeOK /\ IInv /\ GroupsAtRest /\ NoGroup \notin Groups
  BY SInvFacts, TaskManagerAssumption
<1>1. ASSUME \A g \in Groups : gpc[g] = "idle" => gpc'[g] = "idle"
      PROVE  Rooted'
  <2> SUFFICES ASSUME NEW X \in SUBSET Groups,
                      \A h \in X : gpc'[h] # "idle" /\ \E g \in X : Below(g, h)'
               PROVE  X = {}
    BY DEF Rooted
  <2>1. ASSUME NEW h \in X
        PROVE  gpc[h] # "idle" /\ \E g \in X : Below(g, h)
    <3>1. gpc[h] # "idle"
      BY <1>1
    <3>2. PICK g \in X : Below(g, h)'
      OBVIOUS
    <3>3. PICK t \in Members(g) : Nested[t] = h /\ RunBy(t)'
      BY <3>2 DEF Below
    <3>4. t \in Task
      BY <3>3, GroupFacts
    <3>5. RunBy(t)
      BY <3>1, <3>3, <3>4, CallNotBegun
    <3> QED
      BY <3>1, <3>3, <3>5 DEF Below
  <2> QED
    BY <2>1 DEF Rooted
<1>2. ASSUME NEW g \in Groups, GroupStart(g)
      PROVE  Rooted'
  <2>1. /\ gpc[g] = "idle" /\ gpc' = [gpc EXCEPT ![g] = "count"]
        /\ UNCHANGED <<rpc, rtask, gi, cpc, carg>>
    BY <1>2 DEF GroupStart, runnerVars, clientVars
  <2>2. \A h \in Groups : gpc'[h] = IF h = g THEN "count" ELSE gpc[h]
    BY <1>0, <2>1 DEF TypeOK
  <2>3. \A u \in Task : RunBy(u) <=> RunBy(u)'
    BY <2>1, <2>2 DEF RunBy, Current
  <2>4. \A t \in Members(g) : ~RunBy(t)
    <3>1. \A t \in Members(g) : t \notin outstanding /\ t \in Task
      BY <1>0, <2>1, GroupFacts DEF GroupsAtRest
    <3> QED
      BY <1>0, <3>1, RunByOutstanding
  <2>5. \A p, h \in Groups : Below(p, h)' => p # g /\ Below(p, h)
    <3> SUFFICES ASSUME NEW p \in Groups, NEW h \in Groups, Below(p, h)'
                 PROVE  p # g /\ Below(p, h)
      OBVIOUS
    <3>1. PICK t \in Members(p) : Nested[t] = h /\ RunBy(t)'
      BY DEF Below
    <3>2. RunBy(t)
      BY <2>3, <3>1, GroupFacts
    <3> QED
      BY <2>4, <3>1, <3>2 DEF Below
  <2> SUFFICES ASSUME NEW X \in SUBSET Groups,
                      \A h \in X : gpc'[h] # "idle" /\ \E p \in X : Below(p, h)'
               PROVE  X = {}
    BY DEF Rooted
  <2>6. \A h \in X \ {g} : gpc[h] # "idle" /\ \E p \in X \ {g} : Below(p, h)
    BY <2>2, <2>5
  <2>7. X \ {g} = {}
    BY <2>6 DEF Rooted
  <2> QED
    BY <2>5, <2>7
<1>3. ASSUME NEW r \in Runners, RunnerStep(r) \/ RunnerSpuriousWakeup(r)
      PROVE  \A g \in Groups : gpc[g] = "idle" => gpc'[g] = "idle"
  BY <1>0, <1>3
  DEF RunnerStep, RunnerSpuriousWakeup, RunnerDequeue, RunnerSetCurrent, RunnerEndRun, AfterEnd,
      RunnerGroupDec, RunnerGroupNotify, RunnerClearCurrent, RunnerTaskFinished,
      RunnerFinishNotify, groupVars, TypeOK
<1>4. ASSUME NEW h \in Groups, GroupStep(h) \/ GroupResume(h) \/ GroupSpuriousWakeup(h)
      PROVE  \A g \in Groups : gpc[g] = "idle" => gpc'[g] = "idle"
  BY <1>0, <1>4
  DEF GroupStep, GroupResume, GroupSpuriousWakeup, GroupCount, GroupEnqueue, GroupNotifyAll,
      GroupTakeFirst, GroupTakeQueued, GroupSkipTaken, GroupLoopEnds, GroupEndRun, AfterEnd,
      GroupTaskFinished, GroupFinishNotify, GroupDec, GroupWait, TypeOK
<1>5. ASSUME NEW c \in Clients, ClientStep(c) \/ Add(c) \/ WaitStart(c) \/ WaitSpuriousWakeup(c)
      PROVE  \A g \in Groups : gpc[g] = "idle" => gpc'[g] = "idle"
  BY <1>0, <1>5
  DEF ClientStep, Add, AddCount, WaitStart, WaitSpuriousWakeup, AddEnqueue, AddNotify, WaitCheck,
      WaitReturn, DrainDequeue, DrainEndRun, DrainDec, AfterEnd, groupVars, TypeOK
<1>6. QuitStep \/ QuitStart \/ UNCHANGED vars => gpc' = gpc
  BY DEF QuitStep, QuitStart, QuitEnqueue, QuitNotify, QuitJoin, vars, groupVars
<1> QED
  BY <1>1, <1>2, <1>3, <1>4, <1>5, <1>6
  DEF Next, Working, Calling, SpuriousWakeup, Destroyed

LEMMA QuitsTakenStep ==
    ASSUME SInv, QuitsTaken, [Next]_vars
    PROVE  QuitsTaken'
<1>0. TypeOK /\ IInv /\ QueueTypeOK /\ quits \subseteq QuitTasks /\ QuitTasks \subseteq Task
  BY SInvFacts, TaskManagerAssumption DEF TypeOK
<1>1. \A r \in Runners : rpc[r] = "done" => rpc'[r] = "done" /\ rtask'[r] = rtask[r]
  <2>1. \A r \in Runners : RunnerDequeue(r) => rpc[r] # "done"
    BY DEF RunnerDequeue
  <2> QED
    BY <2>1, DoneCases
<1>2. ASSUME \A q \in quits' : q \in quits \/ in_queue'[q],
             \A q \in quits : in_queue[q] =>
               in_queue'[q] \/ \E r \in Runners : rpc'[r] = "done" /\ rtask'[r] = q
      PROVE  QuitsTaken'
  BY <1>1, <1>2 DEF QuitsTaken
<1>3. CASE UNCHANGED <<queueVars, quits>>
  BY <1>2, <1>3 DEF queueVars
<1>4. ASSUME NEW r \in Runners, RunnerDequeue(r), Dequeue
      PROVE  QuitsTaken'
  <2>1. /\ head # NoTask /\ quits' = quits
        /\ rpc' = [rpc EXCEPT ![r] = IF head \in QuitTasks THEN "done" ELSE "current"]
        /\ rtask' = [rtask EXCEPT ![r] = head]
    BY <1>4 DEF RunnerDequeue, Dequeue, quitVars
  <2>2. \A t \in Task : in_queue'[t] <=> in_queue[t] /\ t # head
    BY <1>0, <1>4, DequeueRemoves
  <2>3. \A q \in quits : q = head => rpc'[r] = "done" /\ rtask'[r] = q
    BY <1>0, <2>1 DEF TypeOK
  <2>4. \A q \in quits : in_queue[q] =>
          in_queue'[q] \/ \E s \in Runners : rpc'[s] = "done" /\ rtask'[s] = q
    BY <1>0, <2>2, <2>3
  <2> QED
    BY <1>2, <2>1, <2>4
<1>5. ASSUME NEW g \in Groups, GroupTakeQueued(g)
      PROVE  QuitsTaken'
  <2>1. Current(g) \notin QuitTasks
    BY <1>5, GroupFacts DEF GroupTakeQueued, Current
  <2>2. \A t \in Task : t # Current(g) /\ in_queue[t] => in_queue'[t]
    BY <1>0, <1>5 DEF GroupTakeQueued, Unlink, QueueTypeOK
  <2> QED
    BY <1>0, <1>2, <1>5, <2>1, <2>2 DEF GroupTakeQueued, quitVars
<1>6. ASSUME NEW g \in Groups, GroupEnqueue(g)
      PROVE  QuitsTaken'
  <2>1. \A t \in Task : in_queue[t] => in_queue'[t]
    BY <1>6, QueuedFacts, EnqueueAdds DEF GroupEnqueue
  <2> QED
    BY <1>0, <1>2, <1>6, <2>1 DEF GroupEnqueue, quitVars
<1>7. ASSUME NEW c \in Clients, AddEnqueue(c)
      PROVE  QuitsTaken'
  <2>1. carg[c] \in Seq(Task)
    BY <1>0 DEF TypeOK
  <2>2. \A t \in Task : in_queue[t] => in_queue'[t]
    BY <1>7, <2>1, EnqueueAdds DEF AddEnqueue
  <2> QED
    BY <1>0, <1>2, <1>7, <2>2 DEF AddEnqueue, quitVars
<1>8. ASSUME NEW q \in QuitTasks \ quits, Enqueue(<<q>>), quits' = quits \cup {q}
      PROVE  QuitsTaken'
  <2>1. <<q>> \in Seq(Task) /\ ToSet(<<q>>) = {q}
    BY <1>0 DEF ToSet
  <2>2. \A t \in Task : in_queue'[t] <=> t = q \/ in_queue[t]
    BY <1>8, <2>1, EnqueueAdds
  <2> QED
    BY <1>0, <1>2, <1>8, <2>2
<1> QED
  BY <1>3, <1>4, <1>5, <1>6, <1>7, <1>8, QueueCases

-----------------------------------------------------------------------------
LEMMA GroupPlacedKept ==
    ASSUME GroupPlaced,
           \A g \in Groups : \A t \in Members(g) :
               t \in outstanding' => t \in outstanding \/ GroupHas(g, t)',
           \A g \in Groups : \A t \in Members(g) :
               GroupHas(g, t) /\ t \in outstanding' => GroupHas(g, t)' \/ in_queue'[t],
           \A r \in Runners, t \in Task :
               RunnerHas(r, t) /\ t \in outstanding' => RunnerHas(r, t)',
           \A g \in Groups : \A t \in Members(g) : in_queue[t] /\ t \in outstanding' =>
               in_queue'[t] \/ GroupHas(g, t)' \/ \E r \in Runners : RunnerHas(r, t)'
    PROVE  GroupPlaced'
<1> SUFFICES ASSUME NEW g \in Groups, NEW t \in Members(g), t \in outstanding'
             PROVE  in_queue'[t] \/ GroupHas(g, t)' \/ \E r \in Runners : RunnerHas(r, t)'
  BY DEF GroupPlaced
<1>1. t \in Task
  BY GroupFacts
<1>2. CASE t \notin outstanding
  BY <1>2
<1>3. CASE t \in outstanding
  <2>1. in_queue[t] \/ GroupHas(g, t) \/ \E r \in Runners : RunnerHas(r, t)
    BY <1>3 DEF GroupPlaced
  <2> QED
    BY <1>1, <2>1
<1> QED
  BY <1>2, <1>3

LEMMA GroupPlacedStep ==
    ASSUME SInv, GroupPlaced, [Next]_vars
    PROVE  GroupPlaced'
<1>0. /\ TypeOK /\ IInv /\ GroupsInv /\ RunnersInv /\ QuitInv /\ QueueTypeOK /\ NoGroup \notin Groups
      /\ \A c \in Clients : cpc[c] \notin {"drain", "drainRun", "drainDec"}
      /\ \A g \in Groups : Members(g) \subseteq Task
  BY SInvFacts, GroupFacts, TaskManagerAssumption
<1>1. ASSUME NEW r \in Runners, RunnerDequeue(r)
      PROVE  GroupPlaced'
  <2>1. UNCHANGED <<gpc, gi, outstanding>> /\ rpc[r] = "dequeue"
    BY <1>1 DEF RunnerDequeue, groupVars, history
  <2>2. \A g \in Groups, t \in Task : GroupHas(g, t)' <=> GroupHas(g, t)
    BY <2>1 DEF GroupHas, Current
  <2>3. \A s \in Runners, t \in Task : RunnerHas(s, t) => RunnerHas(s, t)'
    BY <1>0, <1>1 DEF RunnerDequeue, RunnerHas, TypeOK
  <2>4. \A t \in Task : in_queue[t] /\ t \in outstanding => in_queue'[t] \/ RunnerHas(r, t)'
    <3>1. CASE head = NoTask
      BY <1>1, <3>1 DEF RunnerDequeue, queueVars
    <3>2. CASE head # NoTask
      <4>1. /\ Dequeue /\ rtask' = [rtask EXCEPT ![r] = head]
            /\ rpc' = [rpc EXCEPT ![r] = IF head \in QuitTasks THEN "done" ELSE "current"]
        BY <1>1, <3>2 DEF RunnerDequeue
      <4>2. \A t \in Task : in_queue'[t] <=> in_queue[t] /\ t # head
        BY <1>0, <4>1, DequeueRemoves
      <4>3. head \in outstanding => rpc'[r] = "current" /\ rtask'[r] = head
        BY <1>0, <4>1 DEF QuitInv, TypeOK
      <4> QED
        BY <4>2, <4>3 DEF RunnerHas
    <3> QED
      BY <3>1, <3>2
  <2> QED
    BY <1>0, <2>1, <2>2, <2>3, <2>4, GroupPlacedKept
<1>2. ASSUME NEW r \in Runners, RunnerStep(r) \/ RunnerSpuriousWakeup(r), ~RunnerDequeue(r)
      PROVE  GroupPlaced'
  <2>1. in_queue' = in_queue /\ gi' = gi /\ outstanding' \subseteq outstanding
    BY <1>2
    DEF RunnerStep, RunnerSpuriousWakeup, RunnerSetCurrent, RunnerEndRun, RecordEnd, RunnerGroupDec,
        RunnerGroupNotify, RunnerClearCurrent, RunnerTaskFinished, RunnerFinishNotify, queueVars,
        groupVars, history
  <2>2. \A g \in Groups :
          gpc'[g] = gpc[g] \/ gpc[g] = "returned" \/ (gpc[g] = "asleep" /\ gpc'[g] = "wait")
    BY <1>0, <1>2
    DEF RunnerStep, RunnerSpuriousWakeup, RunnerSetCurrent, RunnerEndRun, MayEnd, AfterEnd,
        RunnerGroupDec, RunnerGroupNotify, RunnerClearCurrent, RunnerTaskFinished,
        RunnerFinishNotify, groupVars, TypeOK
  <2>3. \A g \in Groups, t \in Task : GroupHas(g, t) => GroupHas(g, t)'
    BY <2>1, <2>2 DEF GroupHas, Current
  <2>4. \A s \in Runners, t \in Task : RunnerHas(s, t) /\ t \in outstanding' => RunnerHas(s, t)'
    BY <1>0, <1>2
    DEF RunnerStep, RunnerSpuriousWakeup, RunnerSetCurrent, RunnerEndRun, RecordEnd, RunnerGroupDec,
        RunnerGroupNotify, RunnerClearCurrent, RunnerTaskFinished, RunnerFinishNotify, RunnerHas,
        RunnersInv, history, TypeOK
  <2> QED
    BY <1>0, <2>1, <2>3, <2>4, GroupPlacedKept
<1>3. ASSUME NEW g \in Groups, GroupEnqueue(g)
      PROVE  GroupPlaced'
  <2>1. /\ UNCHANGED <<outstanding, rpc, rtask, gi>> /\ gpc[g] = "enqueue"
        /\ \A h \in Groups : gpc'[h] = IF h = g THEN "notifyAll" ELSE gpc[h]
    BY <1>0, <1>3 DEF GroupEnqueue, runnerVars, history, TypeOK
  <2>2. \A t \in Task : in_queue'[t] <=> t \in ToSet(Queued(g)) \/ in_queue[t]
    BY <1>3, QueuedFacts, EnqueueAdds DEF GroupEnqueue
  <2>3. \A h \in Groups : \A t \in Members(h) : GroupHas(h, t) => GroupHas(h, t)' \/ in_queue'[t]
    <3> SUFFICES ASSUME NEW h \in Groups, NEW t \in Members(h), GroupHas(h, t)
                 PROVE  GroupHas(h, t)' \/ in_queue'[t]
      OBVIOUS
    <3>1. CASE h = g
      <4>1. CASE t = GroupTasks[g][1]
        BY <2>1, <3>1, <4>1 DEF GroupHas
      <4>2. CASE t # GroupTasks[g][1]
        BY <1>0, <2>2, <3>1, <4>2, QueuedFacts
      <4> QED
        BY <4>1, <4>2
    <3>2. CASE h # g
      BY <2>1, <3>2 DEF GroupHas, Current
    <3> QED
      BY <3>1, <3>2
  <2>4. \A s \in Runners, t \in Task : RunnerHas(s, t) => RunnerHas(s, t)'
    BY <2>1 DEF RunnerHas
  <2> QED
    BY <1>0, <2>1, <2>2, <2>3, <2>4, GroupPlacedKept
<1>4. ASSUME NEW g \in Groups, GroupTakeQueued(g)
      PROVE  GroupPlaced'
  <2>1. /\ UNCHANGED <<outstanding, rpc, rtask, gi>> /\ gpc[g] = "take" /\ gi[g] \in 2..Len(GroupTasks[g])
        /\ Unlink(Current(g))
        /\ \A h \in Groups : gpc'[h] = IF h = g THEN "run" ELSE gpc[h]
    BY <1>0, <1>4 DEF GroupTakeQueued, runnerVars, history, TypeOK
  <2>2. \A t \in Task : in_queue'[t] <=> in_queue[t] /\ t # Current(g)
    BY <1>0, <2>1 DEF Unlink, QueueTypeOK
  <2>3. Current(g)' = Current(g) /\ Current(g) \in Members(g) /\ gpc'[g] = "run"
    BY <2>1, GroupFacts DEF Current
  <2>4. \A h \in Groups : \A t \in Members(h) : GroupHas(h, t) => GroupHas(h, t)'
    <3>1. \A t \in Members(g) : ~GroupHas(g, t)
      BY <2>1 DEF GroupHas
    <3> QED
      BY <2>1, <3>1 DEF GroupHas, Current
  <2>5. \A h \in Groups : \A t \in Members(h) : in_queue[t] => in_queue'[t] \/ GroupHas(h, t)'
    <3> SUFFICES ASSUME NEW h \in Groups, NEW t \in Members(h), in_queue[t], t = Current(g)
                 PROVE  GroupHas(h, t)'
      BY <1>0, <2>2
    <3>1. h = g
      BY <1>0, <2>3, GroupFacts
    <3> QED
      BY <2>3, <3>1 DEF GroupHas
  <2>6. \A s \in Runners, t \in Task : RunnerHas(s, t) => RunnerHas(s, t)'
    BY <2>1 DEF RunnerHas
  <2> QED
    BY <2>1, <2>4, <2>5, <2>6, GroupPlacedKept
<1>5. ASSUME NEW g \in Groups,
             GroupStep(g) \/ GroupStart(g) \/ GroupResume(g) \/ GroupSpuriousWakeup(g),
             ~GroupEnqueue(g), ~GroupTakeQueued(g)
      PROVE  GroupPlaced'
  <2>1. in_queue' = in_queue /\ rtask' = rtask
    BY <1>5
    DEF GroupStep, GroupStart, GroupResume, GroupSpuriousWakeup, GroupCount, GroupNotifyAll,
        GroupTakeFirst, GroupSkipTaken, GroupLoopEnds, GroupEndRun, GroupTaskFinished,
        GroupFinishNotify, GroupDec, GroupWait, queueVars, runnerVars
  <2>2. \A s \in Runners, t \in Task : RunnerHas(s, t) => RunnerHas(s, t)'
    <3>1. \A s \in Runners : rpc[s] \in {"current", "run", "groupDec"} => rpc'[s] = rpc[s]
      BY <1>0, <1>5
      DEF GroupStep, GroupStart, GroupResume, GroupSpuriousWakeup, GroupCount, GroupNotifyAll,
          WakeAllRunners, GroupTakeFirst, GroupSkipTaken, GroupLoopEnds, GroupEndRun,
          GroupTaskFinished, GroupFinishNotify, GroupDec, GroupWait, runnerVars, TypeOK
    <3> QED
      BY <2>1, <3>1 DEF RunnerHas
  <2>3. CASE GroupCount(g)
    <3>1. /\ outstanding' = outstanding \cup Members(g) /\ gi' = gi /\ gpc[g] = "count"
          /\ \A h \in Groups : gpc'[h] = IF h = g THEN "enqueue" ELSE gpc[h]
      BY <1>0, <2>3 DEF GroupCount, TypeOK
    <3>2. \A t \in Members(g) : GroupHas(g, t)'
      BY <3>1 DEF GroupHas
    <3>3. \A h \in Groups : \A t \in Members(h) : GroupHas(h, t) => GroupHas(h, t)'
      BY <3>1 DEF GroupHas, Current
    <3>4. \A h \in Groups : \A t \in Members(h) :
            t \in outstanding' => t \in outstanding \/ GroupHas(h, t)'
      BY <1>0, <3>1, <3>2, GroupFacts
    <3> QED
      BY <2>1, <2>2, <3>3, <3>4, GroupPlacedKept
  <2>4. CASE GroupNotifyAll(g)
    <3>1. /\ outstanding' = outstanding /\ gpc[g] = "notifyAll"
          /\ \A h \in Groups : gpc'[h] = IF h = g THEN "take" ELSE gpc[h]
          /\ \A h \in Groups : gi'[h] = IF h = g THEN 1 ELSE gi[h]
      BY <1>0, <2>4 DEF GroupNotifyAll, history, TypeOK
    <3>2. \A h \in Groups : \A t \in Members(h) : GroupHas(h, t) => GroupHas(h, t)'
      BY <3>1 DEF GroupHas, Current
    <3> QED
      BY <2>1, <2>2, <3>1, <3>2, GroupPlacedKept
  <2>5. CASE GroupDec(g)
    <3>1. /\ outstanding' = outstanding /\ gpc[g] = "dec"
          /\ \A h \in Groups : gpc'[h] = IF h = g THEN "take" ELSE gpc[h]
          /\ \A h \in Groups : h # g => gi'[h] = gi[h]
      BY <1>0, <2>5 DEF GroupDec, history, TypeOK
    <3>2. \A t \in Members(g) : GroupHas(g, t) => t \notin outstanding
      BY <1>0, <3>1 DEF GroupsInv
    <3>3. \A h \in Groups : \A t \in Members(h) : h # g /\ GroupHas(h, t) => GroupHas(h, t)'
      BY <3>1 DEF GroupHas, Current
    <3> QED
      BY <2>1, <2>2, <3>1, <3>2, <3>3, GroupPlacedKept
  <2>6. CASE /\ ~GroupCount(g) /\ ~GroupNotifyAll(g) /\ ~GroupDec(g)
    <3>1. outstanding' \subseteq outstanding
      BY <1>5, <2>6
      DEF GroupStep, GroupStart, GroupResume, GroupSpuriousWakeup, GroupTakeFirst, GroupSkipTaken,
          GroupLoopEnds, GroupEndRun, RecordEnd, GroupTaskFinished, GroupFinishNotify, GroupWait,
          history
    <3>2. \A h \in Groups : h # g => gi'[h] = gi[h] /\ (gpc'[h] = gpc[h] \/ gpc[h] = "returned")
      BY <1>0, <1>5, <2>6
      DEF GroupStep, GroupStart, GroupResume, GroupSpuriousWakeup, GroupTakeFirst, GroupSkipTaken,
          GroupLoopEnds, GroupEndRun, MayEnd, AfterEnd, GroupTaskFinished, GroupFinishNotify,
          GroupWait, TypeOK
    <3>3. \/ gpc[g] \in {"idle", "count", "wait", "asleep", "returned"}
          \/ gpc[g] = "take" /\ gi[g] # 1
          \/ gpc[g] = "take" /\ gi[g] = 1 /\ gpc'[g] = "run" /\ gi' = gi
          \/ gpc[g] \in {"run", "finish", "finishNotify"} /\ gi' = gi
             /\ gpc'[g] \in {"finish", "finishNotify", "dec"}
      <4>1. CASE GroupEndRun(g)
        <5>1. gpc[g] = "run" /\ MayEnd(Current(g)) /\ gi' = gi
              /\ gpc' = AfterEnd(Current(g), [gpc EXCEPT ![g] = "finish"])
          BY <4>1 DEF GroupEndRun
        <5> QED
          BY <1>0, <5>1 DEF MayEnd, AfterEnd, TypeOK
      <4>2. CASE ~GroupEndRun(g)
        BY <1>0, <1>5, <2>6, <4>2, GroupFacts
        DEF GroupStep, GroupStart, GroupResume, GroupSpuriousWakeup, GroupTakeFirst, GroupSkipTaken,
            GroupLoopEnds, GroupTaskFinished, GroupFinishNotify, GroupWait, TypeOK
      <4> QED
        BY <4>1, <4>2
    <3>4. \A h \in Groups : \A t \in Members(h) : GroupHas(h, t) => GroupHas(h, t)'
      <4>1. \A t \in Members(g) : GroupHas(g, t) => GroupHas(g, t)'
        BY <3>3 DEF GroupHas, Current
      <4>2. \A h \in Groups : \A t \in Members(h) : h # g /\ GroupHas(h, t) => GroupHas(h, t)'
        BY <3>2 DEF GroupHas, Current
      <4> QED
        BY <4>1, <4>2
    <3> QED
      BY <2>1, <2>2, <3>1, <3>4, GroupPlacedKept
  <2> QED
    BY <2>3, <2>4, <2>5, <2>6
<1>6. ASSUME NEW c \in Clients, Add(c)
      PROVE  GroupPlaced'
  <2>1. PICK S \in SUBSET Addable : \E ts \in SetToSeqs(S) : AddCount(c, ts)
    BY <1>6 DEF Add
  <2>2. PICK ts \in SetToSeqs(S) : AddCount(c, ts)
    BY <2>1
  <2>3. ToSet(ts) \subseteq PlainTasks
    <3>1. S \in SUBSET Task /\ S \subseteq PlainTasks
      BY TaskManagerAssumption DEF Addable
    <3> QED
      BY <2>2, <3>1, SetToSeqsIsInjective
  <2>4. UNCHANGED <<in_queue, rpc, rtask, gpc, gi>> /\ outstanding' = outstanding \cup ToSet(ts)
    BY <2>2 DEF AddCount, queueVars, runnerVars, groupVars
  <2>5. \A g \in Groups : \A t \in Members(g) : t \in outstanding' => t \in outstanding
    BY <2>3, <2>4, GroupFacts
  <2>6. /\ \A g \in Groups, t \in Task : GroupHas(g, t)' <=> GroupHas(g, t)
        /\ \A s \in Runners, t \in Task : RunnerHas(s, t)' <=> RunnerHas(s, t)
    BY <2>4 DEF GroupHas, RunnerHas, Current
  <2> QED
    BY <1>0, <2>4, <2>5, <2>6, GroupPlacedKept
<1>7. ASSUME \/ \E c \in Clients : ClientStep(c) \/ WaitStart(c) \/ WaitSpuriousWakeup(c)
             \/ QuitStep \/ QuitStart \/ UNCHANGED vars
      PROVE  GroupPlaced'
  <2>1. UNCHANGED <<rtask, gpc, gi, outstanding>>
    BY <1>0, <1>7
    DEF ClientStep, WaitStart, WaitSpuriousWakeup, AddEnqueue, AddNotify, WaitCheck, WaitReturn,
        DrainDequeue, DrainEndRun, DrainDec, QuitStep, QuitStart, QuitEnqueue, QuitNotify, QuitJoin,
        vars, runnerVars, groupVars, history
  <2>2. \A s \in Runners : rpc[s] \in {"current", "run", "groupDec"} => rpc'[s] = rpc[s]
    BY <1>0, <1>7
    DEF ClientStep, WaitStart, WaitSpuriousWakeup, AddEnqueue, AddNotify, WaitCheck, WaitReturn,
        DrainDequeue, DrainEndRun, DrainDec, QuitStep, QuitStart, QuitEnqueue, QuitNotify, QuitJoin,
        WakeOneRunner, WakeAllRunners, vars, runnerVars, TypeOK
  <2>3. /\ \A g \in Groups, t \in Task : GroupHas(g, t)' <=> GroupHas(g, t)
        /\ \A s \in Runners, t \in Task : RunnerHas(s, t) => RunnerHas(s, t)'
    BY <2>1, <2>2 DEF GroupHas, RunnerHas, Current
  <2>4. \A t \in Task : in_queue[t] => in_queue'[t]
    <3>1. ASSUME NEW c \in Clients, AddEnqueue(c)
          PROVE  \A t \in Task : in_queue[t] => in_queue'[t]
      <4>1. carg[c] \in Seq(Task)
        BY <1>0 DEF TypeOK
      <4> QED
        BY <3>1, <4>1, EnqueueAdds DEF AddEnqueue
    <3>2. ASSUME NEW q \in QuitTasks, Enqueue(<<q>>)
          PROVE  \A t \in Task : in_queue[t] => in_queue'[t]
      <4>1. <<q>> \in Seq(Task)
        BY TaskManagerAssumption
      <4> QED
        BY <3>2, <4>1, EnqueueAdds
    <3>3. \/ \E c \in Clients : AddEnqueue(c)
          \/ \E q \in QuitTasks : Enqueue(<<q>>)
          \/ in_queue' = in_queue
      BY <1>0, <1>7
      DEF ClientStep, WaitStart, WaitSpuriousWakeup, AddNotify, WaitCheck, WaitReturn,
          DrainDequeue, DrainEndRun, DrainDec, QuitStep, QuitStart, QuitEnqueue, QuitNotify,
          QuitJoin, vars, queueVars
    <3> QED
      BY <3>1, <3>2, <3>3
  <2> QED
    BY <1>0, <2>1, <2>3, <2>4, GroupPlacedKept
<1> QED
  BY <1>1, <1>2, <1>3, <1>4, <1>5, <1>6, <1>7
  DEF Next, Working, Calling, SpuriousWakeup, Destroyed

LEMMA PassedKept ==
    ASSUME Passed,
           \A g \in Groups : \A i \in DOMAIN GroupTasks[g] :
               IsPast(g, i)' => IsPast(g, i) \/ ~in_queue'[GroupTasks[g][i]],
           \A g \in Groups : \A i \in DOMAIN GroupTasks[g] : IsPast(g, i)' /\ in_queue'[GroupTasks[g][i]] =>
               in_queue[GroupTasks[g][i]]
    PROVE  Passed'
BY DEF Passed

LEMMA PassedStep ==
    ASSUME SInv, GroupPlaced, Passed, [Next]_vars
    PROVE  Passed'
<1>0. /\ TypeOK /\ IInv /\ GroupsInv /\ ClientsInv /\ Exclusive /\ QueueTypeOK /\ NoGroup \notin Groups
      /\ \A c \in Clients : cpc[c] \notin {"drain", "drainRun", "drainDec"}
      /\ \A g \in Groups : Members(g) \subseteq Task
      /\ \A g \in Groups : \A i \in DOMAIN GroupTasks[g] : GroupTasks[g][i] \in Members(g)
  BY SInvFacts, GroupFacts, TaskManagerAssumption
<1>1. ASSUME NEW r \in Runners, RunnerStep(r) \/ RunnerSpuriousWakeup(r)
      PROVE  Passed'
  <2>1. gi' = gi
    BY <1>1
    DEF RunnerStep, RunnerSpuriousWakeup, RunnerDequeue, RunnerSetCurrent, RunnerEndRun,
        RunnerGroupDec, RunnerGroupNotify, RunnerClearCurrent, RunnerTaskFinished,
        RunnerFinishNotify, groupVars
  <2>2. \A g \in Groups :
          gpc'[g] = gpc[g] \/ gpc'[g] = "idle" \/ (gpc[g] = "asleep" /\ gpc'[g] = "wait")
    BY <1>0, <1>1
    DEF RunnerStep, RunnerSpuriousWakeup, RunnerDequeue, RunnerSetCurrent, RunnerEndRun, AfterEnd,
        RunnerGroupDec, RunnerGroupNotify, RunnerClearCurrent, RunnerTaskFinished,
        RunnerFinishNotify, groupVars, TypeOK
  <2>3. \A g \in Groups : \A i \in DOMAIN GroupTasks[g] : IsPast(g, i)' => IsPast(g, i)
    BY <2>1, <2>2 DEF IsPast
  <2>4. \A t \in Task : in_queue'[t] => in_queue[t]
    <3>1. in_queue' = in_queue \/ Dequeue
      BY <1>1
      DEF RunnerStep, RunnerSpuriousWakeup, RunnerDequeue, RunnerSetCurrent, RunnerEndRun,
          RunnerGroupDec, RunnerGroupNotify, RunnerClearCurrent, RunnerTaskFinished,
          RunnerFinishNotify, queueVars
    <3> QED
      BY <1>0, <3>1, DequeueRemoves
  <2> QED
    BY <1>0, <2>3, <2>4, PassedKept
<1>2. ASSUME NEW g \in Groups, GroupEnqueue(g)
      PROVE  Passed'
  <2>1. gi' = gi /\ \A h \in Groups : gpc'[h] = IF h = g THEN "notifyAll" ELSE gpc[h]
    BY <1>0, <1>2 DEF GroupEnqueue, TypeOK
  <2>2. \A h \in Groups : \A i \in DOMAIN GroupTasks[h] : IsPast(h, i)' => IsPast(h, i) /\ h # g
    BY <2>1 DEF IsPast
  <2>3. \A t \in Task : in_queue'[t] => t \in Members(g) \/ in_queue[t]
    BY <1>2, QueuedFacts, EnqueueAdds DEF GroupEnqueue
  <2>4. \A h \in Groups : \A t \in Members(h) : h # g => t \notin Members(g)
    BY NotInTwoGroups
  <2> QED
    BY <1>0, <2>2, <2>3, <2>4, PassedKept
<1>3. ASSUME NEW g \in Groups, GroupTakeQueued(g)
      PROVE  Passed'
  <2>1. /\ gi' = gi /\ gpc[g] = "take"
        /\ \A h \in Groups : gpc'[h] = IF h = g THEN "run" ELSE gpc[h]
    BY <1>0, <1>3 DEF GroupTakeQueued, TypeOK
  <2>2. \A h \in Groups : \A i \in DOMAIN GroupTasks[h] : IsPast(h, i)' => IsPast(h, i)
    BY <2>1 DEF IsPast
  <2>3. \A t \in Task : in_queue'[t] => in_queue[t]
    BY <1>0, <1>3 DEF GroupTakeQueued, Unlink, QueueTypeOK
  <2> QED
    BY <1>0, <2>2, <2>3, PassedKept
<1>4. ASSUME NEW g \in Groups,
             GroupStep(g) \/ GroupStart(g) \/ GroupResume(g) \/ GroupSpuriousWakeup(g),
             ~GroupEnqueue(g), ~GroupTakeQueued(g)
      PROVE  Passed'
  <2>1. in_queue' = in_queue
    BY <1>4
    DEF GroupStep, GroupStart, GroupResume, GroupSpuriousWakeup, GroupCount, GroupNotifyAll,
        GroupTakeFirst, GroupSkipTaken, GroupLoopEnds, GroupEndRun, GroupTaskFinished,
        GroupFinishNotify, GroupDec, GroupWait, queueVars
  <2>2. \A h \in Groups : h # g => gi'[h] = gi[h] /\ (gpc'[h] = gpc[h] \/ gpc'[h] = "idle")
    BY <1>0, <1>4
    DEF GroupStep, GroupStart, GroupResume, GroupSpuriousWakeup, GroupCount, GroupNotifyAll,
        GroupTakeFirst, GroupSkipTaken, GroupLoopEnds, GroupEndRun, AfterEnd, GroupTaskFinished,
        GroupFinishNotify, GroupDec, GroupWait, TypeOK
  <2>3. \A h \in Groups : \A i \in DOMAIN GroupTasks[h] : h # g /\ IsPast(h, i)' => IsPast(h, i)
    BY <2>2 DEF IsPast
  <2>4. ASSUME NEW i \in DOMAIN GroupTasks[g], IsPast(g, i)'
        PROVE  IsPast(g, i) \/ ~in_queue[GroupTasks[g][i]]
    <3>0. i \in Nat /\ i <= Len(GroupTasks[g]) /\ gi[g] \in Nat \ {0} /\ Len(GroupTasks[g]) \in Nat
      BY <1>0, GroupFacts DEF TypeOK
    <3>1. CASE GroupNotifyAll(g)
      BY <1>0, <2>4, <3>0, <3>1, GroupFacts DEF GroupNotifyAll, IsPast, TypeOK
    <3>2. CASE GroupSkipTaken(g)
      <4>1. /\ gpc[g] = "take" /\ gpc' = gpc /\ gi'[g] = gi[g] + 1
            /\ ~in_queue[GroupTasks[g][gi[g]]]
        BY <1>0, <3>2 DEF GroupSkipTaken, Current, TypeOK
      <4>2. i < gi[g] \/ i = gi[g]
        BY <2>4, <3>0, <4>1 DEF IsPast
      <4> QED
        BY <4>1, <4>2 DEF IsPast
    <3>3. CASE GroupDec(g)
      <4>1. gpc[g] = "dec" /\ gpc'[g] = "take" /\ gi'[g] = gi[g] + 1
        BY <1>0, <3>3 DEF GroupDec, TypeOK
      <4>2. i < gi[g] \/ i = gi[g]
        BY <2>4, <3>0, <4>1 DEF IsPast
      <4>3. GroupHas(g, Current(g)) /\ Current(g) = GroupTasks[g][gi[g]]
        BY <4>1 DEF GroupHas, Current
      <4>4. i = gi[g] => ~in_queue[GroupTasks[g][i]]
        BY <1>0, <4>3 DEF GroupsInv
      <4> QED
        BY <4>1, <4>2, <4>4 DEF IsPast
    <3>4. CASE GroupLoopEnds(g)
      BY <3>0, <3>4 DEF GroupLoopEnds, IsPast
    <3>5. CASE ~GroupNotifyAll(g) /\ ~GroupSkipTaken(g) /\ ~GroupDec(g) /\ ~GroupLoopEnds(g)
      <4>1. /\ gi' = gi
            /\ \/ gpc'[g] \in {"idle", "count", "enqueue", "returned"}
               \/ /\ gpc[g] \in {"take", "run", "finish", "finishNotify"}
                  /\ gpc'[g] \in {"idle", "run", "finish", "finishNotify", "dec"}
               \/ gpc[g] \in {"wait", "asleep"}
        BY <1>0, <1>4, <3>5
        DEF GroupStep, GroupStart, GroupResume, GroupSpuriousWakeup, GroupCount, GroupTakeFirst,
            GroupEndRun, AfterEnd, GroupTaskFinished, GroupFinishNotify, GroupWait, TypeOK
      <4> QED
        BY <2>4, <4>1 DEF IsPast
    <3> QED
      BY <3>1, <3>2, <3>3, <3>4, <3>5
  <2> QED
    BY <2>1, <2>3, <2>4, PassedKept
<1>5. ASSUME UNCHANGED <<gpc, gi>>,
             \A g \in Groups : \A t \in Members(g) : in_queue'[t] => in_queue[t]
      PROVE  Passed'
  <2>1. \A g \in Groups : \A i \in DOMAIN GroupTasks[g] : IsPast(g, i)' <=> IsPast(g, i)
    BY <1>5 DEF IsPast
  <2> QED
    BY <1>0, <1>5, <2>1, PassedKept
<1>6. ASSUME NEW c \in Clients, AddEnqueue(c)
      PROVE  Passed'
  <2>1. /\ cpc[c] = "enqueue" /\ Enqueue(carg[c]) /\ carg[c] \in Seq(Task)
        /\ UNCHANGED <<gpc, gi>>
    BY <1>0, <1>6 DEF AddEnqueue, groupVars, TypeOK
  <2>2. ASSUME NEW g \in Groups, NEW t \in Members(g), t \in ToSet(carg[c])
        PROVE  FALSE
    <3>1. t \in Task /\ ClientHas(c, t)
      BY <1>0, <2>1, <2>2 DEF ClientHas
    <3>2. t \in outstanding /\ ~in_queue[t]
      BY <1>0, <3>1 DEF ClientsInv
    <3>3. GroupHas(g, t) \/ \E r \in Runners : RunnerHas(r, t)
      BY <2>2, <3>2 DEF GroupPlaced
    <3> QED
      BY <1>0, <3>1, <3>3 DEF Exclusive
  <2>3. \A g \in Groups : \A t \in Members(g) : in_queue'[t] => in_queue[t]
    BY <1>0, <2>1, <2>2, EnqueueAdds
  <2> QED
    BY <1>5, <2>1, <2>3
<1>7. ASSUME NEW q \in QuitTasks, Enqueue(<<q>>), UNCHANGED <<gpc, gi>>
      PROVE  Passed'
  <2>1. <<q>> \in Seq(Task) /\ ToSet(<<q>>) = {q}
    BY TaskManagerAssumption DEF ToSet
  <2>2. \A t \in Task : in_queue'[t] => t = q \/ in_queue[t]
    BY <1>7, <2>1, EnqueueAdds
  <2>3. \A g \in Groups : q \notin Members(g)
    BY GroupFacts
  <2> QED
    BY <1>0, <1>5, <1>7, <2>2, <2>3
<1>8. ASSUME \/ \E c \in Clients : ClientStep(c) \/ Add(c) \/ WaitStart(c) \/ WaitSpuriousWakeup(c)
             \/ QuitStep \/ QuitStart \/ UNCHANGED vars
      PROVE  Passed'
  <2>1. UNCHANGED <<gpc, gi>>
    BY <1>0, <1>8
    DEF ClientStep, Add, AddCount, WaitStart, WaitSpuriousWakeup, AddEnqueue, AddNotify, WaitCheck,
        WaitReturn, DrainDequeue, DrainEndRun, DrainDec, QuitStep, QuitStart, QuitEnqueue,
        QuitNotify, QuitJoin, vars, groupVars
  <2>2. \/ \E c \in Clients : AddEnqueue(c)
        \/ \E q \in QuitTasks : Enqueue(<<q>>)
        \/ in_queue' = in_queue
    BY <1>0, <1>8
    DEF ClientStep, Add, AddCount, WaitStart, WaitSpuriousWakeup, AddNotify, WaitCheck, WaitReturn,
        DrainDequeue, DrainEndRun, DrainDec, QuitStep, QuitStart, QuitEnqueue, QuitNotify, QuitJoin,
        vars, queueVars
  <2> QED
    BY <1>5, <1>6, <1>7, <2>1, <2>2
<1> QED
  BY <1>1, <1>2, <1>3, <1>4, <1>8
  DEF Next, Working, Calling, SpuriousWakeup, Destroyed

-----------------------------------------------------------------------------
(* Each group has a task no other has, so there are finitely many.          *)
LEMMA GroupsAreFinite == IsFiniteSet(Groups)
<1> DEFINE first == [g \in Groups |-> GroupTasks[g][1]]
<1>1. \A g \in Groups : first[g] \in Task /\ first[g] \in Members(g)
  BY GroupFacts
<1>2. \A g, h \in Groups : first[g] = first[h] => g = h
  BY <1>1, GroupFacts
<1>3. first \in Injection(Groups, Task)
  BY <1>1, <1>2 DEF Injection, IsInjective
<1> QED
  BY <1>3, FS_Injection, TaskAssumption

(* A call that waits only for calls of X runs, or has with a runner, a task *)
(* that makes one of them.  One that sleeps is owed a task, its wakeup not  *)
(* being lost; the task is not queued, so that a runner has it.             *)
LEMMA WaitsForBelow ==
    ASSUME LInv, NEW X \in SUBSET Groups, NEW g \in Groups, WaitsOnlyFor(g, X)
    PROVE  \E h \in X : Below(g, h)
<1>0. /\ TypeOK /\ IInv /\ GroupsInv /\ GroupCountIsOwed /\ CallersGetWoken /\ GroupPlaced /\ Passed
  BY LInvFacts, SInvFacts DEF NoWakeupLost
<1>1. CASE gpc[g] = "run" /\ Nested[Current(g)] \in X
  <2>1. Current(g) \in Members(g) /\ RunBy(Current(g))
    BY <1>0, <1>1, GroupFacts DEF GroupsInv, RunBy, Current
  <2> QED
    BY <1>1, <2>1 DEF Below
<1>2. CASE /\ gpc[g] = "asleep"
           /\ \A r \in Runners :
                rpc[r] \in {"current", "run", "groupDec", "groupNotify"} /\ rtask[r] \in Members(g)
                  => rpc[r] = "run" /\ Nested[rtask[r]] \in X
  <2>1. gcount[g] # 0
    BY <1>0, <1>2 DEF CallersGetWoken
  <2>2. Owed(g) # {}
    BY <1>0, <1>2, <2>1, FS_EmptySet DEF GroupCountIsOwed
  <2>3. PICK t \in Members(g) :
          t \in outstanding \/ \E r \in Runners : rpc[r] = "groupDec" /\ rtask[r] = t
    BY <1>2, <2>2 DEF Owed
  <2>4. t \in outstanding
    BY <1>2, <2>3
  <2>5. ~in_queue[t]
    <3>1. PICK i \in DOMAIN GroupTasks[g] : GroupTasks[g][i] = t
      BY DEF Members, ToSet
    <3> QED
      BY <1>0, <1>2, <3>1 DEF Passed, IsPast
  <2>6. ~GroupHas(g, t)
    BY <1>2 DEF GroupHas
  <2>7. PICK r \in Runners : RunnerHas(r, t)
    BY <1>0, <2>4, <2>5, <2>6 DEF GroupPlaced
  <2>8. rpc[r] = "run" /\ rtask[r] = t /\ Nested[t] \in X
    BY <1>2, <2>7 DEF RunnerHas
  <2>9. RunBy(t)
    BY <2>8 DEF RunBy
  <2> QED
    BY <2>8, <2>9 DEF Below
<1> QED
  BY <1>1, <1>2 DEF WaitsOnlyFor

(* If each call of X waits for one of X, no two of them for the same, then  *)
(* each is one that another waits for, and none was made first.             *)
LEMMA NoRingOfCalls ==
    ASSUME LInv, NEW X \in SUBSET Groups, \A g \in X : WaitsOnlyFor(g, X)
    PROVE  X = {}
<1>0. Rooted /\ NoGroup \notin Groups
  BY LInvFacts, TaskManagerAssumption
<1> DEFINE made == [g \in X |-> CHOOSE h \in X : Below(g, h)]
<1>1. \A g \in X : \E h \in X : Below(g, h)
  BY WaitsForBelow
<1>2. \A g \in X : made[g] \in X /\ Below(g, made[g])
  BY <1>1
<1>3. ASSUME NEW g \in X, NEW h \in X, made[g] = made[h]
      PROVE  g = h
  <2>1. PICK t \in Members(g) : Nested[t] = made[g]
    BY <1>2 DEF Below
  <2>2. PICK u \in Members(h) : Nested[u] = made[h]
    BY <1>2 DEF Below
  <2>3. t \in Task /\ u \in Task /\ made[g] \in Groups
    BY <1>2, GroupFacts
  <2>4. t = u
    BY <1>0, <1>3, <2>1, <2>2, <2>3, TaskManagerAssumption
  <2> QED
    BY <2>3, <2>4, GroupFacts
<1>4. made \in Injection(X, X)
  BY <1>2, <1>3 DEF Injection, IsInjective
<1>5. IsFiniteSet(X)
  BY GroupsAreFinite, FS_Subset
<1>6. made \in Surjection(X, X)
  BY <1>4, <1>5, FS_Injection
<1>7. ASSUME NEW h \in X
      PROVE  gpc[h] # "idle" /\ \E g \in X : Below(g, h)
  <2>1. gpc[h] # "idle"
    BY DEF WaitsOnlyFor
  <2>2. PICK g \in X : made[g] = h
    BY <1>6 DEF Surjection
  <2> QED
    BY <1>2, <2>1, <2>2
<1> QED
  BY <1>0, <1>7 DEF Rooted

-----------------------------------------------------------------------------
(* When nobody has a step to take no call is in progress, and every runner  *)
(* sleeps or has exited.                                                    *)
NobodyActs ==
    /\ \A r \in Runners : ~RunnerActs(r)
    /\ \A g \in Groups : ~GroupActs(g)
    /\ \A c \in Clients : ~ClientActs(c)
    /\ ~QuitActs

LEMMA NoCallWhenNobodyActs ==
    ASSUME LInv, NobodyActs
    PROVE  /\ \A g \in Groups : gpc[g] \in {"idle", "returned"}
           /\ \A r \in Runners : rpc[r] \in {"asleep", "done"}
<1>0. /\ TypeOK /\ RunnersInv /\ GroupsInv
      /\ \A t \in Task : Nested[t] \in Groups \cup {NoGroup}
  BY LInvFacts, SInvFacts, TaskManagerAssumption
<1> DEFINE X == {g \in Groups : gpc[g] \in {"run", "asleep"}}
<1>1. \A g \in Groups : gpc[g] \in {"idle", "asleep", "returned", "run"}
  BY DEF NobodyActs, GroupActs
<1>2. ASSUME NEW t \in Task, RunBy(t), ~MayEnd(t)
      PROVE  Nested[t] \in X
  <2>1. Nested[t] \in Groups /\ gpc[Nested[t]] # "returned"
    BY <1>0, <1>2 DEF MayEnd
  <2>2. gpc[Nested[t]] # "idle"
    BY <1>2, <2>1 DEF NobodyActs, GroupActs
  <2> QED
    BY <1>1, <2>1, <2>2
<1>3. ASSUME NEW r \in Runners, rpc[r] \notin {"asleep", "done"}
      PROVE  rpc[r] = "run" /\ Nested[rtask[r]] \in X
  <2>1. rpc[r] = "run" /\ ~MayEnd(rtask[r])
    BY <1>3 DEF NobodyActs, RunnerActs
  <2>2. rtask[r] \in Task /\ RunBy(rtask[r])
    BY <1>0, <2>1 DEF RunnersInv, RunBy
  <2> QED
    BY <1>2, <2>1, <2>2
<1>4. ASSUME NEW g \in X
      PROVE  WaitsOnlyFor(g, X)
  <2>1. CASE gpc[g] = "run"
    <3>1. Current(g) \in Task /\ RunBy(Current(g))
      BY <1>0, <2>1, GroupFacts DEF GroupsInv, RunBy, Current
    <3>2. ~MayEnd(Current(g))
      BY <2>1 DEF NobodyActs, GroupActs
    <3> QED
      BY <1>2, <2>1, <3>1, <3>2 DEF WaitsOnlyFor
  <2>2. CASE gpc[g] = "asleep"
    BY <1>3, <2>2 DEF WaitsOnlyFor
  <2> QED
    BY <2>1, <2>2
<1>5. X = {}
  <2>1. X \in SUBSET Groups
    OBVIOUS
  <2> HIDE DEF X
  <2> QED
    BY <1>4, <2>1, NoRingOfCalls
<1> QED
  BY <1>1, <1>3, <1>5

(* Then nothing is outstanding and nobody waits.                            *)
LEMMA NothingWhenNobodyActs ==
    ASSUME LInv, NobodyActs
    PROVE  /\ outstanding = {} /\ mpc # "join"
           /\ \A c \in Clients : cpc[c] # "asleep"
           /\ \A g \in Groups : gpc[g] # "asleep"
<1>0. /\ TypeOK /\ GroupsAtRest /\ Placed /\ PlainFirst /\ DoneInv /\ QuitPhase /\ CInv
      /\ quits \subseteq QuitTasks /\ QuitTasks \subseteq Task /\ PlainTasks \subseteq Task
      /\ \A c \in Clients : cpc[c] \notin {"drain", "drainRun", "drainDec"}
      /\ RunnersGetWoken /\ WaitersGetWoken /\ QuitsTaken /\ IsFiniteSet(NotifyingClients)
      /\ Runners # {}
  BY LInvFacts, SInvFacts, TaskManagerAssumption DEF NoWakeupLost, TypeOK, GInv
<1>1. /\ \A g \in Groups : gpc[g] \in {"idle", "returned"}
      /\ \A r \in Runners : rpc[r] \in {"asleep", "done"}
  BY NoCallWhenNobodyActs
<1>2. /\ \A c \in Clients : cpc[c] \in {"idle", "asleep"}
      /\ mpc # "notify"
  BY DEF NobodyActs, ClientActs, QuitActs
<1>3. ASSUME \E r \in Runners : rpc[r] = "asleep"
      PROVE  \A t \in Task : ~in_queue[t]
  <2>1. Awake = {} /\ NotifyingClients = {}
    BY <1>1, <1>2 DEF Awake, NotifyingClients
  <2>2. Cardinality(Queue) <= Cardinality(Awake) + NotifyingOne
    BY <1>0, <1>1, <1>2, <1>3 DEF RunnersGetWoken, Queue
  <2>3. NotifyingOne = 0 /\ Cardinality(Awake) = 0
    BY <1>0, <1>2, <2>1, WakeupCounts, FS_EmptySet
  <2>4. IsFiniteSet(Queue) /\ Cardinality(Queue) \in Nat
    BY <1>0, WakeupCounts
  <2>5. Queue = {}
    BY <2>2, <2>3, <2>4, FS_EmptySet
  <2> QED
    BY <2>5 DEF Queue
<1>4. outstanding = {}
  <2> SUFFICES ASSUME NEW t \in outstanding PROVE FALSE
    OBVIOUS
  <2>1. t \in PlainTasks /\ in_queue[t]
    BY <1>0, <1>1, <1>2 DEF Placed, GroupsAtRest
  <2>2. \A r \in Runners : rpc[r] = "done"
    BY <1>0, <1>1, <1>3, <2>1
  <2>3. PICK r \in Runners : rpc[r] = "done"
    BY <1>0, <2>2
  <2> QED
    BY <1>0, <2>1, <2>3 DEF DoneInv, PlainFirst
<1>5. num_unfinished = 0
  <2>1. RunnersOwing = {} /\ GroupsOwing = {} /\ ClientsOwing = {}
    BY <1>1, <1>2 DEF RunnersOwing, GroupsOwing, ClientsOwing
  <2>2. num_unfinished = Cardinality(outstanding) + Cardinality(RunnersOwing)
                         + Cardinality(GroupsOwing) + Cardinality(ClientsOwing)
    BY <1>0, CountsAreNat DEF CInv
  <2> QED
    BY <1>4, <2>1, <2>2, FS_EmptySet
<1>6. \A c \in Clients : cpc[c] # "asleep"
  BY <1>0, <1>1, <1>5 DEF WaitersGetWoken
<1>7. mpc # "join"
  <2> SUFFICES ASSUME mpc = "join" PROVE FALSE
    OBVIOUS
  <2> DEFINE D    == {r \in Runners : rpc[r] = "done"}
             took == [r \in D |-> rtask[r]]
  <2>1. quits = QuitTasks
    BY <1>0 DEF QuitPhase
  <2>2. PICK s \in Runners : rpc[s] = "asleep"
    BY <1>1 DEF NobodyActs, QuitActs
  <2>3. \A q \in QuitTasks : \E r \in D : took[r] = q
    BY <1>0, <1>3, <2>1, <2>2 DEF QuitsTaken
  <2>4. \A r \in D : took[r] \in QuitTasks
    BY <1>0, <2>1 DEF DoneInv
  <2>5. took \in Surjection(D, QuitTasks)
    BY <2>3, <2>4 DEF Surjection
  <2>6. D \in SUBSET Runners
    OBVIOUS
  <2>7. IsFiniteSet(Runners) /\ Cardinality(QuitTasks) = Cardinality(Runners)
    BY TaskManagerAssumption
  <2>8. IsFiniteSet(D)
    BY <2>6, <2>7, FS_Subset
  <2>9. Cardinality(QuitTasks) <= Cardinality(D)
    BY <2>5, <2>8, FS_Surjection
  <2>10. Cardinality(D) <= Cardinality(Runners) /\ (Cardinality(Runners) = Cardinality(D) => Runners = D)
    BY <2>6, <2>7, FS_Subset
  <2>11. Cardinality(D) \in Nat /\ Cardinality(Runners) \in Nat
    BY <2>7, <2>8, FS_CardinalityType
  <2>12. Runners = D
    <3>1. Cardinality(Runners) = Cardinality(D)
      BY <2>7, <2>9, <2>10, <2>11
    <3> QED
      BY <2>10, <3>1
  <2> QED
    BY <2>2, <2>12
<1> QED
  BY <1>1, <1>4, <1>6, <1>7

-----------------------------------------------------------------------------
LEMMA NotStuck ==
    ASSUME LInv
    PROVE  NeverStuck
<1>1. \A X \in SUBSET Groups : (\A g \in X : WaitsOnlyFor(g, X)) => X = {}
  BY NoRingOfCalls
<1>2. CASE NobodyActs
  BY <1>1, <1>2, NothingWhenNobodyActs DEF NeverStuck
<1>3. CASE ~NobodyActs
  BY <1>1, <1>3 DEF NeverStuck, NobodyActs
<1> QED
  BY <1>2, <1>3

(* A manager with runner threads does not deadlock, however group calls are *)
(* nested in tasks and whoever runs these: no calls of runTaskGroup wait    *)
(* for each other only; and while a task is outstanding, a caller sleeps or *)
(* the destructor joins, some thread has a step to take.                    *)
THEOREM DoesNotDeadlock ==
    ASSUME Runners # {}
    PROVE  Spec => []NeverStuck
<1>1. Init => LInv
  <2>1. ASSUME Init
        PROVE  LInv
    <3>1. SInv
      BY <2>1, ShutdownInit
    <3>2. GroupCountIsOwed /\ GroupPlaced /\ Passed /\ QuitsTaken
      BY <2>1 DEF Init, GroupCountIsOwed, GroupPlaced, Passed, IsPast, QuitsTaken
    <3>3. NotifyingClients = {} /\ NoWakeupLost
      BY <2>1
      DEF Init, NotifyingClients, NoWakeupLost, RunnersGetWoken, WaitersGetWoken, CallersGetWoken
    <3>4. Rooted
      BY <2>1 DEF Init, Rooted
    <3> QED
      BY <3>1, <3>2, <3>3, <3>4, FS_EmptySet DEF LInv
  <2> QED
    BY <2>1
<1>2. LInv /\ [Next]_vars => LInv'
  <2>1. ASSUME LInv, [Next]_vars
        PROVE  LInv'
    <3>1. SInv /\ GInv /\ NoWakeupLost /\ GroupPlaced /\ Passed /\ Rooted /\ QuitsTaken
      BY <2>1, LInvFacts
    <3>2. SInv' /\ GroupPlaced' /\ Passed' /\ Rooted' /\ QuitsTaken'
      BY <2>1, <3>1, ShutdownNext, GroupPlacedStep, PassedStep, RootedStep, QuitsTakenStep
    <3>3. IsFiniteSet(NotifyingClients') /\ NoWakeupLost'
      BY <2>1, <3>1, RunnersWokenStep, WaitersWokenStep, CallersWokenStep DEF LInv, NoWakeupLost
    <3>4. GroupCountIsOwed'
      BY <2>1, <3>1, RunnerOwed, GroupOwed, OtherOwed
      DEF LInv, Next, Working, Calling, SpuriousWakeup, Destroyed
    <3> QED
      BY <3>2, <3>3, <3>4 DEF LInv
  <2> QED
    BY <2>1
<1>3. LInv => NeverStuck
  BY NotStuck
<1> QED
  BY <1>1, <1>2, <1>3, PTL DEF Spec
=============================================================================
