-------------------------- MODULE TaskQueueProofs ---------------------------
(***************************************************************************)
(* The links of the task queue agree with each other and with in_queue,    *)
(* for every set of tasks.  The invariant is inductive as it stands: each  *)
(* operation patches every link that names the tasks it moves.             *)
(***************************************************************************)
EXTENDS TaskQueueFifo, SequenceLemmas

(* What the callers of Enqueue pass it.                                     *)
Enqueueable(ts) ==
    /\ ts \in Seq(Task) /\ IsInjective(ts)
    /\ \A t \in ToSet(ts) : ~in_queue[t]

(* A task of a sequence without repetitions stands at its Position.         *)
LEMMA PositionIsIndex ==
    ASSUME NEW ts, IsInjective(ts), NEW i \in DOMAIN ts
    PROVE  Position(ts, ts[i]) = i
BY DEF Position, IsInjective

(* A member of SetToSeqs(S) is a sequence of S's elements without           *)
(* repetitions.                                                             *)
LEMMA SetToSeqsIsInjective ==
    ASSUME NEW S \in SUBSET Task, NEW ts \in SetToSeqs(S)
    PROVE  ts \in Seq(Task) /\ IsInjective(ts) /\ ToSet(ts) \subseteq S
<1>1. IsFiniteSet(S)
  BY TaskAssumption, FS_Subset
<1>2. Cardinality(S) \in Nat
  BY <1>1, FS_CardinalityType
<1>3. ts \in [1..Cardinality(S) -> S] /\ IsInjective(ts)
  BY DEF SetToSeqs, IsInjective
<1>4. ts \in Seq(Task)
  BY <1>2, <1>3
<1> QED
  BY <1>3, <1>4 DEF ToSet

(* Init establishes the invariant.                                          *)
LEMMA QueueInitLinks == QueueInit => QueueTypeOK /\ LinksConsistent
BY TaskAssumption DEF QueueInit, QueueTypeOK, LinksConsistent

(* What Enqueue writes, task by task: the tasks of ts are linked to each    *)
(* other and to the old tail.                                               *)
LEMMA EnqueueEffect ==
    ASSUME QueueTypeOK, NEW ts, ts \in Seq(Task), IsInjective(ts), Enqueue(ts), Len(ts) # 0
    PROVE  /\ head' = IF tail = NoTask THEN ts[1] ELSE head
           /\ tail' = ts[Len(ts)]
           /\ in_queue' = [t \in Task |-> t \in ToSet(ts) \/ in_queue[t]]
           /\ prev' \in [Task -> Task \cup {NoTask}]
           /\ \A i \in 1..Len(ts) : prev'[ts[i]] = IF i = 1 THEN tail ELSE ts[i - 1]
           /\ \A t \in Task \ ToSet(ts) : prev'[t] = prev[t]
           /\ next' \in [Task -> Task \cup {NoTask}]
           /\ \A i \in 1..Len(ts) : next'[ts[i]] = IF i = Len(ts) THEN NoTask ELSE ts[i + 1]
           /\ \A t \in Task \ ToSet(ts) : next'[t] = IF t = tail THEN ts[1] ELSE next[t]
<1> DEFINE n == Len(ts)
<1>1. n \in Nat \ {0} /\ DOMAIN ts = 1..n /\ \A i \in 1..n : ts[i] \in Task
  OBVIOUS
<1>2. \A t \in ToSet(ts) : \E i \in 1..n : t = ts[i]
  BY <1>1 DEF ToSet
<1>3. \A i \in 1..n : ts[i] \in ToSet(ts) /\ Position(ts, ts[i]) = i
  BY <1>1, PositionIsIndex DEF ToSet
<1> HIDE DEF n
<1>4. /\ head' = IF tail = NoTask THEN ts[1] ELSE head
      /\ tail' = ts[n]
      /\ in_queue' = [t \in Task |-> t \in ToSet(ts) \/ in_queue[t]]
  BY DEF Enqueue, n
<1>5. /\ prev' \in [Task -> Task \cup {NoTask}]
      /\ \A i \in 1..n : prev'[ts[i]] = IF i = 1 THEN tail ELSE ts[i - 1]
      /\ \A t \in Task \ ToSet(ts) : prev'[t] = prev[t]
  <2>1. prev' = [t \in Task |-> IF t \in ToSet(ts)
                                THEN IF Position(ts, t) = 1 THEN tail ELSE ts[Position(ts, t) - 1]
                                ELSE prev[t]]
    BY DEF Enqueue, n
  <2>2. \A i \in 1..n : prev'[ts[i]] = IF i = 1 THEN tail ELSE ts[i - 1]
    BY <2>1, <1>1, <1>3
  <2>3. \A t \in Task : prev'[t] \in Task \cup {NoTask}
    <3>1. ASSUME NEW i \in 1..n
          PROVE  prev'[ts[i]] \in Task \cup {NoTask}
      <4>1. CASE i = 1
        BY <4>1, <2>2 DEF QueueTypeOK
      <4>2. CASE i # 1
        <5>1. i - 1 \in 1..n
          BY <4>2, <1>1
        <5> QED
          BY <5>1, <4>2, <2>2, <1>1
      <4> QED
        BY <4>1, <4>2
    <3> QED
      BY <3>1, <2>1, <1>2 DEF QueueTypeOK
  <2> QED
    BY <2>1, <2>2, <2>3
<1>6. /\ next' \in [Task -> Task \cup {NoTask}]
      /\ \A i \in 1..n : next'[ts[i]] = IF i = n THEN NoTask ELSE ts[i + 1]
      /\ \A t \in Task \ ToSet(ts) : next'[t] = IF t = tail THEN ts[1] ELSE next[t]
  <2>1. next' = [t \in Task |-> IF t \in ToSet(ts)
                                THEN IF Position(ts, t) = n THEN NoTask ELSE ts[Position(ts, t) + 1]
                                ELSE IF t = tail THEN ts[1] ELSE next[t]]
    BY DEF Enqueue, n
  <2>2. \A i \in 1..n : next'[ts[i]] = IF i = n THEN NoTask ELSE ts[i + 1]
    BY <2>1, <1>1, <1>3
  <2>3. \A t \in Task : next'[t] \in Task \cup {NoTask}
    <3>1. ASSUME NEW i \in 1..n
          PROVE  next'[ts[i]] \in Task \cup {NoTask}
      <4>1. CASE i = n
        BY <4>1, <2>2
      <4>2. CASE i # n
        <5>1. i + 1 \in 1..n
          BY <4>2, <1>1
        <5> QED
          BY <5>1, <4>2, <2>2, <1>1
      <4> QED
        BY <4>1, <4>2
    <3>2. \A t \in ToSet(ts) : next'[t] \in Task \cup {NoTask}
      BY <3>1, <1>2
    <3>3. ts[1] \in Task
      BY <1>1
    <3>4. \A t \in Task \ ToSet(ts) : next'[t] \in Task \cup {NoTask}
      BY <3>3, <2>1 DEF QueueTypeOK
    <3> QED
      BY <3>2, <3>4
  <2> QED
    BY <2>1, <2>2, <2>3
<1> QED
  BY <1>4, <1>5, <1>6 DEF n

(* Enqueue appends a chain whose first task points back to the old tail.    *)
LEMMA EnqueueLinks ==
    ASSUME QueueTypeOK, LinksConsistent, NEW ts, Enqueueable(ts), Enqueue(ts)
    PROVE  QueueTypeOK' /\ LinksConsistent'
<1> DEFINE n == Len(ts)
<1>1. CASE n = 0
  BY <1>1 DEF Enqueue, queueVars, QueueTypeOK, LinksConsistent
<1>2. CASE n # 0
  <2>1. n \in Nat \ {0} /\ DOMAIN ts = 1..n /\ \A i \in 1..n : ts[i] \in Task
    BY <1>2 DEF Enqueueable
  <2>2. \A t \in ToSet(ts) : \E i \in 1..n : t = ts[i]
    BY <2>1 DEF ToSet
  <2>3. \A i \in 1..n : ts[i] \in ToSet(ts)
    BY <2>1 DEF ToSet
  <2>16. Len(ts) # 0
    BY <1>2
  <2> HIDE DEF n
  <2>4. /\ head' = IF tail = NoTask THEN ts[1] ELSE head
        /\ tail' = ts[n]
        /\ in_queue' = [t \in Task |-> t \in ToSet(ts) \/ in_queue[t]]
    BY <2>16, EnqueueEffect DEF Enqueueable, n
  <2>5. /\ prev' \in [Task -> Task \cup {NoTask}]
        /\ \A i \in 1..n : prev'[ts[i]] = IF i = 1 THEN tail ELSE ts[i - 1]
        /\ \A t \in Task \ ToSet(ts) : prev'[t] = prev[t]
    BY <2>16, EnqueueEffect DEF Enqueueable, n
  <2>6. /\ next' \in [Task -> Task \cup {NoTask}]
        /\ \A i \in 1..n : next'[ts[i]] = IF i = n THEN NoTask ELSE ts[i + 1]
        /\ \A t \in Task \ ToSet(ts) : next'[t] = IF t = tail THEN ts[1] ELSE next[t]
    BY <2>16, EnqueueEffect DEF Enqueueable, n
  <2>7. QueueTypeOK'
    <3>1. ts[1] \in Task /\ ts[n] \in Task
      BY <2>1
    <3>2. in_queue' \in [Task -> BOOLEAN]
      BY <2>4
    <3>3. head' \in Task \cup {NoTask} /\ tail' \in Task \cup {NoTask}
      BY <3>1, <2>4 DEF QueueTypeOK
    <3> QED
      BY <3>2, <3>3, <2>5, <2>6 DEF QueueTypeOK
  <2>13. \A i \in 1..n : ts[i] \in Task /\ ts[i] # NoTask /\ in_queue'[ts[i]]
    BY <2>1, <2>3, <2>4, TaskAssumption
  <2>14. 1 \in 1..n /\ n \in 1..n
    BY <2>1
  <2>15. tail # NoTask => /\ tail \in Task \ ToSet(ts) /\ in_queue'[tail]
                          /\ next'[tail] = ts[1]
    BY <2>4, <2>6 DEF LinksConsistent, QueueTypeOK, Enqueueable
  <2>8. (head = NoTask <=> tail = NoTask)'
    BY <2>4, <2>13, <2>14 DEF LinksConsistent
  <2>9. (head # NoTask => in_queue[head] /\ prev[head] = NoTask)'
    <3>1. CASE tail = NoTask
      BY <3>1, <2>13, <2>14, <2>4, <2>5
    <3>2. CASE tail # NoTask
      BY <3>2, <2>4, <2>5 DEF LinksConsistent, QueueTypeOK, Enqueueable
    <3> QED
      BY <3>1, <3>2
  <2>10. (tail # NoTask => in_queue[tail] /\ next[tail] = NoTask)'
    BY <2>4, <2>6, <2>13, <2>14
  <2>11. ASSUME NEW i \in 1..n
         PROVE  /\ IF prev'[ts[i]] = NoTask THEN head' = ts[i]
                   ELSE in_queue'[prev'[ts[i]]] /\ next'[prev'[ts[i]]] = ts[i]
                /\ IF next'[ts[i]] = NoTask THEN tail' = ts[i]
                   ELSE in_queue'[next'[ts[i]]] /\ prev'[next'[ts[i]]] = ts[i]
    <3>1. IF prev'[ts[i]] = NoTask THEN head' = ts[i]
          ELSE in_queue'[prev'[ts[i]]] /\ next'[prev'[ts[i]]] = ts[i]
      <4>1. CASE i = 1
        <5>1. prev'[ts[i]] = tail
          BY <4>1, <2>5
        <5> QED
          BY <4>1, <5>1, <2>4, <2>15
      <4>2. CASE i # 1
        <5>1. i - 1 \in 1..n /\ i - 1 # n /\ (i - 1) + 1 = i
          BY <4>2, <2>1
        <5>2. prev'[ts[i]] = ts[i - 1]
          BY <4>2, <2>5
        <5>3. next'[ts[i - 1]] = ts[(i - 1) + 1]
          BY <5>1, <2>6
        <5>4. ts[i - 1] # NoTask /\ in_queue'[ts[i - 1]]
          BY <5>1, <2>13
        <5> QED
          BY <5>1, <5>2, <5>3, <5>4
      <4> QED
        BY <4>1, <4>2
    <3>2. IF next'[ts[i]] = NoTask THEN tail' = ts[i]
          ELSE in_queue'[next'[ts[i]]] /\ prev'[next'[ts[i]]] = ts[i]
      <4>1. CASE i = n
        <5>1. next'[ts[i]] = NoTask
          BY <4>1, <2>6
        <5> QED
          BY <4>1, <5>1, <2>4
      <4>2. CASE i # n
        <5>1. i + 1 \in 1..n /\ i + 1 # 1 /\ (i + 1) - 1 = i
          BY <4>2, <2>1
        <5>2. next'[ts[i]] = ts[i + 1]
          BY <4>2, <2>6
        <5>3. prev'[ts[i + 1]] = ts[(i + 1) - 1]
          BY <5>1, <2>5
        <5>4. ts[i + 1] # NoTask /\ in_queue'[ts[i + 1]]
          BY <5>1, <2>13
        <5> QED
          BY <5>1, <5>2, <5>3, <5>4
      <4> QED
        BY <4>1, <4>2
    <3> QED
      BY <3>1, <3>2
  <2>12. ASSUME NEW t \in Task, in_queue'[t], t \notin ToSet(ts)
         PROVE  /\ IF prev'[t] = NoTask THEN head' = t
                   ELSE in_queue'[prev'[t]] /\ next'[prev'[t]] = t
                /\ IF next'[t] = NoTask THEN tail' = t
                   ELSE in_queue'[next'[t]] /\ prev'[next'[t]] = t
    <3>1. in_queue[t] /\ prev'[t] = prev[t] /\ next'[t] = IF t = tail THEN ts[1] ELSE next[t]
      BY <2>12, <2>4, <2>5, <2>6
    <3>2. \A u \in Task : in_queue[u] => u \notin ToSet(ts) /\ in_queue'[u]
      BY <2>4 DEF Enqueueable
    <3>3. IF prev[t] = NoTask THEN head = t ELSE in_queue[prev[t]] /\ next[prev[t]] = t
      BY <3>1 DEF LinksConsistent
    <3>4. IF next[t] = NoTask THEN tail = t ELSE in_queue[next[t]] /\ prev[next[t]] = t
      BY <3>1 DEF LinksConsistent
    <3>5. IF prev'[t] = NoTask THEN head' = t
          ELSE in_queue'[prev'[t]] /\ next'[prev'[t]] = t
      BY <3>1, <3>2, <3>3, <2>4, <2>6, TaskAssumption DEF LinksConsistent, QueueTypeOK
    <3>6. IF next'[t] = NoTask THEN tail' = t
          ELSE in_queue'[next'[t]] /\ prev'[next'[t]] = t
      <4>1. CASE t = tail
        <5>1. next'[t] = ts[1] /\ prev'[ts[1]] = tail
          BY <4>1, <3>1, <2>5, <2>14
        <5> QED
          BY <4>1, <5>1, <2>13, <2>14
      <4>2. CASE t # tail
        <5>1. next'[t] = next[t] /\ next[t] # NoTask
          BY <4>2, <3>1, <3>4
        <5>2. next[t] \in Task /\ in_queue[next[t]] /\ prev[next[t]] = t
          BY <5>1, <3>4 DEF QueueTypeOK
        <5>3. prev'[next[t]] = t /\ in_queue'[next[t]]
          BY <5>2, <3>2, <2>5
        <5> QED
          BY <5>1, <5>3
      <4> QED
        BY <4>1, <4>2
    <3> QED
      BY <3>5, <3>6
  <2> QED
    BY <2>2, <2>7, <2>8, <2>9, <2>10, <2>11, <2>12 DEF LinksConsistent
<1> QED
  BY <1>1, <1>2

(* Dequeue takes out the head and makes its successor the first task.       *)
LEMMA DequeueLinks ==
    ASSUME QueueTypeOK, LinksConsistent, Dequeue
    PROVE  QueueTypeOK' /\ LinksConsistent'
<1>1. /\ head \in Task /\ in_queue[head] /\ prev[head] = NoTask
      /\ next[head] \in Task \cup {NoTask}
  BY DEF Dequeue, QueueTypeOK, LinksConsistent
<1>2. QueueTypeOK'
  BY <1>1 DEF Dequeue, QueueTypeOK
<1>3. LinksConsistent'
  BY <1>1, TaskAssumption DEF Dequeue, QueueTypeOK, LinksConsistent
<1> QED
  BY <1>2, <1>3

(* Unlink joins the neighbours of the task it takes out.                    *)
LEMMA UnlinkLinks ==
    ASSUME QueueTypeOK, LinksConsistent, NEW t \in Task, Unlink(t)
    PROVE  QueueTypeOK' /\ LinksConsistent'
<1>1. in_queue[t] /\ prev[t] \in Task \cup {NoTask} /\ next[t] \in Task \cup {NoTask}
  BY DEF Unlink, QueueTypeOK
<1>2. QueueTypeOK'
  BY <1>1 DEF Unlink, QueueTypeOK
<1>3. LinksConsistent'
  BY <1>1, TaskAssumption DEF Unlink, QueueTypeOK, LinksConsistent
<1> QED
  BY <1>2, <1>3

(* In every behaviour of the queue, under any sequence of enqueues,         *)
(* dequeues and removals from the middle, the links stay consistent.        *)
THEOREM QueueSafety == QueueSpec => [](QueueTypeOK /\ LinksConsistent)
<1> DEFINE I == QueueTypeOK /\ LinksConsistent
<1>1. QueueInit => I
  BY QueueInitLinks
<1>2. I /\ [QueueNext]_queueVars => I'
  <2> SUFFICES ASSUME I, [QueueNext]_queueVars PROVE I'
    OBVIOUS
  <2>1. ASSUME NEW S \in SUBSET {t \in Task : ~in_queue[t]}, NEW ts \in SetToSeqs(S), Enqueue(ts)
        PROVE  I'
    <3>1. Enqueueable(ts)
      BY <2>1, SetToSeqsIsInjective DEF Enqueueable
    <3> QED
      BY <3>1, <2>1, EnqueueLinks
  <2>2. CASE Dequeue
    BY <2>2, DequeueLinks
  <2>3. ASSUME NEW t \in Task, Unlink(t)
        PROVE  I'
    BY <2>3, UnlinkLinks
  <2>4. CASE UNCHANGED queueVars
    BY <2>4 DEF queueVars, QueueTypeOK, LinksConsistent
  <2> QED
    BY <2>1, <2>2, <2>3, <2>4 DEF QueueNext
<1> QED
  BY <1>1, <1>2, PTL DEF QueueSpec

-----------------------------------------------------------------------------
(* The list as a queue: the tasks of some sequence, linked in its order.    *)
(* No induction is needed to find that sequence again after a step: each    *)
(* operation names the new one.                                             *)

(* The list holds the tasks of the sequence q, linked in that order.        *)
IsChain(q) ==
    /\ head = IF Len(q) = 0 THEN NoTask ELSE q[1]
    /\ tail = IF Len(q) = 0 THEN NoTask ELSE q[Len(q)]
    /\ \A i \in 1..Len(q) :
        /\ prev[q[i]] = IF i = 1 THEN NoTask ELSE q[i - 1]
        /\ next[q[i]] = IF i = Len(q) THEN NoTask ELSE q[i + 1]

IsList(q) == q \in Seq(Task) /\ IsInjective(q) /\ IsChain(q)

(* And in_queue says of each task whether it is one of them.                *)
IsQueue(q) ==
    /\ IsList(q)
    /\ \A t \in Task : in_queue[t] <=> \E i \in 1..Len(q) : q[i] = t

(* Walk follows next from head, as its definition says: the function it     *)
(* chooses exists when the tasks reached are those of a queue.              *)
LEMMA WalkAlongQueue ==
    ASSUME NEW q, IsList(q)
    PROVE  \A n \in Nat : Walk[n] = IF n < Len(q) THEN q[n + 1] ELSE NoTask
<1> DEFINE f == [n \in Nat |-> IF n < Len(q) THEN q[n + 1] ELSE NoTask]
<1>0. Len(q) \in Nat /\ \A i \in 1..Len(q) : q[i] \in Task
  BY DEF IsList
<1>1. f = [n \in Nat |-> IF n = 0 THEN head ELSE After[f[n - 1]]]
  <2>1. ASSUME NEW n \in Nat, n # 0
        PROVE  f[n] = After[f[n - 1]]
    <3>1. n - 1 \in Nat /\ f[n - 1] = IF n - 1 < Len(q) THEN q[n] ELSE NoTask
      BY <2>1, Z3
    <3>2. CASE n - 1 < Len(q)
      <4>1. n \in 1..Len(q) /\ q[n] \in Task /\ q[n] # NoTask
        BY <3>2, <2>1, <1>0, TaskAssumption
      <4>2. f[n - 1] = q[n]
        BY <3>1, <3>2
      <4>3. After[q[n]] = next[q[n]]
        BY <4>1 DEF After
      <4>4. next[q[n]] = IF n = Len(q) THEN NoTask ELSE q[n + 1]
        BY <4>1 DEF IsList, IsChain
      <4>5. f[n] = IF n < Len(q) THEN q[n + 1] ELSE NoTask
        OBVIOUS
      <4>6. (n < Len(q)) <=> n # Len(q)
        BY <3>2, <2>1, <1>0
      <4> QED
        BY <4>2, <4>3, <4>4, <4>5, <4>6
    <3>3. CASE ~(n - 1 < Len(q))
      <4>1. ~(n < Len(q))
        BY <3>3, <2>1, <1>0
      <4> QED
        BY <4>1, <3>1, <3>3 DEF After
    <3> QED
      BY <3>2, <3>3
  <2>2. f[0] = head
    <3>1. CASE Len(q) = 0
      BY <3>1 DEF IsList, IsChain
    <3>2. CASE Len(q) # 0
      BY <3>2, <1>0 DEF IsList, IsChain
    <3> QED
      BY <3>1, <3>2
  <2> HIDE DEF f
  <2>3. \A n \in Nat : f[n] = IF n = 0 THEN head ELSE After[f[n - 1]]
    BY <2>1, <2>2
  <2>4. f = [n \in Nat |-> f[n]]
    BY DEF f
  <2> QED
    BY <2>3, <2>4
<1> HIDE DEF f
<1>2. Walk = [n \in Nat |-> IF n = 0 THEN head ELSE After[Walk[n - 1]]]
  BY <1>1 DEF Walk
<1>3. \A n \in Nat : Walk[n] = f[n]
  <2>1. SUFFICES ASSUME NEW n \in Nat, Walk[n] # f[n]
                 PROVE  FALSE
    OBVIOUS
  <2> DEFINE D == {k \in 0..n : Walk[k] # f[k]}
  <2>2. PICK m \in D : \A k \in D : m <= k
    <3>1. D \in SUBSET Nat /\ D # {}
      BY <2>1
    <3> HIDE DEF D
    <3> QED
      BY <3>1, LeastNatural
  <2>3. CASE m = 0
    BY <2>3, <2>2, <1>1, <1>2
  <2>4. CASE m # 0
    <3>1. m \in Nat /\ m - 1 \in Nat /\ m - 1 \in 0..n /\ m - 1 < m
      BY <2>4
    <3>2. Walk[m - 1] = f[m - 1]
      BY <3>1, <2>2
    <3>3. Walk[m] = After[Walk[m - 1]] /\ f[m] = After[f[m - 1]]
      BY <3>1, <2>4, <1>1, <1>2
    <3> QED
      BY <3>2, <3>3, <2>2
  <2> QED
    BY <2>3, <2>4
<1> QED
  BY <1>3 DEF f

(* Reading the list from head gives the queue it holds.                     *)
LEMMA SeqOfQueue ==
    ASSUME NEW q, IsList(q)
    PROVE  QueueSeq = q
<1> DEFINE n == Len(q)
<1>1. n \in Nat /\ q \in [1..n -> Task] /\ IsInjective(q)
  BY DEF IsList
<1>2. n <= Cardinality(Task) /\ Cardinality(Task) \in Nat
  <2>1. q \in Injection(1..n, Task)
    BY <1>1 DEF Injection, IsInjective
  <2>2. Cardinality(1..n) = n
    <3> HIDE DEF n
    <3>1. n \in Int /\ 1 \in Int
      BY <1>1
    <3> QED
      BY <3>1, <1>1, FS_Interval
  <2>3. Cardinality(1..n) <= Cardinality(Task)
    BY <2>1, TaskAssumption, FS_Injection
  <2> QED
    BY <2>2, <2>3, TaskAssumption, FS_CardinalityType
<1>3. \A i \in Nat : Walk[i] = IF i < n THEN q[i + 1] ELSE NoTask
  BY WalkAlongQueue
<1> HIDE DEF n
<1>4. Steps = 0..n - 1
  <2>1. ASSUME NEW i \in Steps
        PROVE  i \in 0..n - 1
    <3>1. i \in Nat /\ Walk[i] # NoTask
      BY <1>2 DEF Steps
    <3>2. i < n
      BY <3>1, <1>3
    <3> QED
      BY <3>1, <3>2, <1>1
  <2>2. ASSUME NEW i \in 0..n - 1
        PROVE  i \in Steps
    <3>1. i \in Nat /\ i < n /\ i + 1 \in 1..n /\ i \in 0..Cardinality(Task) - 1
      BY <1>1, <1>2
    <3>2. Walk[i] = q[i + 1]
      BY <3>1, <1>3
    <3>3. q[i + 1] \in Task
      BY <3>1, <1>1
    <3>4. Walk[i] # NoTask
      BY <3>2, <3>3, TaskAssumption
    <3> QED
      BY <3>1, <3>4 DEF Steps
  <2> QED
    BY <2>1, <2>2
<1>5. Cardinality(Steps) = n
  <2>1. n - 1 \in Int /\ 0 \in Int
    BY <1>1
  <2>2. Cardinality(0..n - 1) = IF 0 > n - 1 THEN 0 ELSE n - 1 - 0 + 1
    BY <2>1, FS_Interval
  <2> QED
    BY <1>1, <1>4, <2>2
<1>6. QueueSeq = [i \in 1..n |-> Walk[i - 1]]
  BY <1>5 DEF QueueSeq
<1>7. \A i \in 1..n : Walk[i - 1] = q[i]
  <2>1. ASSUME NEW i \in 1..n
        PROVE  Walk[i - 1] = q[i]
    <3>1. i - 1 \in Nat /\ i - 1 < n /\ (i - 1) + 1 = i
      BY <1>1
    <3> HIDE DEF Walk
    <3>2. Walk[i - 1] = q[(i - 1) + 1]
      BY <3>1, <1>3
    <3> QED
      BY <3>1, <3>2
  <2> QED
    BY <2>1
<1> QED
  BY <1>1, <1>6, <1>7

(* The same, of the state after a step.                                     *)
SeqIsList == \A q \in Seq(Task) : IsList(q) => QueueSeq = q

LEMMA SeqIsListAlways == SeqIsList
BY SeqOfQueue DEF SeqIsList

LEMMA SeqIsListNext == SeqIsList'
BY SeqIsListAlways, PTL

-----------------------------------------------------------------------------
(* Enqueue puts its tasks behind those of the queue, in their order.        *)
(* That a task of neither list stands in both is all this needs of in_queue. *)
LEMMA EnqueueList ==
    ASSUME QueueTypeOK, NEW q, IsList(q), NEW ts, ts \in Seq(Task), IsInjective(ts),
           \A i \in 1..Len(q), j \in 1..Len(ts) : q[i] # ts[j],
           Enqueue(ts), Len(ts) # 0
    PROVE  /\ IsList(q \o ts)'
           /\ IsPrefix(q, q \o ts) /\ q # q \o ts
           /\ IsInjective(q \o ts) /\ ToSet(q \o ts) \subseteq Task
           /\ Len(q \o ts) = Len(q) + Len(ts)
           /\ \A i \in 1..Len(q) : (q \o ts)[i] = q[i]
           /\ \A i \in 1..Len(ts) : (q \o ts)[Len(q) + i] = ts[i]
<1> DEFINE m == Len(q)
           n == Len(ts)
           r == q \o ts
<1>1. /\ m \in Nat /\ n \in Nat \ {0} /\ q \in Seq(Task) /\ ts \in Seq(Task)
      /\ DOMAIN q = 1..m /\ DOMAIN ts = 1..n
      /\ \A i \in 1..m : q[i] \in Task
      /\ \A i \in 1..n : ts[i] \in Task /\ ts[i] \in ToSet(ts)
  BY DEF IsList, ToSet
<1>2. \A t \in ToSet(ts) : \E i \in 1..n : t = ts[i]
  BY <1>1 DEF ToSet
<1>3. /\ r \in Seq(Task) /\ Len(r) = m + n /\ DOMAIN r = 1..m + n
      /\ \A i \in 1..m : r[i] = q[i]
      /\ \A i \in 1..n : r[m + i] = ts[i]
  <2>1. /\ q \o ts \in Seq(Task)
        /\ Len(q \o ts) = Len(q) + Len(ts)
        /\ \A i \in 1..Len(q) + Len(ts) :
             (q \o ts)[i] = IF i <= Len(q) THEN q[i] ELSE ts[i - Len(q)]
    BY <1>1, ConcatProperties
  <2> HIDE DEF m, n, r
  <2>2. /\ r \in Seq(Task) /\ Len(r) = m + n
        /\ \A i \in 1..m + n : r[i] = IF i <= m THEN q[i] ELSE ts[i - m]
    BY <2>1 DEF m, n, r
  <2>3. ASSUME NEW i \in 1..n
        PROVE  r[m + i] = ts[i]
    <3>1. m + i \in 1..m + n /\ ~(m + i <= m) /\ (m + i) - m = i
      BY <1>1
    <3> QED
      BY <3>1, <2>2
  <2>4. \A i \in 1..m : r[i] = q[i]
    <3>1. \A i \in 1..m : i \in 1..m + n /\ i <= m
      BY <1>1
    <3> QED
      BY <2>2, <3>1
  <2>5. DOMAIN r = 1..m + n
    BY <2>2
  <2> QED
    BY <2>2, <2>3, <2>4, <2>5
<1>4. /\ head = IF m = 0 THEN NoTask ELSE q[1]
      /\ tail = IF m = 0 THEN NoTask ELSE q[m]
      /\ \A i \in 1..m : /\ prev[q[i]] = IF i = 1 THEN NoTask ELSE q[i - 1]
                         /\ next[q[i]] = IF i = m THEN NoTask ELSE q[i + 1]
      /\ \A i, j \in 1..m : q[i] = q[j] => i = j
      /\ \A i, j \in 1..n : ts[i] = ts[j] => i = j
  BY <1>1 DEF IsList, IsChain, IsInjective
<1>5. /\ head' = IF tail = NoTask THEN ts[1] ELSE head
      /\ tail' = ts[n]
      /\ \A i \in 1..n : prev'[ts[i]] = IF i = 1 THEN tail ELSE ts[i - 1]
      /\ \A t \in Task \ ToSet(ts) : prev'[t] = prev[t]
      /\ \A i \in 1..n : next'[ts[i]] = IF i = n THEN NoTask ELSE ts[i + 1]
      /\ \A t \in Task \ ToSet(ts) : next'[t] = IF t = tail THEN ts[1] ELSE next[t]
  BY EnqueueEffect
<1>7. \A i \in 1..m, j \in 1..n : q[i] # ts[j]
  OBVIOUS
<1> HIDE DEF m, n, r
<1>6. \A k \in 1..m + n : k \in 1..m \/ \E i \in 1..n : k = m + i
  <2>1. ASSUME NEW k \in 1..m + n, k \notin 1..m
        PROVE  k - m \in 1..n /\ k = m + (k - m)
    BY <2>1, <1>1
  <2> QED
    BY <2>1
<1>8. \A k, l \in 1..m + n : r[k] = r[l] => k = l
  BY <1>3, <1>4, <1>6, <1>7
<1>9. \A i \in 1..m : q[i] \in Task \ ToSet(ts)
  BY <1>1, <1>2, <1>7
<1>10. /\ head' = r[1]
       /\ tail' = r[m + n]
  <2>1. tail' = r[m + n]
    <3>1. n \in 1..n
      BY <1>1
    <3> QED
      BY <3>1, <1>3, <1>5
  <2>2. CASE m = 0
    <3>1. 1 \in 1..n /\ m + 1 = 1
      BY <1>1, <2>2
    <3>2. r[1] = ts[1]
      BY <3>1, <1>3
    <3> QED
      BY <2>1, <2>2, <3>2, <1>4, <1>5
  <2>3. CASE m # 0
    <3>1. m \in 1..m /\ 1 \in 1..m
      BY <1>1, <2>3
    <3>2. tail # NoTask
      BY <3>1, <1>1, <1>4, <2>3, TaskAssumption
    <3> QED
      BY <2>1, <2>3, <3>1, <3>2, <1>3, <1>4, <1>5
  <2> QED
    BY <2>2, <2>3
<1>11. ASSUME NEW k \in 1..m
       PROVE  /\ prev'[r[k]] = IF k = 1 THEN NoTask ELSE r[k - 1]
              /\ next'[r[k]] = IF k = m + n THEN NoTask ELSE r[k + 1]
  <2>1. r[k] = q[k] /\ q[k] \in Task \ ToSet(ts) /\ m # 0 /\ k # m + n
    BY <1>1, <1>3, <1>9
  <2>2. prev'[r[k]] = IF k = 1 THEN NoTask ELSE r[k - 1]
    <3>1. prev'[r[k]] = IF k = 1 THEN NoTask ELSE q[k - 1]
      BY <2>1, <1>4, <1>5
    <3>2. k # 1 => k - 1 \in 1..m
      BY <1>1
    <3> QED
      BY <3>1, <3>2, <1>3
  <2>3. CASE k = m
    <3>1. q[k] = tail /\ 1 \in 1..n
      BY <2>1, <2>3, <1>1, <1>4
    <3>2. next'[r[k]] = ts[1] /\ r[m + 1] = ts[1]
      BY <3>1, <2>1, <1>3, <1>5
    <3> QED
      BY <2>1, <2>2, <2>3, <3>2
  <2>4. CASE k # m
    <3>1. m \in 1..m /\ k + 1 \in 1..m
      BY <2>4, <1>1
    <3>2. q[k] # tail
      BY <3>1, <2>1, <2>4, <1>4
    <3>3. next'[r[k]] = q[k + 1]
      BY <3>2, <2>1, <2>4, <1>4, <1>5
    <3> QED
      BY <2>1, <2>2, <3>1, <3>3, <1>3
  <2> QED
    BY <2>3, <2>4
<1>12. ASSUME NEW i \in 1..n
       PROVE  /\ prev'[r[m + i]] = IF m + i = 1 THEN NoTask ELSE r[(m + i) - 1]
              /\ next'[r[m + i]] = IF m + i = m + n THEN NoTask ELSE r[(m + i) + 1]
  <2>1. r[m + i] = ts[i]
    BY <1>3
  <2>2. prev'[ts[i]] = IF m + i = 1 THEN NoTask ELSE r[(m + i) - 1]
    <3>1. CASE i = 1
      <4>1. prev'[ts[i]] = tail
        BY <3>1, <1>5
      <4>2. CASE m = 0
        BY <3>1, <4>1, <4>2, <1>4
      <4>3. CASE m # 0
        <5>1. m \in 1..m /\ (m + i) - 1 = m /\ m + i # 1
          BY <3>1, <4>3, <1>1
        <5> QED
          BY <5>1, <4>1, <4>3, <1>3, <1>4
      <4> QED
        BY <4>2, <4>3
    <3>2. CASE i # 1
      <4>1. i - 1 \in 1..n /\ m + (i - 1) = (m + i) - 1 /\ m + i # 1
        BY <3>2, <1>1
      <4>2. r[m + (i - 1)] = ts[i - 1]
        BY <4>1, <1>3
      <4> QED
        BY <4>1, <4>2, <3>2, <1>5
    <3> QED
      BY <3>1, <3>2
  <2>3. next'[ts[i]] = IF m + i = m + n THEN NoTask ELSE r[(m + i) + 1]
    <3>1. CASE i = n
      BY <3>1, <1>5
    <3>2. CASE i # n
      <4>1. i + 1 \in 1..n /\ m + (i + 1) = (m + i) + 1 /\ m + i # m + n
        BY <3>2, <1>1
      <4>2. r[m + (i + 1)] = ts[i + 1]
        BY <4>1, <1>3
      <4> QED
        BY <4>1, <4>2, <3>2, <1>5
    <3> QED
      BY <3>1, <3>2
  <2> QED
    BY <2>1, <2>2, <2>3
<1>13. IsChain(r)'
  <2>1. Len(r) # 0
    BY <1>1, <1>3
  <2>2. \A k \in 1..m + n : /\ prev'[r[k]] = IF k = 1 THEN NoTask ELSE r[k - 1]
                            /\ next'[r[k]] = IF k = m + n THEN NoTask ELSE r[k + 1]
    BY <1>6, <1>11, <1>12
  <2> QED
    BY <2>1, <2>2, <1>3, <1>10 DEF IsChain
<1>14. IsInjective(r)
  BY <1>3, <1>8 DEF IsInjective
<1>15. IsList(r)'
  BY <1>3, <1>13, <1>14 DEF IsList
<1>16. ToSet(r) \subseteq Task /\ q # r
  <2>1. \A k \in 1..m + n : r[k] \in Task
    BY <1>3
  <2>2. m # m + n
    BY <1>1
  <2> QED
    BY <2>1, <2>2, <1>3 DEF ToSet, m
<1>17. IsPrefix(q, r)
  <2>1. SubSeq(r, 1, m) = q
    <3>1. \A i \in 1..m : r[i] \in Task /\ 1 + i - 1 = i
      BY <1>1, <1>3
    <3>2. 1 \in Int /\ m \in Int
      BY <1>1
    <3>3. /\ SubSeq(r, 1, m) \in Seq(Task)
          /\ Len(SubSeq(r, 1, m)) = IF 1 <= m THEN m - 1 + 1 ELSE 0
          /\ \A i \in 1..m - 1 + 1 : SubSeq(r, 1, m)[i] = r[1 + i - 1]
      BY <3>1, <3>2, SubSeqProperties
    <3>4. Len(SubSeq(r, 1, m)) = m /\ m - 1 + 1 = m
      BY <3>3, <1>1
    <3> DEFINE s == SubSeq(r, 1, m)
    <3>5. s \in Seq(Task) /\ Len(s) = Len(q) /\ \A i \in 1..Len(s) : s[i] = q[i]
      BY <3>1, <3>3, <3>4, <1>3 DEF m
    <3> HIDE DEF s
    <3>6. s = q
      BY <3>5, <1>1, SeqEqual
    <3> QED
      BY <3>6 DEF s
  <2>2. Len(q) <= Len(r)
    BY <1>1, <1>3 DEF m
  <2> QED
    BY <2>1, <2>2 DEF IsPrefix, m
<1> QED
  BY <1>3, <1>14, <1>15, <1>16, <1>17 DEF m, n, r

LEMMA EnqueueQueue ==
    ASSUME QueueTypeOK, NEW q, IsQueue(q), NEW ts, Enqueueable(ts), Enqueue(ts), Len(ts) # 0
    PROVE  /\ IsQueue(q \o ts)'
           /\ IsPrefix(q, q \o ts) /\ q # q \o ts
           /\ IsInjective(q \o ts) /\ ToSet(q \o ts) \subseteq Task
<1> DEFINE m == Len(q)
           n == Len(ts)
           r == q \o ts
<1>1. /\ m \in Nat /\ n \in Nat \ {0} /\ q \in Seq(Task) /\ ts \in Seq(Task)
      /\ \A i \in 1..m : q[i] \in Task /\ in_queue[q[i]]
      /\ \A i \in 1..n : ts[i] \in Task /\ ts[i] \in ToSet(ts) /\ ~in_queue[ts[i]]
      /\ \A t \in ToSet(ts) : \E i \in 1..n : t = ts[i]
      /\ \A t \in Task : in_queue[t] <=> \E i \in 1..m : q[i] = t
      /\ IsList(q) /\ IsInjective(ts)
  BY DEF IsQueue, IsList, Enqueueable, ToSet
<1>2. \A i \in 1..m, j \in 1..n : q[i] # ts[j]
  BY <1>1
<1>3. /\ IsList(r)'
      /\ IsPrefix(q, r) /\ q # r
      /\ IsInjective(r) /\ ToSet(r) \subseteq Task
      /\ Len(r) = m + n
      /\ \A i \in 1..m : r[i] = q[i]
      /\ \A i \in 1..n : r[m + i] = ts[i]
  BY <1>1, <1>2, EnqueueList
<1>4. in_queue' = [t \in Task |-> t \in ToSet(ts) \/ in_queue[t]]
  BY DEF Enqueue
<1> HIDE DEF m, n, r
<1>5. \A k \in 1..m + n : k \in 1..m \/ \E i \in 1..n : k = m + i
  <2>1. ASSUME NEW k \in 1..m + n, k \notin 1..m
        PROVE  k - m \in 1..n /\ k = m + (k - m)
    BY <2>1, <1>1
  <2> QED
    BY <2>1
<1>6. ASSUME NEW t \in Task
       PROVE  in_queue'[t] <=> \E k \in 1..m + n : r[k] = t
  <2>1. ASSUME t \in ToSet(ts)
        PROVE  \E k \in 1..m + n : r[k] = t
    <3>1. PICK i \in 1..n : t = ts[i]
      BY <2>1, <1>1
    <3>2. m + i \in 1..m + n
      BY <1>1
    <3> QED
      BY <3>1, <3>2, <1>3
  <2>2. ASSUME in_queue[t]
        PROVE  \E k \in 1..m + n : r[k] = t
    <3>1. PICK i \in 1..m : q[i] = t
      BY <2>2, <1>1
    <3>2. i \in 1..m + n
      BY <1>1
    <3> QED
      BY <3>1, <3>2, <1>3
  <2>3. ASSUME NEW k \in 1..m + n, r[k] = t
        PROVE  t \in ToSet(ts) \/ in_queue[t]
    <3>1. CASE k \in 1..m
      BY <2>3, <3>1, <1>1, <1>3
    <3>2. ASSUME NEW i \in 1..n, k = m + i
          PROVE  t \in ToSet(ts)
      BY <2>3, <3>2, <1>1, <1>3
    <3> QED
      BY <3>1, <3>2, <1>5
  <2> QED
    BY <2>1, <2>2, <2>3, <1>4
<1>7. IsQueue(r)'
  BY <1>3, <1>6 DEF IsQueue
<1> QED
  BY <1>3, <1>7 DEF r

(* Dequeue takes the first task of the queue.                               *)
LEMMA DequeueList ==
    ASSUME QueueTypeOK, NEW q, IsList(q), Dequeue
    PROVE  /\ q # <<>> /\ IsList(Tail(q))'
           /\ Len(q) \in Nat \ {0} /\ head = q[1]
           /\ Len(Tail(q)) = Len(q) - 1 /\ \A i \in 1..Len(q) - 1 : Tail(q)[i] = q[i + 1]
<1> DEFINE m == Len(q)
           r == Tail(q)
<1>1. /\ m \in Nat /\ q \in Seq(Task) /\ DOMAIN q = 1..m
      /\ \A i \in 1..m : q[i] \in Task
      /\ head = IF m = 0 THEN NoTask ELSE q[1]
      /\ tail = IF m = 0 THEN NoTask ELSE q[m]
      /\ \A i \in 1..m : /\ prev[q[i]] = IF i = 1 THEN NoTask ELSE q[i - 1]
                         /\ next[q[i]] = IF i = m THEN NoTask ELSE q[i + 1]
      /\ \A i, j \in 1..m : q[i] = q[j] => i = j
  BY DEF IsList, IsChain, IsInjective
<1>2. m # 0 /\ q # <<>>
  BY <1>1 DEF Dequeue
<1>0. /\ Tail(q) \in Seq(Task) /\ Len(Tail(q)) = Len(q) - 1
      /\ \A i \in 1..Len(Tail(q)) : Tail(q)[i] = q[i + 1]
  BY <1>1, <1>2, HeadTailProperties
<1> HIDE DEF m, r
<1>3. /\ r \in Seq(Task) /\ Len(r) = m - 1 /\ DOMAIN r = 1..m - 1
      /\ \A i \in 1..m - 1 : r[i] = q[i + 1]
  BY <1>0 DEF m, r
<1>4. 1 \in 1..m /\ \A i \in 1..m - 1 : i + 1 \in 1..m /\ i + 1 # 1
  BY <1>1, <1>2
<1>5. ASSUME m = 1
      PROVE  IsList(r)'
  <2>1. next[head] = NoTask /\ head = q[1]
    BY <1>1, <1>4, <1>5
  <2>2. head' = NoTask /\ tail' = NoTask
    BY <2>1 DEF Dequeue
  <2>3. Len(r) = 0
    BY <1>3, <1>5
  <2>4. IsChain(r)'
    BY <2>2, <2>3 DEF IsChain
  <2>5. IsInjective(r)
    BY <2>3, <1>3, <1>5 DEF IsInjective
  <2> QED
    BY <2>4, <2>5, <1>3 DEF IsList
<1>6. ASSUME m # 1
      PROVE  IsList(r)'
  <2>1. m \in 1..m /\ 2 \in 1..m /\ 1 + 1 = 2
    BY <1>1, <1>2, <1>6
  <2>2. next[head] = q[2] /\ head = q[1] /\ q[2] \in Task /\ q[2] # NoTask
    BY <2>1, <1>1, <1>2, <1>4, <1>6, TaskAssumption
  <2>3. /\ head' = q[2] /\ tail' = q[m]
        /\ prev' = [t \in Task |-> IF t = q[2] THEN NoTask ELSE prev[t]]
        /\ next' = next
    BY <2>2, <1>1, <1>2 DEF Dequeue
  <2>4. head' = r[1] /\ tail' = r[m - 1] /\ Len(r) # 0
    <3>1. 1 \in 1..m - 1 /\ m - 1 \in 1..m - 1 /\ (m - 1) + 1 = m
      BY <1>1, <1>2, <1>6
    <3>2. r[1] = q[2] /\ r[m - 1] = q[m]
      BY <3>1, <2>1, <1>3
    <3> QED
      BY <3>1, <3>2, <2>3, <1>3
  <2>5. ASSUME NEW i \in 1..m - 1
        PROVE  /\ prev'[r[i]] = IF i = 1 THEN NoTask ELSE r[i - 1]
               /\ next'[r[i]] = IF i = m - 1 THEN NoTask ELSE r[i + 1]
    <3>1. r[i] = q[i + 1] /\ i + 1 \in 1..m /\ i + 1 # 1 /\ (i + 1) - 1 = i /\ q[i + 1] \in Task
      BY <1>1, <1>3, <1>4
    <3>2. prev'[r[i]] = IF i = 1 THEN NoTask ELSE r[i - 1]
      <4>1. CASE i = 1
        BY <4>1, <3>1, <2>1, <2>3
      <4>2. CASE i # 1
        <5>1. i - 1 \in 1..m - 1 /\ (i - 1) + 1 = i /\ i + 1 # 2
          BY <4>2, <1>1
        <5>2. q[i + 1] # q[2]
          BY <5>1, <3>1, <2>1, <1>1
        <5>3. prev'[r[i]] = prev[q[i + 1]]
          BY <5>2, <3>1, <2>3
        <5>4. prev[q[i + 1]] = q[i]
          BY <3>1, <1>1
        <5> QED
          BY <5>1, <5>3, <5>4, <4>2, <1>3
      <4> QED
        BY <4>1, <4>2
    <3>3. next'[r[i]] = IF i = m - 1 THEN NoTask ELSE r[i + 1]
      <4>1. next'[r[i]] = IF i + 1 = m THEN NoTask ELSE q[(i + 1) + 1]
        BY <3>1, <2>3, <1>1
      <4>2. i + 1 = m <=> i = m - 1
        BY <1>1
      <4>3. i # m - 1 => i + 1 \in 1..m - 1
        BY <1>1
      <4> QED
        BY <4>1, <4>2, <4>3, <1>3
    <3> QED
      BY <3>2, <3>3
  <2>6. IsChain(r)'
    BY <2>4, <2>5, <1>3 DEF IsChain
  <2>7. IsInjective(r)
    <3>1. ASSUME NEW i \in 1..m - 1, NEW j \in 1..m - 1, r[i] = r[j]
          PROVE  i = j
      <4>1. i + 1 = j + 1
        BY <3>1, <1>1, <1>3, <1>4
      <4> QED
        BY <4>1
    <3> QED
      BY <3>1, <1>3 DEF IsInjective
  <2> QED
    BY <2>6, <2>7, <1>3 DEF IsList
<1>7. IsList(r)'
  BY <1>5, <1>6
<1> QED
  BY <1>1, <1>2, <1>3, <1>7 DEF m, r

LEMMA DequeueQueue ==
    ASSUME QueueTypeOK, NEW q, IsQueue(q), Dequeue
    PROVE  q # <<>> /\ IsQueue(Tail(q))'
<1> DEFINE m == Len(q)
           r == Tail(q)
<1>1. /\ m \in Nat /\ IsList(q) /\ \A i, j \in 1..m : q[i] = q[j] => i = j
      /\ \A t \in Task : in_queue[t] <=> \E i \in 1..m : q[i] = t
  BY DEF IsQueue, IsList, IsInjective
<1>2. /\ q # <<>> /\ IsList(r)'
      /\ m # 0 /\ head = q[1]
      /\ Len(r) = m - 1 /\ \A i \in 1..m - 1 : r[i] = q[i + 1]
  BY <1>1, DequeueList
<1> HIDE DEF m, r
<1>3. ASSUME NEW t \in Task
      PROVE  in_queue'[t] <=> \E i \in 1..m - 1 : r[i] = t
  <2>1. in_queue'[t] <=> in_queue[t] /\ t # q[1]
    BY <1>2 DEF Dequeue, QueueTypeOK
  <2>2. ASSUME NEW i \in 1..m, i # 1
        PROVE  i - 1 \in 1..m - 1 /\ r[i - 1] = q[i]
    <3>1. i - 1 \in 1..m - 1 /\ (i - 1) + 1 = i
      BY <2>2, <1>1
    <3> QED
      BY <3>1, <1>2
  <2>3. ASSUME NEW i \in 1..m - 1, r[i] = t
        PROVE  in_queue[t] /\ t # q[1]
    <3>1. i + 1 \in 1..m /\ 1 \in 1..m /\ i + 1 # 1
      BY <1>1
    <3> QED
      BY <2>3, <3>1, <1>1, <1>2
  <2> QED
    BY <2>1, <2>2, <2>3, <1>1
<1>4. IsQueue(r)'
  BY <1>2, <1>3 DEF IsQueue
<1> QED
  BY <1>2, <1>4 DEF r

(* Unlink takes its task out of the queue, wherever it stands.              *)
LEMMA UnlinkQueue ==
    ASSUME QueueTypeOK, NEW q, IsQueue(q), NEW t \in Task, Unlink(t)
    PROVE  \E p \in DOMAIN q : q[p] = t /\ IsQueue(RemoveAt(q, p))'
<1> DEFINE m == Len(q)
<1>1. /\ m \in Nat /\ q \in Seq(Task) /\ DOMAIN q = 1..m
      /\ \A i \in 1..m : q[i] \in Task /\ q[i] # NoTask
      /\ head = IF m = 0 THEN NoTask ELSE q[1]
      /\ tail = IF m = 0 THEN NoTask ELSE q[m]
      /\ \A i \in 1..m : /\ prev[q[i]] = IF i = 1 THEN NoTask ELSE q[i - 1]
                         /\ next[q[i]] = IF i = m THEN NoTask ELSE q[i + 1]
      /\ \A u \in Task : in_queue[u] <=> \E i \in 1..m : q[i] = u
      /\ \A i, j \in 1..m : q[i] = q[j] => i = j
  BY TaskAssumption DEF IsQueue, IsList, IsChain, IsInjective
<1>2. PICK p \in 1..m : q[p] = t
  BY <1>1 DEF Unlink
<1> DEFINE r == RemoveAt(q, p)
<1>0. /\ RemoveAt(q, p) \in Seq(Task) /\ Len(RemoveAt(q, p)) = Len(q) - 1
      /\ \A i \in 1..Len(q) - 1 : RemoveAt(q, p)[i] = IF i < p THEN q[i] ELSE q[i + 1]
  <2>1. p \in 1..Len(q) /\ q \in Seq(Task)
    BY <1>1
  <2> QED
    BY ONLY <2>1, RemoveAtProperties
<1> HIDE DEF m, r
<1>3. /\ r \in Seq(Task) /\ Len(r) = m - 1 /\ DOMAIN r = 1..m - 1
      /\ \A i \in 1..m - 1 : r[i] = IF i < p THEN q[i] ELSE q[i + 1]
  BY <1>0 DEF m, r
<1>4. /\ m # 0 /\ p \in Nat /\ p >= 1 /\ p <= m
      /\ 1 \in 1..m /\ m \in 1..m
      /\ \A i \in 1..m - 1 : i \in 1..m /\ i + 1 \in 1..m
  BY <1>1, <1>2
<1>5. /\ prev[t] = IF p = 1 THEN NoTask ELSE q[p - 1]
      /\ next[t] = IF p = m THEN NoTask ELSE q[p + 1]
      /\ head = t <=> p = 1
      /\ tail = t <=> p = m
  BY <1>1, <1>2, <1>4
<1>6. /\ head' = IF p = 1 THEN next[t] ELSE q[1]
      /\ tail' = IF p = m THEN prev[t] ELSE q[m]
      /\ \A u \in Task : /\ next'[u] = IF u = prev[t] THEN next[t] ELSE next[u]
                         /\ prev'[u] = IF u = next[t] THEN prev[t] ELSE prev[u]
                         /\ in_queue'[u] <=> in_queue[u] /\ u # t
  BY <1>1, <1>4, <1>5 DEF Unlink, QueueTypeOK
<1>7. /\ head' = IF Len(r) = 0 THEN NoTask ELSE r[1]
      /\ tail' = IF Len(r) = 0 THEN NoTask ELSE r[Len(r)]
  <2>1. CASE m = 1
    BY <2>1, <1>3, <1>4, <1>5, <1>6
  <2>2. CASE m # 1
    <3>1. 1 \in 1..m - 1 /\ m - 1 \in 1..m - 1 /\ (m - 1) + 1 = m /\ Len(r) # 0 /\ 1 + 1 = 2
      BY <2>2, <1>1, <1>3, <1>4
    <3>2. r[1] = IF 1 < p THEN q[1] ELSE q[2]
      BY <3>1, <1>3
    <3>3. r[m - 1] = IF m - 1 < p THEN q[m - 1] ELSE q[m]
      BY <3>1, <1>3
    <3>4. head' = IF p = 1 THEN q[2] ELSE q[1]
      BY <2>2, <1>4, <1>5, <1>6
    <3>5. tail' = IF p = m THEN q[m - 1] ELSE q[m]
      BY <2>2, <1>4, <1>5, <1>6
    <3>6. (1 < p <=> p # 1) /\ (m - 1 < p <=> p = m)
      BY <1>4, <1>1
    <3> QED
      BY <3>1, <3>2, <3>3, <3>4, <3>5, <3>6, <1>3
  <2> QED
    BY <2>1, <2>2
<1>8. ASSUME NEW i \in 1..m, i # p
      PROVE  /\ prev'[q[i]] = IF i = p + 1 THEN (IF p = 1 THEN NoTask ELSE q[p - 1])
                              ELSE (IF i = 1 THEN NoTask ELSE q[i - 1])
             /\ next'[q[i]] = IF i = p - 1 THEN (IF p = m THEN NoTask ELSE q[p + 1])
                              ELSE (IF i = m THEN NoTask ELSE q[i + 1])
  <2>1. q[i] = prev[t] <=> i = p - 1
    <3>1. CASE p = 1
      BY <3>1, <1>1, <1>5
    <3>2. CASE p # 1
      <4>1. p - 1 \in 1..m
        BY <3>2, <1>1, <1>4
      <4> QED
        BY <4>1, <3>2, <1>1, <1>5
    <3> QED
      BY <3>1, <3>2
  <2>2. q[i] = next[t] <=> i = p + 1
    <3>1. CASE p = m
      BY <3>1, <1>1, <1>5
    <3>2. CASE p # m
      <4>1. p + 1 \in 1..m
        BY <3>2, <1>1, <1>4
      <4> QED
        BY <4>1, <3>2, <1>1, <1>5
    <3> QED
      BY <3>1, <3>2
  <2>3. q[i] \in Task
    BY <1>1
  <2>4. prev[q[i]] = (IF i = 1 THEN NoTask ELSE q[i - 1]) /\ next[q[i]] = (IF i = m THEN NoTask ELSE q[i + 1])
    BY <1>1
  <2> QED
    BY <2>1, <2>2, <2>3, <2>4, <1>5, <1>6
<1>9. ASSUME NEW i \in 1..m - 1
      PROVE  /\ prev'[r[i]] = IF i = 1 THEN NoTask ELSE r[i - 1]
             /\ next'[r[i]] = IF i = m - 1 THEN NoTask ELSE r[i + 1]
  <2>1. i \in Int /\ i >= 1 /\ i <= m - 1
    BY <1>1
  <2>2. i # 1 => i - 1 \in 1..m - 1 /\ r[i - 1] = IF i - 1 < p THEN q[i - 1] ELSE q[i]
    <3>1. i # 1 => i - 1 \in 1..m - 1 /\ (i - 1) + 1 = i
      BY <1>1
    <3> QED
      BY <3>1, <1>3
  <2>3. i # m - 1 => i + 1 \in 1..m - 1 /\ r[i + 1] = IF i + 1 < p THEN q[i + 1] ELSE q[(i + 1) + 1]
    <3>1. i # m - 1 => i + 1 \in 1..m - 1
      BY <1>1
    <3> QED
      BY <3>1, <1>3
  <2>4. CASE i < p
    <3>1. r[i] = q[i] /\ i \in 1..m /\ i # p /\ i # p + 1
      BY <2>1, <2>4, <1>3, <1>4
    <3>2. prev'[r[i]] = IF i = 1 THEN NoTask ELSE r[i - 1]
      BY <3>1, <2>1, <2>2, <2>4, <1>4, <1>8
    <3>3. next'[r[i]] = IF i = p - 1 THEN (IF p = m THEN NoTask ELSE q[p + 1])
                        ELSE (IF i = m THEN NoTask ELSE q[i + 1])
      BY <3>1, <1>8
    <3>4. CASE i = p - 1
      <4>1. p + 1 = (i + 1) + 1 /\ ~(i + 1 < p) /\ (p = m <=> i = m - 1)
        BY <3>4, <2>1, <1>1, <1>4
      <4> QED
        BY <4>1, <3>2, <3>3, <3>4, <2>3
    <3>5. CASE i # p - 1
      <4>1. i + 1 < p /\ i # m - 1 /\ i # m
        BY <3>5, <2>1, <2>4, <1>1, <1>4
      <4> QED
        BY <4>1, <3>2, <3>3, <3>5, <2>3
    <3> QED
      BY <3>4, <3>5
  <2>5. CASE ~(i < p)
    <3>1. r[i] = q[i + 1] /\ i + 1 \in 1..m /\ i + 1 # p /\ i + 1 # p - 1 /\ i + 1 # 1 /\ (i + 1) - 1 = i
      BY <2>1, <2>5, <1>1, <1>3, <1>4
    <3>2. prev'[r[i]] = IF i + 1 = p + 1 THEN (IF p = 1 THEN NoTask ELSE q[p - 1]) ELSE q[i]
      BY <3>1, <1>8
    <3>3. next'[r[i]] = IF i + 1 = m THEN NoTask ELSE q[(i + 1) + 1]
      BY <3>1, <1>8
    <3>4. next'[r[i]] = IF i = m - 1 THEN NoTask ELSE r[i + 1]
      <4>1. (i + 1 = m <=> i = m - 1) /\ ~(i + 1 < p)
        BY <2>1, <2>5, <1>1, <1>4
      <4> QED
        BY <4>1, <3>3, <2>3
    <3>5. CASE i = p
      <4>1. i + 1 = p + 1 /\ (i # 1 => i - 1 < p)
        BY <3>5, <2>1, <1>4
      <4> QED
        BY <4>1, <3>2, <3>4, <3>5, <2>2
    <3>6. CASE i # p
      <4>1. i + 1 # p + 1 /\ i # 1 /\ ~(i - 1 < p)
        BY <3>6, <2>1, <2>5, <1>4
      <4> QED
        BY <4>1, <3>2, <3>4, <2>2
    <3> QED
      BY <3>5, <3>6
  <2> QED
    BY <2>4, <2>5
<1>10. IsChain(r)'
  BY <1>3, <1>7, <1>9 DEF IsChain
<1>11. ASSUME NEW u \in Task
       PROVE  in_queue'[u] <=> \E i \in 1..m - 1 : r[i] = u
  <2>1. ASSUME NEW i \in 1..m, i # p
        PROVE  \E k \in 1..m - 1 : r[k] = q[i]
    <3>1. CASE i < p
      <4>1. i \in 1..m - 1
        BY <3>1, <1>1, <1>4
      <4> QED
        BY <4>1, <3>1, <1>3
    <3>2. CASE ~(i < p)
      <4>1. i - 1 \in 1..m - 1 /\ (i - 1) + 1 = i /\ ~(i - 1 < p)
        BY <3>2, <2>1, <1>1, <1>4
      <4> QED
        BY <4>1, <1>3
    <3> QED
      BY <3>1, <3>2
  <2>2. ASSUME NEW k \in 1..m - 1
        PROVE  \E i \in 1..m : i # p /\ r[k] = q[i]
    <3>1. CASE k < p
      <4>1. k \in 1..m /\ k # p
        BY <3>1, <1>1, <1>4
      <4> QED
        BY <4>1, <3>1, <1>3
    <3>2. CASE ~(k < p)
      <4>1. k + 1 \in 1..m /\ k + 1 # p
        BY <3>2, <1>1, <1>4
      <4> QED
        BY <4>1, <3>2, <1>3
    <3> QED
      BY <3>1, <3>2
  <2>3. \A i \in 1..m : q[i] = t <=> i = p
    BY <1>1, <1>2
  <2>4. in_queue'[u] <=> \E i \in 1..m : i # p /\ q[i] = u
    BY <2>3, <1>1, <1>6
  <2> QED
    BY <2>1, <2>2, <2>4
<1>12. IsInjective(r)
  <2>1. ASSUME NEW i \in 1..m - 1, NEW j \in 1..m - 1, r[i] = r[j]
        PROVE  i = j
    <3> DEFINE Old(k) == IF k < p THEN k ELSE k + 1
    <3>1. r[i] = q[Old(i)] /\ r[j] = q[Old(j)]
      BY <1>3
    <3>2. Old(i) \in 1..m /\ Old(j) \in 1..m
      BY <1>4
    <3>3. Old(i) = Old(j)
      <4>1. \A k \in 1..m, l \in 1..m : q[k] = q[l] => k = l
        BY <1>1
      <4> HIDE DEF Old
      <4> QED
        BY <4>1, <2>1, <3>1, <3>2
    <3> QED
      BY <3>3, <1>4
  <2> QED
    BY <2>1, <1>3 DEF IsInjective
<1>13. IsQueue(r)'
  BY <1>3, <1>10, <1>11, <1>12 DEF IsQueue, IsList
<1> QED
  BY <1>1, <1>2, <1>13 DEF r

(* The list is empty at first.                                              *)
LEMMA QueueInitFifo == QueueInit => (\E q \in Seq(Task) : IsQueue(q)) /\ QueueSeq = <<>>
<1> SUFFICES ASSUME QueueInit
             PROVE  (\E q \in Seq(Task) : IsQueue(q)) /\ QueueSeq = <<>>
  OBVIOUS
<1> DEFINE q == <<>>
<1>2. q \in Seq(Task) /\ Len(q) = 0 /\ IsInjective(q)
  BY DEF IsInjective
<1>3. IsChain(q)
  BY <1>2 DEF IsChain, QueueInit
<1>4. \A t \in Task : in_queue[t] <=> \E i \in 1..Len(q) : q[i] = t
  BY <1>2 DEF QueueInit
<1>5. IsQueue(q)
  BY <1>2, <1>3, <1>4 DEF IsQueue, IsList
<1> QED
  BY <1>2, <1>5, SeqOfQueue DEF IsQueue

(* What a step of the queue does to it, as TaskFifo tells.                  *)
FifoStep(q, r) ==
    \/ r = q
    \/ q # <<>> /\ r = Tail(q)
    \/ \E p \in DOMAIN q : q[p] \in Task /\ r = RemoveAt(q, p)
    \/ IsPrefix(q, r) /\ q # r /\ IsInjective(r) /\ ToSet(r) \subseteq Task

(* The three operations, and leaving the list alone, are steps of a FIFO.   *)
LEMMA EnqueueFifo ==
    ASSUME QueueTypeOK, NEW q, IsQueue(q), NEW ts, Enqueueable(ts), Enqueue(ts)
    PROVE  \E r \in Seq(Task) : IsQueue(r)' /\ FifoStep(q, r)
<1>1. CASE Len(ts) = 0
  <2>1. IsQueue(q)'
    BY <1>1 DEF Enqueue, queueVars, IsQueue, IsList, IsChain
  <2> QED
    BY <2>1 DEF FifoStep, IsQueue, IsList
<1>2. CASE Len(ts) # 0
  <2>1. /\ IsQueue(q \o ts)'
        /\ IsPrefix(q, q \o ts) /\ q # q \o ts
        /\ IsInjective(q \o ts) /\ ToSet(q \o ts) \subseteq Task
    BY <1>2, EnqueueQueue
  <2>2. q \o ts \in Seq(Task)
    BY DEF IsQueue, IsList, Enqueueable
  <2> QED
    BY <2>1, <2>2 DEF FifoStep
<1> QED
  BY <1>1, <1>2

LEMMA DequeueFifo ==
    ASSUME QueueTypeOK, NEW q, IsQueue(q), Dequeue
    PROVE  \E r \in Seq(Task) : IsQueue(r)' /\ FifoStep(q, r)
<1>1. q # <<>> /\ IsQueue(Tail(q))'
  BY DequeueQueue
<1>2. Tail(q) \in Seq(Task)
  BY <1>1 DEF IsQueue, IsList
<1> QED
  BY <1>1, <1>2 DEF FifoStep

LEMMA UnlinkFifo ==
    ASSUME QueueTypeOK, NEW q, IsQueue(q), NEW t \in Task, Unlink(t)
    PROVE  \E r \in Seq(Task) : IsQueue(r)' /\ FifoStep(q, r)
<1>1. PICK p \in DOMAIN q : q[p] = t /\ IsQueue(RemoveAt(q, p))'
  BY UnlinkQueue
<1>2. RemoveAt(q, p) \in Seq(Task)
  BY <1>1 DEF IsQueue, IsList
<1> QED
  BY <1>1, <1>2 DEF FifoStep

LEMMA IdleFifo ==
    ASSUME NEW q, IsQueue(q), UNCHANGED queueVars
    PROVE  \E r \in Seq(Task) : IsQueue(r)' /\ FifoStep(q, r)
<1>1. IsQueue(q)'
  BY DEF queueVars, IsQueue, IsList, IsChain
<1> QED
  BY <1>1 DEF FifoStep, IsQueue, IsList

(* A step that does this to the queue is one of TaskFifo.                   *)
LEMMA FifoStepIsNext ==
    ASSUME NEW q, IsQueue(q), NEW r, IsQueue(r)', FifoStep(q, r)
    PROVE  [Fifo!Next]_QueueSeq
<1>1. QueueSeq = q
  BY SeqOfQueue DEF IsQueue
<1>2. QueueSeq' = r
  <2>1. r \in Seq(Task)
    BY DEF IsQueue, IsList
  <2> QED
    BY <2>1, SeqIsListNext DEF SeqIsList, IsQueue
<1>3. CASE r = q
  BY <1>1, <1>2, <1>3
<1>4. CASE r # q /\ q # <<>> /\ r = Tail(q)
  BY <1>1, <1>2, <1>4 DEF Fifo!Next, Fifo!TakeFirst
<1>5. CASE r # q /\ \E p \in DOMAIN q : q[p] \in Task /\ r = RemoveAt(q, p)
  BY <1>1, <1>2, <1>5 DEF Fifo!Next, Fifo!TakeOut, Fifo!RemoveAt, RemoveAt
<1>6. CASE IsPrefix(q, r) /\ q # r /\ IsInjective(r) /\ ToSet(r) \subseteq Task
  BY <1>1, <1>2, <1>6
     DEF Fifo!Next, Fifo!AppendNew, Fifo!IsPrefix, Fifo!IsInjective, Fifo!ToSet,
         IsPrefix, IsInjective, ToSet
<1> QED
  BY <1>3, <1>4, <1>5, <1>6 DEF FifoStep

(* Every step of the queue is one of TaskFifo, and leaves a queue.          *)
LEMMA QueueStepFifo ==
    ASSUME QueueTypeOK, NEW q \in Seq(Task), IsQueue(q), [QueueNext]_queueVars
    PROVE  \E r \in Seq(Task) : IsQueue(r)' /\ FifoStep(q, r)
<1>1. ASSUME NEW S \in SUBSET {t \in Task : ~in_queue[t]}, NEW ts \in SetToSeqs(S), Enqueue(ts)
      PROVE  \E r \in Seq(Task) : IsQueue(r)' /\ FifoStep(q, r)
  <2>1. Enqueueable(ts)
    BY <1>1, SetToSeqsIsInjective DEF Enqueueable
  <2> QED
    BY <1>1, <2>1, EnqueueFifo
<1>2. CASE Dequeue
  BY <1>2, DequeueFifo
<1>3. ASSUME NEW t \in Task, Unlink(t)
      PROVE  \E r \in Seq(Task) : IsQueue(r)' /\ FifoStep(q, r)
  BY <1>3, UnlinkFifo
<1>4. CASE UNCHANGED queueVars
  BY <1>4, IdleFifo
<1> QED
  BY <1>1, <1>2, <1>3, <1>4 DEF QueueNext

(* The list always holds some queue: this is what the links amount to.      *)
LEMMA HoldsQueue == QueueSpec => [](\E q \in Seq(Task) : IsQueue(q))
<1> DEFINE J == \E q \in Seq(Task) : IsQueue(q)
<1>1. QueueInit => J
  BY QueueInitFifo
<1>2. QueueTypeOK /\ J /\ [QueueNext]_queueVars => J'
  <2> SUFFICES ASSUME QueueTypeOK, NEW q \in Seq(Task), IsQueue(q), [QueueNext]_queueVars
               PROVE  J'
    OBVIOUS
  <2>1. PICK r \in Seq(Task) : IsQueue(r)'
    BY QueueStepFifo
  <2> QED
    BY <2>1
<1> HIDE DEF J
<1>3. QueueSpec => []J
  BY <1>1, <1>2, QueueSafety, PTL DEF QueueSpec
<1> QED
  BY <1>3 DEF J

(* The list implements TaskFifo: whatever enqueues, dequeues and removals   *)
(* from the middle the callers make, reading it from head gives the tasks   *)
(* in the order in which they were enqueued, none lost and none repeated.   *)
THEOREM QueueIsFifo == QueueSpec => ImplementsFifo
<1> DEFINE J == \E q \in Seq(Task) : IsQueue(q)
<1>1. QueueInit => Fifo!Init
  BY QueueInitFifo DEF Fifo!Init
<1>2. QueueTypeOK /\ J /\ [QueueNext]_queueVars => [Fifo!Next]_QueueSeq
  <2> SUFFICES ASSUME QueueTypeOK, NEW q \in Seq(Task), IsQueue(q), [QueueNext]_queueVars
               PROVE  [Fifo!Next]_QueueSeq
    OBVIOUS
  <2>1. PICK r \in Seq(Task) : IsQueue(r)' /\ FifoStep(q, r)
    BY QueueStepFifo
  <2> QED
    BY <2>1, FifoStepIsNext
<1>3. QueueSpec => []J
  BY HoldsQueue
<1> HIDE DEF J
<1> QED
  BY <1>1, <1>2, <1>3, QueueSafety, PTL DEF QueueSpec, ImplementsFifo, Fifo!Spec

(* What in_queue says when the list holds a queue.                          *)
LEMMA QueueIsFlagged == (\E q \in Seq(Task) : IsQueue(q)) => InQueueIsListed
<1> SUFFICES ASSUME NEW q \in Seq(Task), IsQueue(q)
             PROVE  {t \in Task : in_queue[t]} = ToSet(QueueSeq)
  BY DEF InQueueIsListed
<1>1. QueueSeq = q
  BY SeqOfQueue DEF IsQueue
<1>2. \A t \in Task : in_queue[t] <=> \E i \in 1..Len(q) : q[i] = t
  BY DEF IsQueue, IsList
<1>3. \A i \in 1..Len(q) : q[i] \in Task
  OBVIOUS
<1>4. \A t : t \in ToSet(q) <=> \E i \in 1..Len(q) : q[i] = t
  BY DEF ToSet
<1> QED
  BY <1>1, <1>2, <1>3, <1>4

(* in_queue tells whether a walk along the list would meet the task, so     *)
(* runTaskGroup may decide by it whether to run the task itself.            *)
THEOREM FlagTellsMembership == QueueSpec => []InQueueIsListed
BY HoldsQueue, QueueIsFlagged, PTL
=============================================================================
