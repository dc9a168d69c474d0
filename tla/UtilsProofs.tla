---------------------------- MODULE UtilsProofs -----------------------------
(***************************************************************************)
(* Theorems about the classes of src/utils that have no queue of tasks:    *)
(* parallel for, WeakReference, the threads and their managers, the timers *)
(* and, with the textures it holds, ManagerWithCache.  Each part is about  *)
(* one module and stands for itself; that on the timers takes the facts    *)
(* about division from the first.                                          *)
(***************************************************************************)
EXTENDS ParallelFor, WeakReference, Threads, Timers, TextureCache, SequenceLemmas

(***************************************************************************)
(* runParallelForTasks and runParallelForTasksInterleaved work on each     *)
(* index of the range once, for every range, every number of threads and   *)
(* every order in which the tasks of the group are run.                    *)
(***************************************************************************)
(* Each index of the range is visited by one task, and no other index is.   *)
Tiles(g, b, e) ==
    /\ \A i \in Index : b <= i /\ i < e => \E k \in DOMAIN g : Visits(g[k], i)
    /\ \A i \in Index : \A k \in DOMAIN g : Visits(g[k], i) => b <= i /\ i < e
    /\ \A i \in Index : \A k, l \in DOMAIN g : Visits(g[k], i) /\ Visits(g[l], i) => k = l

(* While a call goes on, the group's tasks tile the range, and an index has *)
(* been worked on once if the task it belongs to has been run.              *)
RangeInv ==
    /\ RangesTypeOK
    /\ pc = "run" =>
         /\ Tiles(group, begin, end)
         /\ \A i \in Index :
              touched[i] = IF \E k \in DOMAIN group \ todo : Visits(group[k], i) THEN 1 ELSE 0
    /\ EachIndexOnce

-----------------------------------------------------------------------------
(* Division and remainder.                                                  *)
LEMMA Division ==
    ASSUME NEW a \in Nat, NEW d \in Nat \ {0}
    PROVE  /\ a \div d \in Nat /\ a % d \in 0..(d - 1)
           /\ a = d * (a \div d) + (a % d)
OBVIOUS

LEMMA SmallRemainder ==
    ASSUME NEW a \in Nat, NEW d \in Nat \ {0}, a < d
    PROVE  a % d = a
OBVIOUS

LEMMA MultipleMonotone ==
    ASSUME NEW a \in Int, NEW b \in Int, NEW n \in Nat, a <= b
    PROVE  a * n <= b * n
OBVIOUS

LEMMA MultipleRemainder ==
    ASSUME NEW a \in Nat, NEW q \in Nat, NEW d \in Nat \ {0}, a = d * q
    PROVE  a % d = 0
OBVIOUS

(* Multiples of d are equal or at least d apart.                            *)
LEMMA MultiplesApart ==
    ASSUME NEW a \in Nat, NEW b \in Nat, NEW d \in Nat \ {0},
           a % d = 0, b % d = 0, a < b
    PROVE  b - a >= d
<1> DEFINE p == a \div d
           q == b \div d
<1>1. p \in Nat /\ q \in Nat /\ a = d * p /\ b = d * q
  BY Division
<1> HIDE DEF p, q
<1>2. p < q
  <2>1. SUFFICES ASSUME q <= p PROVE FALSE
    BY <1>1
  <2> QED
    BY <1>1, <2>1, MultipleMonotone
<1>3. d * (p + 1) <= d * q
  BY <1>1, <1>2, MultipleMonotone
<1> QED
  BY <1>1, <1>3

-----------------------------------------------------------------------------
(* How many tasks a call makes, and how many indices the first of them get: *)
(* nothing is left for a further task, and no sum is out of size_t's range. *)
IsPartSize(b, e, n) ==
    /\ n \in Nat \ {0}
    /\ e - b <= n * NumTasks(b, e)
    /\ \A t \in 0..(NumTasks(b, e) - 1) :
         TaskRange(b, e, t) = [begin  |-> Least(b + t * n, e),
                               end    |-> Least(b + (t + 1) * n, e),
                               stride |-> 1]

LEMMA TasksMade ==
    ASSUME RangesTypeOK, NEW b \in Index, NEW e \in Index, b < e
    PROVE  NumTasks(b, e) \in 1..MaxConcurrency /\ NumTasks(b, e) <= e - b
BY ParallelForAssumption DEF NumTasks, Least, RangesTypeOK, Index

LEMMA PartSize ==
    ASSUME RangesTypeOK, NEW b \in Index, NEW e \in Index, b < e
    PROVE  \E n \in Nat : IsPartSize(b, e, n)
<1> DEFINE K == NumTasks(b, e)
           n == RoundedUpDivide(e - b, K)
           s == (e - b) + K - 1
<1>1. /\ K \in Nat \ {0} /\ K <= MaxConcurrency /\ K <= e - b
      /\ b \in Nat /\ e \in Nat /\ e <= MaxEnd
      /\ WordSize \in Nat \ {0} /\ MaxConcurrency \in Nat /\ MaxEnd \in Nat
      /\ MaxEnd + MaxConcurrency <= WordSize
  BY TasksMade, ParallelForAssumption DEF Index
<1> HIDE DEF K
<1>2. s \in Nat /\ s < WordSize
  BY <1>1
<1>3. n = s \div K
  BY <1>2, SmallRemainder, <1>1 DEF RoundedUpDivide
<1>4. n \in Nat /\ s % K \in 0..(K - 1) /\ s = K * n + (s % K)
  BY <1>1, <1>2, <1>3, Division
<1> HIDE DEF n
<1>5. K * n \in Nat /\ K * n = n * K
  BY <1>1, <1>4
<1>6. e - b <= n * K /\ n * K <= s
  BY <1>1, <1>4, <1>5
<1>7. n # 0
  BY <1>1, <1>6
<1>8. ASSUME NEW t \in 0..K
      PROVE  t * n \in Nat /\ b + t * n < WordSize
  <2>1. t * n <= K * n /\ t * n \in Nat
    BY <1>1, <1>4, MultipleMonotone
  <2> QED
    BY <1>1, <1>5, <1>6, <2>1
<1>9. ASSUME NEW t \in 0..(K - 1)
      PROVE  TaskRange(b, e, t) = [begin  |-> Least(b + t * n, e),
                                   end    |-> Least(b + (t + 1) * n, e),
                                   stride |-> 1]
  <2>1. t \in 0..K /\ t + 1 \in 0..K
    BY <1>1
  <2>2. (b + t * n) % WordSize = b + t * n /\ (b + (t + 1) * n) % WordSize = b + (t + 1) * n
    <3>1. /\ b + t * n \in Nat /\ b + t * n < WordSize
          /\ b + (t + 1) * n \in Nat /\ b + (t + 1) * n < WordSize
      BY <1>1, <1>8, <2>1
    <3> QED
      BY <1>1, <3>1, SmallRemainder
  <2>3. TaskRange(b, e, t) = [begin  |-> Least((b + t * n) % WordSize, e),
                              end    |-> Least((b + (t + 1) * n) % WordSize, e),
                              stride |-> 1]
    BY DEF TaskRange, n, K
  <2> QED
    BY <2>2, <2>3
<1>10. IsPartSize(b, e, n)
  BY <1>1, <1>4, <1>6, <1>7, <1>9 DEF IsPartSize, K
<1> QED
  BY <1>4, <1>10

(* Which indices a part holds.                                              *)
LEMMA PartVisits ==
    ASSUME NEW b \in Nat, NEW e \in Nat, NEW x \in Nat, NEW y \in Nat, NEW i \in Nat
    PROVE  Visits([begin |-> Least(b + x, e), end |-> Least(b + y, e), stride |-> 1], i)
             <=> b + x <= i /\ i < b + y /\ i < e
BY DEF Visits, Least

-----------------------------------------------------------------------------
(* Parts of the same size tile the range, also without the empty ones.      *)
LEMMA PartsTile ==
    ASSUME RangesTypeOK, NEW b \in Index, NEW e \in Index, b < e,
           NEW g, DOMAIN g \subseteq 1..NumTasks(b, e),
           \A k \in DOMAIN g : g[k] = TaskRange(b, e, k - 1),
           \A k \in 1..NumTasks(b, e) :
             k \in DOMAIN g \/ TaskRange(b, e, k - 1).begin >= TaskRange(b, e, k - 1).end
    PROVE  Tiles(g, b, e)
<1> DEFINE K == NumTasks(b, e)
<1>1. PICK n \in Nat : IsPartSize(b, e, n)
  BY PartSize
<1>2. K \in Nat \ {0} /\ b \in Nat /\ e \in Nat /\ n \in Nat \ {0} /\ e - b <= n * K
  BY <1>1, TasksMade, ParallelForAssumption DEF IsPartSize, Index
<1>3. ASSUME NEW k \in 1..K, NEW i \in Index
      PROVE  Visits(TaskRange(b, e, k - 1), i)
               <=> b + (k - 1) * n <= i /\ i < b + k * n /\ i < e
  <2>1. TaskRange(b, e, k - 1) = [begin  |-> Least(b + (k - 1) * n, e),
                                  end    |-> Least(b + ((k - 1) + 1) * n, e),
                                  stride |-> 1]
    <3>1. k - 1 \in 0..(K - 1)
      BY <1>2
    <3> QED
      BY <1>1, <3>1 DEF IsPartSize
  <2>2. (k - 1) + 1 = k /\ (k - 1) * n \in Nat /\ k * n \in Nat /\ i \in Nat
    BY <1>2 DEF Index
  <2>3. Visits([begin |-> Least(b + (k - 1) * n, e), end |-> Least(b + k * n, e), stride |-> 1], i)
          <=> b + (k - 1) * n <= i /\ i < b + k * n /\ i < e
    BY <1>2, <2>2, PartVisits
  <2>4. TaskRange(b, e, k - 1)
          = [begin |-> Least(b + (k - 1) * n, e), end |-> Least(b + k * n, e), stride |-> 1]
    BY <2>1, <2>2
  <2> QED
    BY <2>3, <2>4
<1>4. ASSUME NEW i \in Index, b <= i, i < e
      PROVE  \E k \in DOMAIN g : Visits(g[k], i)
  <2> DEFINE t == (i - b) \div n
  <2>1. i - b \in Nat
    BY <1>2, <1>4 DEF Index
  <2>2. t \in Nat /\ n * t <= i - b /\ i - b < n * t + n
    <3>1. t \in Nat /\ (i - b) % n \in 0..(n - 1) /\ i - b = n * t + ((i - b) % n)
      BY <1>2, <2>1, Division
    <3> HIDE DEF t
    <3>2. n * t \in Nat
      BY <1>2, <3>1
    <3> QED
      BY <1>2, <2>1, <3>1, <3>2
  <2> HIDE DEF t
  <2>3. n * t = t * n /\ n * t + n = (t + 1) * n
    BY <1>2, <2>2
  <2>4. t < K
    <3>1. SUFFICES ASSUME K <= t PROVE FALSE
      BY <1>2, <2>2
    <3>2. K * n <= t * n /\ K * n = n * K
      BY <1>2, <2>2, <3>1, MultipleMonotone
    <3> QED
      BY <1>2, <1>4, <2>1, <2>2, <2>3, <3>2 DEF Index
  <2>5. t + 1 \in 1..K /\ (t + 1) - 1 = t
    BY <1>2, <2>2, <2>4
  <2>6. Visits(TaskRange(b, e, (t + 1) - 1), i)
    BY <1>2, <1>3, <1>4, <2>1, <2>2, <2>3, <2>5 DEF Index
  <2>7. t + 1 \in DOMAIN g
    <3>1. \/ t + 1 \in DOMAIN g
          \/ TaskRange(b, e, (t + 1) - 1).begin >= TaskRange(b, e, (t + 1) - 1).end
      BY <2>5
    <3>2. TaskRange(b, e, (t + 1) - 1).begin \in Int /\ TaskRange(b, e, (t + 1) - 1).end \in Int
      <4>1. t \in 0..(K - 1)
        BY <2>2, <2>4, <1>2
      <4>2. t * n \in Nat /\ (t + 1) * n \in Nat
        BY <1>2, <2>2
      <4> QED
        BY <1>1, <1>2, <2>5, <4>1, <4>2 DEF IsPartSize, Least
    <3> QED
      BY <2>6, <3>1, <3>2 DEF Visits, Index
  <2> QED
    BY <2>6, <2>7
<1>5. ASSUME NEW i \in Index, NEW k \in DOMAIN g, Visits(g[k], i)
      PROVE  b <= i /\ i < e
  <2>1. b + (k - 1) * n <= i /\ i < e /\ k \in 1..K
    BY <1>3, <1>5
  <2>2. (k - 1) * n \in Nat
    BY <1>2, <2>1
  <2> QED
    BY <1>2, <2>1, <2>2 DEF Index
<1>6. ASSUME NEW i \in Index, NEW k \in DOMAIN g, NEW l \in DOMAIN g,
             Visits(g[k], i), Visits(g[l], i), k < l
      PROVE  FALSE
  <2>1. i < b + k * n /\ b + (l - 1) * n <= i /\ k \in 1..K /\ l \in 1..K
    BY <1>3, <1>6
  <2>2. k * n <= (l - 1) * n /\ k * n \in Nat /\ (l - 1) * n \in Nat
    BY <1>2, <1>6, <2>1, MultipleMonotone
  <2> QED
    BY <1>2, <2>1, <2>2 DEF Index
<1>7. \A k, l \in DOMAIN g : k \in Int /\ l \in Int
  BY <1>2
<1>8. \A i \in Index : \A k, l \in DOMAIN g : Visits(g[k], i) /\ Visits(g[l], i) => k = l
  BY <1>6, <1>7
<1> QED
  BY <1>4, <1>5, <1>8 DEF Tiles

LEMMA InterleavedTile ==
    ASSUME RangesTypeOK, NEW b \in Index, NEW e \in Index, b < e
    PROVE  Tiles(InterleavedTasks(b, e), b, e)
<1> DEFINE K == NumTasks(b, e)
           g == InterleavedTasks(b, e)
<1>1. K \in Nat \ {0} /\ K <= e - b /\ b \in Nat /\ e \in Nat
  BY TasksMade, ParallelForAssumption DEF Index
<1>2. /\ DOMAIN g = 1..K
      /\ \A k \in 1..K : g[k] = [begin |-> b + k - 1, end |-> e, stride |-> K]
  BY DEF InterleavedTasks
<1>3. ASSUME NEW k \in 1..K, NEW i \in Index
      PROVE  Visits(g[k], i) <=> b + k - 1 <= i /\ i < e /\ (i - (b + k - 1)) % K = 0
  BY <1>2 DEF Visits
<1> HIDE DEF K, g
<1>4. ASSUME NEW i \in Index, b <= i, i < e
      PROVE  \E k \in DOMAIN g : Visits(g[k], i)
  <2> DEFINE m == (i - b) % K
             q == (i - b) \div K
  <2>1. i - b \in Nat
    BY <1>1, <1>4 DEF Index
  <2>2. q \in Nat /\ m \in 0..(K - 1) /\ i - b = K * q + m
    BY <1>1, <2>1, Division
  <2> HIDE DEF m, q
  <2>3. m + 1 \in 1..K /\ K * q \in Nat
    BY <1>1, <2>2
  <2>4. i - (b + (m + 1) - 1) = K * q /\ b + (m + 1) - 1 <= i
    BY <1>1, <2>1, <2>2, <2>3 DEF Index
  <2>5. (i - (b + (m + 1) - 1)) % K = 0
    BY <1>1, <2>2, <2>3, <2>4, MultipleRemainder
  <2> QED
    BY <1>2, <1>3, <1>4, <2>3, <2>4, <2>5
<1>5. ASSUME NEW i \in Index, NEW k \in 1..K, Visits(g[k], i)
      PROVE  b <= i /\ i < e
  BY <1>1, <1>3, <1>5 DEF Index
<1>6. ASSUME NEW i \in Index, NEW k \in 1..K, NEW l \in 1..K,
             Visits(g[k], i), Visits(g[l], i), k < l
      PROVE  FALSE
  <2> DEFINE x == i - (b + k - 1)
             y == i - (b + l - 1)
  <2>1. x \in Nat /\ y \in Nat /\ x % K = 0 /\ y % K = 0
    BY <1>1, <1>3, <1>6 DEF Index
  <2>2. y < x /\ x - y < K
    BY <1>1, <1>6 DEF Index
  <2> HIDE DEF x, y
  <2>3. x - y >= K
    BY <1>1, <2>1, <2>2, MultiplesApart
  <2> QED
    BY <1>1, <2>1, <2>2, <2>3
<1>7. \A i \in Index : \A k, l \in DOMAIN g : Visits(g[k], i) /\ Visits(g[l], i) => k = l
  BY <1>1, <1>2, <1>6
<1>8. Tiles(g, b, e)
  BY <1>2, <1>4, <1>5, <1>7 DEF Tiles
<1> QED
  BY <1>8 DEF g

(* The tasks of every call: they tile the range, and have its types.        *)
LEMMA CallTiles ==
    ASSUME RangesTypeOK, NEW b \in Index, NEW e \in Index, b < e,
           NEW g \in {NewTasks(b, e), ReusedTasks(b, e), InterleavedTasks(b, e)}
    PROVE  /\ Tiles(g, b, e)
           /\ DOMAIN g \subseteq 1..MaxConcurrency /\ \A k \in DOMAIN g : g[k] \in ForTask
<1> DEFINE K == NumTasks(b, e)
<1>1. /\ K \in Nat \ {0} /\ K <= MaxConcurrency /\ K <= e - b
      /\ b \in Nat /\ e \in Nat /\ e <= MaxEnd /\ MaxEnd \in Nat /\ MaxConcurrency \in Nat \ {0}
  BY TasksMade, ParallelForAssumption DEF Index
<1>2. ASSUME NEW k \in 1..K
      PROVE  /\ TaskRange(b, e, k - 1) \in ForTask
             /\ TaskRange(b, e, k - 1).begin \in Int /\ TaskRange(b, e, k - 1).end \in Int
  <2>1. PICK n \in Nat : IsPartSize(b, e, n)
    BY PartSize
  <2>2. k - 1 \in 0..(K - 1) /\ (k - 1) * n \in Nat /\ ((k - 1) + 1) * n \in Nat
    BY <1>1, <2>1
  <2>3. TaskRange(b, e, k - 1) = [begin  |-> Least(b + (k - 1) * n, e),
                                  end    |-> Least(b + ((k - 1) + 1) * n, e),
                                  stride |-> 1]
    BY <2>1, <2>2 DEF IsPartSize
  <2>4. Least(b + (k - 1) * n, e) \in Index /\ Least(b + ((k - 1) + 1) * n, e) \in Index
    BY <1>1, <2>2 DEF Least, Index
  <2> QED
    BY <1>1, <2>3, <2>4 DEF ForTask, Index
<1>3. /\ DOMAIN Ranges(b, e) = 1..K
      /\ \A k \in 1..K : Ranges(b, e)[k] = TaskRange(b, e, k - 1)
  BY DEF Ranges
<1>4. CASE g = NewTasks(b, e)
  <2>1. /\ DOMAIN g = {k \in 1..K : TaskRange(b, e, k - 1).begin < TaskRange(b, e, k - 1).end}
        /\ \A k \in DOMAIN g : g[k] = TaskRange(b, e, k - 1)
    BY <1>3, <1>4 DEF NewTasks
  <2>2. \A k \in 1..K :
          k \in DOMAIN g \/ TaskRange(b, e, k - 1).begin >= TaskRange(b, e, k - 1).end
    BY <1>2, <2>1
  <2>3. Tiles(g, b, e)
    BY <2>1, <2>2, PartsTile
  <2> QED
    BY <1>1, <1>2, <2>1, <2>3
<1>5. CASE g = ReusedTasks(b, e)
  <2>1. DOMAIN g = 1..K /\ \A k \in 1..K : g[k] = TaskRange(b, e, k - 1)
    BY <1>3, <1>5 DEF ReusedTasks
  <2>2. Tiles(g, b, e)
    BY <2>1, PartsTile
  <2> QED
    BY <1>1, <1>2, <2>1, <2>2
<1>6. CASE g = InterleavedTasks(b, e)
  <2>1. DOMAIN g = 1..K /\ \A k \in 1..K : g[k] = [begin |-> b + k - 1, end |-> e, stride |-> K]
    BY <1>6 DEF InterleavedTasks
  <2>2. \A k \in 1..K : b + k - 1 \in Index /\ e \in Index /\ K \in 1..MaxConcurrency
    BY <1>1 DEF Index
  <2>3. \A k \in DOMAIN g : g[k] \in ForTask
    BY <2>1, <2>2 DEF ForTask
  <2> QED
    BY <1>1, <1>6, <2>1, <2>3, InterleavedTile
<1> QED
  BY <1>4, <1>5, <1>6

-----------------------------------------------------------------------------
LEMMA RangeStep ==
    ASSUME RangeInv, [NextRanges]_rangeVars
    PROVE  RangeInv'
<1>0. RangesTypeOK /\ EachIndexOnce
  BY DEF RangeInv
<1>1. ASSUME NEW b \in Index, NEW e \in Index, Call(b, e)
      PROVE  RangeInv'
  <2>1. /\ begin' = b /\ end' = e /\ pc' = "run" /\ todo' = DOMAIN group'
        /\ touched' = [i \in Index |-> 0] /\ concurrency' = concurrency
    BY <1>1 DEF Call
  <2>2. /\ Tiles(group', b, e) /\ DOMAIN group' \subseteq 1..MaxConcurrency
        /\ \A k \in DOMAIN group' : group'[k] \in ForTask
    <3>1. CASE b >= e
      <4>1. group' = <<>> /\ DOMAIN group' = {}
        BY <1>1, <3>1 DEF Call
      <4>2. \A i \in Index : ~(b <= i /\ i < e)
        BY <3>1, ParallelForAssumption DEF Index
      <4> QED
        BY <4>1, <4>2 DEF Tiles
    <3>2. CASE ~(b >= e)
      <4>1. b < e
        BY <3>2, ParallelForAssumption DEF Index
      <4>2. group' \in {NewTasks(b, e), ReusedTasks(b, e), InterleavedTasks(b, e)}
        BY <1>1, <3>2 DEF Call
      <4> QED
        BY <1>0, <4>1, <4>2, CallTiles
    <3> QED
      BY <3>1, <3>2
  <2>3. RangesTypeOK'
    BY <1>0, <2>1, <2>2 DEF RangesTypeOK, Index
  <2>4. Tiles(group, begin, end)'
    BY <2>1, <2>2 DEF Tiles, Visits, Index
  <2>5. \A i \in Index :
          touched'[i] = IF \E k \in DOMAIN group' \ todo' : Visits(group'[k], i) THEN 1 ELSE 0
    BY <2>1
  <2>6. EachIndexOnce'
    BY <2>1 DEF EachIndexOnce
  <2> QED
    BY <2>3, <2>4, <2>5, <2>6 DEF RangeInv, Visits, Index
<1>2. ASSUME NEW j \in todo, RunTask(j)
      PROVE  RangeInv'
  <2>1. /\ pc = "run" /\ pc' = "run" /\ todo' = todo \ {j} /\ j \in DOMAIN group
        /\ touched' = [i \in Index |->
                         IF Visits(group[j], i) THEN touched[i] + 1 ELSE touched[i]]
        /\ UNCHANGED <<concurrency, begin, end, group>>
    BY <1>0, <1>2 DEF RunTask, RangesTypeOK
  <2>2. /\ Tiles(group, begin, end)
        /\ \A i \in Index :
             touched[i] = IF \E k \in DOMAIN group \ todo : Visits(group[k], i) THEN 1 ELSE 0
    BY <2>1 DEF RangeInv
  <2>3. RangesTypeOK'
    BY <1>0, <2>1 DEF RangesTypeOK
  <2>4. Tiles(group, begin, end)'
    BY <2>1, <2>2 DEF Tiles, Visits, Index
  <2>5. ASSUME NEW i \in Index
        PROVE  touched'[i] = IF \E k \in DOMAIN group \ todo' : Visits(group[k], i) THEN 1 ELSE 0
    <3>1. CASE Visits(group[j], i)
      <4>1. \A k \in DOMAIN group \ todo : ~Visits(group[k], i)
        BY <1>2, <2>1, <2>2, <3>1 DEF Tiles
      <4>2. touched[i] = 0 /\ j \in DOMAIN group \ todo'
        BY <2>1, <2>2, <4>1
      <4> QED
        BY <2>1, <3>1, <4>2
    <3>2. CASE ~Visits(group[j], i)
      <4>1. (\E k \in DOMAIN group \ todo' : Visits(group[k], i))
              <=> (\E k \in DOMAIN group \ todo : Visits(group[k], i))
        BY <2>1, <3>2
      <4> QED
        BY <2>1, <2>2, <3>2, <4>1
    <3> QED
      BY <3>1, <3>2
  <2>6. EachIndexOnce'
    BY <2>1 DEF EachIndexOnce
  <2> QED
    BY <2>1, <2>3, <2>4, <2>5, <2>6 DEF RangeInv, Visits, Index
<1>3. CASE Return
  <2>1. /\ pc = "run" /\ pc' = "idle" /\ todo = {}
        /\ UNCHANGED <<concurrency, begin, end, group, todo, touched>>
    BY <1>3 DEF Return
  <2>2. /\ Tiles(group, begin, end)
        /\ \A i \in Index :
             touched[i] = IF \E k \in DOMAIN group : Visits(group[k], i) THEN 1 ELSE 0
    BY <2>1 DEF RangeInv
  <2>3. \A i \in Index : touched[i] = IF begin <= i /\ i < end THEN 1 ELSE 0
    BY <2>2 DEF Tiles
  <2>4. RangesTypeOK' /\ EachIndexOnce'
    BY <1>0, <2>1, <2>3 DEF RangesTypeOK, EachIndexOnce, Index
  <2> QED
    BY <2>1, <2>4 DEF RangeInv
<1>4. CASE UNCHANGED rangeVars
  BY <1>4 DEF RangeInv, RangesTypeOK, EachIndexOnce, Tiles, Visits, rangeVars, Index
<1> QED
  BY <1>1, <1>2, <1>3, <1>4 DEF NextRanges

LEMMA RangeInit == InitRanges => RangeInv
<1> SUFFICES ASSUME InitRanges PROVE RangeInv
  OBVIOUS
<1>1. RangesTypeOK
  BY ParallelForAssumption DEF InitRanges, RangesTypeOK, Index
<1>2. \A i \in Index : ~(begin <= i /\ i < end)
  BY ParallelForAssumption DEF InitRanges, Index
<1>3. EachIndexOnce
  BY <1>2 DEF InitRanges, EachIndexOnce
<1> QED
  BY <1>1, <1>3 DEF RangeInv, InitRanges

(* runParallelForTasks, with a new group or one used again, and             *)
(* runParallelForTasksInterleaved return with each index of the range       *)
(* worked on by one task and no other index touched.                        *)
THEOREM EveryIndexOnce == RangesSpec => []EachIndexOnce
<1>1. RangeInv => EachIndexOnce
  BY DEF RangeInv
<1> QED
  BY <1>1, RangeInit, RangeStep, PTL DEF RangesSpec

-----------------------------------------------------------------------------
(***************************************************************************)
(* A strong reference is always to an object that is alive, for every      *)
(* finite set of threads.  The invariant says what the mutex protects: the *)
(* mark in the control block agrees with the count whenever it is free.    *)
(***************************************************************************)
(* The number of strong references is a number.                             *)
LEMMA HoldersFinite == IsFiniteSet(Holders) /\ Cardinality(Holders) \in Nat
<1>1. IsFiniteSet(Holders)
  BY RefThreadAssumption, FS_Subset DEF Holders
<1> QED
  BY <1>1, FS_CardinalityType

(* The count is positive exactly when some thread has a reference.          *)
LEMMA CountedWhenHeld == CountInv => (refcount > 0 <=> Holders # {})
BY HoldersFinite, FS_EmptySet DEF CountInv

(* A reference more, or one less, is one more, or less, in the count.       *)
LEMMA OneHolderMore ==
    ASSUME CountInv, NEW t \in RefThread, t \notin Holders, Holders' = Holders \cup {t},
           refcount' = refcount + 1
    PROVE  CountInv' /\ refcount' \in Nat
<1>1. Cardinality(Holders \cup {t}) = Cardinality(Holders) + 1
  BY HoldersFinite, FS_AddElement
<1> QED
  BY <1>1, HoldersFinite DEF CountInv

LEMMA OneHolderLess ==
    ASSUME CountInv, NEW t \in RefThread, t \in Holders, Holders' = Holders \ {t},
           refcount' = refcount - 1
    PROVE  CountInv' /\ refcount' \in Nat /\ refcount > 0
<1>1. Cardinality(Holders \ {t}) = Cardinality(Holders) - 1
  BY HoldersFinite, FS_RemoveElement
<1>2. refcount > 0
  BY CountedWhenHeld
<1> QED
  BY <1>1, <1>2, HoldersFinite DEF CountInv

(* The creator's reference is the only one.                                 *)
LEMMA WeakInitInv == WeakInit => WeakInv
<1> SUFFICES ASSUME WeakInit PROVE WeakInv
  OBVIOUS
<1> PICK t \in RefThread : wpc = [u \in RefThread |-> IF u = t THEN "held" ELSE "none"]
  BY DEF WeakInit
<1>1. Holders = {t}
  BY DEF Holders
<1>2. CountInv
  BY <1>1, FS_Singleton DEF CountInv, WeakInit
<1>3. WeakTypeOK
  BY DEF WeakTypeOK, WeakInit
<1>4. LockInv
  BY RefThreadAssumption DEF LockInv, WeakInit
<1>5. AliveInv
  BY DEF AliveInv, WeakInit
<1>6. DestroyInv
  BY DEF DestroyInv, WeakInit
<1> QED
  BY <1>2, <1>3, <1>4, <1>5, <1>6 DEF WeakInv

-----------------------------------------------------------------------------
(* Every step keeps the invariant.                                          *)
LEMMA CopyInv ==
    ASSUME WeakInv, NEW t \in RefThread, NEW u \in RefThread, Copy(t, u)
    PROVE  WeakInv'
<1> USE DEF WeakInv
<1>1. t \in Holders /\ u \notin Holders /\ Holders' = Holders \cup {u}
  BY DEF Copy, Holders, WeakTypeOK
<1>2. CountInv' /\ refcount' \in Nat
  BY <1>1, OneHolderMore DEF Copy
<1>3. refcount > 0 /\ refcount' > 0
  BY <1>1, CountedWhenHeld DEF Copy, WeakTypeOK
<1>4. WeakTypeOK'
  BY <1>2 DEF Copy, WeakTypeOK
<1>5. LockInv'
  BY DEF Copy, WeakTypeOK, LockInv
<1>6. AliveInv'
  BY <1>3 DEF Copy, WeakTypeOK, AliveInv
<1>7. DestroyInv'
  BY DEF Copy, WeakTypeOK, DestroyInv
<1> QED
  BY <1>2, <1>4, <1>5, <1>6, <1>7

LEMMA DropLockInv ==
    ASSUME WeakInv, NEW t \in RefThread, DropLock(t)
    PROVE  WeakInv'
<1> USE DEF WeakInv
<1>1. Holders' = Holders
  BY DEF DropLock, Holders, WeakTypeOK
<1>2. CountInv'
  BY <1>1 DEF DropLock, CountInv
<1>3. WeakTypeOK'
  BY DEF DropLock, WeakTypeOK
<1>4. LockInv'
  BY RefThreadAssumption DEF DropLock, WeakTypeOK, LockInv
<1>5. AliveInv'
  BY DEF DropLock, WeakTypeOK, AliveInv
<1>6. DestroyInv'
  BY DEF DropLock, WeakTypeOK, DestroyInv
<1> QED
  BY <1>2, <1>3, <1>4, <1>5, <1>6

LEMMA DecrementInv ==
    ASSUME WeakInv, NEW t \in RefThread, Decrement(t)
    PROVE  WeakInv'
<1> USE DEF WeakInv
<1>1. t \in Holders /\ Holders' = Holders \ {t}
  BY DEF Decrement, Holders, WeakTypeOK
<1>2. CountInv' /\ refcount' \in Nat /\ refcount > 0
  BY <1>1, OneHolderLess DEF Decrement
<1>3. \A u \in RefThread : wpc[u] # "mark"
  BY <1>2 DEF AliveInv, WeakTypeOK
<1>4. ob_is_alive /\ ob_is_alive'
  BY <1>2 DEF AliveInv, Decrement
<1>5. WeakTypeOK'
  BY <1>2 DEF Decrement, WeakTypeOK
<1>6. LockInv'
  BY RefThreadAssumption DEF Decrement, WeakTypeOK, LockInv
<1>7. AliveInv'
  <2>1. \A u \in RefThread : wpc'[u] = "inc" => ob_is_alive'
    BY <1>4
  <2>2. CASE refcount = 1
    <3>1. refcount' = 0 /\ wpc'[t] = "mark"
      BY <2>2 DEF Decrement, WeakTypeOK
    <3> QED
      BY <1>4, <2>1, <3>1 DEF AliveInv
  <2>3. CASE refcount # 1
    <3>1. refcount' > 0
      BY <1>2, <2>3 DEF Decrement, WeakTypeOK
    <3>2. \A u \in RefThread : wpc'[u] # "mark"
      BY <1>3, <2>3 DEF Decrement, WeakTypeOK
    <3> QED
      BY <1>4, <2>1, <3>1, <3>2 DEF AliveInv
  <2> QED
    BY <2>2, <2>3
<1>8. DestroyInv'
  BY <1>4 DEF Decrement, WeakTypeOK, DestroyInv
<1> QED
  BY <1>2, <1>5, <1>6, <1>7, <1>8

LEMMA MarkDeadInv ==
    ASSUME WeakInv, NEW t \in RefThread, MarkDead(t)
    PROVE  WeakInv'
<1> USE DEF WeakInv
<1>1. Holders' = Holders
  BY DEF MarkDead, Holders, WeakTypeOK
<1>2. CountInv'
  BY <1>1 DEF MarkDead, CountInv
<1>3. WeakTypeOK'
  BY DEF MarkDead, WeakTypeOK
<1>4. LockInv'
  BY RefThreadAssumption DEF MarkDead, WeakTypeOK, LockInv
<1>5. refcount = 0 /\ ob_is_alive
  BY DEF MarkDead, AliveInv
<1>6. \A u \in RefThread : wpc'[u] \notin {"mark", "inc"}
  BY DEF MarkDead, WeakTypeOK, LockInv
<1>7. AliveInv'
  BY <1>5, <1>6 DEF MarkDead, AliveInv
<1>8. DestroyInv'
  BY <1>5 DEF MarkDead, WeakTypeOK, DestroyInv
<1> QED
  BY <1>2, <1>3, <1>4, <1>7, <1>8

LEMMA DestroyStepInv ==
    ASSUME WeakInv, NEW t \in RefThread, Destroy(t)
    PROVE  WeakInv'
<1> USE DEF WeakInv
<1>1. Holders' = Holders
  BY DEF Destroy, Holders, WeakTypeOK
<1>2. CountInv'
  BY <1>1 DEF Destroy, CountInv
<1>3. WeakTypeOK'
  BY DEF Destroy, WeakTypeOK
<1>4. LockInv'
  BY DEF Destroy, WeakTypeOK, LockInv
<1>5. AliveInv'
  BY DEF Destroy, WeakTypeOK, AliveInv
<1>6. DestroyInv'
  BY DEF Destroy, WeakTypeOK, DestroyInv
<1> QED
  BY <1>2, <1>3, <1>4, <1>5, <1>6

LEMMA UpgradeLockInv ==
    ASSUME WeakInv, NEW t \in RefThread, UpgradeLock(t)
    PROVE  WeakInv'
<1> USE DEF WeakInv
<1>1. Holders' = Holders
  BY DEF UpgradeLock, Holders, WeakTypeOK
<1>2. CountInv'
  BY <1>1 DEF UpgradeLock, CountInv
<1>3. WeakTypeOK'
  BY DEF UpgradeLock, WeakTypeOK
<1>4. LockInv'
  BY RefThreadAssumption DEF UpgradeLock, WeakTypeOK, LockInv
<1>5. AliveInv'
  BY DEF UpgradeLock, WeakTypeOK, AliveInv
<1>6. DestroyInv'
  BY DEF UpgradeLock, WeakTypeOK, DestroyInv
<1> QED
  BY <1>2, <1>3, <1>4, <1>5, <1>6

LEMMA CheckAliveInv ==
    ASSUME WeakInv, NEW t \in RefThread, CheckAlive(t)
    PROVE  WeakInv'
<1> USE DEF WeakInv
<1>1. Holders' = Holders
  BY DEF CheckAlive, Holders, WeakTypeOK
<1>2. CountInv'
  BY <1>1 DEF CheckAlive, CountInv
<1>3. WeakTypeOK'
  BY DEF CheckAlive, WeakTypeOK
<1>4. LockInv'
  BY RefThreadAssumption DEF CheckAlive, WeakTypeOK, LockInv
<1>5. AliveInv'
  BY DEF CheckAlive, WeakTypeOK, AliveInv
<1>6. DestroyInv'
  BY DEF CheckAlive, WeakTypeOK, DestroyInv
<1> QED
  BY <1>2, <1>3, <1>4, <1>5, <1>6

LEMMA IncrementInv ==
    ASSUME WeakInv, NEW t \in RefThread, Increment(t)
    PROVE  WeakInv'
<1> USE DEF WeakInv
<1>1. t \notin Holders /\ Holders' = Holders \cup {t}
  BY DEF Increment, Holders, WeakTypeOK
<1>2. CountInv' /\ refcount' \in Nat
  BY <1>1, OneHolderMore DEF Increment
<1>3. refcount' > 0
  BY DEF Increment, WeakTypeOK
<1>4. ob_is_alive /\ \A u \in RefThread : wpc'[u] # "mark"
  BY DEF Increment, WeakTypeOK, LockInv, AliveInv
<1>5. WeakTypeOK'
  BY <1>2 DEF Increment, WeakTypeOK
<1>6. LockInv'
  BY RefThreadAssumption DEF Increment, WeakTypeOK, LockInv
<1>7. AliveInv'
  BY <1>3, <1>4 DEF Increment, WeakTypeOK, AliveInv
<1>8. DestroyInv'
  BY DEF Increment, WeakTypeOK, DestroyInv
<1> QED
  BY <1>2, <1>5, <1>6, <1>7, <1>8

LEMMA WeakStepInv == WeakInv /\ [WeakNext]_weakVars => WeakInv'
<1> SUFFICES ASSUME WeakInv, [WeakNext]_weakVars PROVE WeakInv'
  OBVIOUS
<1>1. CASE WeakNext
  <2> PICK t \in RefThread :
        \/ \E u \in RefThread : Copy(t, u)
        \/ DropLock(t) \/ Decrement(t) \/ MarkDead(t) \/ Destroy(t)
        \/ UpgradeLock(t) \/ CheckAlive(t) \/ Increment(t)
    BY <1>1 DEF WeakNext
  <2> QED
    BY CopyInv, DropLockInv, DecrementInv, MarkDeadInv, DestroyStepInv, UpgradeLockInv,
       CheckAliveInv, IncrementInv
<1>2. CASE UNCHANGED weakVars
  BY <1>2 DEF weakVars, WeakInv, WeakTypeOK, LockInv, CountInv, Holders, AliveInv, DestroyInv
<1> QED
  BY <1>1, <1>2

-----------------------------------------------------------------------------
(* The invariant gives the property: a thread that has a reference, or is   *)
(* about to, keeps the object marked alive; the one that destroys it is     *)
(* alone.                                                                   *)
LEMMA InvImpliesStrongRefIsAlive == WeakInv => StrongRefIsAlive
<1> SUFFICES ASSUME WeakInv, NEW t \in RefThread
             PROVE  /\ wpc[t] \in {"held", "dec", "inc"} => ~destroyed
                    /\ wpc[t] \in {"mark", "destroy"} =>
                         /\ ~destroyed
                         /\ \A u \in RefThread \ {t} :
                              wpc[u] \notin {"held", "dec", "inc", "mark", "destroy"}
  BY DEF StrongRefIsAlive
<1> USE DEF WeakInv
<1>1. \A u \in RefThread : wpc[u] \in {"held", "dec"} => refcount > 0 /\ ob_is_alive
  BY CountedWhenHeld DEF Holders, AliveInv
<1>2. wpc[t] \in {"held", "dec", "inc"} => ~destroyed
  BY <1>1 DEF AliveInv, DestroyInv
<1>3. ASSUME wpc[t] = "mark"
      PROVE  ~destroyed /\ \A u \in RefThread \ {t} :
                             wpc[u] \notin {"held", "dec", "inc", "mark", "destroy"}
  <2>1. refcount = 0 /\ ob_is_alive
    BY <1>3 DEF AliveInv
  <2>2. \A u \in RefThread \ {t} : wpc[u] \notin {"inc", "mark"}
    BY <1>3 DEF LockInv
  <2> QED
    BY <1>1, <2>1, <2>2 DEF DestroyInv
<1>4. ASSUME wpc[t] = "destroy"
      PROVE  ~destroyed /\ \A u \in RefThread \ {t} :
                             wpc[u] \notin {"held", "dec", "inc", "mark", "destroy"}
  <2>1. ~ob_is_alive /\ ~destroyed
    BY <1>4 DEF DestroyInv
  <2>2. \A u \in RefThread : wpc[u] \notin {"inc", "mark"}
    BY <2>1 DEF AliveInv
  <2> QED
    BY <1>1, <1>4, <2>1, <2>2 DEF DestroyInv
<1> QED
  BY <1>2, <1>3, <1>4

(* Whichever threads copy, drop and promote references at the same time, a  *)
(* strong reference is to an object that is alive, and it is destroyed by   *)
(* one thread, which nobody else's reference outlives.                      *)
THEOREM StrongRefAlwaysAlive == WeakSpec => []StrongRefIsAlive
<1>1. WeakSpec => []WeakInv
  BY WeakInitInv, WeakStepInv, PTL DEF WeakSpec
<1> QED
  BY <1>1, InvImpliesStrongRefIsAlive, PTL

-----------------------------------------------------------------------------
(***************************************************************************)
(* Theorems about Threads, for any threads of each kind and any number of  *)
(* messages: no thread is used after it was destroyed, and when            *)
(* killThreadsBlocking returns the threads it killed are over.             *)
(***************************************************************************)
ThreadPCs == {"new", "failed", "run", "asleep", "bind", "block", "kill", "close", "finish",
              "exit", "done"}
SenderPCs == {"idle", "visit", "notify", "quit", "shut", "collect", "join", "returned"}

ThreadTypeInv ==
    /\ threads \in [Managers -> SUBSET Thread]
    /\ tpc \in [Thread -> ThreadPCs]
    /\ references \in [Thread -> SUBSET {"caller", "set", "launch", "wait"}]
    /\ kpc \in [Managers -> SenderPCs]
    /\ to_visit \in [Managers -> SUBSET Thread]
    /\ visiting \in [Managers -> SUBSET Thread]
    /\ threads_to_wait_on \in [Managers -> SUBSET Thread]

(* A manager has, and waits on, threads of its own only.                    *)
OwnThreads ==
    \A m \in Managers : \A t \in threads[m] \cup threads_to_wait_on[m] : ManagerOf(t) = m

(* Each of those who may use a thread's object has its own reference.       *)
LaunchIsCounted ==
    \A t \in Thread : tpc[t] \notin {"new", "failed", "done"} => "launch" \in references[t]
SetIsCounted ==
    \A m \in Managers : \A t \in threads[m] : "set" \in references[t]
WaitIsCounted ==
    \A m \in Managers : kpc[m] = "join" =>
        \A t \in threads_to_wait_on[m] : "wait" \in references[t]

(* The mutex is held throughout the loop, so what it visits stays managed.  *)
VisitsManaged ==
    \A m \in Managers :
        IF MutexFree(m) THEN visiting[m] = {} ELSE to_visit[m] \cup visiting[m] \subseteq threads[m]

ReferencesInv ==
    /\ ThreadTypeInv
    /\ OwnThreads /\ LaunchIsCounted /\ SetIsCounted /\ WaitIsCounted
    /\ VisitsManaged

(* A thread whose doRun goes on, and that was not removed nor came late, is *)
(* managed; once a kill call waits, it waits on it; none is left when the   *)
(* call has returned.                                                       *)
Runs(t) == tpc[t] \notin {"new", "failed", "exit", "done"}

RunningIsManaged ==
    \A t \in Thread \ unmanaged : Runs(t) =>
        /\ kpc[ManagerOf(t)] # "returned"
        /\ IF kpc[ManagerOf(t)] = "join" THEN t \in threads_to_wait_on[ManagerOf(t)]
           ELSE t \in threads[ManagerOf(t)]

NoneAwaitedEarly ==
    \A m \in Managers : threads_to_wait_on[m] # {} => kpc[m] \in {"join", "returned"}

(* The listener kills its workers at the end of its doRun, and starts none  *)
(* before it was launched itself.                                           *)
ListenerKillsLast ==
    /\ tpc[Listener] \notin {"close", "asleep"}
    /\ kpc[WorkerManager] # "idle" => tpc[Listener] \in {"kill", "finish", "exit", "done"}
    /\ tpc[Listener] \in {"finish", "exit", "done"} => kpc[WorkerManager] = "returned"
    /\ tpc[Listener] \in {"new", "failed"} => \A w \in Workers : tpc[w] = "new"

ManagedInv == RunningIsManaged /\ NoneAwaitedEarly /\ ListenerKillsLast

KillInv == ReferencesInv /\ ManagedInv

-----------------------------------------------------------------------------
LEMMA ReferencesInit == InitThreads => ReferencesInv
BY ThreadsAssumption
DEF InitThreads, ReferencesInv, ThreadTypeInv, OwnThreads, LaunchIsCounted, SetIsCounted, WaitIsCounted,
    VisitsManaged, MutexFree, ThreadPCs, SenderPCs, Managers, Thread

(* References are added before they are relied on, and each of those who    *)
(* drop one, in any order, drops his own.                                   *)
LEMMA ReferencesStep == ReferencesInv /\ [NextThreads]_threadVars => ReferencesInv'
<1> SUFFICES ASSUME ReferencesInv, [NextThreads]_threadVars PROVE ReferencesInv'
  OBVIOUS
<1> USE ThreadsAssumption
    DEF ReferencesInv, ThreadTypeInv, OwnThreads, LaunchIsCounted, SetIsCounted, WaitIsCounted,
        VisitsManaged, MutexFree, Managers, Thread, ManagerOf, ThreadPCs, SenderPCs,
        Go, sockVars, killVars
<1>1. ASSUME NEW t \in Thread, AddThread(t) PROVE ReferencesInv'
  BY <1>1 DEF AddThread, Add, Launched
<1>2. ASSUME NEW t \in Thread, RemoveThread(t) PROVE ReferencesInv'
  BY <1>2 DEF RemoveThread
<1>3. ASSUME NEW t \in Thread, CallerDrops(t) PROVE ReferencesInv'
  BY <1>3 DEF CallerDrops
<1>4. ASSUME NEW t \in Thread, WakeUp(t) PROVE ReferencesInv'
  BY <1>4 DEF WakeUp, Moves
<1>5. ASSUME NEW t \in Thread, Serve(t) PROVE ReferencesInv'
  BY <1>5 DEF Serve, Moves
<1>6. ASSUME NEW w \in Workers, Accept(w) PROVE ReferencesInv'
  BY <1>6 DEF Accept, Add, Launched
<1>7. ASSUME NEW t \in Thread, DequeueMessage(t) PROVE ReferencesInv'
  BY <1>7 DEF DequeueMessage
<1>8. ASSUME NEW t \in Thread, Bind(t) PROVE ReferencesInv'
  BY <1>8 DEF Bind
<1>9. ASSUME NEW t \in Thread, CheckQuit(t) PROVE ReferencesInv'
  BY <1>9 DEF CheckQuit, Moves
<1>10. ASSUME NEW t \in Thread, SocketShut(t) PROVE ReferencesInv'
  BY <1>10 DEF SocketShut, Moves
<1>11. ASSUME NEW t \in Thread, Close(t) PROVE ReferencesInv'
  BY <1>11 DEF Close
<1>12. ASSUME NEW t \in Thread, WorkersKilled(t) PROVE ReferencesInv'
  BY <1>12 DEF WorkersKilled, Moves
<1>13. ASSUME NEW t \in Thread, Finish(t) PROVE ReferencesInv'
  BY <1>13 DEF Finish
<1>14. ASSUME NEW t \in Thread, Exit(t) PROVE ReferencesInv'
  BY <1>14 DEF Exit
<1>15. ASSUME NEW m \in Managers, NEW s \in {"message", "stop", "kill"}, Send(m, s)
       PROVE  ReferencesInv'
  BY <1>15 DEF Send
<1>16. ASSUME NEW m \in Managers, Visit(m) PROVE ReferencesInv'
  BY <1>16 DEF Visit
<1>17. ASSUME NEW m \in Managers, Notify(m) PROVE ReferencesInv'
  BY <1>17 DEF Notify
<1>18. ASSUME NEW m \in Managers, Quit(m) PROVE ReferencesInv'
  BY <1>18 DEF Quit
<1>19. ASSUME NEW m \in Managers, Shut(m) PROVE ReferencesInv'
  BY <1>19 DEF Shut
<1>20. ASSUME NEW m \in Managers, Collect(m) PROVE ReferencesInv'
  BY <1>20 DEF Collect
<1>21. ASSUME NEW m \in Managers, Join(m) PROVE ReferencesInv'
  BY <1>21 DEF Join
<1>22. CASE UNCHANGED threadVars
  BY <1>22 DEF threadVars
<1> HIDE DEF ReferencesInv
<1>23. QED
  BY <1>1, <1>2, <1>3, <1>4, <1>5, <1>6, <1>7, <1>8, <1>9, <1>10, <1>11, <1>12, <1>13, <1>14,
     <1>15, <1>16, <1>17, <1>18, <1>19, <1>20, <1>21, <1>22
  DEF NextThreads, ThreadStep, SenderStep, Outside

(* The object of a thread is there as long as the thread runs, or a call    *)
(* visits it or is about to join it: MyThread's reference count, with       *)
(* launch, addThread and killThreadsBlocking.                               *)
THEOREM UsedObjectsExist == SpecThreads => []ObjectsInUseExist
<1>1. ReferencesInv => ObjectsInUseExist
  BY DEF ReferencesInv, ThreadTypeInv, LaunchIsCounted, SetIsCounted, WaitIsCounted, VisitsManaged,
         ObjectsInUseExist, MutexFree
<1>2. QED
  BY <1>1, ReferencesInit, ReferencesStep, PTL DEF SpecThreads

-----------------------------------------------------------------------------
LEMMA KillInit == InitThreads => KillInv
<1> SUFFICES ASSUME InitThreads PROVE ManagedInv
  BY ReferencesInit DEF KillInv
<1>1. QED
  BY ThreadsAssumption
  DEF InitThreads, ManagedInv, RunningIsManaged, NoneAwaitedEarly, ListenerKillsLast, Runs,
      Managers, Thread

(* A thread leaves its manager's set only at its end, or as unmanaged; the  *)
(* set to wait on is what is managed when it is collected; and the listener *)
(* is over only after its own call has returned.                            *)
LEMMA KillStep == KillInv /\ [NextThreads]_threadVars => KillInv'
<1> SUFFICES ASSUME ReferencesInv, ManagedInv, [NextThreads]_threadVars PROVE ManagedInv'
  BY ReferencesStep DEF KillInv
<1> USE ThreadsAssumption
    DEF ReferencesInv, ThreadTypeInv, OwnThreads, VisitsManaged, ManagedInv, RunningIsManaged,
        NoneAwaitedEarly, ListenerKillsLast, Runs, MutexFree, Managers, Thread, ManagerOf,
        ThreadPCs, SenderPCs, Go, sockVars, killVars
<1>1. ASSUME NEW t \in Thread, AddThread(t) PROVE ManagedInv'
  BY <1>1 DEF AddThread, Add, Launched
<1>2. ASSUME NEW t \in Thread, RemoveThread(t) PROVE ManagedInv'
  BY <1>2 DEF RemoveThread
<1>3. ASSUME NEW t \in Thread, CallerDrops(t) PROVE ManagedInv'
  BY <1>3 DEF CallerDrops
<1>4. ASSUME NEW t \in Thread, WakeUp(t) PROVE ManagedInv'
  BY <1>4 DEF WakeUp, Moves
<1>5. ASSUME NEW t \in Thread, Serve(t) PROVE ManagedInv'
  BY <1>5 DEF Serve, Moves
<1>6. ASSUME NEW w \in Workers, Accept(w) PROVE ManagedInv'
  BY <1>6 DEF Accept, Add, Launched
<1>7. ASSUME NEW t \in Thread, DequeueMessage(t) PROVE ManagedInv'
  BY <1>7 DEF DequeueMessage
<1>8. ASSUME NEW t \in Thread, Bind(t) PROVE ManagedInv'
  BY <1>8 DEF Bind
<1>9. ASSUME NEW t \in Thread, CheckQuit(t) PROVE ManagedInv'
  BY <1>9 DEF CheckQuit, Moves
<1>10. ASSUME NEW t \in Thread, SocketShut(t) PROVE ManagedInv'
  BY <1>10 DEF SocketShut, Moves
<1>11. ASSUME NEW t \in Thread, Close(t) PROVE ManagedInv'
  BY <1>11 DEF Close
<1>12. ASSUME NEW t \in Thread, WorkersKilled(t) PROVE ManagedInv'
  BY <1>12 DEF WorkersKilled, Moves
<1>13. ASSUME NEW t \in Thread, Finish(t) PROVE ManagedInv'
  BY <1>13 DEF Finish
<1>14. ASSUME NEW t \in Thread, Exit(t) PROVE ManagedInv'
  BY <1>14 DEF Exit
<1>15. ASSUME NEW m \in Managers, NEW s \in {"message", "stop", "kill"}, Send(m, s)
       PROVE  ManagedInv'
  BY <1>15 DEF Send
<1>16. ASSUME NEW m \in Managers, Visit(m) PROVE ManagedInv'
  BY <1>16 DEF Visit
<1>17. ASSUME NEW m \in Managers, Notify(m) PROVE ManagedInv'
  BY <1>17 DEF Notify
<1>18. ASSUME NEW m \in Managers, Quit(m) PROVE ManagedInv'
  BY <1>18 DEF Quit
<1>19. ASSUME NEW m \in Managers, Shut(m) PROVE ManagedInv'
  BY <1>19 DEF Shut
<1>20. ASSUME NEW m \in Managers, Collect(m) PROVE ManagedInv'
  BY <1>20 DEF Collect
<1>21. ASSUME NEW m \in Managers, Join(m) PROVE ManagedInv'
  BY <1>21 DEF Join
<1>22. CASE UNCHANGED threadVars
  BY <1>22 DEF threadVars
<1> HIDE DEF ReferencesInv, ManagedInv
<1>23. QED
  BY <1>1, <1>2, <1>3, <1>4, <1>5, <1>6, <1>7, <1>8, <1>9, <1>10, <1>11, <1>12, <1>13, <1>14,
     <1>15, <1>16, <1>17, <1>18, <1>19, <1>20, <1>21, <1>22
  DEF NextThreads, ThreadStep, SenderStep, Outside

(* ThreadManager.h: "then blocks until all the threads have completed".     *)
(* When killThreadsBlocking has returned, no doRun of a thread that it sent *)
(* a kill message goes on, and, of a web listener, none of its workers'.    *)
THEOREM KillsAreComplete == SpecThreads => []KilledThreadsAreOver
<1>1. KillInv => KilledThreadsAreOver
  BY ThreadsAssumption
  DEF KillInv, ReferencesInv, ThreadTypeInv, ManagedInv, RunningIsManaged, ListenerKillsLast, Runs,
      ThreadPCs, KilledThreadsAreOver, ManagerOf, Managers, Thread
<1>2. QED
  BY <1>1, KillInit, KillStep, PTL DEF SpecThreads

-----------------------------------------------------------------------------
(***************************************************************************)
(* TimerQueue fires each timer as often as it was asked to, and            *)
(* RateLimitedSender sends what it was told of, no sooner than a period    *)
(* after the send before, for any timers, any periods and however late     *)
(* think() is called.  The invariant counts, for each timer, the firings   *)
(* it has had by the time its entry in the heap is set to.                 *)
(***************************************************************************)
TimerRecord == [id : Nat, trigger_time : Nat, period : Nat, repeating : BOOLEAN,
                func : {"program", "send", "none"}]
Request     == [at : Nat, period : Nat, repeating : BOOLEAN, func : {"program", "send"}]

TimerTypeInv ==
    /\ now \in Nat /\ cur_time \in Nat /\ cur_time <= now
    /\ queue \subseteq TimerRecord /\ running \subseteq TimerRecord
    /\ next_timer_id \in Nat
    /\ added \in Seq(Request) /\ Len(added) = next_timer_id
    /\ fires \in Seq(Nat) /\ Len(fires) = next_timer_id
    /\ cancelled \in Seq(Nat \cup {NotCancelled}) /\ Len(cancelled) = next_timer_id
    /\ last_send_time \in Int /\ last_send_time <= now
    /\ sent_at = last_send_time /\ gap \in Int

Ids == 1..next_timer_id

(* A timer is in the heap once, or it is the one that runs; it is as it was *)
(* asked for, unless it was cancelled.                                      *)
HeapInv ==
    /\ \A t \in queue \cup running : t.id \in Ids /\ t.period = added[t.id].period
    /\ \A t, u \in queue \cup running : t.id = u.id => t = u
    /\ queue \cap running = {}
    /\ \A t, u \in running : t = u
    /\ \A t \in running : t.func # "none" /\ t.trigger_time <= cur_time
    /\ running # {} => thinking
    /\ \A t \in queue \cup running :
         IF t.func = "none" THEN cancelled[t.id] # NotCancelled /\ ~t.repeating
         ELSE /\ cancelled[t.id] = NotCancelled
              /\ t.func = added[t.id].func /\ (t.repeating <=> added[t.id].repeating)
    /\ \A id \in Ids : added[id].repeating => added[id].period > 0 /\ added[id].func = "program"

(* When the next call of a timer's function, or the one that goes on, is    *)
(* due.                                                                     *)
DueAt(a, n) == a.at + n * a.period

(* Timers that have been called as often as that are in the heap for the    *)
(* next call, and those that are called once are gone after it.             *)
Accounted(id) ==
    \/ \E t \in queue : t.id = id /\ t.trigger_time = DueAt(added[id], fires[id] + 1)
                        /\ (added[id].repeating \/ fires[id] = 0)
    \/ \E t \in running : t.id = id /\ t.trigger_time = DueAt(added[id], fires[id])
                          /\ (added[id].repeating \/ fires[id] = 1)
    \/ /\ ~added[id].repeating /\ fires[id] = 1
       /\ \A t \in queue \cup running : t.id # id

FiresInv ==
    \A id \in Ids :
        /\ fires[id] > 0 => DueAt(added[id], fires[id]) <= cur_time
        /\ IF cancelled[id] # NotCancelled THEN fires[id] = cancelled[id] ELSE Accounted(id)

(* Between calls of think the heap holds what was not due at the last.      *)
NoneOverdue ==
    ~thinking => \A t \in queue : \/ t.trigger_time > cur_time
                                  \/ t.period = 0 /\ added[t.id].at = cur_time

TimerInv == TimerTypeInv /\ HeapInv /\ FiresInv /\ NoneOverdue

-----------------------------------------------------------------------------
LEMMA DueAtNext ==
    ASSUME NEW a \in Request, NEW n \in Nat
    PROVE  /\ DueAt(a, n) \in Nat /\ a.at \in Nat /\ a.period \in Nat
           /\ DueAt(a, n + 1) = DueAt(a, n) + a.period
           /\ DueAt(a, 0) = a.at
           /\ DueAt(a, 0 + 1) = a.at + a.period
<1> DEFINE p == a.period
           b == a.at
<1>1. p \in Nat /\ b \in Nat
  BY DEF Request
<1> HIDE DEF p, b
<1>2. n * p \in Nat /\ (n + 1) * p = n * p + p /\ 0 * p = 0 /\ (0 + 1) * p = p
  BY <1>1
<1> QED
  BY <1>1, <1>2 DEF DueAt, p, b

(* Which timers there are.                                                  *)
LEMMA IdsAre ==
    ASSUME TimerTypeInv
    PROVE  /\ next_timer_id \in Nat /\ next_timer_id + 1 \notin Ids
           /\ DOMAIN added = Ids /\ DOMAIN fires = Ids /\ DOMAIN cancelled = Ids
           /\ \A id \in Ids : /\ added[id] \in Request /\ fires[id] \in Nat
                              /\ cancelled[id] \in Nat \cup {NotCancelled}
<1>1. /\ next_timer_id \in Nat /\ added \in Seq(Request) /\ Len(added) = next_timer_id
      /\ fires \in Seq(Nat) /\ Len(fires) = next_timer_id
      /\ cancelled \in Seq(Nat \cup {NotCancelled}) /\ Len(cancelled) = next_timer_id
  BY DEF TimerTypeInv
<1>2. DOMAIN added = Ids /\ DOMAIN fires = Ids /\ DOMAIN cancelled = Ids
  BY <1>1, LenProperties DEF Ids
<1>3. \A id \in Ids : added[id] \in Request
  BY <1>1, ElementOfSeq DEF Ids
<1>4. \A id \in Ids : fires[id] \in Nat
  BY <1>1, ElementOfSeq DEF Ids
<1>5. \A id \in Ids : cancelled[id] \in Nat \cup {NotCancelled}
  BY <1>1, ElementOfSeq DEF Ids
<1>6. next_timer_id + 1 \notin Ids
  BY <1>1 DEF Ids
<1> QED
  BY <1>1, <1>2, <1>3, <1>4, <1>5, <1>6

LEMMA AppendOne ==
    ASSUME NEW S, NEW s \in Seq(S), NEW e \in S
    PROVE  /\ Append(s, e) \in Seq(S) /\ Len(Append(s, e)) = Len(s) + 1
           /\ \A i \in 1..Len(s) : Append(s, e)[i] = s[i]
           /\ Append(s, e)[Len(s) + 1] = e
BY AppendProperties

LEMMA TimerInit == InitTimers => TimerInv
<1> SUFFICES ASSUME InitTimers PROVE TimerInv
  OBVIOUS
<1>1. TimerTypeInv
  BY TimersAssumption DEF InitTimers, TimerTypeInv, Long_ago
<1>2. Ids = {}
  BY DEF Ids, InitTimers
<1>3. HeapInv /\ FiresInv /\ NoneOverdue
  BY <1>2 DEF InitTimers, HeapInv, FiresInv, NoneOverdue
<1> QED
  BY <1>1, <1>3 DEF TimerInv

(* addTimer, for the program or the sender.                                 *)
LEMMA PushInv ==
    ASSUME TimerInv, NEW period \in Nat, NEW repeating \in BOOLEAN, NEW func \in {"program", "send"},
           repeating => period > 0 /\ func = "program",
           Push(period, repeating, func),
           UNCHANGED <<now, cur_time, thinking, running>>,
           last_send_time' = last_send_time, sent_at' = sent_at, gap' = gap
    PROVE  TimerInv'
<1> USE DEF TimerInv
<1> DEFINE n == next_timer_id + 1
           t == [id |-> n, trigger_time |-> now + period, period |-> period,
                 repeating |-> repeating, func |-> func]
           a == [at |-> now, period |-> period, repeating |-> repeating, func |-> func]
<1>1. /\ next_timer_id' = n /\ queue' = queue \cup {t}
      /\ added' = Append(added, a) /\ fires' = Append(fires, 0)
      /\ cancelled' = Append(cancelled, NotCancelled)
  BY DEF Push
<1>2. n \in Nat /\ n = next_timer_id + 1 /\ next_timer_id \in Nat
  BY DEF TimerTypeInv
<1>3. t \in TimerRecord /\ a \in Request
  BY <1>2 DEF TimerTypeInv, TimerRecord, Request
<1>4. /\ t.id = n /\ t.trigger_time = now + period /\ t.period = period
      /\ t.func = func /\ t.repeating = repeating
      /\ a.at = now /\ a.period = period /\ a.repeating = repeating /\ a.func = func
  OBVIOUS
<1> HIDE DEF n, t, a
<1>5. /\ added' \in Seq(Request) /\ Len(added') = n
      /\ \A id \in Ids : added'[id] = added[id]
      /\ added'[n] = a
  <2>1. added \in Seq(Request) /\ Len(added) = next_timer_id /\ a \in Request
    BY <1>3 DEF TimerTypeInv
  <2>2. /\ added' \in Seq(Request) /\ Len(added') = Len(added) + 1
        /\ \A id \in 1..Len(added) : added'[id] = added[id]
        /\ added'[Len(added) + 1] = a
    BY <2>1, <1>1, AppendOne
  <2> QED
    BY <2>1, <2>2, <1>2 DEF Ids
<1>6. /\ fires' \in Seq(Nat) /\ Len(fires') = n
      /\ \A id \in Ids : fires'[id] = fires[id]
      /\ fires'[n] = 0
  <2>1. fires \in Seq(Nat) /\ Len(fires) = next_timer_id /\ 0 \in Nat
    BY DEF TimerTypeInv
  <2>2. /\ fires' \in Seq(Nat) /\ Len(fires') = Len(fires) + 1
        /\ \A id \in 1..Len(fires) : fires'[id] = fires[id]
        /\ fires'[Len(fires) + 1] = 0
    BY <2>1, <1>1, AppendOne
  <2> QED
    BY <2>1, <2>2, <1>2 DEF Ids
<1>7. /\ cancelled' \in Seq(Nat \cup {NotCancelled}) /\ Len(cancelled') = n
      /\ \A id \in Ids : cancelled'[id] = cancelled[id]
      /\ cancelled'[n] = NotCancelled
  <2> DEFINE S == Nat \cup {NotCancelled}
  <2>1. NotCancelled \in S /\ cancelled \in Seq(S) /\ Len(cancelled) = next_timer_id
    BY DEF TimerTypeInv
  <2> HIDE DEF S
  <2>2. /\ cancelled' \in Seq(S) /\ Len(cancelled') = n
        /\ \A id \in Ids : cancelled'[id] = cancelled[id]
        /\ cancelled'[n] = NotCancelled
    BY <2>1, <1>1, <1>2, AppendOne DEF Ids
  <2> QED
    BY <2>2 DEF S
<1>8. n \notin Ids /\ Ids' = Ids \cup {n}
  BY <1>1, <1>2 DEF Ids
<1>9. TimerTypeInv'
  BY <1>1, <1>2, <1>3, <1>5, <1>6, <1>7 DEF TimerTypeInv
<1>10. /\ queue' \cup running' = (queue \cup running) \cup {t}
       /\ \A u \in queue \cup running : u.id \in Ids /\ u.id # n /\ u # t
  BY <1>1, <1>4, <1>8 DEF HeapInv
<1>11. HeapInv'
  <2>1. \A u \in queue' \cup running' : u.id \in Ids' /\ u.period = added'[u.id].period
    BY <1>4, <1>5, <1>8, <1>10 DEF HeapInv
  <2>2. \A u, v \in queue' \cup running' : u.id = v.id => u = v
    BY <1>4, <1>10 DEF HeapInv
  <2>3. queue' \cap running' = {}
    BY <1>1, <1>10 DEF HeapInv
  <2>4. ASSUME NEW u \in queue' \cup running'
        PROVE  IF u.func = "none" THEN cancelled'[u.id] # NotCancelled /\ ~u.repeating
               ELSE /\ cancelled'[u.id] = NotCancelled
                    /\ u.func = added'[u.id].func /\ (u.repeating <=> added'[u.id].repeating)
    <3>1. CASE u = t
      BY <3>1, <1>4, <1>5, <1>7
    <3>2. CASE u \in queue \cup running
      <4>1. u.id \in Ids
        BY <3>2, <1>10
      <4>2. added'[u.id] = added[u.id] /\ cancelled'[u.id] = cancelled[u.id]
        BY <4>1, <1>5, <1>7
      <4> QED
        BY <3>2, <4>2 DEF HeapInv
    <3> QED
      BY <3>1, <3>2, <1>10
  <2>5. \A id \in Ids' : added'[id].repeating => added'[id].period > 0 /\ added'[id].func = "program"
    BY <1>4, <1>5, <1>8 DEF HeapInv
  <2>6. /\ \A u, v \in running' : u = v
        /\ \A u \in running' : u.func # "none" /\ u.trigger_time <= cur_time'
        /\ running' # {} => thinking'
    BY DEF HeapInv
  <2> QED
    BY <2>1, <2>2, <2>3, <2>4, <2>5, <2>6 DEF HeapInv
<1>12. FiresInv'
  <2>1. ASSUME NEW id \in Ids
        PROVE  /\ fires'[id] > 0 => DueAt(added'[id], fires'[id]) <= cur_time'
               /\ IF cancelled'[id] # NotCancelled THEN fires'[id] = cancelled'[id] ELSE Accounted(id)'
    <3>1. added'[id] = added[id] /\ fires'[id] = fires[id] /\ cancelled'[id] = cancelled[id]
      BY <1>5, <1>6, <1>7
    <3>2. Accounted(id) => Accounted(id)'
      BY <3>1, <1>1, <1>4, <1>8 DEF Accounted
    <3> QED
      BY <3>1, <3>2 DEF FiresInv
  <2>2. DueAt(a, 0 + 1) = now + period
    BY <1>3, <1>4, DueAtNext
  <2>3. ASSUME NEW id \in {n}
        PROVE  /\ fires'[id] > 0 => DueAt(added'[id], fires'[id]) <= cur_time'
               /\ IF cancelled'[id] # NotCancelled THEN fires'[id] = cancelled'[id] ELSE Accounted(id)'
    <3>1. id = n /\ fires'[id] + 1 = 0 + 1 /\ fires'[id] = 0
      BY <1>6
    <3>2. t \in queue' /\ t.id = id /\ t.trigger_time = DueAt(added'[id], fires'[id] + 1)
      BY <3>1, <2>2, <1>1, <1>4, <1>5
    <3>3. Accounted(id)'
      BY <3>1, <3>2 DEF Accounted
    <3> QED
      BY <3>1, <3>3, <1>7
  <2> QED
    BY <2>1, <2>3, <1>8 DEF FiresInv
<1>13. NoneOverdue'
  <2> SUFFICES ASSUME ~thinking
               PROVE  \A u \in queue' : \/ u.trigger_time > cur_time
                                        \/ u.period = 0 /\ added'[u.id].at = cur_time
    BY DEF NoneOverdue
  <2>1. \A u \in queue : \/ u.trigger_time > cur_time
                         \/ u.period = 0 /\ added'[u.id].at = cur_time
    BY <1>5, <1>10 DEF NoneOverdue
  <2>2. t.trigger_time > cur_time \/ (t.period = 0 /\ added'[t.id].at = cur_time)
    BY <1>4, <1>5 DEF TimerTypeInv
  <2> QED
    BY <2>1, <2>2, <1>1
<1> QED
  BY <1>9, <1>11, <1>12, <1>13

(* Which period and which kind of timer does not change otherwise.          *)
LEMMA AddTimerInv ==
    ASSUME TimerInv, NEW p \in Periods, NEW repeating \in BOOLEAN, AddTimer(p, repeating)
    PROVE  TimerInv'
<1>1. p \in Nat
  BY TimersAssumption
<1>2. repeating => p > 0
  BY DEF AddTimer
<1>3. Push(p, repeating, "program") /\ UNCHANGED <<now, cur_time, thinking, running>>
      /\ last_send_time' = last_send_time /\ sent_at' = sent_at /\ gap' = gap
  BY DEF AddTimer
<1> QED
  BY <1>1, <1>2, <1>3, PushInv

LEMMA SentTypes ==
    ASSUME TimerTypeInv, SendFunc, now' = now
    PROVE  /\ last_send_time' = now /\ sent_at' = now
           /\ gap' \in Int /\ gap' <= gap /\ gap' <= now - sent_at
           /\ gap' = gap \/ gap' = now - sent_at
<1> DEFINE d == now - sent_at
<1>1. d \in Int /\ gap \in Int
  BY DEF TimerTypeInv
<1>2. gap' = Min({gap, d})
  BY DEF SendFunc, Sent
<1> HIDE DEF d
<1>3. \E y \in {gap, d} : \A z \in {gap, d} : y =< z
  BY <1>1
<1>4. gap' \in {gap, d} /\ \A z \in {gap, d} : gap' =< z
  BY <1>2, <1>3 DEF Min
<1> QED
  BY <1>1, <1>4 DEF SendFunc, Sent, d

LEMMA CheckSendInv ==
    ASSUME TimerInv, CheckSend
    PROVE  TimerInv'
<1> USE DEF TimerInv
<1>1. UNCHANGED <<now, cur_time, thinking, running>>
  BY DEF CheckSend
<1>2. CASE send_scheduled
  <2>1. UNCHANGED <<queue, next_timer_id, last_send_time, added, fires, cancelled, sent_at, gap>>
    BY <1>2 DEF CheckSend
  <2> QED
    BY <2>1, <1>1 DEF TimerTypeInv, HeapInv, FiresInv, NoneOverdue, Accounted, Ids
<1>3. CASE ~send_scheduled /\ now >= last_send_time + SendPeriod
  <2>1. SendFunc /\ UNCHANGED <<queue, next_timer_id, added, fires, cancelled>>
    BY <1>3 DEF CheckSend
  <2>2. TimerTypeInv'
    BY <2>1, <1>1, SentTypes DEF TimerTypeInv
  <2> QED
    BY <2>1, <2>2, <1>1 DEF HeapInv, FiresInv, NoneOverdue, Accounted, Ids
<1>4. CASE ~send_scheduled /\ ~(now >= last_send_time + SendPeriod)
  <2> DEFINE period == last_send_time + SendPeriod - now
  <2>1. Push(period, FALSE, "send") /\ UNCHANGED <<last_send_time, sent_at, gap>>
    BY <1>4 DEF CheckSend
  <2>2. period \in Nat
    BY <1>4, TimersAssumption DEF TimerTypeInv
  <2> HIDE DEF period
  <2> QED
    BY <2>1, <2>2, <1>1, PushInv
<1> QED
  BY <1>2, <1>3, <1>4

LEMMA TickInv ==
    ASSUME TimerInv, Tick
    PROVE  TimerInv'
<1> USE DEF TimerInv
<1>1. /\ now' = now + 1
      /\ UNCHANGED <<queue, next_timer_id, cur_time, thinking, running, last_send_time,
                     send_scheduled, added, fires, cancelled, sent_at, gap, unsent>>
  BY DEF Tick
<1>2. TimerTypeInv'
  BY <1>1 DEF TimerTypeInv
<1> QED
  BY <1>1, <1>2 DEF HeapInv, FiresInv, NoneOverdue, Accounted, Ids

(* The clock does not go back.                                              *)
LEMMA ThinkInv ==
    ASSUME TimerInv, Think
    PROVE  TimerInv'
<1> USE DEF TimerInv
<1>1. /\ ~thinking /\ thinking' /\ cur_time' = now
      /\ UNCHANGED <<now, queue, next_timer_id, running, last_send_time, send_scheduled,
                     added, fires, cancelled, sent_at, gap, unsent>>
  BY DEF Think
<1>2. cur_time \in Nat /\ now \in Nat /\ cur_time <= now
  BY DEF TimerTypeInv
<1>3. running = {}
  BY <1>1 DEF HeapInv
<1>4. TimerTypeInv'
  BY <1>1, <1>2 DEF TimerTypeInv
<1>5. HeapInv'
  BY <1>1, <1>3 DEF HeapInv, Ids
<1>6. FiresInv'
  <2>1. ASSUME NEW id \in Ids
        PROVE  /\ fires'[id] > 0 => DueAt(added'[id], fires'[id]) <= cur_time'
               /\ IF cancelled'[id] # NotCancelled THEN fires'[id] = cancelled'[id] ELSE Accounted(id)'
    <3>1. Accounted(id) => Accounted(id)'
      BY <1>1 DEF Accounted
    <3>2. fires[id] \in Nat /\ DueAt(added[id], fires[id]) \in Nat
      BY IdsAre, DueAtNext
    <3>3. fires'[id] > 0 => DueAt(added'[id], fires'[id]) <= cur_time'
      BY <3>2, <1>1, <1>2 DEF FiresInv
    <3> QED
      BY <3>1, <3>3, <1>1 DEF FiresInv
  <2> QED
    BY <2>1, <1>1 DEF FiresInv, Ids
<1>7. NoneOverdue'
  BY <1>1 DEF NoneOverdue
<1> QED
  BY <1>4, <1>5, <1>6, <1>7

(* Nothing is left that is due when think returns.                          *)
LEMMA ThinkReturnsInv ==
    ASSUME TimerInv, ThinkReturns
    PROVE  TimerInv'
<1> USE DEF TimerInv
<1>1. /\ running = {} /\ Due = {} /\ thinking' = FALSE
      /\ UNCHANGED <<now, queue, next_timer_id, cur_time, running, last_send_time,
                     send_scheduled, added, fires, cancelled, sent_at, gap, unsent>>
  BY DEF ThinkReturns
<1>2. \A t \in queue : t.trigger_time \in Nat
  BY DEF TimerTypeInv, TimerRecord
<1>3. ASSUME NEW t \in queue, ~(t.trigger_time > cur_time)
      PROVE  FALSE
  <2> DEFINE times == {u.trigger_time : u \in queue}
  <2>1. times \in SUBSET Nat /\ times # {}
    BY <1>2
  <2> PICK m \in times : \A i \in times : m <= i
    BY <2>1, LeastNatural
  <2> PICK u \in queue : u.trigger_time = m
    OBVIOUS
  <2>2. \A v \in queue : u.trigger_time <= v.trigger_time
    OBVIOUS
  <2>3. u.trigger_time <= cur_time
    BY <2>2, <1>2, <1>3 DEF TimerTypeInv
  <2> QED
    BY <2>2, <2>3, <1>1 DEF Due
<1>4. TimerTypeInv'
  BY <1>1 DEF TimerTypeInv
<1>5. HeapInv'
  BY <1>1 DEF HeapInv, Ids
<1>6. FiresInv'
  BY <1>1 DEF FiresInv, Accounted, Ids
<1>7. NoneOverdue'
  BY <1>1, <1>3 DEF NoneOverdue
<1> QED
  BY <1>4, <1>5, <1>6, <1>7

(* A cancelled timer stays in the heap until it is due; one that is running *)
(* is not there.                                                            *)
LEMMA CancelTimerInv ==
    ASSUME TimerInv, NEW id \in DOMAIN added, CancelTimer(id)
    PROVE  TimerInv'
<1> USE DEF TimerInv
<1> DEFINE c(t) == IF t.id = id THEN [t EXCEPT !.func = "none", !.repeating = FALSE] ELSE t
           queued == \E t \in queue : t.id = id /\ t.func = "program"
<1>1. /\ added[id].func = "program"
      /\ queue' = {c(t) : t \in queue}
      /\ cancelled' = IF queued THEN [cancelled EXCEPT ![id] = fires[id]] ELSE cancelled
      /\ UNCHANGED <<now, next_timer_id, cur_time, thinking, running, last_send_time,
                     send_scheduled, added, fires, sent_at, gap, unsent>>
  BY DEF CancelTimer
<1>2. id \in Ids /\ fires[id] \in Nat /\ fires[id] # NotCancelled
  BY IdsAre DEF NotCancelled
<1>3. ASSUME NEW t \in queue
      PROVE  /\ c(t) \in TimerRecord
             /\ c(t).id = t.id /\ c(t).trigger_time = t.trigger_time /\ c(t).period = t.period
             /\ c(t).func = IF t.id = id THEN "none" ELSE t.func
             /\ c(t).repeating = IF t.id = id THEN FALSE ELSE t.repeating
             /\ t.id # id => c(t) = t
  <2>1. t \in TimerRecord
    BY DEF TimerTypeInv
  <2> QED
    BY <2>1 DEF TimerRecord
<1>4. \A t \in queue' : \E u \in queue : t = c(u)
  BY <1>1
<1>5. \A t \in queue : c(t) \in queue'
  BY <1>1
<1> HIDE DEF c
<1>6. /\ cancelled' \in Seq(Nat \cup {NotCancelled}) /\ Len(cancelled') = next_timer_id
      /\ \A i \in Ids : i # id => cancelled'[i] = cancelled[i]
      /\ queued => cancelled'[id] = fires[id]
      /\ ~queued => cancelled' = cancelled
  <2> DEFINE S == Nat \cup {NotCancelled}
  <2>1. cancelled \in Seq(S) /\ Len(cancelled) = next_timer_id /\ fires[id] \in S /\ id \in Ids
    BY <1>2 DEF TimerTypeInv
  <2>2. cancelled' = IF queued THEN [cancelled EXCEPT ![id] = fires[id]] ELSE cancelled
    BY <1>1
  <2> HIDE DEF queued, S
  <2>3. /\ cancelled' \in Seq(S) /\ Len(cancelled') = next_timer_id
        /\ \A i \in Ids : i # id => cancelled'[i] = cancelled[i]
        /\ queued => cancelled'[id] = fires[id]
        /\ ~queued => cancelled' = cancelled
    BY <2>1, <2>2, ExceptSeq DEF Ids
  <2> QED
    BY <2>3 DEF S
<1>7. TimerTypeInv'
  <2>1. queue' \subseteq TimerRecord
    BY <1>3, <1>4
  <2> QED
    BY <2>1, <1>1, <1>6 DEF TimerTypeInv
<1>8. queued => \A t \in queue \cup running : t.id = id => t \in queue /\ t.func = "program"
  BY DEF HeapInv
<1>9. ~queued => \A t \in queue : t.id = id => t.func = "none"
  <2> SUFFICES ASSUME NEW t \in queue, t.id = id, t.func # "none" PROVE queued
    OBVIOUS
  <2>1. t.func = "program"
    BY <1>1 DEF HeapInv
  <2> QED
    BY <2>1
<1> HIDE DEF queued
<1>10. HeapInv'
  <2>1. \A t \in queue' \cup running' : t.id \in Ids' /\ t.period = added'[t.id].period
    <3>1. Ids' = Ids /\ added' = added /\ running' = running
      BY <1>1 DEF Ids
    <3>2. ASSUME NEW t \in queue
          PROVE  c(t).id \in Ids /\ c(t).period = added[c(t).id].period
      <4>1. c(t).id = t.id /\ c(t).period = t.period
        BY <1>3
      <4>2. t.id \in Ids /\ t.period = added[t.id].period
        BY DEF HeapInv
      <4> QED
        BY <4>1, <4>2
    <3> QED
      BY <3>1, <3>2, <1>4 DEF HeapInv
  <2>2. \A t, u \in queue' \cup running' : t.id = u.id => t = u
    <3>1. ASSUME NEW t \in queue, NEW u \in queue, c(t).id = c(u).id
          PROVE  c(t) = c(u)
      <4>1. t.id = u.id
        BY <3>1, <1>3
      <4>2. t = u
        BY <4>1 DEF HeapInv
      <4> QED
        BY <4>2
    <3>2. ASSUME NEW t \in queue, NEW u \in running
          PROVE  c(t).id # u.id
      BY <1>3 DEF HeapInv
    <3> QED
      BY <3>1, <3>2, <1>1, <1>4 DEF HeapInv
  <2>3. queue' \cap running' = {}
    <3>1. ASSUME NEW t \in queue, NEW u \in running
          PROVE  c(t).id # u.id
      BY <1>3 DEF HeapInv
    <3> QED
      BY <3>1, <1>1, <1>4
  <2>4. /\ \A u, v \in running' : u = v
        /\ \A u \in running' : u.func # "none" /\ u.trigger_time <= cur_time'
        /\ running' # {} => thinking'
    BY <1>1 DEF HeapInv
  <2>5. ASSUME NEW u \in running
        PROVE  IF u.func = "none" THEN cancelled'[u.id] # NotCancelled /\ ~u.repeating
               ELSE /\ cancelled'[u.id] = NotCancelled
                    /\ u.func = added'[u.id].func /\ (u.repeating <=> added'[u.id].repeating)
    <3>1. cancelled'[u.id] = cancelled[u.id] /\ added' = added
      <4>1. u.id \in Ids
        BY DEF HeapInv
      <4>2. CASE u.id = id
        <5>1. ~queued
          BY <4>2, <1>8 DEF HeapInv
        <5> QED
          BY <5>1, <1>1, <1>6
      <4>3. CASE u.id # id
        BY <4>1, <4>3, <1>1, <1>6
      <4> QED
        BY <4>2, <4>3
    <3> QED
      BY <3>1 DEF HeapInv
  <2>6. ASSUME NEW t \in queue
        PROVE  IF c(t).func = "none" THEN cancelled'[c(t).id] # NotCancelled /\ ~c(t).repeating
               ELSE /\ cancelled'[c(t).id] = NotCancelled
                    /\ c(t).func = added'[c(t).id].func
                    /\ (c(t).repeating <=> added'[c(t).id].repeating)
    <3>1. t.id \in Ids
      BY DEF HeapInv
    <3>2. CASE t.id = id
      <4>1. c(t).func = "none" /\ ~c(t).repeating /\ c(t).id = id
        BY <3>2, <1>3
      <4>2. cancelled'[id] # NotCancelled
        <5>1. CASE queued
          BY <5>1, <1>2, <1>6
        <5>2. CASE ~queued
          BY <5>2, <3>2, <1>6, <1>9 DEF HeapInv
        <5> QED
          BY <5>1, <5>2
      <4> QED
        BY <4>1, <4>2
    <3>3. CASE t.id # id
      <4>1. c(t) = t /\ cancelled'[t.id] = cancelled[t.id] /\ added' = added
        BY <3>1, <3>3, <1>1, <1>3, <1>6
      <4> QED
        BY <4>1 DEF HeapInv
    <3> QED
      BY <3>2, <3>3
  <2>7. \A i \in Ids' : added'[i].repeating => added'[i].period > 0 /\ added'[i].func = "program"
    BY <1>1 DEF HeapInv, Ids
  <2>8. \A t \in queue' \cup running' :
          IF t.func = "none" THEN cancelled'[t.id] # NotCancelled /\ ~t.repeating
          ELSE /\ cancelled'[t.id] = NotCancelled
               /\ t.func = added'[t.id].func /\ (t.repeating <=> added'[t.id].repeating)
    BY <2>5, <2>6, <1>1, <1>4
  <2> QED
    BY <2>1, <2>2, <2>3, <2>4, <2>7, <2>8 DEF HeapInv
<1>11. FiresInv'
  <2>1. ASSUME NEW i \in Ids
        PROVE  /\ fires'[i] > 0 => DueAt(added'[i], fires'[i]) <= cur_time'
               /\ IF cancelled'[i] # NotCancelled THEN fires'[i] = cancelled'[i] ELSE Accounted(i)'
    <3>1. fires' = fires /\ added' = added /\ cur_time' = cur_time /\ running' = running
      BY <1>1
    <3>2. CASE i = id /\ queued
      <4>1. cancelled'[i] = fires[i] /\ cancelled'[i] # NotCancelled
        BY <3>2, <1>2, <1>6
      <4> QED
        BY <4>1, <3>1 DEF FiresInv
    <3>3. CASE ~(i = id /\ queued)
      <4>1. cancelled'[i] = cancelled[i]
        BY <3>3, <1>6
      <4>2. Accounted(i) => Accounted(i)'
        <5>1. ASSUME NEW t \in queue, t.id = i
              PROVE  c(t) \in queue' /\ c(t).id = i /\ c(t).trigger_time = t.trigger_time
          BY <5>1, <1>3, <1>5
        <5>2. \A t \in queue' \cup running' : \E u \in queue \cup running : t.id = u.id
          <6>1. \A t \in queue : c(t).id = t.id
            BY <1>3
          <6> QED
            BY <6>1, <3>1, <1>4
        <5> QED
          BY <5>1, <5>2, <3>1 DEF Accounted
      <4> QED
        BY <4>1, <4>2, <3>1 DEF FiresInv
    <3> QED
      BY <3>2, <3>3
  <2> QED
    BY <2>1, <1>1 DEF FiresInv, Ids
<1>12. NoneOverdue'
  <2>1. ASSUME NEW t \in queue, ~thinking
        PROVE  c(t).trigger_time > cur_time \/ (c(t).period = 0 /\ added[c(t).id].at = cur_time)
    <3>1. c(t).id = t.id /\ c(t).period = t.period /\ c(t).trigger_time = t.trigger_time
      BY <1>3
    <3>2. t.trigger_time > cur_time \/ (t.period = 0 /\ added[t.id].at = cur_time)
      BY <2>1 DEF NoneOverdue
    <3> QED
      BY <3>1, <3>2
  <2> QED
    BY <2>1, <1>1, <1>4 DEF NoneOverdue
<1> QED
  BY <1>7, <1>10, <1>11, <1>12

(* The timer that is called leaves the heap.                                *)
LEMMA FireInv ==
    ASSUME TimerInv, Fire
    PROVE  TimerInv'
<1> USE DEF TimerInv
<1> PICK t \in Due :
         /\ queue' = queue \ {t}
         /\ running' = IF t.func = "none" THEN {} ELSE {t}
         /\ fires' = IF t.func = "none" THEN fires ELSE [fires EXCEPT ![t.id] = @ + 1]
  BY DEF Fire
<1>1. /\ thinking /\ running = {}
      /\ UNCHANGED <<now, next_timer_id, cur_time, thinking, last_send_time, send_scheduled,
                     added, cancelled, sent_at, gap, unsent>>
  BY DEF Fire
<1>2. t \in queue /\ t.trigger_time <= cur_time /\ t \in TimerRecord /\ t.id \in Ids
  BY DEF Due, TimerTypeInv, HeapInv
<1>3. \A i \in Ids : fires[i] \in Nat /\ added[i] \in Request
  BY IdsAre
<1>4. /\ fires' \in Seq(Nat) /\ Len(fires') = next_timer_id
      /\ \A i \in Ids : i # t.id \/ t.func = "none" => fires'[i] = fires[i]
      /\ t.func # "none" => fires'[t.id] = fires[t.id] + 1
  BY <1>2, <1>3 DEF TimerTypeInv, Ids
<1>5. TimerTypeInv'
  BY <1>1, <1>2, <1>4 DEF TimerTypeInv
<1>6. queue' \cup running' \subseteq queue /\ \A u \in queue : u # t => u \in queue' /\ u.id # t.id
  BY <1>2 DEF HeapInv
<1>7. HeapInv'
  BY <1>1, <1>2, <1>6 DEF HeapInv, Ids
<1>8. ASSUME NEW i \in Ids
      PROVE  /\ fires'[i] > 0 => DueAt(added'[i], fires'[i]) <= cur_time'
             /\ IF cancelled'[i] # NotCancelled THEN fires'[i] = cancelled'[i] ELSE Accounted(i)'
  <2>1. CASE i # t.id
    <3>1. fires'[i] = fires[i]
      BY <2>1, <1>4
    <3>2. Accounted(i) => Accounted(i)'
      BY <2>1, <3>1, <1>1, <1>6 DEF Accounted
    <3> QED
      BY <3>1, <3>2, <1>1 DEF FiresInv
  <2>2. CASE i = t.id /\ t.func = "none"
    <3>1. fires'[i] = fires[i] /\ cancelled[i] # NotCancelled
      BY <2>2, <1>2, <1>4 DEF HeapInv
    <3> QED
      BY <3>1, <1>1 DEF FiresInv
  <2>3. CASE i = t.id /\ t.func # "none"
    <3>1. cancelled[i] = NotCancelled /\ fires'[i] = fires[i] + 1 /\ t \in running'
      BY <2>3, <1>2, <1>4 DEF HeapInv
    <3>2. /\ t.trigger_time = DueAt(added[i], fires[i] + 1)
          /\ added[i].repeating \/ fires[i] = 0
      <4>1. Accounted(i) /\ \A u \in queue : u.id = i => u = t
        BY <2>3, <3>1, <1>2 DEF FiresInv, HeapInv
      <4> QED
        BY <4>1, <2>3, <1>1, <1>2 DEF Accounted
    <3>3. Accounted(i)'
      BY <2>3, <3>1, <3>2, <1>1 DEF Accounted
    <3> QED
      BY <3>1, <3>2, <3>3, <1>1, <1>2
  <2> QED
    BY <2>1, <2>2, <2>3
<1>9. FiresInv'
  BY <1>1, <1>8 DEF FiresInv, Ids
<1>10. NoneOverdue'
  BY <1>1 DEF NoneOverdue
<1> QED
  BY <1>5, <1>7, <1>9, <1>10

(* It is put back for its next period, or it is gone.                       *)
LEMMA FunctionReturnsInv ==
    ASSUME TimerInv, FunctionReturns
    PROVE  TimerInv'
<1> USE DEF TimerInv
<1> PICK t \in running :
         queue' = IF t.repeating THEN queue \cup Again(t) ELSE queue
  BY DEF FunctionReturns
<1>1. /\ running' = {} /\ thinking
      /\ UNCHANGED <<now, next_timer_id, cur_time, thinking, last_send_time, send_scheduled,
                     added, fires, cancelled, sent_at, gap, unsent>>
  BY DEF FunctionReturns, HeapInv
<1> DEFINE u == [t EXCEPT !.trigger_time = @ + t.period]
<1>2. t \in TimerRecord /\ t.id \in Ids /\ running = {t} /\ t \notin queue
  BY DEF TimerTypeInv, HeapInv
<1>3. /\ u \in TimerRecord /\ u.id = t.id /\ u.period = t.period /\ u.func = t.func
      /\ u.repeating = t.repeating /\ u.trigger_time = t.trigger_time + t.period
  BY <1>2 DEF TimerRecord
<1>4. queue' = IF t.repeating THEN queue \cup {u} ELSE queue
  BY DEF Again
<1> HIDE DEF u
<1>5. \A v \in queue : v.id # t.id
  BY <1>2 DEF HeapInv
<1>6. TimerTypeInv'
  BY <1>1, <1>3, <1>4 DEF TimerTypeInv
<1>7. HeapInv'
  <2>1. \A v \in queue' \cup running' : v = u \/ v \in queue
    BY <1>1, <1>4
  <2>2. u.period = added[u.id].period /\ u.id \in Ids /\ u.func # "none"
    BY <1>2, <1>3 DEF HeapInv
  <2>3. /\ cancelled[u.id] = NotCancelled
        /\ u.func = added[u.id].func /\ (u.repeating <=> added[u.id].repeating)
    BY <1>2, <1>3 DEF HeapInv
  <2> QED
    BY <2>1, <2>2, <2>3, <1>1, <1>3, <1>5 DEF HeapInv, Ids
<1>8. ASSUME NEW i \in Ids
      PROVE  IF cancelled'[i] # NotCancelled THEN fires'[i] = cancelled'[i] ELSE Accounted(i)'
  <2>1. CASE i # t.id
    <3>1. Accounted(i) => Accounted(i)'
      BY <2>1, <1>1, <1>2, <1>3, <1>4 DEF Accounted
    <3> QED
      BY <3>1, <1>1 DEF FiresInv
  <2>2. CASE i = t.id
    <3>1. cancelled[i] = NotCancelled /\ (t.repeating <=> added[i].repeating)
          /\ t.period = added[i].period
      BY <2>2, <1>2 DEF HeapInv
    <3>2. t.trigger_time = DueAt(added[i], fires[i]) /\ (added[i].repeating \/ fires[i] = 1)
      <4>1. Accounted(i)
        BY <3>1 DEF FiresInv
      <4> QED
        BY <4>1, <2>2, <1>2, <1>5 DEF Accounted
    <3>3. CASE added[i].repeating
      <4>1. u \in queue' /\ u.id = i
        BY <3>3, <3>1, <2>2, <1>3, <1>4
      <4>2. u.trigger_time = DueAt(added[i], fires[i] + 1)
        BY <3>1, <3>2, <3>3, <1>3, IdsAre, DueAtNext
      <4>3. Accounted(i)'
        BY <4>1, <4>2, <3>3, <1>1 DEF Accounted
      <4> QED
        BY <4>3, <3>1, <1>1
    <3>4. CASE ~added[i].repeating
      <4>1. fires[i] = 1
        BY <3>2, <3>4
      <4>2. queue' = queue /\ \A v \in queue' \cup running' : v.id # i
        BY <3>1, <3>4, <2>2, <1>1, <1>4, <1>5
      <4>3. Accounted(i)'
        BY <4>1, <4>2, <3>4, <1>1 DEF Accounted
      <4> QED
        BY <4>3, <3>1, <1>1
    <3> QED
      BY <3>3, <3>4
  <2> QED
    BY <2>1, <2>2
<1>9. FiresInv'
  BY <1>1, <1>8 DEF FiresInv, Ids
<1>10. NoneOverdue'
  BY <1>1 DEF NoneOverdue
<1> QED
  BY <1>6, <1>7, <1>9, <1>10

LEMMA SendTimerInv ==
    ASSUME TimerInv, SendTimer
    PROVE  TimerInv'
<1> USE DEF TimerInv
<1> PICK t \in running : t.func = "send"
  BY DEF SendTimer
<1>1. /\ SendFunc /\ running' = {} /\ thinking
      /\ UNCHANGED <<now, queue, next_timer_id, cur_time, thinking, added, fires, cancelled>>
  BY DEF SendTimer, HeapInv
<1>2. t.id \in Ids /\ running = {t} /\ cancelled[t.id] = NotCancelled
      /\ added[t.id].func = "send" /\ ~added[t.id].repeating
  BY DEF HeapInv
<1>3. \A v \in queue : v.id # t.id
  BY <1>2 DEF HeapInv
<1>4. TimerTypeInv'
  BY <1>1, SentTypes DEF TimerTypeInv
<1>5. HeapInv'
  BY <1>1 DEF HeapInv, Ids
<1>6. ASSUME NEW i \in Ids, Accounted(i)
      PROVE  Accounted(i)'
  <2>1. CASE i # t.id
    BY <2>1, <1>1, <1>2, <1>6 DEF Accounted
  <2>2. CASE i = t.id
    <3>1. fires[i] = 1
      BY <2>2, <1>2, <1>3, <1>6 DEF Accounted
    <3>2. \A v \in queue' \cup running' : v.id # i
      BY <2>2, <1>1, <1>3
    <3> QED
      BY <3>1, <3>2, <2>2, <1>1, <1>2 DEF Accounted
  <2> QED
    BY <2>1, <2>2
<1>7. FiresInv'
  BY <1>1, <1>6 DEF FiresInv, Ids
<1>8. NoneOverdue'
  BY <1>1 DEF NoneOverdue
<1> QED
  BY <1>4, <1>5, <1>7, <1>8

LEMMA TimerStep == TimerInv /\ [NextTimers]_timerVars => TimerInv'
<1> SUFFICES ASSUME TimerInv, [NextTimers]_timerVars PROVE TimerInv'
  OBVIOUS
<1>1. CASE NextTimers
  BY <1>1, TickInv, ThinkInv, FireInv, FunctionReturnsInv, ThinkReturnsInv, CheckSendInv,
     SendTimerInv, AddTimerInv, CancelTimerInv DEF NextTimers
<1>2. CASE UNCHANGED timerVars
  BY <1>2 DEF timerVars, TimerInv, TimerTypeInv, HeapInv, FiresInv, NoneOverdue, Accounted, Ids
<1> QED
  BY <1>1, <1>2

(* How many periods have passed.                                            *)
LEMMA PeriodsPassed ==
    ASSUME NEW x \in Nat, NEW p \in Nat \ {0}, NEW n \in Nat, n * p <= x, x < (n + 1) * p
    PROVE  x \div p = n
<1> DEFINE q == x \div p
           r == x % p
<1>1. q \in Nat /\ r \in 0..(p - 1) /\ x = p * q + r
  BY Division
<1> HIDE DEF q, r
<1>2. p * q <= x /\ x < (q + 1) * p
  BY <1>1
<1>3. ~(q < n)
  <2> SUFFICES ASSUME q + 1 <= n PROVE FALSE
    BY <1>1
  <2>1. (q + 1) * p <= n * p
    BY <1>1, MultipleMonotone
  <2> QED
    BY <2>1, <1>1, <1>2
<1>4. ~(n < q)
  <2> SUFFICES ASSUME n + 1 <= q PROVE FALSE
    BY <1>1
  <2>1. (n + 1) * p <= q * p
    BY <1>1, MultipleMonotone
  <2> QED
    BY <2>1, <1>1, <1>2
<1> QED
  BY <1>1, <1>3, <1>4 DEF q

LEMMA CountIsPromised ==
    ASSUME NEW a \in Request, NEW n \in Nat, NEW x \in Nat, a.repeating => a.period > 0,
           a.repeating \/ n = 0,
           n > 0 => DueAt(a, n) <= x, x < DueAt(a, n + 1), x = cur_time
    PROVE  n = Promised(a)
<1> DEFINE p == a.period
           b == a.at
<1>1. p \in Nat /\ b \in Nat
  BY DEF Request
<1>2. DueAt(a, n) = b + n * p /\ DueAt(a, n + 1) = b + (n + 1) * p
  BY DEF DueAt
<1>3. n * p \in Nat /\ (n + 1) * p = n * p + p
  BY <1>1
<1>4. Promised(a) = IF x < b + p THEN 0 ELSE IF a.repeating THEN (x - b) \div p ELSE 1
  BY DEF Promised
<1> HIDE DEF p, b
<1>5. CASE x < b + p
  <2> SUFFICES ASSUME n > 0 PROVE FALSE
    BY <1>4, <1>5
  <2>1. 1 * p <= n * p
    BY <1>1, MultipleMonotone
  <2> QED
    BY <2>1, <1>1, <1>2, <1>3, <1>5
<1>6. CASE ~(x < b + p)
  <2>1. n # 0
    BY <1>1, <1>2, <1>3, <1>6
  <2>2. a.repeating /\ p > 0
    BY <2>1 DEF p
  <2>3. x - b \in Nat /\ n * p <= x - b /\ x - b < (n + 1) * p
    BY <2>1, <1>1, <1>2, <1>3, <1>6
  <2>4. (x - b) \div p = n
    BY <2>2, <2>3, <1>1, PeriodsPassed
  <2> QED
    BY <2>2, <2>4, <1>4, <1>6
<1> QED
  BY <1>5, <1>6

LEMMA TimersFire == TimerInv => FiresAsPromised
<1> SUFFICES ASSUME TimerInv, NEW id \in DOMAIN added, cancelled[id] = NotCancelled, ~thinking
             PROVE  \/ fires[id] = Promised(added[id])
                    \/ added[id].period = 0 /\ added[id].at = cur_time
  BY IdsAre DEF FiresAsPromised, TimerInv, FiresInv
<1> DEFINE a == added[id]
           n == fires[id]
<1>1. id \in Ids /\ a \in Request /\ n \in Nat /\ cur_time \in Nat
  BY IdsAre DEF TimerInv, TimerTypeInv
<1>2. Accounted(id) /\ (n > 0 => DueAt(a, n) <= cur_time) /\ running = {}
      /\ (a.repeating => a.period > 0)
  BY <1>1 DEF TimerInv, FiresInv, HeapInv
<1>3. ASSUME NEW t \in queue, t.id = id, t.trigger_time = DueAt(a, n + 1), a.repeating \/ n = 0
      PROVE  n = Promised(a) \/ (a.period = 0 /\ a.at = cur_time)
  <2>1. \/ t.trigger_time > cur_time
        \/ t.period = 0 /\ added[t.id].at = cur_time
    BY DEF TimerInv, NoneOverdue
  <2>2. CASE t.period = 0 /\ added[t.id].at = cur_time
    BY <2>2, <1>3 DEF TimerInv, HeapInv
  <2>3. CASE t.trigger_time > cur_time
    <3>1. DueAt(a, n + 1) \in Nat
      BY <1>1, DueAtNext
    <3>2. cur_time < DueAt(a, n + 1)
      BY <3>1, <2>3, <1>1, <1>3
    <3> HIDE DEF a, n
    <3>3. n = Promised(a)
      BY <3>2, <1>1, <1>2, <1>3, CountIsPromised
    <3> QED
      BY <3>3
  <2> QED
    BY <2>1, <2>2, <2>3
<1>4. ASSUME ~a.repeating, n = 1
      PROVE  n = Promised(a)
  <2>1. DueAt(a, 0 + 1) = a.at + a.period /\ a.at \in Nat /\ a.period \in Nat
    BY <1>1, DueAtNext
  <2>2. a.at + a.period <= cur_time
    BY <2>1, <1>2, <1>4
  <2> QED
    BY <2>1, <2>2, <1>1, <1>4 DEF Promised
<1> QED
  BY <1>2, <1>3, <1>4 DEF Accounted

(* Whatever timers' functions add and cancel, and however late think is     *)
(* called, a timer has fired once, or once for each of its periods, that    *)
(* has passed by then, and not at all since it was cancelled.               *)
THEOREM TimersFireAsPromised == SpecTimers => []FiresAsPromised
BY TimerInit, TimerStep, TimersFire, PTL DEF SpecTimers

-----------------------------------------------------------------------------
(* The sender's timer is there exactly while send_scheduled is set, and it  *)
(* is due when the period since the last send is over.                      *)
SendTimers == {t \in queue \cup running : t.func = "send"}

SendingInv ==
    /\ IF send_scheduled THEN \E t : SendTimers = {t} ELSE SendTimers = {}
    /\ unsent => send_scheduled
    /\ \A t \in SendTimers : t.trigger_time = last_send_time + SendPeriod
    /\ gap >= SendPeriod

LEMMA SendingInit == InitTimers => SendingInv
BY TimersAssumption DEF InitTimers, SendingInv, SendTimers

(* What keeps the sender's timer and its variables keeps the invariant.     *)
LEMMA SendingSame ==
    ASSUME SendingInv, SendTimers' = SendTimers, UNCHANGED <<last_send_time, send_scheduled, gap, unsent>>
    PROVE  SendingInv'
BY DEF SendingInv

LEMMA CheckSendSends ==
    ASSUME TimerInv, SendingInv, CheckSend
    PROVE  SendingInv'
<1>1. running' = running /\ now' = now
  BY DEF CheckSend
<1>2. CASE send_scheduled
  <2>1. UNCHANGED <<queue, last_send_time, send_scheduled, gap>>
    BY <1>2 DEF CheckSend
  <2>2. SendTimers' = SendTimers
    BY <2>1, <1>1 DEF SendTimers
  <2> QED
    BY <2>1, <2>2, <1>2 DEF SendingInv
<1>3. CASE ~send_scheduled /\ now >= last_send_time + SendPeriod
  <2>1. SendFunc /\ UNCHANGED <<queue, send_scheduled>>
    BY <1>3 DEF CheckSend
  <2>2. SendTimers' = {} /\ ~unsent'
    BY <2>1, <1>1, <1>3 DEF SendTimers, SendingInv, SendFunc, Sent
  <2>3. gap' >= SendPeriod
    <3>1. now - sent_at >= SendPeriod
      BY <1>3, TimersAssumption DEF TimerInv, TimerTypeInv
    <3>2. gap' = gap \/ gap' = now - sent_at
      BY <2>1, <1>1, SentTypes DEF TimerInv
    <3> QED
      BY <3>1, <3>2 DEF SendingInv
  <2> QED
    BY <2>1, <2>2, <2>3, <1>3 DEF SendingInv
<1>4. CASE ~send_scheduled /\ ~(now >= last_send_time + SendPeriod)
  <2> DEFINE period == last_send_time + SendPeriod - now
             t == [id |-> next_timer_id + 1, trigger_time |-> now + period, period |-> period,
                   repeating |-> FALSE, func |-> "send"]
  <2>1. /\ queue' = queue \cup {t} /\ send_scheduled' = TRUE
        /\ UNCHANGED <<last_send_time, gap>>
    BY <1>4 DEF CheckSend, Push
  <2>2. t.func = "send" /\ t.trigger_time = last_send_time + SendPeriod
    BY TimersAssumption DEF TimerInv, TimerTypeInv
  <2> HIDE DEF t
  <2>3. SendTimers' = {t}
    BY <2>1, <2>2, <1>1, <1>4 DEF SendTimers, SendingInv
  <2> QED
    BY <2>1, <2>2, <2>3 DEF SendingInv
<1> QED
  BY <1>2, <1>3, <1>4

LEMMA SendTimerSends ==
    ASSUME TimerInv, SendingInv, SendTimer
    PROVE  SendingInv'
<1> PICK t \in running : t.func = "send"
  BY DEF SendTimer
<1>1. /\ SendFunc /\ running' = {} /\ send_scheduled' = FALSE
      /\ UNCHANGED <<now, queue, cur_time>>
  BY DEF SendTimer
<1>2. t \in SendTimers /\ SendTimers = {t}
  BY DEF SendingInv, SendTimers
<1>3. t \notin queue
  BY DEF TimerInv, HeapInv
<1>4. SendTimers' = {} /\ ~unsent'
  BY <1>1, <1>2, <1>3 DEF SendTimers, SendFunc, Sent
<1>5. gap' >= SendPeriod
  <2>1. now - sent_at >= SendPeriod
    <3>1. t.trigger_time = last_send_time + SendPeriod /\ t.trigger_time <= cur_time
      BY <1>2 DEF SendingInv, TimerInv, HeapInv
    <3> QED
      BY <3>1, TimersAssumption DEF TimerInv, TimerTypeInv
  <2>2. gap' = gap \/ gap' = now - sent_at
    BY <1>1, SentTypes DEF TimerInv
  <2> QED
    BY <2>1, <2>2 DEF SendingInv
<1> QED
  BY <1>1, <1>4, <1>5 DEF SendingInv

LEMMA SendingStep == TimerInv /\ SendingInv /\ [NextTimers]_timerVars => SendingInv'
<1> SUFFICES ASSUME TimerInv, SendingInv, [NextTimers]_timerVars PROVE SendingInv'
  OBVIOUS
<1>1. CASE Tick \/ Think \/ ThinkReturns \/ UNCHANGED timerVars
  <2>1. UNCHANGED <<queue, running, last_send_time, send_scheduled, gap, unsent>>
    BY <1>1 DEF Tick, Think, ThinkReturns, timerVars
  <2> QED
    BY <2>1, SendingSame DEF SendTimers
<1>2. CASE Fire
  <2> PICK t \in queue :
         /\ queue' = queue \ {t}
         /\ running' = IF t.func = "none" THEN {} ELSE {t}
    BY <1>2 DEF Fire, Due
  <2>1. running = {} /\ UNCHANGED <<last_send_time, send_scheduled, gap, unsent>>
    BY <1>2 DEF Fire
  <2>2. SendTimers' = SendTimers
    BY <2>1 DEF SendTimers
  <2> QED
    BY <2>1, <2>2, SendingSame
<1>3. CASE FunctionReturns
  <2> PICK t \in running :
         /\ t.func = "program"
         /\ queue' = IF t.repeating THEN queue \cup Again(t) ELSE queue
    BY <1>3 DEF FunctionReturns
  <2>1. running' = {} /\ UNCHANGED <<last_send_time, send_scheduled, gap, unsent>>
    BY <1>3 DEF FunctionReturns
  <2>2. running = {t} /\ t \in TimerRecord
    BY DEF TimerInv, TimerTypeInv, HeapInv
  <2>3. \A u \in Again(t) : u.func = "program"
    BY <2>2 DEF Again, TimerRecord
  <2>4. SendTimers' = SendTimers
    BY <2>1, <2>2, <2>3 DEF SendTimers
  <2> QED
    BY <2>1, <2>4, SendingSame
<1>4. ASSUME NEW p \in Periods, NEW repeating \in BOOLEAN, AddTimer(p, repeating)
      PROVE  SendingInv'
  <2> DEFINE t == [id |-> next_timer_id + 1, trigger_time |-> now + p, period |-> p,
                   repeating |-> repeating, func |-> "program"]
  <2>1. /\ queue' = queue \cup {t}
        /\ UNCHANGED <<running, last_send_time, send_scheduled, gap, unsent>>
    BY <1>4 DEF AddTimer, Push
  <2>2. t.func = "program"
    OBVIOUS
  <2> HIDE DEF t
  <2>3. SendTimers' = SendTimers
    BY <2>1, <2>2 DEF SendTimers
  <2> QED
    BY <2>1, <2>3, SendingSame
<1>5. ASSUME NEW id \in DOMAIN added, CancelTimer(id)
      PROVE  SendingInv'
  <2> DEFINE c(t) == IF t.id = id THEN [t EXCEPT !.func = "none", !.repeating = FALSE] ELSE t
  <2>1. /\ added[id].func = "program" /\ queue' = {c(t) : t \in queue}
        /\ UNCHANGED <<running, last_send_time, send_scheduled, gap, unsent>>
    BY <1>5 DEF CancelTimer
  <2>2. ASSUME NEW t \in queue
        PROVE  (t.func = "send" => c(t) = t) /\ (c(t).func = "send" => c(t) = t)
    <3>1. CASE t.id = id
      <4>1. t.func # "send"
        BY <3>1, <2>1 DEF TimerInv, HeapInv
      <4>2. c(t).func = "none"
        BY <3>1 DEF TimerInv, TimerTypeInv, TimerRecord
      <4> QED
        BY <4>1, <4>2
    <3>2. CASE t.id # id
      BY <3>2
    <3> QED
      BY <3>1, <3>2
  <2>3. /\ \A t \in queue' : \E u \in queue : t = c(u)
        /\ \A t \in queue : c(t) \in queue'
    BY <2>1
  <2> HIDE DEF c
  <2>4. \A t \in queue' : t.func = "send" => t \in queue
    BY <2>2, <2>3
  <2>5. \A t \in queue : t.func = "send" => t \in queue'
    BY <2>2, <2>3
  <2>6. SendTimers' = SendTimers
    BY <2>1, <2>4, <2>5 DEF SendTimers
  <2> QED
    BY <2>1, <2>6, SendingSame
<1> QED
  BY <1>1, <1>2, <1>3, <1>4, <1>5, CheckSendSends, SendTimerSends DEF NextTimers

(* An update is sent at the next think at or after last_send_time +         *)
(* send_period, and no sooner: a timer for it is there, and no second one.  *)
THEOREM UpdatesAreSent == SpecTimers => []UpdatesGetSent
<1>1. TimerInv /\ SendingInv => UpdatesGetSent
  <2> SUFFICES ASSUME TimerInv, SendingInv
               PROVE  /\ unsent \/ send_scheduled => Cardinality(SendTimers) = 1
                      /\ \A t \in SendTimers : t.trigger_time <= last_send_time + SendPeriod
                      /\ SendsArePeriodApart
    BY DEF UpdatesGetSent, SendTimers
  <2>1. unsent \/ send_scheduled => Cardinality(SendTimers) = 1
    BY FS_Singleton DEF SendingInv
  <2>2. last_send_time + SendPeriod \in Int
    BY TimersAssumption DEF TimerInv, TimerTypeInv
  <2> QED
    BY <2>1, <2>2 DEF SendingInv, SendsArePeriodApart
<1> QED
  BY <1>1, TimerInit, TimerStep, SendingInit, SendingStep, PTL DEF SpecTimers

(***************************************************************************)
(* For any textures, keys and threads, and whenever the reports of other   *)
(* threads arrive: what is in the list of unused textures is referred to   *)
(* by no one but the cache, so trimming destroys nothing in use; and a     *)
(* cached texture that no one refers to is in that list, or will be once   *)
(* the reports that are under way have been processed.                     *)
(***************************************************************************)
TextureTypeInv ==
    /\ items \in [Key -> Texture \cup {NoTexture}]
    /\ unused_items \in Seq(Key) /\ became_unused_tex_keys \in Seq(Key)
    /\ tex_mem_usage \in Int
    /\ key_of \in [Texture -> Key]
    /\ inserted \in [Texture -> BOOLEAN]
    /\ holders \in [Texture -> SUBSET (Others \cup {Main})]
    /\ \A t \in Texture : IsFiniteSet(holders[t])
    /\ found \in Texture \cup {NoTexture}
    /\ reporting \in [Others -> Texture \cup {NoTexture}]
    /\ reports \in [Others -> {{}} \cup {{k} : k \in Key}]

(* A texture knows its key, and whether it is in the cache.                 *)
KeysKnown ==
    /\ \A k \in Key : items[k] # NoTexture => key_of[items[k]] = k
    /\ \A t \in Texture : inserted[t] <=> Cached(t)

(* What is looked up is in the cache, and was taken out of the list.        *)
FoundIsUsed == found # NoTexture => Cached(found) /\ key_of[found] \notin ToSet(unused_items)

(* A thread leaves one key before it drops the next reference.              *)
OneReportEach == \A u \in Others : reporting[u] # NoTexture => reports[u] = {}

TextureInv ==
    /\ TextureTypeInv /\ KeysKnown /\ FoundIsUsed /\ OneReportEach
    /\ UnusedAreUnreferenced /\ UnreferencedAreNoticed

-----------------------------------------------------------------------------
(* What the counts 0, 1 and 2 say.                                          *)
LEMMA RefCounts ==
    ASSUME TextureTypeInv, NEW t \in Texture
    PROVE  /\ RefCount(t) \in Nat
           /\ RefCount(t) > 0 <=> holders[t] # {} \/ Cached(t)
           /\ Cached(t) => (RefCount(t) = 1 <=> holders[t] = {})
           /\ Cached(t) => \A u \in holders[t] : RefCount(t) = 2 <=> holders[t] \ {u} = {}
<1>1. IsFiniteSet(holders[t])
  BY DEF TextureTypeInv
<1>2. Cardinality(holders[t]) \in Nat /\ (Cardinality(holders[t]) = 0 <=> holders[t] = {})
  BY <1>1, FS_CardinalityType, FS_EmptySet
<1>3. ASSUME NEW u \in holders[t]
      PROVE  Cardinality(holders[t]) = 1 <=> holders[t] \ {u} = {}
  <2>1. IsFiniteSet(holders[t] \ {u}) /\ Cardinality(holders[t] \ {u}) = Cardinality(holders[t]) - 1
    BY <1>1, FS_RemoveElement
  <2>2. Cardinality(holders[t] \ {u}) = 0 <=> holders[t] \ {u} = {}
    BY <2>1, FS_EmptySet
  <2> QED
    BY <1>2, <2>1, <2>2
<1> QED
  BY <1>2, <1>3 DEF RefCount

(* A key of the list is taken out of it.                                    *)
LEMMA WithoutKey ==
    ASSUME NEW s \in Seq(Key), IsInjective(s), NEW k \in Key
    PROVE  Without(s, k) \in Seq(Key) /\ IsInjective(Without(s, k))
           /\ ToSet(Without(s, k)) = ToSet(s) \ {k}
<1> DEFINE n == Len(s)
<1>1. n \in Nat /\ DOMAIN s = 1..n /\ \A i \in 1..n : s[i] \in Key
  OBVIOUS
<1>2. \A i, j \in 1..n : s[i] = s[j] => i = j
  BY <1>1 DEF IsInjective
<1>3. CASE k \notin ToSet(s)
  BY <1>3 DEF Without
<1>4. CASE k \in ToSet(s)
  <2> DEFINE p == CHOOSE i \in DOMAIN s : s[i] = k
             r == RemoveAt(s, p)
  <2>1. p \in 1..n /\ s[p] = k
    BY <1>1, <1>4 DEF ToSet
  <2>2. Without(s, k) = r
    BY <1>4 DEF Without
  <2> HIDE DEF p
  <2>3. /\ r \in Seq(Key) /\ Len(r) = n - 1
        /\ \A i \in 1..n - 1 : r[i] = IF i < p THEN s[i] ELSE s[i + 1]
    BY <2>1, RemoveAtProperties
  <2> HIDE DEF n, r
  <2>4. DOMAIN r = 1..n - 1
    BY <2>3, <1>1, LenProperties
  <2>5. \A i \in 1..n - 1 : i \in 1..n /\ i + 1 \in 1..n
    BY <1>1
  <2>6. IsInjective(r)
    <3> SUFFICES ASSUME NEW i \in 1..n - 1, NEW j \in 1..n - 1, r[i] = r[j] PROVE i = j
      BY <2>4 DEF IsInjective
    <3>1. CASE i < p /\ j < p
      BY <3>1, <2>3, <2>5, <1>2
    <3>2. CASE ~(i < p) /\ ~(j < p)
      <4>1. i + 1 = j + 1
        BY <3>2, <2>3, <2>5, <1>2
      <4> QED
        BY <4>1
    <3>3. CASE i < p /\ ~(j < p)
      <4>1. i = j + 1
        BY <3>3, <2>3, <2>5, <1>2
      <4> QED
        BY <4>1, <3>3, <2>1, <1>1
    <3>4. CASE ~(i < p) /\ j < p
      <4>1. i + 1 = j
        BY <3>4, <2>3, <2>5, <1>2
      <4> QED
        BY <4>1, <3>4, <2>1, <1>1
    <3> QED
      BY <3>1, <3>2, <3>3, <3>4
  <2>7. ToSet(r) \subseteq ToSet(s) \ {k}
    <3> SUFFICES ASSUME NEW i \in 1..n - 1 PROVE r[i] \in ToSet(s) /\ r[i] # k
      BY <2>4 DEF ToSet
    <3>1. CASE i < p
      <4>1. i # p
        BY <3>1, <2>1, <1>1
      <4> QED
        BY <4>1, <3>1, <2>1, <2>3, <2>5, <1>1, <1>2 DEF ToSet
    <3>2. CASE ~(i < p)
      <4>1. i + 1 # p
        BY <3>2, <2>1, <1>1
      <4> QED
        BY <4>1, <3>2, <2>1, <2>3, <2>5, <1>1, <1>2 DEF ToSet
    <3> QED
      BY <3>1, <3>2
  <2>8. ToSet(s) \ {k} \subseteq ToSet(r)
    <3> SUFFICES ASSUME NEW i \in 1..n, s[i] # k PROVE s[i] \in ToSet(r)
      BY <1>1 DEF ToSet
    <3>1. i # p
      BY <2>1
    <3>2. CASE i < p
      <4>1. i \in 1..n - 1
        BY <3>2, <2>1, <1>1
      <4>2. r[i] = s[i]
        BY <4>1, <3>2, <2>3
      <4> QED
        BY <4>1, <4>2, <2>4 DEF ToSet
    <3>3. CASE ~(i < p)
      <4>1. i - 1 \in 1..n - 1 /\ ~(i - 1 < p) /\ (i - 1) + 1 = i
        BY <3>1, <3>3, <2>1, <1>1
      <4>2. r[i - 1] = s[i]
        BY <4>1, <2>3
      <4> QED
        BY <4>1, <4>2, <2>4 DEF ToSet
    <3> QED
      BY <3>2, <3>3
  <2> QED
    BY <2>2, <2>3, <2>6, <2>7, <2>8
<1> QED
  BY <1>3, <1>4

(* A key that has become unused is put first, once.                         *)
LEMMA KeyFirst ==
    ASSUME NEW s \in Seq(Key), IsInjective(s), NEW k \in Key, k \notin ToSet(s)
    PROVE  <<k>> \o s \in Seq(Key) /\ IsInjective(<<k>> \o s) /\ ToSet(<<k>> \o s) = ToSet(s) \cup {k}
<1> DEFINE n == Len(s)
           r == <<k>> \o s
<1>1. n \in Nat /\ DOMAIN s = 1..n /\ \A i \in 1..n : s[i] \in Key /\ s[i] \in ToSet(s)
  BY DEF ToSet
<1>2. \A i, j \in 1..n : s[i] = s[j] => i = j
  BY <1>1 DEF IsInjective
<1>3. r \in Seq(Key) /\ Len(r) = n + 1 /\ DOMAIN r = 1..n + 1
  OBVIOUS
<1>4. r[1] = k /\ \A i \in 2..n + 1 : r[i] = s[i - 1] /\ i - 1 \in 1..n
  OBVIOUS
<1> HIDE DEF n, r
<1>5. \A i \in 1..n + 1 : i = 1 \/ i \in 2..n + 1
  BY <1>1
<1>6. IsInjective(r)
  <2> SUFFICES ASSUME NEW i \in 1..n + 1, NEW j \in 1..n + 1, r[i] = r[j] PROVE i = j
    BY <1>3 DEF IsInjective
  <2>1. \A l \in 2..n + 1 : r[l] # k
    BY <1>1, <1>4
  <2>2. CASE i \in 2..n + 1 /\ j \in 2..n + 1
    <3>1. i - 1 = j - 1
      BY <2>2, <1>2, <1>4
    <3> QED
      BY <3>1
  <2> QED
    BY <2>1, <2>2, <1>4, <1>5
<1>7. ToSet(r) \subseteq ToSet(s) \cup {k}
  BY <1>1, <1>3, <1>4, <1>5 DEF ToSet
<1>8. ToSet(s) \cup {k} \subseteq ToSet(r)
  <2>1. k \in ToSet(r)
    <3>1. 1 \in 1..n + 1
      BY <1>1
    <3> QED
      BY <3>1, <1>3, <1>4 DEF ToSet
  <2>2. ASSUME NEW i \in 1..n
        PROVE  s[i] \in ToSet(r)
    <3>1. i + 1 \in 2..n + 1 /\ i + 1 \in 1..n + 1 /\ (i + 1) - 1 = i
      BY <1>1
    <3> QED
      BY <3>1, <1>3, <1>4 DEF ToSet
  <2> QED
    BY <2>1, <2>2, <1>1 DEF ToSet
<1> QED
  BY <1>3, <1>6, <1>7, <1>8 DEF r

(* Trimming takes keys from the end of the list.                            *)
LEMMA KeptKeys ==
    ASSUME TextureTypeInv, IsInjective(unused_items), NEW usage \in Int
    PROVE  /\ Kept(usage) \in Seq(Key) /\ IsInjective(Kept(usage))
           /\ ToSet(Kept(usage)) \subseteq ToSet(unused_items)
           /\ Excess(usage) \in Nat
<1> DEFINE n == Len(unused_items)
           m == Excess(usage)
           r == Kept(usage)
<1>1. /\ n \in Nat /\ DOMAIN unused_items = 1..n
      /\ \A i \in 1..n : unused_items[i] \in Key /\ unused_items[i] \in ToSet(unused_items)
  BY DEF TextureTypeInv, ToSet
<1>2. \A i, j \in 1..n : unused_items[i] = unused_items[j] => i = j
  BY <1>1 DEF IsInjective
<1>3. m \in 0..n
  <2> DEFINE over == usage - max_tex_mem_usage
             x == Max({0, over})
  <2>1. x \in Nat
    <3>1. over \in Int
      BY TextureAssumption
    <3> HIDE DEF over
    <3>2. \E y \in {0, over} : \A z \in {0, over} : y >= z
      BY <3>1
    <3>3. x \in {0, over} /\ \A z \in {0, over} : x >= z
      BY <3>2 DEF Max
    <3> QED
      BY <3>1, <3>3
  <2> HIDE DEF x, n
  <2>2. \E y \in {n, x} : \A z \in {n, x} : y =< z
    BY <1>1, <2>1
  <2>3. Min({n, x}) \in {n, x} /\ \A z \in {n, x} : Min({n, x}) =< z
    BY <2>2 DEF Min
  <2>4. m = Min({n, x})
    BY DEF Excess, x, n
  <2> QED
    BY <2>3, <2>4, <1>1, <2>1
<1>4. r = SubSeq(unused_items, 1, n - m)
  BY DEF Kept
<1> HIDE DEF n, m, r
<1>5. \A i \in 1..n - m : i \in 1..n /\ unused_items[i] \in Key
  BY <1>1, <1>3
<1>6. /\ r \in Seq(Key)
      /\ Len(r) = IF 1 <= n - m THEN (n - m) - 1 + 1 ELSE 0
      /\ \A i \in 1..(n - m) - 1 + 1 : r[i] = unused_items[1 + i - 1]
  BY <1>1, <1>3, <1>4, <1>5, SubSeqProperties
<1>7. Len(r) = n - m /\ 1..(n - m) - 1 + 1 = 1..n - m /\ \A i \in 1..n - m : 1 + i - 1 = i
  BY <1>1, <1>3, <1>6
<1>8. DOMAIN r = 1..n - m /\ \A i \in 1..n - m : r[i] = unused_items[i]
  BY <1>6, <1>7, LenProperties
<1>9. IsInjective(r)
  BY <1>2, <1>5, <1>8 DEF IsInjective
<1>10. ToSet(r) \subseteq ToSet(unused_items)
  BY <1>1, <1>5, <1>8 DEF ToSet
<1>11. m \in Nat
  BY <1>3
<1> QED
  BY <1>6, <1>9, <1>10, <1>11 DEF r, m

-----------------------------------------------------------------------------
(* A key whose texture is in the cache and has no other reference.          *)
Unreferenced(k) == items[k] # NoTexture /\ holders[items[k]] = {}

(* A list such as the one that the keys s are added to.                     *)
IsList(s) == s \in Seq(Key) /\ IsInjective(s) /\ \A k \in ToSet(s) : Unreferenced(k)

LEMMA ListIsList == TextureInv => IsList(unused_items)
BY DEF TextureInv, TextureTypeInv, UnusedAreUnreferenced, IsList, Unreferenced

(* A key that is left for the main thread is put in the list if its texture *)
(* has no other reference.                                                  *)
LEMMA ProcessedKey ==
    ASSUME TextureTypeInv, NEW s, IsList(s), NEW k \in Key
    PROVE  /\ IsList(Processed(s, k))
           /\ ToSet(s) \subseteq ToSet(Processed(s, k))
           /\ Unreferenced(k) => k \in ToSet(Processed(s, k))
<1>1. CASE Unreferenced(k) /\ k \notin ToSet(s)
  <2>1. items[k] \in Texture /\ Cached(items[k])
    BY <1>1 DEF Unreferenced, Cached, TextureTypeInv
  <2>2. RefCount(items[k]) = 1
    BY <2>1, <1>1, RefCounts DEF Unreferenced
  <2>3. Processed(s, k) = <<k>> \o s
    BY <2>2, <1>1 DEF Processed, BecameUnused, Unreferenced
  <2>4. /\ <<k>> \o s \in Seq(Key) /\ IsInjective(<<k>> \o s)
        /\ ToSet(<<k>> \o s) = ToSet(s) \cup {k}
    BY <1>1, KeyFirst DEF IsList
  <2> QED
    BY <2>3, <2>4, <1>1 DEF IsList
<1>2. CASE ~Unreferenced(k) \/ k \in ToSet(s)
  <2>1. Processed(s, k) = s
    <3>1. CASE items[k] = NoTexture
      BY <3>1 DEF Processed
    <3>2. CASE items[k] # NoTexture /\ holders[items[k]] # {}
      <4>1. items[k] \in Texture /\ Cached(items[k])
        BY <3>2 DEF Cached, TextureTypeInv
      <4>2. RefCount(items[k]) # 1
        BY <4>1, <3>2, RefCounts
      <4> QED
        BY <4>2 DEF Processed
    <3>3. CASE k \in ToSet(s)
      BY <3>3 DEF Processed, BecameUnused
    <3> QED
      BY <3>1, <3>2, <3>3, <1>2 DEF Unreferenced
  <2> QED
    BY <2>1, <1>2
<1> QED
  BY <1>1, <1>2

(* After the first i keys: the list, with those of them whose texture has   *)
(* no other reference.                                                      *)
ListAfter(i) ==
    {s \in Seq(Key) : /\ IsList(s) /\ ToSet(unused_items) \subseteq ToSet(s)
                      /\ \A j \in 1..i : LET k == became_unused_tex_keys[j] IN
                           Unreferenced(k) => k \in ToSet(s)}

LEMMA ListAfterNext ==
    ASSUME TextureTypeInv, NEW i \in 1..Len(became_unused_tex_keys), NEW s \in ListAfter(i - 1)
    PROVE  Processed(s, became_unused_tex_keys[i]) \in ListAfter(i)
<1> DEFINE k == became_unused_tex_keys[i]
           r == Processed(s, k)
<1>1. k \in Key
  BY DEF TextureTypeInv
<1>2. IsList(s) /\ ToSet(unused_items) \subseteq ToSet(s)
  BY DEF ListAfter
<1>3. IsList(r) /\ ToSet(s) \subseteq ToSet(r) /\ (Unreferenced(k) => k \in ToSet(r))
  BY <1>1, <1>2, ProcessedKey
<1>4. ASSUME NEW j \in 1..i, Unreferenced(became_unused_tex_keys[j])
      PROVE  became_unused_tex_keys[j] \in ToSet(r)
  <2>1. CASE j = i
    BY <2>1, <1>3, <1>4
  <2>2. CASE j # i
    <3>1. j \in 1..i - 1
      BY <2>2
    <3> QED
      BY <3>1, <1>3, <1>4 DEF ListAfter
  <2> QED
    BY <2>1, <2>2
<1>5. r \in Seq(Key)
  BY <1>3 DEF IsList
<1> QED
  BY <1>2, <1>3, <1>4, <1>5 DEF ListAfter

(* AfterReports is the function its definition says, and gives such lists.  *)
LEMMA AfterReportsLists ==
    ASSUME TextureInv
    PROVE  AfterReports[Len(became_unused_tex_keys)] \in ListAfter(Len(became_unused_tex_keys))
<1> DEFINE n == Len(became_unused_tex_keys)
           T == [i \in 0..n |-> ListAfter(i)]
           G == [i \in 1..n |-> [s \in Seq(Key) |-> Processed(s, became_unused_tex_keys[i])]]
<1>1. TextureTypeInv /\ n \in Nat /\ unused_items \in Seq(Key)
  BY DEF TextureInv, TextureTypeInv
<1>2. unused_items \in ListAfter(0)
  BY <1>1, ListIsList DEF ListAfter
<1>3. \A i \in 1..n : \A s \in ListAfter(i - 1) :
        Processed(s, became_unused_tex_keys[i]) \in ListAfter(i)
  BY <1>1, ListAfterNext
<1>4. \A i \in 1..n : i \in 0..n /\ i - 1 \in 0..n
  BY <1>1
<1>5. \A i \in 0..n : \A s \in T[i] : s \in Seq(Key) /\ s \in ListAfter(i)
  BY DEF ListAfter
<1>6. \A i \in 1..n : \A s \in T[i - 1] : G[i][s] \in T[i]
  BY <1>3, <1>4, <1>5
<1>7. unused_items \in T[0]
  BY <1>1, <1>2
<1> HIDE DEF n
<1> PICK f : /\ IsRecursive(f, n, unused_items, G)
             /\ \A i \in 0..n : f[i] \in T[i]
  <2> HIDE DEF T, G
  <2> QED
    BY <1>1, <1>6, <1>7, RecursiveFunctionExists
<1>8. \A i \in 1..n : G[i][f[i - 1]] = Processed(f[i - 1], became_unused_tex_keys[i])
  BY <1>4, <1>5
<1>9. f = [i \in 0..n |-> IF i = 0 THEN unused_items
                          ELSE Processed(f[i - 1], became_unused_tex_keys[i])]
  <2> HIDE DEF T, G
  <2>1. \A i \in 0..n : f[i] = IF i = 0 THEN unused_items ELSE G[i][f[i - 1]]
    BY DEF IsRecursive
  <2>2. f = [i \in 0..n |-> f[i]]
    BY DEF IsRecursive
  <2>3. \A i \in 0..n : i # 0 => i \in 1..n
    BY <1>1
  <2>4. \A i \in 0..n : f[i] = IF i = 0 THEN unused_items
                               ELSE Processed(f[i - 1], became_unused_tex_keys[i])
    BY <2>1, <2>3, <1>8
  <2> QED
    BY <2>2, <2>4
<1>10. AfterReports = [i \in 0..n |-> IF i = 0 THEN unused_items
                          ELSE Processed(AfterReports[i - 1], became_unused_tex_keys[i])]
  BY <1>9 DEF AfterReports, n
<1> DEFINE Bad == {i \in 0..n : AfterReports[i] \notin ListAfter(i)}
<1>11. Bad = {}
  <2> SUFFICES ASSUME Bad # {} PROVE FALSE
    OBVIOUS
  <2>1. Bad \in SUBSET Nat
    BY <1>1
  <2> PICK m \in Bad : \A i \in Bad : m <= i
    BY <2>1, LeastNatural
  <2>2. m \in 0..n /\ AfterReports[m] \notin ListAfter(m)
    OBVIOUS
  <2>3. CASE m = 0
    BY <2>2, <2>3, <1>2, <1>10
  <2>4. CASE m # 0
    <3>1. m \in 1..n /\ m - 1 \in 0..n /\ ~(m <= m - 1)
      BY <2>2, <2>4, <1>1
    <3>2. AfterReports[m - 1] \in ListAfter(m - 1)
      BY <3>1
    <3>3. AfterReports[m] = Processed(AfterReports[m - 1], became_unused_tex_keys[m])
      BY <3>1, <2>4, <1>10
    <3> QED
      BY <3>1, <3>2, <3>3, <2>2, <1>3
  <2> QED
    BY <2>3, <2>4
<1>12. n \in 0..n
  BY <1>1
<1> QED
  BY <1>11, <1>12 DEF n

-----------------------------------------------------------------------------
LEMMA TextureInit == InitTextures => TextureInv
<1> SUFFICES ASSUME InitTextures PROVE TextureInv
  OBVIOUS
<1> PICK k \in Key : key_of = [t \in Texture |-> k]
  BY DEF InitTextures
<1>1. TextureTypeInv
  BY FS_EmptySet DEF InitTextures, TextureTypeInv
<1>2. KeysKnown /\ FoundIsUsed /\ OneReportEach /\ UnreferencedAreNoticed
  BY TextureAssumption DEF InitTextures, OneReportEach, KeysKnown, FoundIsUsed, UnreferencedAreNoticed, Cached
<1>3. UnusedAreUnreferenced
  BY DEF InitTextures, UnusedAreUnreferenced, IsInjective, ToSet
<1> QED
  BY <1>1, <1>2, <1>3 DEF TextureInv

(* The keys in the list are keys.                                           *)
LEMMA ListKeys == TextureTypeInv => ToSet(unused_items) \subseteq Key
BY DEF TextureTypeInv, ToSet

LEMMA LookUpInv ==
    ASSUME TextureInv, NEW k \in Key, LookUp(k)
    PROVE  TextureInv'
<1> USE DEF TextureInv
<1> DEFINE t == items[k]
<1>1. t \in Texture /\ Cached(t) /\ key_of[t] = k /\ found' = t /\ found = NoTexture
  BY DEF LookUp, TextureTypeInv, KeysKnown, Cached
<1>2. /\ IsInjective(unused_items) /\ unused_items \in Seq(Key)
      /\ Without(unused_items, k) \in Seq(Key) /\ IsInjective(Without(unused_items, k))
      /\ ToSet(Without(unused_items, k)) = ToSet(unused_items) \ {k}
  BY WithoutKey DEF UnusedAreUnreferenced, TextureTypeInv
<1>3. /\ unused_items' \in Seq(Key) /\ IsInjective(unused_items')
      /\ ToSet(unused_items') = ToSet(unused_items) \ {k}
  <2>1. CASE RefCount(t) = 1
    <3>1. unused_items' = Without(unused_items, k)
      BY <1>1, <2>1 DEF LookUp, BecameUsed
    <3> QED
      BY <3>1, <1>2
  <2>2. CASE RefCount(t) # 1
    <3>1. unused_items' = unused_items
      BY <2>2 DEF LookUp
    <3>2. k \notin ToSet(unused_items)
      BY <1>1, <2>2, RefCounts DEF UnusedAreUnreferenced
    <3> QED
      BY <3>1, <3>2, <1>2
  <2> QED
    BY <2>1, <2>2
<1>4. UNCHANGED <<items, became_unused_tex_keys, tex_mem_usage, texVars, reporting, reports>>
  BY DEF LookUp
<1>5. TextureTypeInv'
  BY <1>1, <1>3, <1>4 DEF TextureTypeInv, texVars
<1>6. KeysKnown'
  BY <1>4 DEF KeysKnown, Cached, texVars
<1>7. FoundIsUsed' /\ OneReportEach'
  BY <1>1, <1>3, <1>4 DEF FoundIsUsed, OneReportEach, Cached, texVars
<1>8. UnusedAreUnreferenced'
  BY <1>3, <1>4 DEF UnusedAreUnreferenced, texVars
<1>9. UnreferencedAreNoticed'
  BY <1>1, <1>3, <1>4 DEF UnreferencedAreNoticed, texVars
<1> QED
  BY <1>5, <1>6, <1>7, <1>8, <1>9

LEMMA ReturnFoundInv ==
    ASSUME TextureInv, ReturnFound
    PROVE  TextureInv'
<1> USE DEF TextureInv
<1>1. /\ found \in Texture /\ found' = NoTexture
      /\ Cached(found) /\ key_of[found] \notin ToSet(unused_items)
      /\ holders' = [holders EXCEPT ![found] = @ \cup {Main}]
      /\ UNCHANGED <<cacheVars, key_of, inserted, reporting, reports>>
  BY DEF ReturnFound, TextureTypeInv, FoundIsUsed
<1>2. IsFiniteSet(holders[found] \cup {Main})
  BY <1>1, FS_AddElement DEF TextureTypeInv
<1>3. TextureTypeInv'
  BY <1>1, <1>2 DEF TextureTypeInv, cacheVars
<1>4. KeysKnown'
  BY <1>1 DEF KeysKnown, Cached, cacheVars
<1>5. FoundIsUsed' /\ OneReportEach'
  BY <1>1 DEF FoundIsUsed, OneReportEach
<1>6. UnusedAreUnreferenced'
  <2>1. ASSUME NEW k \in ToSet(unused_items)
        PROVE  items[k] # NoTexture /\ holders'[items[k]] = {}
    <3>1. k \in Key /\ items[k] # NoTexture /\ holders[items[k]] = {}
      BY <2>1, ListKeys DEF UnusedAreUnreferenced
    <3>2. items[k] # found
      BY <3>1, <1>1 DEF KeysKnown
    <3> QED
      BY <3>1, <3>2, <1>1 DEF TextureTypeInv
  <2> QED
    BY <2>1, <1>1 DEF UnusedAreUnreferenced, cacheVars
<1>7. UnreferencedAreNoticed'
  <2>1. \A t \in Texture : holders'[t] = {} => holders[t] = {} /\ t # found
    BY <1>1 DEF TextureTypeInv
  <2>2. \A k \in Key : items[k] # NoTexture => items[k] \in Texture
    BY DEF TextureTypeInv
  <2> QED
    BY <2>1, <2>2, <1>1 DEF UnreferencedAreNoticed, cacheVars
<1> QED
  BY <1>3, <1>4, <1>5, <1>6, <1>7

(* The keys that trimming takes out are in the list no more.                *)
LEMMA LoadInv ==
    ASSUME TextureInv, NEW k \in Key, NEW t \in Texture, Load(k, t)
    PROVE  TextureInv'
<1> USE DEF TextureInv
<1> DEFINE usage == tex_mem_usage + 1
           gone  == Evicted(usage)
<1>1. usage \in Int
  BY DEF TextureTypeInv
<1>2. /\ found = NoTexture /\ items[k] = NoTexture /\ RefCount(t) = 0
      /\ key_of' = [key_of EXCEPT ![t] = k]
      /\ inserted' = [u \in Texture |-> u = t \/ (inserted[u] /\ ~\E j \in gone : items[j] = u)]
      /\ items' = [j \in Key |-> IF j = k THEN t ELSE IF j \in gone THEN NoTexture ELSE items[j]]
      /\ holders' = [holders EXCEPT ![t] = {Main}]
      /\ unused_items' = Kept(usage)
      /\ tex_mem_usage' = usage - Excess(usage)
      /\ UNCHANGED <<became_unused_tex_keys, found, reporting, reports>>
  <2>1. inserted' = [u \in Texture |-> u = t \/ (inserted[u] /\ ~\E j \in gone : items[j] = u)]
    BY Zenon DEF Load
  <2>2. items' = [j \in Key |-> IF j = k THEN t ELSE IF j \in gone THEN NoTexture ELSE items[j]]
    BY Zenon DEF Load
  <2>3. found = NoTexture /\ items[k] = NoTexture /\ RefCount(t) = 0
    BY Zenon DEF Load
  <2>4. /\ key_of' = [key_of EXCEPT ![t] = k]
        /\ holders' = [holders EXCEPT ![t] = {Main}]
    BY Zenon DEF Load
  <2>5. /\ unused_items' = Kept(usage)
        /\ tex_mem_usage' = usage - Excess(usage)
    BY Zenon DEF Load
  <2>6. UNCHANGED <<became_unused_tex_keys, found, reporting, reports>>
    BY Zenon DEF Load
  <2> HIDE DEF usage, gone
  <2> QED
    BY <2>1, <2>2, <2>3, <2>4, <2>5, <2>6
<1>3. /\ Kept(usage) \in Seq(Key) /\ IsInjective(Kept(usage))
      /\ ToSet(Kept(usage)) \subseteq ToSet(unused_items)
      /\ Excess(usage) \in Nat
  BY <1>1, KeptKeys DEF UnusedAreUnreferenced
<1>4. gone = ToSet(unused_items) \ ToSet(Kept(usage)) /\ gone \subseteq Key
  BY ListKeys DEF Evicted
<1> HIDE DEF usage, gone
<1>5. /\ ~Cached(t) /\ holders[t] = {} /\ \A j \in Key : items[j] # t
      /\ k \notin ToSet(unused_items)
  <2>1. ~(RefCount(t) > 0)
    BY <1>2
  <2> QED
    BY <2>1, <1>2, RefCounts DEF Cached, UnusedAreUnreferenced
<1>6. \A j \in Key : items'[j] # NoTexture =>
        \/ j = k /\ items'[j] = t
        \/ j # k /\ j \notin gone /\ items'[j] = items[j] /\ items[j] \in Texture /\ items[j] # t
  BY <1>2, <1>5 DEF TextureTypeInv
<1>7. TextureTypeInv'
  <2>1. IsFiniteSet({Main})
    BY FS_Singleton
  <2>2. tex_mem_usage' \in Int
    BY <1>1, <1>2, <1>3
  <2>3. items' \in [Key -> Texture \cup {NoTexture}]
    BY <1>2 DEF TextureTypeInv
  <2>4. holders' \in [Texture -> SUBSET (Others \cup {Main})]
        /\ \A u \in Texture : IsFiniteSet(holders'[u])
    BY <1>2, <2>1 DEF TextureTypeInv
  <2>5. key_of' \in [Texture -> Key]
    BY <1>2 DEF TextureTypeInv
  <2>6. inserted' \in [Texture -> BOOLEAN]
    BY <1>2
  <2> QED
    BY <1>2, <1>3, <2>2, <2>3, <2>4, <2>5, <2>6 DEF TextureTypeInv
<1>8. KeysKnown'
  <2>1. \A j \in Key : items'[j] # NoTexture => key_of'[items'[j]] = j
    BY <1>2, <1>6 DEF KeysKnown, TextureTypeInv
  <2>2. ASSUME NEW u \in Texture
        PROVE  inserted'[u] <=> \E j \in Key : items'[j] = u
    <3>1. CASE u = t
      BY <3>1, <1>2
    <3>2. CASE u # t
      <4>1. u # NoTexture
        BY TextureAssumption
      <4>2. ASSUME NEW j \in Key, items[j] = u
            PROVE  j # k /\ \A l \in gone : items[l] = u => l = j
        BY <4>1, <4>2, <1>2, <1>4 DEF KeysKnown
      <4>3. inserted'[u] <=> inserted[u] /\ ~\E j \in gone : items[j] = u
        BY <3>2, <1>2
      <4>4. inserted[u] <=> \E j \in Key : items[j] = u
        BY DEF KeysKnown, Cached
      <4>5. \A j \in Key : items'[j] = u <=> j # k /\ j \notin gone /\ items[j] = u
        BY <3>2, <4>1, <1>2
      <4> QED
        BY <4>2, <4>3, <4>4, <4>5, <1>4
    <3> QED
      BY <3>1, <3>2
  <2> QED
    BY <2>1, <2>2 DEF KeysKnown, Cached
<1>9. FoundIsUsed' /\ OneReportEach'
  BY <1>2 DEF FoundIsUsed, OneReportEach
<1>10. UnusedAreUnreferenced'
  <2>1. ASSUME NEW j \in ToSet(Kept(usage))
        PROVE  items'[j] # NoTexture /\ holders'[items'[j]] = {}
    <3>1. /\ j \in Key /\ j \notin gone /\ j # k
          /\ items[j] # NoTexture /\ holders[items[j]] = {}
      BY <2>1, <1>3, <1>4, <1>5, ListKeys DEF UnusedAreUnreferenced
    <3> QED
      BY <3>1, <1>2, <1>5 DEF TextureTypeInv
  <2> QED
    BY <2>1, <1>2, <1>3 DEF UnusedAreUnreferenced
<1>11. UnreferencedAreNoticed'
  <2> SUFFICES ASSUME NEW j \in Key, items'[j] # NoTexture, holders'[items'[j]] = {}
               PROVE  \/ j \in ToSet(unused_items') \cup ToSet(became_unused_tex_keys')
                      \/ found' = items'[j]
                      \/ \E u \in Others : reporting'[u] = items'[j] \/ j \in reports'[u]
    BY DEF UnreferencedAreNoticed
  <2>1. /\ j # k /\ j \notin gone /\ items'[j] = items[j] /\ items[j] # NoTexture
        /\ holders[items[j]] = {}
    <3>1. holders'[t] = {Main}
      BY <1>2 DEF TextureTypeInv
    <3> QED
      BY <3>1, <1>2, <1>6 DEF TextureTypeInv
  <2>2. j \in ToSet(unused_items) => j \in ToSet(unused_items')
    BY <2>1, <1>2, <1>4
  <2> QED
    BY <2>1, <2>2, <1>2 DEF UnreferencedAreNoticed
<1> QED
  BY <1>7, <1>8, <1>9, <1>10, <1>11

LEMMA TrimInv ==
    ASSUME TextureInv, TrimTextureUsage
    PROVE  TextureInv'
<1> USE DEF TextureInv
<1> DEFINE gone == Evicted(tex_mem_usage)
<1>1. /\ found = NoTexture
      /\ inserted' = [t \in Texture |-> inserted[t] /\ ~\E k \in gone : items[k] = t]
      /\ items' = [k \in Key |-> IF k \in gone THEN NoTexture ELSE items[k]]
      /\ unused_items' = Kept(tex_mem_usage)
      /\ tex_mem_usage' = tex_mem_usage - Excess(tex_mem_usage)
      /\ UNCHANGED <<became_unused_tex_keys, key_of, holders, found, reporting, reports>>
  BY DEF TrimTextureUsage
<1>2. /\ Kept(tex_mem_usage) \in Seq(Key) /\ IsInjective(Kept(tex_mem_usage))
      /\ ToSet(Kept(tex_mem_usage)) \subseteq ToSet(unused_items)
      /\ tex_mem_usage \in Int /\ Excess(tex_mem_usage) \in Nat
  BY KeptKeys DEF UnusedAreUnreferenced, TextureTypeInv
<1>3. /\ gone = ToSet(unused_items) \ ToSet(Kept(tex_mem_usage))
      /\ gone \subseteq Key
  BY ListKeys DEF Evicted
<1> HIDE DEF gone
<1>4. TextureTypeInv'
  <2>1. items' \in [Key -> Texture \cup {NoTexture}]
    BY <1>1 DEF TextureTypeInv
  <2>2. inserted' \in [Texture -> BOOLEAN]
    BY <1>1
  <2>3. tex_mem_usage' \in Int
    BY <1>1, <1>2
  <2> QED
    BY <2>1, <2>2, <2>3, <1>1, <1>2 DEF TextureTypeInv
<1>5. KeysKnown'
  <2>1. \A j \in Key : items'[j] # NoTexture => key_of'[items'[j]] = j
    BY <1>1 DEF KeysKnown
  <2>2. ASSUME NEW t \in Texture
        PROVE  inserted'[t] <=> \E j \in Key : items'[j] = t
    <3>1. t # NoTexture
      BY TextureAssumption
    <3>2. ASSUME NEW j \in Key, items[j] = t
          PROVE  \A l \in gone : items[l] = t => l = j
      BY <3>1, <3>2, <1>3 DEF KeysKnown
    <3>3. inserted'[t] <=> inserted[t] /\ ~\E j \in gone : items[j] = t
      BY <1>1
    <3>4. inserted[t] <=> \E j \in Key : items[j] = t
      BY DEF KeysKnown, Cached
    <3>5. \A j \in Key : items'[j] = t <=> j \notin gone /\ items[j] = t
      BY <3>1, <1>1
    <3> QED
      BY <3>2, <3>3, <3>4, <3>5, <1>3
  <2> QED
    BY <2>1, <2>2 DEF KeysKnown, Cached
<1>6. FoundIsUsed' /\ OneReportEach'
  BY <1>1 DEF FoundIsUsed, OneReportEach
<1>7. UnusedAreUnreferenced'
  <2>1. ASSUME NEW j \in ToSet(Kept(tex_mem_usage))
        PROVE  items'[j] # NoTexture /\ holders'[items'[j]] = {}
    <3>1. j \in Key /\ j \notin gone /\ items[j] # NoTexture /\ holders[items[j]] = {}
      BY <2>1, <1>2, <1>3, ListKeys DEF UnusedAreUnreferenced
    <3> QED
      BY <3>1, <1>1
  <2> QED
    BY <2>1, <1>1, <1>2 DEF UnusedAreUnreferenced
<1>8. UnreferencedAreNoticed'
  <2> SUFFICES ASSUME NEW j \in Key, items'[j] # NoTexture, holders'[items'[j]] = {}
               PROVE  \/ j \in ToSet(unused_items') \cup ToSet(became_unused_tex_keys')
                      \/ found' = items'[j]
                      \/ \E u \in Others : reporting'[u] = items'[j] \/ j \in reports'[u]
    BY DEF UnreferencedAreNoticed
  <2>1. j \notin gone /\ items'[j] = items[j]
    BY <1>1
  <2>2. j \in ToSet(unused_items) => j \in ToSet(unused_items')
    BY <2>1, <1>1, <1>3
  <2> QED
    BY <2>1, <2>2, <1>1 DEF UnreferencedAreNoticed
<1> QED
  BY <1>4, <1>5, <1>6, <1>7, <1>8

LEMMA RemoveInv ==
    ASSUME TextureInv, NEW k \in Key, RemoveOpenGLTexture(k)
    PROVE  TextureInv'
<1> USE DEF TextureInv
<1>1. /\ found = NoTexture /\ items[k] \in Texture
      /\ inserted' = [inserted EXCEPT ![items[k]] = FALSE]
      /\ items' = [items EXCEPT ![k] = NoTexture]
      /\ unused_items' = Without(unused_items, k)
      /\ tex_mem_usage' = tex_mem_usage - 1
      /\ UNCHANGED <<became_unused_tex_keys, key_of, holders, found, reporting, reports>>
  BY DEF RemoveOpenGLTexture, TextureTypeInv
<1>2. /\ unused_items' \in Seq(Key) /\ IsInjective(unused_items')
      /\ ToSet(unused_items') = ToSet(unused_items) \ {k}
  <2>1. unused_items \in Seq(Key) /\ IsInjective(unused_items)
    BY DEF UnusedAreUnreferenced, TextureTypeInv
  <2> QED
    BY <2>1, <1>1, WithoutKey
<1>3. TextureTypeInv'
  BY <1>1, <1>2 DEF TextureTypeInv
<1>4. KeysKnown'
  <2>1. \A j \in Key : items'[j] # NoTexture => key_of'[items'[j]] = j
    BY <1>1 DEF KeysKnown, TextureTypeInv
  <2>2. ASSUME NEW t \in Texture
        PROVE  inserted'[t] <=> \E j \in Key : items'[j] = t
    <3>1. t # NoTexture
      BY TextureAssumption
    <3>2. inserted'[t] <=> inserted[t] /\ t # items[k]
      BY <1>1 DEF TextureTypeInv
    <3>3. inserted[t] <=> \E j \in Key : items[j] = t
      BY DEF KeysKnown, Cached
    <3>4. \A j \in Key : items'[j] = t <=> j # k /\ items[j] = t
      BY <3>1, <1>1 DEF TextureTypeInv
    <3>5. \A j \in Key : items[j] = t /\ t = items[k] => j = k
      BY <3>1, <1>1 DEF KeysKnown
    <3> QED
      BY <3>2, <3>3, <3>4, <3>5
  <2> QED
    BY <2>1, <2>2 DEF KeysKnown, Cached
<1>5. FoundIsUsed' /\ OneReportEach'
  BY <1>1 DEF FoundIsUsed, OneReportEach
<1>6. \A j \in Key \ {k} : items'[j] = items[j]
  BY <1>1 DEF TextureTypeInv
<1>7. items'[k] = NoTexture
  BY <1>1 DEF TextureTypeInv
<1>8. UnusedAreUnreferenced'
  <2>1. ASSUME NEW j \in ToSet(unused_items')
        PROVE  items'[j] # NoTexture /\ holders'[items'[j]] = {}
    <3>1. j \in Key \ {k} /\ items[j] # NoTexture /\ holders[items[j]] = {}
      BY <2>1, <1>2, ListKeys DEF UnusedAreUnreferenced
    <3> QED
      BY <3>1, <1>1, <1>6
  <2> QED
    BY <2>1, <1>2 DEF UnusedAreUnreferenced
<1>9. UnreferencedAreNoticed'
  BY <1>1, <1>2, <1>6, <1>7 DEF UnreferencedAreNoticed
<1> QED
  BY <1>3, <1>4, <1>5, <1>8, <1>9

LEMMA UnloadInv ==
    ASSUME TextureInv, UnloadAllData
    PROVE  TextureInv'
<1> USE DEF TextureInv
<1>1. /\ found = NoTexture
      /\ inserted' = [t \in Texture |-> inserted[t] /\ ~Cached(t)]
      /\ items' = [k \in Key |-> NoTexture]
      /\ unused_items' = <<>>
      /\ tex_mem_usage' = 0
      /\ UNCHANGED <<became_unused_tex_keys, key_of, holders, found, reporting, reports>>
  BY DEF UnloadAllData
<1>2. \A t \in Texture : ~inserted'[t]
  BY <1>1 DEF KeysKnown
<1>3. inserted' \in [Texture -> BOOLEAN]
  BY <1>1
<1>4. TextureTypeInv'
  BY <1>1, <1>3 DEF TextureTypeInv
<1>5. KeysKnown' /\ FoundIsUsed' /\ OneReportEach' /\ UnreferencedAreNoticed'
  BY <1>1, <1>2, TextureAssumption DEF KeysKnown, OneReportEach, FoundIsUsed, UnreferencedAreNoticed, Cached
<1>6. UnusedAreUnreferenced'
  BY <1>1 DEF UnusedAreUnreferenced, IsInjective, ToSet
<1> QED
  BY <1>4, <1>5, <1>6

(* draw's walk adds to the list what has no other reference.                *)
LEMMA ProcessReportsInv ==
    ASSUME TextureInv, ProcessReports
    PROVE  TextureInv'
<1> USE DEF TextureInv
<1> DEFINE n == Len(became_unused_tex_keys)
           after == AfterReports[n]
<1>1. after \in ListAfter(n)
  BY AfterReportsLists
<1>2. /\ found = NoTexture
      /\ unused_items' = after
      /\ became_unused_tex_keys' = <<>>
      /\ UNCHANGED <<items, tex_mem_usage, texVars, found, reporting, reports>>
  BY DEF ProcessReports
<1>3. \A k \in ToSet(became_unused_tex_keys) : Unreferenced(k) => k \in ToSet(after)
  <2>1. \A j \in 1..n : LET k == became_unused_tex_keys[j] IN
                        Unreferenced(k) => k \in ToSet(after)
    BY <1>1 DEF ListAfter
  <2>2. ToSet(became_unused_tex_keys) = {became_unused_tex_keys[j] : j \in 1..n}
    BY DEF ToSet, TextureTypeInv
  <2> QED
    BY ONLY <2>1, <2>2
<1>4. after \in Seq(Key) /\ IsList(after) /\ ToSet(unused_items) \subseteq ToSet(after)
  BY <1>1 DEF ListAfter
<1> HIDE DEF after, n
<1>5. TextureTypeInv'
  BY <1>2, <1>4 DEF TextureTypeInv, texVars
<1>6. KeysKnown' /\ FoundIsUsed' /\ OneReportEach'
  BY <1>2 DEF KeysKnown, OneReportEach, FoundIsUsed, Cached, texVars
<1>7. UnusedAreUnreferenced'
  BY <1>2, <1>4 DEF UnusedAreUnreferenced, IsList, Unreferenced, texVars
<1>8. UnreferencedAreNoticed'
  BY <1>2, <1>3, <1>4 DEF UnreferencedAreNoticed, Unreferenced, texVars
<1> QED
  BY <1>5, <1>6, <1>7, <1>8

(* The main thread's reference was the last but the cache's.                *)
LEMMA DropOnMainInv ==
    ASSUME TextureInv, NEW t \in Texture, DropOnMain(t)
    PROVE  TextureInv'
<1> USE DEF TextureInv
<1>1. /\ found = NoTexture /\ Main \in holders[t]
      /\ holders' = [holders EXCEPT ![t] = @ \ {Main}]
      /\ unused_items' = IF RefCount(t) = 2 /\ inserted[t] THEN BecameUnused(unused_items, key_of[t])
                         ELSE unused_items
      /\ UNCHANGED <<items, became_unused_tex_keys, tex_mem_usage, key_of, inserted, found,
                     reporting, reports>>
  BY DEF DropOnMain
<1>2. IsFiniteSet(holders[t] \ {Main})
  BY FS_RemoveElement DEF TextureTypeInv
<1>3. /\ \A u \in Texture : u # t => holders'[u] = holders[u]
      /\ holders'[t] = holders[t] \ {Main}
  BY <1>1 DEF TextureTypeInv
<1>4. unused_items \in Seq(Key) /\ IsInjective(unused_items)
  BY DEF TextureTypeInv, UnusedAreUnreferenced
<1>5. \A k \in ToSet(unused_items) : k \in Key /\ items[k] \in Texture /\ items[k] # t
  BY <1>1, ListKeys DEF UnusedAreUnreferenced, TextureTypeInv
<1>6. CASE RefCount(t) = 2 /\ inserted[t]
  <2> DEFINE k == key_of[t]
  <2>1. Cached(t)
    BY <1>6 DEF KeysKnown
  <2>2. k \in Key /\ items[k] = t /\ t # NoTexture
    <3>1. PICK j \in Key : items[j] = t
      BY <2>1 DEF Cached
    <3>2. t # NoTexture
      BY TextureAssumption
    <3>3. k = j
      BY <3>1, <3>2 DEF KeysKnown
    <3> QED
      BY <3>1, <3>2, <3>3
  <2>3. holders'[t] = {}
    BY <2>1, <1>1, <1>3, <1>6, RefCounts
  <2> HIDE DEF k
  <2>4. k \notin ToSet(unused_items)
    BY <2>2, <1>5
  <2>5. unused_items' = <<k>> \o unused_items
    BY <2>2, <2>4, <1>1, <1>6 DEF BecameUnused, k
  <2>6. /\ unused_items' \in Seq(Key) /\ IsInjective(unused_items')
        /\ ToSet(unused_items') = ToSet(unused_items) \cup {k}
    BY <2>2, <2>4, <2>5, <1>4, KeyFirst
  <2>7. TextureTypeInv'
    BY <2>6, <1>1, <1>2 DEF TextureTypeInv
  <2>8. KeysKnown' /\ FoundIsUsed' /\ OneReportEach'
    BY <1>1 DEF KeysKnown, OneReportEach, FoundIsUsed, Cached
  <2>9. UnusedAreUnreferenced'
    <3>1. ASSUME NEW j \in ToSet(unused_items)
          PROVE  items'[j] # NoTexture /\ holders'[items'[j]] = {}
      BY <1>1, <1>3, <1>5 DEF UnusedAreUnreferenced
    <3>2. items'[k] # NoTexture /\ holders'[items'[k]] = {}
      BY <2>2, <2>3, <1>1
    <3> QED
      BY <3>1, <3>2, <2>6 DEF UnusedAreUnreferenced
  <2>10. UnreferencedAreNoticed'
    <3> SUFFICES ASSUME NEW j \in Key, items'[j] # NoTexture, holders'[items'[j]] = {}
                 PROVE  \/ j \in ToSet(unused_items') \cup ToSet(became_unused_tex_keys')
                        \/ found' = items'[j]
                        \/ \E u \in Others : reporting'[u] = items'[j] \/ j \in reports'[u]
      BY DEF UnreferencedAreNoticed
    <3>1. CASE items[j] = t
      <4>1. j = k
        BY <3>1, <2>2 DEF KeysKnown, k
      <4> QED
        BY <4>1, <2>6
    <3>2. CASE items[j] # t
      <4>1. holders[items[j]] = {} /\ items[j] # NoTexture
        BY <3>2, <1>1, <1>3 DEF TextureTypeInv
      <4> QED
        BY <4>1, <2>6, <1>1 DEF UnreferencedAreNoticed
    <3> QED
      BY <3>1, <3>2
  <2> QED
    BY <2>7, <2>8, <2>9, <2>10
<1>7. CASE ~(RefCount(t) = 2 /\ inserted[t])
  <2>1. unused_items' = unused_items
    BY <1>1, <1>7
  <2>2. TextureTypeInv'
    BY <2>1, <1>1, <1>2 DEF TextureTypeInv
  <2>3. KeysKnown' /\ FoundIsUsed' /\ OneReportEach'
    BY <1>1 DEF KeysKnown, OneReportEach, FoundIsUsed, Cached
  <2>4. UnusedAreUnreferenced'
    BY <2>1, <1>1, <1>3, <1>5 DEF UnusedAreUnreferenced
  <2>5. Cached(t) => holders'[t] # {}
    <3>1. Cached(t) => inserted[t]
      BY DEF KeysKnown
    <3> QED
      BY <3>1, <1>1, <1>3, <1>7, RefCounts
  <2>6. UnreferencedAreNoticed'
    <3> SUFFICES ASSUME NEW j \in Key, items'[j] # NoTexture, holders'[items'[j]] = {}
                 PROVE  \/ j \in ToSet(unused_items') \cup ToSet(became_unused_tex_keys')
                        \/ found' = items'[j]
                        \/ \E u \in Others : reporting'[u] = items'[j] \/ j \in reports'[u]
      BY DEF UnreferencedAreNoticed
    <3>1. items[j] # t
      BY <2>5, <1>1 DEF Cached
    <3>2. holders[items[j]] = {} /\ items[j] # NoTexture
      BY <3>1, <1>1, <1>3 DEF TextureTypeInv
    <3> QED
      BY <3>2, <2>1, <1>1 DEF UnreferencedAreNoticed
  <2> QED
    BY <2>2, <2>3, <2>4, <2>6
<1> QED
  BY <1>6, <1>7

LEMMA ShareInv ==
    ASSUME TextureInv, NEW t \in Texture, NEW u \in Others, Share(t, u)
    PROVE  TextureInv'
<1> USE DEF TextureInv
<1>1. /\ holders[t] # {}
      /\ holders' = [holders EXCEPT ![t] = @ \cup {u}]
      /\ UNCHANGED <<cacheVars, key_of, inserted, found, reporting, reports>>
  BY DEF Share
<1>2. IsFiniteSet(holders[t] \cup {u})
  BY FS_AddElement DEF TextureTypeInv
<1>3. \A v \in Texture : holders'[v] = {} <=> holders[v] = {}
  BY <1>1 DEF TextureTypeInv
<1>4. TextureTypeInv'
  BY <1>1, <1>2 DEF TextureTypeInv, cacheVars
<1>5. KeysKnown' /\ FoundIsUsed' /\ OneReportEach'
  BY <1>1 DEF KeysKnown, OneReportEach, FoundIsUsed, Cached, cacheVars
<1>6. \A k \in Key : items[k] # NoTexture => items[k] \in Texture
  BY DEF TextureTypeInv
<1>7. UnusedAreUnreferenced'
  BY <1>1, <1>3, <1>6, ListKeys DEF UnusedAreUnreferenced, cacheVars
<1>8. UnreferencedAreNoticed'
  BY <1>1, <1>3, <1>6 DEF UnreferencedAreNoticed, cacheVars
<1> QED
  BY <1>4, <1>5, <1>7, <1>8

(* Who brings the count to 1 reports it.                                    *)
LEMMA DropInv ==
    ASSUME TextureInv, NEW t \in Texture, NEW u \in Others, Drop(t, u)
    PROVE  TextureInv'
<1> USE DEF TextureInv
<1>1. /\ u \in holders[t] /\ reporting[u] = NoTexture /\ reports[u] = {}
      /\ holders' = [holders EXCEPT ![t] = @ \ {u}]
      /\ reporting' = [reporting EXCEPT ![u] = IF RefCount(t) = 2 THEN t ELSE NoTexture]
      /\ UNCHANGED <<cacheVars, key_of, inserted, found, reports>>
  BY DEF Drop
<1>2. IsFiniteSet(holders[t] \ {u})
  BY FS_RemoveElement DEF TextureTypeInv
<1>3. /\ \A v \in Texture : v # t => holders'[v] = holders[v]
      /\ holders'[t] = holders[t] \ {u}
  BY <1>1 DEF TextureTypeInv
<1>4. TextureTypeInv'
  BY <1>1, <1>2 DEF TextureTypeInv, cacheVars
<1>5. KeysKnown' /\ FoundIsUsed' /\ OneReportEach'
  <2>1. OneReportEach'
    BY <1>1 DEF OneReportEach, TextureTypeInv
  <2> QED
    BY <2>1, <1>1 DEF KeysKnown, FoundIsUsed, Cached, cacheVars
<1>6. \A k \in Key : items[k] # NoTexture => items[k] \in Texture
  BY DEF TextureTypeInv
<1>7. UnusedAreUnreferenced'
  BY <1>1, <1>3, <1>6, ListKeys DEF UnusedAreUnreferenced, cacheVars
<1>8. UnreferencedAreNoticed'
  <2> SUFFICES ASSUME NEW j \in Key, items'[j] # NoTexture, holders'[items'[j]] = {}
               PROVE  \/ j \in ToSet(unused_items') \cup ToSet(became_unused_tex_keys')
                      \/ found' = items'[j]
                      \/ \E v \in Others : reporting'[v] = items'[j] \/ j \in reports'[v]
    BY DEF UnreferencedAreNoticed
  <2>1. items'[j] = items[j] /\ items[j] \in Texture /\ items[j] # NoTexture
    BY <1>1, <1>6 DEF cacheVars
  <2>2. CASE items[j] = t
    <3>1. RefCount(t) = 2
      BY <2>1, <2>2, <1>1, <1>3, RefCounts DEF Cached
    <3>2. reporting'[u] = t
      BY <3>1, <1>1 DEF TextureTypeInv
    <3> QED
      BY <3>2, <2>1, <2>2
  <2>3. CASE items[j] # t
    <3>1. holders[items[j]] = {}
      BY <2>1, <2>3, <1>3
    <3>2. \A v \in Others : reporting[v] = items[j] => reporting'[v] = items[j]
      BY <2>1, <1>1 DEF TextureTypeInv
    <3> QED
      BY <3>1, <3>2, <2>1, <1>1 DEF UnreferencedAreNoticed, cacheVars
  <2> QED
    BY <2>2, <2>3
<1> QED
  BY <1>4, <1>5, <1>7, <1>8

(* The key of a texture that is still in the cache is read as it is.        *)
LEMMA ReadTextureInv ==
    ASSUME TextureInv, NEW u \in Others, ReadTexture(u)
    PROVE  TextureInv'
<1> USE DEF TextureInv
<1> DEFINE t == reporting[u]
<1> PICK r \in {{j} : j \in Key} \cup {{}} :
           /\ RefCount(t) > 0 => r = IF inserted[t] THEN {key_of[t]} ELSE {}
           /\ reports' = [reports EXCEPT ![u] = r]
  BY DEF ReadTexture
<1>1. /\ t \in Texture
      /\ reporting' = [reporting EXCEPT ![u] = NoTexture]
      /\ UNCHANGED <<cacheVars, texVars, found>>
  BY DEF ReadTexture, TextureTypeInv
<1>2. TextureTypeInv'
  BY <1>1 DEF TextureTypeInv, cacheVars, texVars
<1>3. KeysKnown' /\ FoundIsUsed' /\ OneReportEach' /\ UnusedAreUnreferenced'
  <2>1. OneReportEach'
    BY <1>1, TextureAssumption DEF OneReportEach, TextureTypeInv
  <2> QED
    BY <2>1, <1>1 DEF KeysKnown, FoundIsUsed, UnusedAreUnreferenced, Cached, cacheVars, texVars
<1>4. ASSUME NEW k \in Key, items[k] = t
      PROVE  k \in reports'[u]
  <2>1. Cached(t) /\ t # NoTexture
    BY <1>1, <1>4, TextureAssumption DEF Cached
  <2>2. inserted[t] /\ key_of[t] = k /\ RefCount(t) > 0
    BY <2>1, <1>1, <1>4, RefCounts DEF KeysKnown
  <2> QED
    BY <2>2 DEF TextureTypeInv
<1>5. UnreferencedAreNoticed'
  <2> SUFFICES ASSUME NEW j \in Key, items'[j] # NoTexture, holders'[items'[j]] = {}
               PROVE  \/ j \in ToSet(unused_items') \cup ToSet(became_unused_tex_keys')
                      \/ found' = items'[j]
                      \/ \E v \in Others : reporting'[v] = items'[j] \/ j \in reports'[v]
    BY DEF UnreferencedAreNoticed
  <2>1. CASE items[j] = t
    BY <2>1, <1>4
  <2>2. CASE items[j] # t
    <3>1. reports[u] = {}
      BY <1>1, TextureAssumption DEF OneReportEach
    <3>2. \A v \in Others : v # u => reporting'[v] = reporting[v] /\ reports'[v] = reports[v]
      BY <1>1 DEF TextureTypeInv
    <3> QED
      BY <3>1, <3>2, <2>2, <1>1 DEF UnreferencedAreNoticed, cacheVars, texVars
  <2> QED
    BY <2>1, <2>2
<1> QED
  BY <1>2, <1>3, <1>5

LEMMA ReportInv ==
    ASSUME TextureInv, NEW u \in Others, Report(u)
    PROVE  TextureInv'
<1> USE DEF TextureInv
<1> PICK k \in reports[u] : became_unused_tex_keys' = Append(became_unused_tex_keys, k)
  BY DEF Report
<1>1. /\ reports' = [reports EXCEPT ![u] = {}]
      /\ UNCHANGED <<items, unused_items, tex_mem_usage, texVars, found, reporting>>
  BY DEF Report
<1>2. k \in Key /\ reports[u] = {k}
  BY DEF TextureTypeInv
<1>3. /\ became_unused_tex_keys' \in Seq(Key)
      /\ ToSet(became_unused_tex_keys') = ToSet(became_unused_tex_keys) \cup {k}
  <2> DEFINE n == Len(became_unused_tex_keys)
             r == Append(became_unused_tex_keys, k)
  <2>1. /\ n \in Nat /\ DOMAIN became_unused_tex_keys = 1..n
        /\ r \in Seq(Key) /\ DOMAIN r = 1..n + 1
        /\ \A i \in 1..n : r[i] = became_unused_tex_keys[i]
        /\ r[n + 1] = k
    BY <1>2 DEF TextureTypeInv
  <2> HIDE DEF n, r
  <2>2. \A i \in 1..n + 1 : i = n + 1 \/ i \in 1..n
    BY <2>1
  <2>3. \A i \in 1..n : i \in 1..n + 1
    BY <2>1
  <2>4. n + 1 \in 1..n + 1
    BY <2>1
  <2>5. ToSet(r) \subseteq ToSet(became_unused_tex_keys) \cup {k}
    BY <2>1, <2>2 DEF ToSet
  <2>6. k \in ToSet(r)
    BY <2>1, <2>4 DEF ToSet
  <2>7. ToSet(became_unused_tex_keys) \subseteq ToSet(r)
    BY <2>1, <2>3 DEF ToSet
  <2> QED
    BY <2>1, <2>5, <2>6, <2>7 DEF r
<1>4. TextureTypeInv'
  BY <1>1, <1>3 DEF TextureTypeInv, texVars
<1>5. KeysKnown' /\ FoundIsUsed' /\ UnusedAreUnreferenced'
  BY <1>1 DEF KeysKnown, FoundIsUsed, UnusedAreUnreferenced, Cached, texVars
<1>6. OneReportEach'
  BY <1>1 DEF OneReportEach, TextureTypeInv
<1>7. UnreferencedAreNoticed'
  <2>1. \A v \in Others : v # u => reports'[v] = reports[v]
    BY <1>1 DEF TextureTypeInv
  <2> QED
    BY <2>1, <1>1, <1>2, <1>3 DEF UnreferencedAreNoticed, texVars
<1> QED
  BY <1>4, <1>5, <1>6, <1>7

LEMMA TextureStep == TextureInv /\ [NextTextures]_textureVars => TextureInv'
<1> SUFFICES ASSUME TextureInv, [NextTextures]_textureVars PROVE TextureInv'
  OBVIOUS
<1>1. CASE NextTextures
  BY <1>1, LookUpInv, RemoveInv, LoadInv, ReturnFoundInv, UnloadInv, ProcessReportsInv, TrimInv,
     DropOnMainInv, ShareInv, DropInv, ReadTextureInv, ReportInv DEF NextTextures
<1>2. CASE UNCHANGED textureVars
  BY <1>2 DEF textureVars, cacheVars, texVars, TextureInv, TextureTypeInv, KeysKnown, FoundIsUsed,
              OneReportEach, UnusedAreUnreferenced, UnreferencedAreNoticed, Cached
<1> QED
  BY <1>1, <1>2

(* "Therefore the texture is not used": what trimming takes out of the      *)
(* cache, to free its memory, has no reference to it but the cache's,       *)
(* whichever threads drop, report and look up in between.                   *)
THEOREM TrimsUnreferenced == SpecTextures => []UnusedAreUnreferenced
<1>1. TextureInv => UnusedAreUnreferenced
  BY DEF TextureInv
<1> QED
  BY <1>1, TextureInit, TextureStep, PTL DEF SpecTextures

(* A texture that only the cache refers to is in the list, or its key is on *)
(* the way there.                                                           *)
THEOREM NoneStaysUnnoticed == SpecTextures => []UnreferencedAreNoticed
<1>1. TextureInv => UnreferencedAreNoticed
  BY DEF TextureInv
<1> QED
  BY <1>1, TextureInit, TextureStep, PTL DEF SpecTextures
=============================================================================
