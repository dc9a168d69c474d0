------------------------------ MODULE HashMap -------------------------------
(***************************************************************************)
(* HashMap (utils/HashMap.h): open addressing with linear probing.  There  *)
(* are no tombstones: erase moves later items back into the hole, and find *)
(* stops at the first empty bucket.  Buckets are counted from 0 as in the  *)
(* code; buckets[i + 1] is the code's buckets[i].                          *)
(***************************************************************************)
EXTENDS Integers, Sequences, SequencesExt

CONSTANTS HashKey, Value,
          EmptyKey,     \* empty_key
          Missing,      \* what find answers by end()
          InitSize,     \* 32: the buckets of a new map
          Hashes        \* the hash functions considered

ASSUME MapAssumption ==
    /\ EmptyKey \notin HashKey /\ Missing \notin Value
    /\ InitSize \in Nat \ {0} /\ \A h \in Hashes : \A k \in HashKey : h[k] \in Nat

VARIABLES buckets,      \* pairs of key and value
          num_items,
          hash_func

hashVars == <<buckets, num_items, hash_func>>

EmptyBucket == [key |-> EmptyKey, value |-> Missing]
EmptyBuckets(n) == [i \in 1..n |-> EmptyBucket]

InitMap ==
    /\ buckets = EmptyBuckets(InitSize)
    /\ num_items = 0
    /\ hash_func \in Hashes

-----------------------------------------------------------------------------
(* The i-th bucket after bucket j, around the end: (j + i) & hash_mask.     *)
Bucket(b, j, i) == (j + i) % Len(b)
KeyAt(b, j)    == b[j + 1].key
hashKey(b, k)  == hash_func[k] % Len(b)

(* The bucket at which the search for k stops: k's own, or an empty one.    *)
Probe(b, k) ==
    LET Stops(i) == KeyAt(b, Bucket(b, hashKey(b, k), i)) \in {k, EmptyKey}
    IN  Bucket(b, hashKey(b, k), Min({i \in 0..Len(b) - 1 : Stops(i)}))

IsIn(b, k) == KeyAt(b, Probe(b, k)) = k
Put(b, p)  == [b EXCEPT ![Probe(b, p.key) + 1] = p]

(* expand: the items go, in the order of the old buckets, to twice as many. *)
Rehash(b, p) == IF p.key = EmptyKey THEN b ELSE Put(b, p)
Expanded(b) ==
    LET c[n \in 0..Len(b)] ==
            IF n = 0 THEN EmptyBuckets(2 * Len(b)) ELSE Rehash(c[n - 1], b[n])
    IN  c[Len(b)]

(* Mutant of Roomy: the buckets may fill up.                                *)
RoomyWhenFull(b) == IF num_items >= Len(b) THEN Expanded(b) ELSE b

(* checkForExpand, before a new key is looked for: load factor 3/4.         *)
Roomy(b) == IF num_items >= (Len(b) * 3) \div 4 THEN Expanded(b) ELSE b

(* Mutant of MayMoveBack: the case where j has wrapped around is forgotten. *)
MayMoveBackUnwrapped(i, j, k) == k <= i \/ k > j

(* Whether the item in bucket j, whose own bucket is k, may fill the hole   *)
(* at i: k is not after i, before the modulo.                               *)
MayMoveBack(i, j, k) == IF j > i THEN k <= i \/ k > j ELSE k <= i /\ k > j

(* erase's loop body: the item in bucket j fills the hole, if it may, and   *)
(* leaves one behind it.                                                    *)
MovedBack(s, j) ==
    IF MayMoveBack(s.hole, j, hashKey(s.b, KeyAt(s.b, j)))
    THEN [hole |-> j, b |-> [s.b EXCEPT ![s.hole + 1] = s.b[j + 1]]]
    ELSE s

(* erase, for a key that is in bucket i: so each item up to the next empty  *)
(* bucket, and the last hole becomes empty.                                 *)
Erased(b, i) ==
    LET run == Min({d \in 1..Len(b) - 1 : KeyAt(b, Bucket(b, i, d)) = EmptyKey})
        s[d \in 0..run - 1] ==
            IF d = 0 THEN [hole |-> i, b |-> b] ELSE MovedBack(s[d - 1], Bucket(b, i, d))
        end == s[run - 1]
    IN  [end.b EXCEPT ![end.hole + 1] = EmptyBucket]

-----------------------------------------------------------------------------
(* insert: may expand also when the key turns out to be there.              *)
Insert(k, v) ==
    LET b == Roomy(buckets) IN
    /\ IF IsIn(b, k) THEN buckets' = b /\ UNCHANGED num_items
       ELSE /\ buckets' = Put(b, [key |-> k, value |-> v])
            /\ num_items' = num_items + 1
    /\ UNCHANGED hash_func

(* map[k] = v: operator [] looks first, and inserts only a key not there.   *)
Assign(k, v) ==
    /\ IF IsIn(buckets, k)
       THEN buckets' = Put(buckets, [key |-> k, value |-> v]) /\ UNCHANGED num_items
       ELSE /\ buckets' = Put(Roomy(buckets), [key |-> k, value |-> v])
            /\ num_items' = num_items + 1
    /\ UNCHANGED hash_func

Erase(k) ==
    /\ IsIn(buckets, k)
    /\ buckets' = Erased(buckets, Probe(buckets, k))
    /\ num_items' = num_items - 1
    /\ UNCHANGED hash_func

Clear ==
    /\ buckets' = EmptyBuckets(Len(buckets))
    /\ num_items' = 0
    /\ UNCHANGED hash_func

NextMap ==
    \/ \E k \in HashKey, v \in Value : Insert(k, v) \/ Assign(k, v)
    \/ \E k \in HashKey : Erase(k)
    \/ Clear

SpecMap == InitMap /\ [][NextMap]_hashVars

-----------------------------------------------------------------------------
(* The searches end: some bucket is empty, as many as num_items leaves.     *)
HashTypeOK ==
    /\ buckets \in Seq([key : HashKey \cup {EmptyKey}, value : Value \cup {Missing}])
    /\ num_items = Cardinality({i \in DOMAIN buckets : buckets[i].key # EmptyKey})
    /\ num_items < Len(buckets)

(* What find answers for each key.                                          *)
Found == [k \in HashKey |->
            IF IsIn(buckets, k) THEN buckets[Probe(buckets, k) + 1].value ELSE Missing]

Map == INSTANCE FiniteMap WITH Key <- HashKey, map <- Found

(* What find answers for any key is what was last stored under it, whatever *)
(* collides, wraps around or is moved back by an erase in between.          *)
ImplementsMap == Map!Spec
=============================================================================
