--------------------------- MODULE DatabaseProofs ---------------------------
(***************************************************************************)
(* Theorems about Database: the index the open database keeps is the one a *)
(* scan of its file would build, what it has written can be read again,    *)
(* and it implements KeyValueStore; for any keys, data, sizes and any      *)
(* number of records.                                                      *)
(***************************************************************************)
EXTENDS Database, FiniteSetTheorems, SequenceTheorems, TLAPS

-----------------------------------------------------------------------------
(* The inductive invariant.                                                 *)

(* Every valid record holds an update's data, all of it.                    *)
RecordsWhole(F) ==
    \A i \in DOMAIN F :
        IsRecordValid(F[i]) => F[i].data \in Data /\ F[i].len = SizeOf[F[i].data]

(* Along the file a key's sequence numbers grow, except after deleted       *)
(* records of number 0.                                                     *)
NumbersGrow(F) ==
    \A i, j \in DOMAIN F :
        i < j /\ F[i].key = F[j].key =>
            \/ F[i].seq_num < F[j].seq_num
            \/ F[i].seq_num = 0 /\ ~IsRecordValid(F[i]) /\ F[j].seq_num = 0

(* A record with a greater number than 0 stands behind a valid one of its   *)
(* key, which is what makes it count even if it is deleted.                 *)
NumbersFollow(F) ==
    \A i \in DOMAIN F :
        F[i].seq_num > 0 =>
            \E j \in DOMAIN F : j < i /\ F[j].key = F[i].key /\ IsRecordValid(F[j])

WellFormed(F) == RecordsWhole(F) /\ NumbersGrow(F) /\ NumbersFollow(F)

(* o is the place of the last of the first n records of file F that is of   *)
(* key k, and one of them up to there is valid.                             *)
IsLast(F, n, k, o) ==
    /\ o \in 1..n /\ F[o].key = k
    /\ \E j \in 1..o : F[j].key = k /\ IsRecordValid(F[j])
    /\ \A j \in 1..n : o < j => F[j].key # k

(* idx is the index of the first n records of file F.                       *)
IndexOf(idx, F, n) ==
    \A k \in Key :
        \/ /\ idx[k] = NoInfo
           /\ \A i \in 1..n : F[i].key = k => ~IsRecordValid(F[i])
        \/ /\ idx[k] # NoInfo
           /\ IsLast(F, n, k, idx[k].offset)
           /\ idx[k] = InfoAt(idx[k].offset, F[idx[k].offset])

FilesInv ==
    /\ WellFormed(disk) /\ WellFormed(File)
    /\ phase # "open" => buffered = NoWrite /\ ~failed
    /\ failed => buffered = NoWrite

FreshInv ==
    phase \in {"closed", "error"} => index = NoIndex /\ pos = 1 /\ max_used_key = 0

ReadInv ==
    Reading => /\ pos \in 1..Len(disk) + 1
               /\ IndexOf(index, disk, pos - 1)
               /\ \A i \in 1..pos - 1 : disk[i].key <= max_used_key

OpenInv == Live => IndexOf(index, File, Len(File)) /\ append_offset = Len(File) + 1

Holds(k) == index[k] # NoInfo /\ IsRecordValid(index[k])

CompactInv ==
    /\ phase # "compact_write" => temp = <<>> /\ to_write = {}
    /\ phase = "compact_write" =>
        /\ IndexOf(index, disk, Len(disk))
        /\ \A k \in to_write : Holds(k)
        /\ \A i \in DOMAIN temp :
            LET k == temp[i].key IN
            /\ Holds(k) /\ k \notin to_write
            /\ temp[i].len = index[k].len /\ temp[i].seq_num = 0
            /\ temp[i].capacity = Capacity(temp[i].len)
            /\ temp[i].data = disk[index[k].offset].data
        /\ \A i, j \in DOMAIN temp : temp[i].key = temp[j].key => i = j
        /\ \A k \in Key : Holds(k) /\ k \notin to_write
                            => \E i \in DOMAIN temp : temp[i].key = k

IInv == TypeOK /\ FilesInv /\ FreshInv /\ ReadInv /\ OpenInv /\ CompactInv

-----------------------------------------------------------------------------
(* Records and sequences of records.                                        *)

LEMMA WordFacts ==
    /\ WordSize \in Nat /\ WordSize > 128
    /\ INVALID_LEN \in Nat
    /\ \A d \in Data : SizeOf[d] \in 0..INVALID_LEN /\ SizeOf[d] # INVALID_LEN
  BY DatabaseAssumption DEF DatabaseAssumption, INVALID_LEN

LEMMA CapacityFacts ==
    ASSUME NEW n \in Nat
    PROVE  Capacity(n) \in 0..INVALID_LEN
  <1> DEFINE a == (n + 64) % WordSize
             b == (a + 3) % WordSize
  <1>1. a \in Nat
    BY WordFacts
  <1>2. b \in 0..WordSize - 1
    BY <1>1, WordFacts
  <1>3. (b \div 4) * 4 \in 0..b
    BY <1>2, WordFacts
  <1>4. Capacity(n) = (b \div 4) * 4
    BY DEF Capacity, RoundUp4
  <1>. QED BY <1>2, <1>3, <1>4, WordFacts DEF INVALID_LEN

LEMMA InfoFacts ==
    ASSUME NEW o \in Nat, NEW r \in Record
    PROVE  /\ InfoAt(o, r) \in RecordInfo /\ InfoAt(o, r) # NoInfo
           /\ InfoAt(o, r).offset = o /\ InfoAt(o, r).len = r.len
           /\ InfoAt(o, r).capacity = r.capacity /\ InfoAt(o, r).seq_num = r.seq_num
           /\ IsRecordValid(InfoAt(o, r)) <=> IsRecordValid(r)
  <1>1. InfoAt(o, r) \in RecordInfo
    BY DEF InfoAt, RecordInfo, Record
  <1>. QED BY <1>1, SentinelAssumption DEF SentinelAssumption, InfoAt, IsRecordValid

LEMMA FileFacts ==
    ASSUME NEW F \in Seq(Record)
    PROVE  /\ Len(F) \in Nat /\ DOMAIN F = 1..Len(F)
           /\ \A i \in 1..Len(F) : /\ F[i] \in Record /\ F[i].key \in Key
                                   /\ F[i].seq_num \in Nat
  <1>1. \A r \in Record : r.key \in Key /\ r.seq_num \in Nat
    BY DEF Record
  <1>2. \A i \in 1..Len(F) : F[i] \in Record
    OBVIOUS
  <1>. QED BY <1>1, <1>2, LenProperties

LEMMA PlaceFacts ==
    ASSUME NEW F \in Seq(Record), NEW o \in 1..Len(F), NEW r \in Record
    PROVE  /\ [F EXCEPT ![o] = r] \in Seq(Record)
           /\ Len([F EXCEPT ![o] = r]) = Len(F)
           /\ \A j \in 1..Len(F) : [F EXCEPT ![o] = r][j] = IF j = o THEN r ELSE F[j]
  BY ExceptSeq

LEMMA EndFacts ==
    ASSUME NEW F \in Seq(Record), NEW r \in Record
    PROVE  /\ Append(F, r) \in Seq(Record)
           /\ Len(Append(F, r)) = Len(F) + 1
           /\ \A j \in 1..Len(F) : Append(F, r)[j] = F[j]
           /\ Append(F, r)[Len(F) + 1] = r
  BY AppendProperties

(* What the last record of a key is before its number is 0 or another.      *)
LEMMA ZeroIsFirst ==
    ASSUME NEW F \in Seq(Record), WellFormed(F), NEW k,
           NEW o \in 1..Len(F), F[o].key = k, F[o].seq_num = 0,
           NEW j \in 1..Len(F), j < o, F[j].key = k
    PROVE  ~IsRecordValid(F[j])
  BY FileFacts DEF WellFormed, NumbersGrow

-----------------------------------------------------------------------------
(* Writing a record where the last one of its key is.                       *)
LEMMA WellFormedInPlace ==
    ASSUME NEW F \in Seq(Record), WellFormed(F), NEW k \in Key,
           NEW o, IsLast(F, Len(F), k, o),
           NEW r \in Record, r.key = k, r.seq_num = F[o].seq_num,
           IsRecordValid(r) => r.data \in Data /\ r.len = SizeOf[r.data]
    PROVE  WellFormed([F EXCEPT ![o] = r])
  <1> DEFINE G == [F EXCEPT ![o] = r]
  <1>1. /\ o \in 1..Len(F) /\ F[o].key = k
        /\ \A j \in 1..Len(F) : o < j => F[j].key # k
    BY DEF IsLast
  <1>2. /\ G \in Seq(Record) /\ Len(G) = Len(F)
        /\ \A j \in 1..Len(F) : G[j] = IF j = o THEN r ELSE F[j]
    BY <1>1, PlaceFacts
  <1>3. /\ DOMAIN G = 1..Len(F) /\ DOMAIN F = 1..Len(F) /\ Len(F) \in Nat
        /\ \A j \in 1..Len(F) : F[j].seq_num \in Nat
    BY <1>2, FileFacts
  <1> HIDE DEF G
  <1>4. \A j \in 1..Len(F) : G[j].key = F[j].key /\ G[j].seq_num = F[j].seq_num
    BY <1>1, <1>2
  <1>5. RecordsWhole(G)
    BY <1>2, <1>3 DEF WellFormed, RecordsWhole
  <1>6. NumbersGrow(G)
    <2> SUFFICES ASSUME NEW i \in 1..Len(F), NEW j \in 1..Len(F), i < j, G[i].key = G[j].key
                 PROVE  \/ G[i].seq_num < G[j].seq_num
                        \/ G[i].seq_num = 0 /\ ~IsRecordValid(G[i]) /\ G[j].seq_num = 0
      BY <1>3 DEF NumbersGrow
    <2>1. i # o
      BY <1>1, <1>4
    <2>2. G[i] = F[i]
      BY <2>1, <1>2
    <2>. QED BY <2>2, <1>3, <1>4 DEF WellFormed, NumbersGrow
  <1>7. NumbersFollow(G)
    <2> SUFFICES ASSUME NEW i \in 1..Len(F), G[i].seq_num > 0
                 PROVE  \E j \in 1..Len(F) : j < i /\ G[j].key = G[i].key /\ IsRecordValid(G[j])
      BY <1>3 DEF NumbersFollow
    <2>1. PICK j \in 1..Len(F) : j < i /\ F[j].key = F[i].key /\ IsRecordValid(F[j])
      BY <1>3, <1>4 DEF WellFormed, NumbersFollow
    <2>2. j # o
      BY <2>1, <1>1
    <2>3. G[j] = F[j]
      BY <2>2, <1>2
    <2>. QED BY <2>1, <2>3, <1>4
  <1>. QED BY <1>5, <1>6, <1>7 DEF WellFormed, G

(* And at the end, with the next number.                                    *)
LEMMA WellFormedAtEnd ==
    ASSUME NEW F \in Seq(Record), WellFormed(F),
           NEW r \in Record,
           \/ r.seq_num = 0 /\ \A j \in 1..Len(F) : F[j].key = r.key => ~IsRecordValid(F[j])
           \/ \E o : IsLast(F, Len(F), r.key, o) /\ r.seq_num = F[o].seq_num + 1,
           IsRecordValid(r) => r.data \in Data /\ r.len = SizeOf[r.data]
    PROVE  WellFormed(Append(F, r))
  <1> DEFINE G == Append(F, r)
             e == Len(F) + 1
  <1>1. /\ G \in Seq(Record) /\ Len(G) = e
        /\ \A j \in 1..Len(F) : G[j] = F[j]
        /\ G[e] = r
    BY EndFacts
  <1>2. /\ DOMAIN G = 1..e /\ DOMAIN F = 1..Len(F) /\ Len(F) \in Nat
        /\ \A j \in 1..Len(F) : F[j].seq_num \in Nat
        /\ r.seq_num \in Nat
    BY <1>1, FileFacts DEF Record
  <1> HIDE DEF G
  <1>3. \A i \in 1..e : i \in 1..Len(F) \/ i = e
    BY <1>2
  <1>4. RecordsWhole(G)
    BY <1>1, <1>2, <1>3 DEF WellFormed, RecordsWhole
  <1>5. NumbersGrow(G)
    <2> SUFFICES ASSUME NEW i \in 1..e, NEW j \in 1..e, i < j, G[i].key = G[j].key
                 PROVE  \/ G[i].seq_num < G[j].seq_num
                        \/ G[i].seq_num = 0 /\ ~IsRecordValid(G[i]) /\ G[j].seq_num = 0
      BY <1>2 DEF NumbersGrow
    <2>1. i \in 1..Len(F)
      BY <1>2, <1>3
    <2>2. CASE j \in 1..Len(F)
      BY <2>1, <2>2, <1>1, <1>2 DEF WellFormed, NumbersGrow
    <2>3. CASE j = e /\ r.seq_num = 0
                /\ \A m \in 1..Len(F) : F[m].key = r.key => ~IsRecordValid(F[m])
      <3>1. F[i].key = r.key /\ ~IsRecordValid(F[i])
        BY <2>1, <2>3, <1>1
      <3>2. ~(F[i].seq_num > 0)
        BY <3>1, <2>1, <2>3, <1>2 DEF WellFormed, NumbersFollow
      <3>. QED BY <3>1, <3>2, <2>1, <2>3, <1>1, <1>2
    <2>4. CASE j = e /\ \E o : IsLast(F, Len(F), r.key, o) /\ r.seq_num = F[o].seq_num + 1
      <3>1. PICK o : IsLast(F, Len(F), r.key, o) /\ r.seq_num = F[o].seq_num + 1
        BY <2>4
      <3>2. /\ o \in 1..Len(F) /\ F[o].key = r.key /\ F[i].key = r.key
            /\ i <= o
        BY <3>1, <2>1, <2>4, <1>1, <1>2 DEF IsLast
      <3>3. F[i].seq_num <= F[o].seq_num
        BY <3>2, <2>1, <1>2 DEF WellFormed, NumbersGrow
      <3>. QED BY <3>1, <3>2, <3>3, <2>1, <2>4, <1>1, <1>2
    <2>. QED BY <2>2, <2>3, <2>4, <1>3
  <1>6. NumbersFollow(G)
    <2> SUFFICES ASSUME NEW i \in 1..e, G[i].seq_num > 0
                 PROVE  \E j \in 1..e : j < i /\ G[j].key = G[i].key /\ IsRecordValid(G[j])
      BY <1>2 DEF NumbersFollow
    <2>1. CASE i \in 1..Len(F)
      BY <2>1, <1>1, <1>2 DEF WellFormed, NumbersFollow
    <2>2. CASE i = e
      <3>1. PICK o : IsLast(F, Len(F), r.key, o)
        BY <2>2, <1>1, <1>2
      <3>2. PICK j \in 1..Len(F) : F[j].key = r.key /\ IsRecordValid(F[j])
        BY <3>1, <1>2 DEF IsLast
      <3>. QED BY <3>2, <2>2, <1>1, <1>2
    <2>. QED BY <2>1, <2>2, <1>3
  <1>. QED BY <1>4, <1>5, <1>6 DEF WellFormed, G

-----------------------------------------------------------------------------
(* The index follows each write, and each record read.                      *)

(* An entry is the only one its key can have.                               *)
LEMMA IndexUpdate ==
    ASSUME NEW F \in Seq(Record), NEW G \in Seq(Record), NEW n \in Nat, NEW m \in Nat,
           NEW idx, DOMAIN idx = Key, IndexOf(idx, F, n),
           NEW k \in Key, NEW e,
           \A j \in 1..m : G[j].key = k \/ (j \in 1..n /\ G[j] = F[j]),
           \A j \in 1..n : F[j].key = k \/ (j \in 1..m /\ G[j] = F[j]),
           \/ e = NoInfo /\ \A i \in 1..m : G[i].key = k => ~IsRecordValid(G[i])
           \/ e # NoInfo /\ IsLast(G, m, k, e.offset) /\ e = InfoAt(e.offset, G[e.offset])
    PROVE  IndexOf([idx EXCEPT ![k] = e], G, m)
  <1> DEFINE new == [idx EXCEPT ![k] = e]
  <1> SUFFICES ASSUME NEW l \in Key
               PROVE  \/ /\ new[l] = NoInfo
                         /\ \A i \in 1..m : G[i].key = l => ~IsRecordValid(G[i])
                      \/ /\ new[l] # NoInfo
                         /\ IsLast(G, m, l, new[l].offset)
                         /\ new[l] = InfoAt(new[l].offset, G[new[l].offset])
    BY DEF IndexOf
  <1>1. CASE l = k
    BY <1>1
  <1>2. CASE l # k
    <2>1. new[l] = idx[l]
      BY <1>2
    <2> DEFINE o == idx[l].offset
    <2>2. CASE idx[l] = NoInfo /\ \A i \in 1..n : F[i].key = l => ~IsRecordValid(F[i])
      BY <1>2, <2>1, <2>2
    <2>3. CASE idx[l] # NoInfo /\ IsLast(F, n, l, o) /\ idx[l] = InfoAt(o, F[o])
      <3>1. o \in 1..n /\ F[o].key = l /\ o \in 1..m /\ F[o] = G[o]
        BY <1>2, <2>3 DEF IsLast
      <3>2. PICK j \in 1..o : F[j].key = l /\ IsRecordValid(F[j])
        BY <2>3 DEF IsLast
      <3>3. j \in 1..n
        BY <3>1, <3>2
      <3>4. G[j] = F[j]
        BY <1>2, <3>2, <3>3
      <3>5. \A i \in 1..m : o < i => G[i].key # l
        BY <1>2, <2>3 DEF IsLast
      <3>6. IsLast(G, m, l, o)
        BY <3>1, <3>2, <3>4, <3>5 DEF IsLast
      <3>. QED BY <2>1, <2>3, <3>1, <3>6
    <2>. QED BY <2>2, <2>3 DEF IndexOf
  <1>. QED BY <1>1, <1>2

LEMMA IndexInPlace ==
    ASSUME NEW F \in Seq(Record), NEW idx, DOMAIN idx = Key, IndexOf(idx, F, Len(F)),
           WellFormed(F), NEW k \in Key, idx[k] # NoInfo,
           NEW r \in Record, r.key = k, r.seq_num = F[idx[k].offset].seq_num
    PROVE  LET o == idx[k].offset
               G == [F EXCEPT ![o] = r]
           IN  /\ IsRecordValid(r) \/ r.seq_num # 0
                    => IndexOf([idx EXCEPT ![k] = InfoAt(o, r)], G, Len(G))
               /\ ~IsRecordValid(r) /\ r.seq_num = 0
                    => IndexOf([idx EXCEPT ![k] = NoInfo], G, Len(G))
  <1> DEFINE o == idx[k].offset
             G == [F EXCEPT ![o] = r]
             n == Len(F)
  <1>1. IsLast(F, n, k, o) /\ n \in Nat
    BY FileFacts DEF IndexOf
  <1>2. /\ o \in 1..n /\ F[o].key = k
        /\ \A j \in 1..n : o < j => F[j].key # k
    BY <1>1 DEF IsLast
  <1>3. /\ G \in Seq(Record) /\ Len(G) = n
        /\ \A j \in 1..n : G[j] = IF j = o THEN r ELSE F[j]
    BY <1>2, PlaceFacts
  <1> HIDE DEF G, o
  <1>4. /\ \A j \in 1..n : G[j].key = k \/ (j \in 1..n /\ G[j] = F[j])
        /\ \A j \in 1..n : F[j].key = k \/ (j \in 1..n /\ G[j] = F[j])
        /\ \A j \in 1..n : o < j => G[j].key # k
    BY <1>2, <1>3
  <1>5. ASSUME IsRecordValid(r) \/ r.seq_num # 0
        PROVE  IndexOf([idx EXCEPT ![k] = InfoAt(o, r)], G, n)
    <2>1. \E j \in 1..o : G[j].key = k /\ IsRecordValid(G[j])
      <3>1. CASE IsRecordValid(r)
        BY <3>1, <1>2, <1>3
      <3>2. CASE ~IsRecordValid(r) /\ r.seq_num # 0
        <4>1. F[o].seq_num > 0 /\ DOMAIN F = 1..n
          BY <1>2, <3>2, FileFacts DEF o
        <4>2. PICK j \in 1..n : j < o /\ F[j].key = k /\ IsRecordValid(F[j])
          BY <4>1, <1>2 DEF WellFormed, NumbersFollow
        <4>. QED BY <4>2, <1>1, <1>2, <1>3
      <3>. QED BY <1>5, <3>1, <3>2
    <2>2. IsLast(G, n, k, o)
      BY <2>1, <1>2, <1>3, <1>4 DEF IsLast
    <2> DEFINE e == InfoAt(o, r)
    <2>3. e # NoInfo /\ e.offset = o /\ G[o] = r
      BY <1>1, <1>2, <1>3, InfoFacts
    <2>4. e # NoInfo /\ IsLast(G, n, k, e.offset) /\ e = InfoAt(e.offset, G[e.offset])
      BY <2>2, <2>3
    <2> HIDE DEF e
    <2>5. IndexOf([idx EXCEPT ![k] = e], G, n)
      <3>1. /\ n \in Nat /\ G \in Seq(Record) /\ DOMAIN idx = Key /\ IndexOf(idx, F, n)
        BY <1>1, <1>3
      <3> HIDE DEF n
      <3>. QED BY <3>1, <2>4, <1>4, IndexUpdate
    <2>. QED BY <2>5 DEF e
  <1>6. ASSUME ~IsRecordValid(r), r.seq_num = 0
        PROVE  IndexOf([idx EXCEPT ![k] = NoInfo], G, n)
    <2>1. \A i \in 1..n : G[i].key = k => ~IsRecordValid(G[i])
      <3> SUFFICES ASSUME NEW i \in 1..n, G[i].key = k PROVE ~IsRecordValid(G[i])
        OBVIOUS
      <3>1. i = o \/ i < o
        BY <1>1, <1>2, <1>4
      <3>2. CASE i < o
        <4>1. G[i] = F[i] /\ F[o].seq_num = 0
          BY <3>2, <1>2, <1>3, <1>6 DEF o
        <4>. QED BY <4>1, <3>2, <1>2, ZeroIsFirst
      <3>. QED BY <3>1, <3>2, <1>2, <1>3, <1>6
    <2>2. /\ n \in Nat /\ G \in Seq(Record) /\ DOMAIN idx = Key /\ IndexOf(idx, F, n)
      BY <1>1, <1>3
    <2> DEFINE e == NoInfo
    <2>3. \/ e = NoInfo /\ \A i \in 1..n : G[i].key = k => ~IsRecordValid(G[i])
          \/ e # NoInfo /\ IsLast(G, n, k, e.offset) /\ e = InfoAt(e.offset, G[e.offset])
      BY <2>1
    <2> HIDE DEF n, e
    <2>4. IndexOf([idx EXCEPT ![k] = e], G, n)
      BY <2>2, <2>3, <1>4, IndexUpdate
    <2>. QED BY <2>4 DEF e
  <1>. QED BY <1>3, <1>5, <1>6 DEF o, G

LEMMA IndexAtEnd ==
    ASSUME NEW F \in Seq(Record), NEW idx, DOMAIN idx = Key, IndexOf(idx, F, Len(F)),
           NEW r \in Record, IsRecordValid(r) \/ idx[r.key] # NoInfo
    PROVE  IndexOf([idx EXCEPT ![r.key] = InfoAt(Len(F) + 1, r)], Append(F, r), Len(F) + 1)
  <1> DEFINE G == Append(F, r)
             n == Len(F)
             k == r.key
  <1>1. /\ G \in Seq(Record) /\ Len(G) = n + 1
        /\ \A j \in 1..n : G[j] = F[j]
        /\ G[n + 1] = r
    BY EndFacts
  <1>2. n \in Nat /\ n + 1 \in Nat /\ k \in Key
    BY FileFacts DEF Record
  <1> HIDE DEF G
  <1>3. \A i \in 1..n + 1 : i \in 1..n \/ i = n + 1
    BY <1>2
  <1>4. \A j \in 1..n + 1 : G[j].key = k \/ (j \in 1..n /\ G[j] = F[j])
    BY <1>1, <1>3
  <1>5. \A j \in 1..n : F[j].key = k \/ (j \in 1..n + 1 /\ G[j] = F[j])
    BY <1>1, <1>2
  <1>6. \E j \in 1..n + 1 : G[j].key = k /\ IsRecordValid(G[j])
    <2>1. CASE IsRecordValid(r)
      BY <2>1, <1>1, <1>2
    <2>2. CASE idx[k] # NoInfo
      <3>1. IsLast(F, n, k, idx[k].offset)
        BY <2>2, <1>2 DEF IndexOf
      <3>2. PICK j \in 1..n : F[j].key = k /\ IsRecordValid(F[j])
        BY <3>1, <1>2 DEF IsLast
      <3>. QED BY <3>2, <1>1, <1>2
    <2>. QED BY <2>1, <2>2
  <1>7. IsLast(G, n + 1, k, n + 1)
    BY <1>1, <1>2, <1>6 DEF IsLast
  <1>8. InfoAt(n + 1, r) # NoInfo /\ InfoAt(n + 1, r).offset = n + 1
    BY <1>2, InfoFacts
  <1>. QED BY <1>1, <1>2, <1>4, <1>5, <1>7, <1>8, IndexUpdate DEF G

(* Record n + 1 of the file takes its place in the index if it is valid or  *)
(* the key has an entry already; its number is greater then.                *)
LEMMA IndexReads ==
    ASSUME NEW F \in Seq(Record), NEW n \in Nat, n + 1 <= Len(F), WellFormed(F),
           NEW idx \in [Key -> RecordInfo \cup {NoInfo}], IndexOf(idx, F, n)
    PROVE  LET r == F[n + 1]
               old == idx[r.key]
           IN  /\ old = NoInfo /\ ~IsRecordValid(r) => IndexOf(idx, F, n + 1)
               /\ old # NoInfo \/ IsRecordValid(r)
                    => IndexOf([idx EXCEPT ![r.key] = InfoAt(n + 1, r)], F, n + 1)
               /\ old # NoInfo => r.seq_num > old.seq_num
  <1> DEFINE r == F[n + 1]
             k == r.key
             o == idx[k].offset
  <1>1. /\ Len(F) \in Nat /\ DOMAIN F = 1..Len(F) /\ n + 1 \in 1..Len(F)
        /\ r \in Record /\ k \in Key /\ n + 1 \in Nat
        /\ \A i \in 1..Len(F) : F[i].seq_num \in Nat /\ F[i] \in Record
    BY FileFacts
  <1>2. \A i \in 1..n + 1 : i \in 1..n \/ i = n + 1
    OBVIOUS
  <1> HIDE DEF r
  <1>3. \A j \in 1..n + 1 : F[j].key = k \/ (j \in 1..n /\ F[j] = F[j])
    BY <1>2 DEF r
  <1>4. \A j \in 1..n : F[j].key = k \/ (j \in 1..n + 1 /\ F[j] = F[j])
    OBVIOUS
  <1>5. ASSUME idx[k] = NoInfo, ~IsRecordValid(r)
        PROVE  IndexOf(idx, F, n + 1)
    <2>1. \A i \in 1..n + 1 : F[i].key = k => ~IsRecordValid(F[i])
      BY <1>1, <1>2, <1>5 DEF IndexOf, r
    <2>2. IndexOf([idx EXCEPT ![k] = NoInfo], F, n + 1)
      BY <2>1, <1>1, <1>3, <1>4, IndexUpdate
    <2>3. [idx EXCEPT ![k] = NoInfo] = idx
      BY <1>1, <1>5
    <2>. QED BY <2>2, <2>3
  <1>6. ASSUME idx[k] # NoInfo \/ IsRecordValid(r)
        PROVE  IndexOf([idx EXCEPT ![k] = InfoAt(n + 1, r)], F, n + 1)
    <2>1. \E j \in 1..n + 1 : F[j].key = k /\ IsRecordValid(F[j])
      <3>1. CASE IsRecordValid(r)
        BY <3>1 DEF r
      <3>2. CASE idx[k] # NoInfo
        <4>1. IsLast(F, n, k, o)
          BY <3>2, <1>1 DEF IndexOf
        <4>2. PICK j \in 1..n : F[j].key = k /\ IsRecordValid(F[j])
          BY <4>1 DEF IsLast
        <4>. QED BY <4>2
      <3>. QED BY <1>6, <3>1, <3>2
    <2>2. IsLast(F, n + 1, k, n + 1)
      BY <2>1 DEF IsLast, r
    <2>3. InfoAt(n + 1, r) # NoInfo /\ InfoAt(n + 1, r).offset = n + 1
      BY <1>1, InfoFacts
    <2>. QED BY <2>2, <2>3, <1>1, <1>3, <1>4, IndexUpdate DEF r
  <1>7. ASSUME idx[k] # NoInfo
        PROVE  r.seq_num > idx[k].seq_num
    <2>1. IsLast(F, n, k, o) /\ idx[k] = InfoAt(o, F[o])
      BY <1>1, <1>7 DEF IndexOf
    <2>2. /\ o \in 1..n /\ o \in 1..Len(F) /\ F[o].key = k /\ F[o] \in Record /\ o < n + 1
      BY <2>1, <1>1 DEF IsLast
    <2>3. idx[k].seq_num = F[o].seq_num
      BY <2>1, <2>2, InfoFacts
    <2>4. PICK j \in 1..o : F[j].key = k /\ IsRecordValid(F[j])
      BY <2>1 DEF IsLast
    <2>5. j = o \/ (j < o /\ j \in 1..Len(F))
      BY <2>2, <2>4, <1>1
    <2>6. ~(F[o].seq_num = 0 /\ ~IsRecordValid(F[o]))
      BY <2>2, <2>4, <2>5, ZeroIsFirst
    <2>7. F[o].seq_num < r.seq_num
      BY <2>2, <2>6, <1>1 DEF WellFormed, NumbersGrow, r
    <2>. QED BY <2>3, <2>7, <2>2, <1>1
  <1>. QED BY <1>5, <1>6, <1>7 DEF r

(* A key's entry in the index is what the rule of the format says.          *)
LEMMA IndexIsInfo ==
    ASSUME NEW F \in Seq(Record), WellFormed(F), NEW idx, IndexOf(idx, F, Len(F)),
           NEW k \in Key
    PROVE  /\ InfoIn(F, k) = idx[k]
           /\ Lookup(F, k) = IF idx[k] # NoInfo /\ IsRecordValid(idx[k])
                             THEN F[idx[k].offset].data ELSE Missing
  <1>1. /\ Len(F) \in Nat /\ DOMAIN F = 1..Len(F)
        /\ \A i \in 1..Len(F) : F[i] \in Record /\ F[i].seq_num \in Nat
    BY FileFacts
  <1>2. CASE idx[k] = NoInfo /\ \A i \in 1..Len(F) : F[i].key = k => ~IsRecordValid(F[i])
    <2>1. Entries(F, k) = {}
      BY <1>1, <1>2 DEF Entries
    <2>. QED BY <2>1, <1>2 DEF InfoIn, Lookup
  <1>3. CASE LET o == idx[k].offset IN
             idx[k] # NoInfo /\ IsLast(F, Len(F), k, o) /\ idx[k] = InfoAt(o, F[o])
    <2> DEFINE o == idx[k].offset
               best(i) == \A j \in Entries(F, k) :
                             \/ F[j].seq_num < F[i].seq_num
                             \/ F[j].seq_num = F[i].seq_num /\ i <= j
    <2>1. /\ o \in 1..Len(F) /\ F[o].key = k
          /\ \E j \in 1..o : F[j].key = k /\ IsRecordValid(F[j])
          /\ \A j \in 1..Len(F) : o < j => F[j].key # k
          /\ idx[k] = InfoAt(o, F[o])
      BY <1>3 DEF IsLast
    <2> HIDE DEF o
    <2>2. o \in Entries(F, k)
      BY <2>1, <1>1 DEF Entries
    <2>3. \A j \in Entries(F, k) : j \in 1..Len(F) /\ j <= o /\ F[j].key = k
      BY <2>1, <1>1 DEF Entries
    <2>4. \A j \in Entries(F, k) : j = o \/ F[j].seq_num < F[o].seq_num
      <3> SUFFICES ASSUME NEW j \in Entries(F, k), j # o
                   PROVE  F[j].seq_num < F[o].seq_num
        OBVIOUS
      <3>1. j \in 1..Len(F) /\ j < o /\ F[j].key = k
        BY <2>1, <2>3
      <3>2. PICK m \in 1..j : F[m].key = k /\ IsRecordValid(F[m])
        BY DEF Entries
      <3>3. ~(F[j].seq_num = 0 /\ ~IsRecordValid(F[j]))
        BY <3>1, <3>2, <1>1, ZeroIsFirst
      <3>. QED BY <3>1, <3>3, <2>1, <1>1 DEF WellFormed, NumbersGrow
    <2>5. best(o)
      BY <2>4, <2>1, <1>1
    <2>6. \A i \in Entries(F, k) : best(i) => i = o
      BY <2>2, <2>3, <2>4, <2>1, <1>1
    <2>7. Latest(F, k) = o
      BY <2>2, <2>5, <2>6 DEF Latest
    <2>8. IsRecordValid(idx[k]) <=> IsRecordValid(F[o])
      BY <2>1, <1>1, InfoFacts
    <2>. QED BY <2>1, <2>2, <2>7, <2>8, <1>3 DEF InfoIn, Lookup, o
  <1>. QED BY <1>2, <1>3 DEF IndexOf

-----------------------------------------------------------------------------
(* Writing through the stream.                                              *)
LEMMA ApplyFacts ==
    ASSUME NEW F \in Seq(Record), NEW w \in Write
    PROVE  /\ Apply(F, w) \in Seq(Record)
           /\ w.offset \in 1..Len(F) => Apply(F, w) = [F EXCEPT ![w.offset] = w.record]
           /\ w.offset \notin 1..Len(F) => Apply(F, w) = Append(F, w.record)
  <1>1. w # NoWrite /\ w.record \in Record
    BY SentinelAssumption DEF SentinelAssumption, Write
  <1>2. DOMAIN F = 1..Len(F)
    OBVIOUS
  <1>3. CASE w.offset \in 1..Len(F)
    BY <1>1, <1>2, <1>3, PlaceFacts DEF Apply
  <1>4. CASE w.offset \notin 1..Len(F)
    BY <1>1, <1>2, <1>4, EndFacts DEF Apply
  <1>. QED BY <1>3, <1>4

LEMMA FileIsFile ==
    ASSUME TypeOK
    PROVE  File \in Seq(Record) /\ (buffered = NoWrite => File = disk)
  <1>1. disk \in Seq(Record) /\ buffered \in Write \cup {NoWrite}
    BY DEF TypeOK
  <1>2. CASE buffered = NoWrite
    BY <1>1, <1>2 DEF File, Apply
  <1>3. CASE buffered \in Write
    <2>1. File \in Seq(Record)
      BY <1>1, <1>3, ApplyFacts DEF File
    <2>2. buffered # NoWrite
      BY <1>3, SentinelAssumption DEF SentinelAssumption
    <2>. QED BY <2>1, <2>2
  <1>. QED BY <1>1, <1>2, <1>3

(* A write that does not fail leaves its effect in the file or in the       *)
(* buffer; one that fails costs at most what was in the buffer.             *)
LEMMA WriteEffect ==
    ASSUME TypeOK, FilesInv, ~failed,
           NEW w \in Write, WriteOut(w) \/ WriteFails(w) \/ WriteFails(NoWrite)
    PROVE  /\ disk' \in Seq(Record) /\ buffered' \in Write \cup {NoWrite}
           /\ failed' \in BOOLEAN /\ torn' \in BOOLEAN
           /\ failed' => buffered' = NoWrite /\ File' = disk' /\ disk' \in {disk, File}
           /\ ~failed' => File' = Apply(File, w) /\ disk' \in {File, File'} /\ torn' = torn
  <1>1. File \in Seq(Record)
    BY FileIsFile
  <1>2. Apply(File, w) \in Seq(Record)
    BY <1>1, ApplyFacts
  <1>3. \A F : Apply(F, NoWrite) = F
    BY DEF Apply
  <1>4. File' = Apply(disk', buffered')
    BY DEF File
  <1>5. CASE WriteOut(w)
    BY <1>1, <1>2, <1>3, <1>4, <1>5 DEF WriteOut, TypeOK
  <1>6. CASE WriteFails(w) \/ WriteFails(NoWrite)
    <2>1. \A F, v : IsAppend(F, v) \in BOOLEAN
      BY DEF IsAppend
    <2>. QED BY <1>1, <1>3, <1>4, <1>6, <2>1 DEF WriteFails, TypeOK
  <1>. QED BY <1>5, <1>6

LEMMA FilesKept ==
    ASSUME TypeOK, FilesInv, phase' = "open",
           NEW w \in Write, failed \/ WellFormed(Apply(File, w)), TryWrite(w)
    PROVE  /\ disk' \in Seq(Record) /\ buffered' \in Write \cup {NoWrite}
           /\ failed' \in BOOLEAN /\ torn' \in BOOLEAN
           /\ FilesInv'
           /\ ~failed' => ~failed /\ File' = Apply(File, w)
  <1>1. CASE failed
    <2>1. UNCHANGED fileVars
      BY <1>1 DEF TryWrite
    <2>2. File' = File
      BY <2>1 DEF fileVars, File
    <2>. QED BY <1>1, <2>1, <2>2 DEF fileVars, TypeOK, FilesInv
  <1>2. CASE ~failed
    <2>1. WriteOut(w) \/ WriteFails(w) \/ WriteFails(NoWrite)
      BY <1>2 DEF TryWrite
    <2>. QED BY <1>2, <2>1, WriteEffect DEF FilesInv
  <1>. QED BY <1>1, <1>2

-----------------------------------------------------------------------------
(* The steps keep the invariant.                                            *)

LEMMA EmptyFile ==
    /\ <<>> \in Seq(Record) /\ WellFormed(<<>>) /\ IndexOf(NoIndex, <<>>, 0)
    /\ NoIndex \in [Key -> RecordInfo \cup {NoInfo}] /\ 0 \in Key
  <1>1. WellFormed(<<>>)
    BY DEF WellFormed, RecordsWhole, NumbersGrow, NumbersFollow
  <1>2. IndexOf(NoIndex, <<>>, 0)
    BY DEF IndexOf, NoIndex
  <1>3. 0 \in Key
    BY DatabaseAssumption DEF DatabaseAssumption, Key
  <1>. QED BY <1>1, <1>2, <1>3 DEF NoIndex

LEMMA InitInv == Init => IInv
  <1> SUFFICES ASSUME Init PROVE IInv
    OBVIOUS
  <1>1. TypeOK
    BY EmptyFile DEF Init, TypeOK, Phase
  <1>2. File = disk
    BY DEF Init, File, Apply
  <1>3. FilesInv /\ FreshInv
    BY <1>2, EmptyFile DEF Init, FilesInv, FreshInv
  <1>4. ReadInv /\ OpenInv /\ CompactInv
    BY DEF Init, ReadInv, Reading, OpenInv, Live, CompactInv
  <1>. QED BY <1>1, <1>3, <1>4 DEF IInv

LEMMA ForgetInv ==
    ASSUME Forget, phase' \in {"closed", "error"},
           disk' \in Seq(Record), WellFormed(disk'), torn' \in BOOLEAN
    PROVE  IInv'
  <1>1. TypeOK'
    BY EmptyFile DEF Forget, TypeOK, Phase
  <1>2. File' = disk'
    BY DEF Forget, File, Apply
  <1>3. FilesInv' /\ FreshInv'
    BY <1>2 DEF Forget, FilesInv, FreshInv
  <1>4. ReadInv' /\ OpenInv' /\ CompactInv'
    BY DEF Forget, ReadInv, Reading, OpenInv, Live, CompactInv
  <1>. QED BY <1>1, <1>3, <1>4 DEF IInv

LEMMA ClearInv == ASSUME IInv, MakeOrClear PROVE IInv'
  <1>1. disk' = <<>> /\ torn' = FALSE /\ Forget
    BY DEF MakeOrClear
  <1>2. CASE phase' = "closed"
    BY <1>1, <1>2, EmptyFile, ForgetInv
  <1>3. CASE phase' = "open"
    <2>1. TypeOK'
      BY <1>1, <1>3, EmptyFile DEF Forget, TypeOK, Phase
    <2>2. File' = disk'
      BY <1>1 DEF Forget, File, Apply
    <2>3. FilesInv' /\ FreshInv'
      BY <1>1, <1>3, <2>2, EmptyFile DEF Forget, FilesInv, FreshInv
    <2>4. Len(<<>>) = 0
      OBVIOUS
    <2>5. OpenInv'
      BY <1>1, <1>3, <2>2, <2>4, EmptyFile DEF Forget, OpenInv
    <2>6. ReadInv' /\ CompactInv'
      BY <1>1, <1>3 DEF Forget, ReadInv, Reading, CompactInv
    <2>. QED BY <2>1, <2>3, <2>5, <2>6 DEF IInv
  <1>. QED BY <1>2, <1>3 DEF MakeOrClear

LEMMA StartInv == ASSUME IInv, StartReading PROVE IInv'
  <1>1. /\ phase = "closed" /\ phase' \in {"reading", "compact_read"}
        /\ UNCHANGED <<fileVars, objectVars, scanVars, tempVars>>
    BY DEF StartReading
  <1>2. TypeOK'
    BY <1>1 DEF IInv, TypeOK, Phase, fileVars, objectVars, scanVars, tempVars
  <1>3. File' = File
    BY <1>1 DEF File, fileVars
  <1>4. FilesInv' /\ FreshInv'
    BY <1>1, <1>3 DEF IInv, FilesInv, FreshInv, fileVars
  <1>5. ReadInv'
    <2>1. pos = 1 /\ index = NoIndex /\ disk \in Seq(Record)
      BY <1>1 DEF IInv, FreshInv, TypeOK
    <2>2. IndexOf(index, disk, pos - 1)
      BY <2>1 DEF IndexOf, NoIndex
    <2>. QED BY <1>1, <2>1, <2>2 DEF ReadInv, fileVars, objectVars, scanVars
  <1>6. OpenInv' /\ CompactInv'
    BY <1>1 DEF IInv, OpenInv, Live, CompactInv, tempVars
  <1>. QED BY <1>2, <1>4, <1>5, <1>6 DEF IInv

LEMMA ReadRecordInv == ASSUME IInv, ReadRecord PROVE IInv'
  <1> DEFINE r == disk[pos]
             old == index[r.key]
             n == pos - 1
             take == (old = NoInfo /\ IsRecordValid(r)) \/ (old # NoInfo /\ r.seq_num > old.seq_num)
  <1>1. /\ Reading /\ pos <= Len(disk) /\ pos' = pos + 1
        /\ IF take THEN index' = [index EXCEPT ![r.key] = InfoAt(pos, r)] ELSE index' = index
        /\ max_used_key' = IF r.key > max_used_key THEN r.key ELSE max_used_key
        /\ UNCHANGED <<fileVars, phase, append_offset, next_unused_key, tempVars>>
    BY DEF ReadRecord
  <1>2. /\ disk \in Seq(Record) /\ pos \in 1..Len(disk) /\ pos \in Nat
        /\ n \in Nat /\ n + 1 = pos /\ pos' - 1 = pos
        /\ index \in [Key -> RecordInfo \cup {NoInfo}]
        /\ WellFormed(disk) /\ IndexOf(index, disk, n)
        /\ \A i \in 1..n : disk[i].key <= max_used_key
        /\ max_used_key \in Key
    BY <1>1 DEF IInv, TypeOK, ReadInv, FilesInv
  <1>3. r \in Record /\ r.key \in Key
    BY <1>2, FileFacts
  <1>4. InfoAt(pos, r) \in RecordInfo
    BY <1>2, <1>3, InfoFacts
  <1>5. index' \in [Key -> RecordInfo \cup {NoInfo}]
    BY <1>1, <1>2, <1>3, <1>4
  <1>6. TypeOK'
    BY <1>1, <1>2, <1>3, <1>5 DEF IInv, TypeOK, fileVars, tempVars
  <1>7. IndexOf(index', disk, pos)
    <2>1. /\ disk \in Seq(Record) /\ n \in Nat /\ n + 1 <= Len(disk) /\ WellFormed(disk)
          /\ index \in [Key -> RecordInfo \cup {NoInfo}] /\ IndexOf(index, disk, n)
      BY <1>2
    <2> HIDE DEF n
    <2>2. LET s == disk[n + 1]
              was == index[s.key]
          IN  /\ was = NoInfo /\ ~IsRecordValid(s) => IndexOf(index, disk, n + 1)
              /\ was # NoInfo \/ IsRecordValid(s)
                    => IndexOf([index EXCEPT ![s.key] = InfoAt(n + 1, s)], disk, n + 1)
              /\ was # NoInfo => s.seq_num > was.seq_num
      BY <2>1, IndexReads
    <2>3. /\ old = NoInfo /\ ~IsRecordValid(r) => IndexOf(index, disk, pos)
          /\ old # NoInfo \/ IsRecordValid(r)
                => IndexOf([index EXCEPT ![r.key] = InfoAt(pos, r)], disk, pos)
          /\ old # NoInfo => r.seq_num > old.seq_num
      BY <1>2, <2>2
    <2>. QED BY <1>1, <2>3
  <1>8. \A i \in 1..pos : disk[i].key <= max_used_key'
    <2> SUFFICES ASSUME NEW i \in 1..pos PROVE disk[i].key <= max_used_key'
      OBVIOUS
    <2>1. i \in 1..n \/ i = pos
      BY <1>2
    <2>2. disk[i].key \in Int /\ r.key \in Int /\ max_used_key \in Int
      BY <1>2, FileFacts DEF Key
    <2>. QED BY <1>1, <1>2, <2>1, <2>2
  <1>9. ReadInv'
    BY <1>1, <1>2, <1>7, <1>8 DEF ReadInv, fileVars
  <1>10. File' = File
    BY <1>1 DEF File, fileVars
  <1>11. FilesInv' /\ FreshInv'
    BY <1>1, <1>10 DEF IInv, FilesInv, FreshInv, fileVars, Reading
  <1>12. OpenInv' /\ CompactInv'
    BY <1>1 DEF IInv, OpenInv, Live, CompactInv, tempVars, Reading
  <1>. QED BY <1>6, <1>9, <1>11, <1>12 DEF IInv

LEMMA FinishInv == ASSUME IInv, FinishReading PROVE IInv'
  <1>1. /\ Reading /\ pos > Len(disk)
        /\ append_offset' = pos /\ next_unused_key' = max_used_key + 1
        /\ UNCHANGED <<fileVars, scanVars, index, temp>>
    BY DEF FinishReading
  <1>2. /\ disk \in Seq(Record) /\ pos = Len(disk) + 1 /\ pos - 1 = Len(disk)
        /\ pos \in Nat /\ max_used_key + 1 \in Nat
        /\ IndexOf(index, disk, Len(disk))
    <2>1. /\ disk \in Seq(Record) /\ Len(disk) \in Nat /\ max_used_key \in Nat
          /\ pos \in 1..Len(disk) + 1 /\ IndexOf(index, disk, pos - 1)
      BY <1>1 DEF IInv, TypeOK, ReadInv, Key
    <2>2. pos = Len(disk) + 1 /\ pos - 1 = Len(disk)
      BY <1>1, <2>1
    <2>. QED BY <2>1, <2>2
  <1>3. File' = File /\ File = disk /\ disk' = disk /\ index' = index /\ temp' = temp
        /\ ~failed /\ failed' = failed
    BY <1>1, FileIsFile DEF File, fileVars, IInv, FilesInv, Reading
  <1>4. temp = <<>> /\ to_write = {}
    BY <1>1 DEF IInv, CompactInv, Reading
  <1>5. CASE phase = "reading" /\ phase' = "open" /\ UNCHANGED to_write
    <2>1. TypeOK'
      BY <1>1, <1>2, <1>5 DEF IInv, TypeOK, Phase, fileVars, scanVars
    <2>2. FilesInv' /\ FreshInv' /\ ReadInv'
      BY <1>1, <1>3, <1>5 DEF IInv, FilesInv, FreshInv, ReadInv, Reading, fileVars
    <2>3. OpenInv'
      BY <1>1, <1>2, <1>3, <1>5 DEF OpenInv
    <2>4. CompactInv'
      BY <1>3, <1>4, <1>5 DEF CompactInv
    <2>. QED BY <2>1, <2>2, <2>3, <2>4 DEF IInv
  <1>6. CASE /\ phase = "compact_read" /\ phase' = "compact_write"
             /\ to_write' = {k \in Key : index[k] # NoInfo /\ IsRecordValid(index[k])}
    <2>1. TypeOK'
      BY <1>1, <1>2, <1>6 DEF IInv, TypeOK, Phase, fileVars, scanVars
    <2>2. FilesInv' /\ FreshInv' /\ ReadInv' /\ OpenInv'
      BY <1>1, <1>3, <1>6 DEF IInv, FilesInv, FreshInv, ReadInv, OpenInv, Live, Reading, fileVars
    <2>3. CompactInv'
      BY <1>2, <1>3, <1>4, <1>6 DEF CompactInv, Holds
    <2>. QED BY <2>1, <2>2, <2>3 DEF IInv
  <1>. QED BY <1>5, <1>6 DEF FinishReading

LEMMA CompactWriteInv == ASSUME IInv, CompactWrite PROVE IInv'
  <1> DEFINE rec(k) == [key |-> k, len |-> index[k].len, capacity |-> Capacity(index[k].len),
                        seq_num |-> 0, data |-> disk[index[k].offset].data]
  <1>1. PICK k \in to_write : temp' = Append(temp, rec(k)) /\ to_write' = to_write \ {k}
    BY DEF CompactWrite
  <1>2. /\ phase = "compact_write"
        /\ UNCHANGED <<fileVars, phase, scanVars, index, append_offset, next_unused_key>>
    BY DEF CompactWrite
  <1>3. /\ temp \in Seq(Record) /\ disk \in Seq(Record) /\ to_write \subseteq Key
        /\ index \in [Key -> RecordInfo \cup {NoInfo}] /\ k \in Key
    BY DEF IInv, TypeOK
  <1>4. index[k] \in RecordInfo /\ Holds(k)
    BY <1>2, <1>3 DEF IInv, CompactInv, Holds
  <1>5. IsLast(disk, Len(disk), k, index[k].offset)
    BY <1>2, <1>3, <1>4 DEF IInv, CompactInv, IndexOf, Holds
  <1>6. disk[index[k].offset] \in Record
    BY <1>3, <1>5 DEF IsLast
  <1>7. rec(k) \in Record
    <2>1. index[k].len \in 0..INVALID_LEN /\ index[k].len \in Nat
      BY <1>4, WordFacts DEF RecordInfo
    <2>2. Capacity(index[k].len) \in 0..INVALID_LEN
      BY <2>1, CapacityFacts
    <2>3. disk[index[k].offset].data \in Data \cup {Missing}
      BY <1>6 DEF Record
    <2>. QED BY <1>3, <2>1, <2>2, <2>3 DEF Record
  <1>8. /\ temp' \in Seq(Record) /\ Len(temp') = Len(temp) + 1
        /\ \A i \in 1..Len(temp) : temp'[i] = temp[i]
        /\ temp'[Len(temp) + 1] = rec(k)
    BY <1>1, <1>3, <1>7, EndFacts
  <1>9. TypeOK'
    BY <1>1, <1>2, <1>8 DEF IInv, TypeOK, fileVars, scanVars
  <1>10. File' = File
    BY <1>2 DEF File, fileVars
  <1>11. FilesInv' /\ FreshInv' /\ ReadInv' /\ OpenInv'
    BY <1>2, <1>10 DEF IInv, FilesInv, FreshInv, ReadInv, OpenInv, Live, Reading, fileVars, scanVars
  <1>12. CompactInv'
    <2> DEFINE e == Len(temp) + 1
    <2>1. /\ DOMAIN temp = 1..Len(temp) /\ DOMAIN temp' = 1..e /\ Len(temp) \in Nat
          /\ \A i \in 1..e : i \in 1..Len(temp) \/ i = e
      BY <1>3, <1>8
    <2>2. /\ \A l \in to_write : Holds(l)
          /\ \A i \in 1..Len(temp) :
                LET l == temp[i].key IN
                /\ Holds(l) /\ l \notin to_write
                /\ temp[i].len = index[l].len /\ temp[i].seq_num = 0
                /\ temp[i].capacity = Capacity(temp[i].len)
                /\ temp[i].data = disk[index[l].offset].data
          /\ \A i, j \in 1..Len(temp) : temp[i].key = temp[j].key => i = j
          /\ \A l \in Key : Holds(l) /\ l \notin to_write
                                => \E i \in 1..Len(temp) : temp[i].key = l
      BY <1>2, <2>1 DEF IInv, CompactInv
    <2>3. \A l : Holds(l)' = Holds(l)
      BY <1>2 DEF Holds
    <2>4. \A i \in 1..e :
                LET l == temp'[i].key IN
                /\ Holds(l) /\ l \notin to_write'
                /\ temp'[i].len = index[l].len /\ temp'[i].seq_num = 0
                /\ temp'[i].capacity = Capacity(temp'[i].len)
                /\ temp'[i].data = disk[index[l].offset].data
      BY <1>1, <1>4, <1>8, <2>1, <2>2
    <2>5. \A i, j \in 1..e : temp'[i].key = temp'[j].key => i = j
      BY <1>1, <1>8, <2>1, <2>2
    <2>6. ASSUME NEW l \in Key, Holds(l), l \notin to_write'
          PROVE  \E i \in 1..e : temp'[i].key = l
      <3>1. CASE l = k
        BY <1>8, <2>1, <3>1
      <3>2. CASE l # k
        <4>1. PICK i \in 1..Len(temp) : temp[i].key = l
          BY <1>1, <2>2, <2>6, <3>2
        <4>. QED BY <4>1, <1>8, <2>1
      <3>. QED BY <3>1, <3>2
    <2>7. IndexOf(index, disk, Len(disk))
      BY <1>2 DEF IInv, CompactInv
    <2>. QED BY <1>1, <1>2, <2>1, <2>2, <2>3, <2>4, <2>5, <2>6, <2>7 DEF CompactInv, fileVars
  <1>. QED BY <1>9, <1>11, <1>12 DEF IInv

(* The compacted file is one this class could have written.                 *)
LEMMA CompactedIsWellFormed ==
    ASSUME IInv, phase = "compact_write"
    PROVE  WellFormed(temp)
  <1>1. /\ DOMAIN temp = 1..Len(temp) /\ Len(temp) \in Nat
        /\ disk \in Seq(Record) /\ DOMAIN disk = 1..Len(disk)
        /\ \A i \in 1..Len(temp) : temp[i] \in Record /\ temp[i].key \in Key
    BY FileFacts DEF IInv, TypeOK
  <1>2. RecordsWhole(temp)
    <2> SUFFICES ASSUME NEW i \in 1..Len(temp)
                 PROVE  temp[i].data \in Data /\ temp[i].len = SizeOf[temp[i].data]
      BY <1>1 DEF RecordsWhole
    <2> DEFINE k == temp[i].key
               o == index[k].offset
    <2>1. /\ Holds(k) /\ temp[i].len = index[k].len /\ temp[i].data = disk[o].data
          /\ k \in Key
      BY <1>1 DEF IInv, CompactInv
    <2>2. o \in 1..Len(disk) /\ index[k] = InfoAt(o, disk[o])
      BY <2>1 DEF IInv, CompactInv, IndexOf, IsLast, Holds
    <2>3. disk[o] \in Record /\ o \in Nat
      BY <2>2, <1>1
    <2>4. IsRecordValid(disk[o]) /\ index[k].len = disk[o].len
      BY <2>1, <2>2, <2>3, InfoFacts DEF Holds
    <2>. QED BY <2>1, <2>2, <2>4, <1>1 DEF IInv, FilesInv, WellFormed, RecordsWhole
  <1>3. NumbersGrow(temp)
    BY <1>1 DEF IInv, CompactInv, NumbersGrow
  <1>4. NumbersFollow(temp)
    BY <1>1 DEF IInv, CompactInv, NumbersFollow
  <1>. QED BY <1>2, <1>3, <1>4 DEF WellFormed

LEMMA AllocInv == ASSUME IInv, AllocUnusedKey PROVE IInv'
  <1>1. /\ phase = "open" /\ next_unused_key' = next_unused_key + 1
        /\ UNCHANGED <<fileVars, phase, scanVars, index, append_offset, tempVars>>
    BY DEF AllocUnusedKey
  <1>2. TypeOK'
    BY <1>1 DEF IInv, TypeOK, fileVars, scanVars, tempVars
  <1>3. File' = File
    BY <1>1 DEF File, fileVars
  <1>4. FilesInv' /\ FreshInv' /\ ReadInv' /\ OpenInv' /\ CompactInv'
    BY <1>1, <1>3 DEF IInv, FilesInv, FreshInv, ReadInv, OpenInv, CompactInv, Live, Reading,
                      fileVars, scanVars, tempVars
  <1>. QED BY <1>2, <1>4 DEF IInv

(* What the open, unfailed database knows of a key it has an entry for.     *)
LEMMA EntryFacts ==
    ASSUME IInv, NEW k \in Key, index[k] # NoInfo
    PROVE  /\ index[k] \in RecordInfo
           /\ Live => LET o == index[k].offset IN
                      /\ IsLast(File, Len(File), k, o) /\ o \in 1..Len(File)
                      /\ index[k] = InfoAt(o, File[o])
                      /\ index[k].seq_num = File[o].seq_num
                      /\ File[o].key = k /\ File[o] \in Record
  <1>1. index[k] \in RecordInfo
    BY DEF IInv, TypeOK
  <1>2. ASSUME Live
        PROVE  LET o == index[k].offset IN
               /\ IsLast(File, Len(File), k, o) /\ o \in 1..Len(File)
               /\ index[k] = InfoAt(o, File[o])
               /\ index[k].seq_num = File[o].seq_num
               /\ File[o].key = k /\ File[o] \in Record
    <2> DEFINE o == index[k].offset
    <2>1. IsLast(File, Len(File), k, o) /\ index[k] = InfoAt(o, File[o])
      BY <1>2 DEF IInv, OpenInv, IndexOf
    <2>2. o \in 1..Len(File) /\ File[o].key = k
      BY <2>1 DEF IsLast
    <2>3. File[o] \in Record /\ o \in Nat
      BY <2>2, FileIsFile, FileFacts DEF IInv
    <2>4. InfoAt(o, File[o]).seq_num = File[o].seq_num
      BY <2>3, InfoFacts
    <2>. QED BY <2>1, <2>2, <2>3, <2>4
  <1>. QED BY <1>1, <1>2

(* A step of the open database that writes w and keeps the index up to date *)
(* keeps the invariant.                                                     *)
LEMMA WriteInv ==
    ASSUME IInv, phase = "open", phase' = "open", NEW w \in Write, TryWrite(w),
           UNCHANGED <<scanVars, next_unused_key, tempVars>>,
           index' \in [Key -> RecordInfo \cup {NoInfo}], append_offset' \in Nat,
           ~failed => WellFormed(Apply(File, w)),
           ~failed /\ ~failed' =>
               /\ IndexOf(index', Apply(File, w), Len(Apply(File, w)))
               /\ append_offset' = Len(Apply(File, w)) + 1
    PROVE  IInv'
  <1>1. /\ disk' \in Seq(Record) /\ buffered' \in Write \cup {NoWrite}
        /\ failed' \in BOOLEAN /\ torn' \in BOOLEAN
        /\ FilesInv'
        /\ ~failed' => ~failed /\ File' = Apply(File, w)
    BY FilesKept DEF IInv
  <1>2. TypeOK'
    BY <1>1 DEF IInv, TypeOK, Phase, scanVars, tempVars
  <1>3. FreshInv' /\ ReadInv'
    BY DEF FreshInv, ReadInv, Reading
  <1>4. OpenInv'
    BY <1>1 DEF OpenInv, Live
  <1>5. CompactInv'
    BY DEF IInv, CompactInv, tempVars
  <1>. QED BY <1>1, <1>2, <1>3, <1>4, <1>5 DEF IInv

LEMMA UpdateInPlaceInv ==
    ASSUME IInv, NEW k \in Key, NEW d \in Data, phase = "open", UpdateInPlace(k, d),
           UNCHANGED <<phase, scanVars, next_unused_key, tempVars>>
    PROVE  IInv'
  <1> DEFINE o == index[k].offset
             info == [index[k] EXCEPT !.len = SizeOf[d]]
             r == [key |-> k, len |-> info.len, capacity |-> info.capacity,
                   seq_num |-> info.seq_num, data |-> d]
             w == [offset |-> info.offset, record |-> r]
  <1>1. /\ index[k] # NoInfo /\ index' = [index EXCEPT ![k] = info]
        /\ TryWrite(w) /\ append_offset' = append_offset
    BY DEF UpdateInPlace
  <1>2. /\ index[k] \in RecordInfo /\ index \in [Key -> RecordInfo \cup {NoInfo}]
        /\ append_offset \in Nat
    BY <1>1, EntryFacts DEF IInv, TypeOK
  <1>3. SizeOf[d] \in 0..INVALID_LEN /\ SizeOf[d] # INVALID_LEN
    BY WordFacts
  <1>4. info \in RecordInfo /\ info.offset = o /\ info.len = SizeOf[d]
        /\ info.capacity = index[k].capacity /\ info.seq_num = index[k].seq_num
    BY <1>2, <1>3 DEF RecordInfo
  <1>5. /\ r \in Record /\ r.key = k /\ r.seq_num = index[k].seq_num
        /\ r.data = d /\ r.len = SizeOf[d] /\ IsRecordValid(r)
        /\ InfoAt(o, r) = info
    BY <1>2, <1>3, <1>4 DEF Record, RecordInfo, IsRecordValid, InfoAt
  <1>6. w \in Write /\ w.offset = o /\ w.record = r
    BY <1>4, <1>5 DEF Write, RecordInfo
  <1>7. index' \in [Key -> RecordInfo \cup {NoInfo}]
    BY <1>1, <1>2, <1>4
  <1> HIDE DEF info, r, w, o
  <1>8. ASSUME ~failed
        PROVE  LET G == Apply(File, w) IN
               WellFormed(G) /\ IndexOf(index', G, Len(G)) /\ append_offset = Len(G) + 1
    <2> DEFINE G == [File EXCEPT ![o] = r]
    <2>1. Live
      BY <1>8 DEF Live
    <2>2. /\ IsLast(File, Len(File), k, o) /\ o \in 1..Len(File)
          /\ index[k].seq_num = File[o].seq_num
      BY <1>1, <2>1, EntryFacts DEF o
    <2>3. /\ File \in Seq(Record) /\ WellFormed(File)
          /\ IndexOf(index, File, Len(File)) /\ append_offset = Len(File) + 1
      BY <2>1, FileIsFile DEF IInv, FilesInv, OpenInv
    <2>4. Apply(File, w) = G /\ Len(G) = Len(File)
      BY <1>5, <1>6, <2>2, <2>3, ApplyFacts, PlaceFacts
    <2>5. WellFormed(G)
      BY <1>5, <2>2, <2>3, WellFormedInPlace
    <2>6. IndexOf([index EXCEPT ![k] = InfoAt(o, r)], G, Len(G))
      BY <1>1, <1>2, <1>5, <2>2, <2>3, IndexInPlace DEF o
    <2>. QED BY <1>1, <1>5, <2>3, <2>4, <2>5, <2>6
  <1>. QED BY <1>1, <1>2, <1>6, <1>7, <1>8, WriteInv

LEMMA UpdateAppendInv ==
    ASSUME IInv, NEW k \in Key, NEW d \in Data, phase = "open", UpdateAppend(k, d),
           UNCHANGED <<phase, scanVars, next_unused_key, tempVars>>
    PROVE  IInv'
  <1> DEFINE r == [key |-> k, len |-> SizeOf[d], capacity |-> Capacity(SizeOf[d]),
                   seq_num |-> IF index[k] = NoInfo THEN 0 ELSE index[k].seq_num + 1,
                   data |-> d]
             w == [offset |-> append_offset, record |-> r]
  <1>1. /\ index' = [index EXCEPT ![k] = InfoAt(append_offset, r)]
        /\ TryWrite(w) /\ append_offset' = append_offset + 1
    BY DEF UpdateAppend
  <1>2. /\ index \in [Key -> RecordInfo \cup {NoInfo}] /\ append_offset \in Nat
        /\ append_offset + 1 \in Nat
        /\ index[k] # NoInfo => index[k] \in RecordInfo /\ index[k].seq_num + 1 \in Nat
    BY DEF IInv, TypeOK, RecordInfo
  <1>3. /\ SizeOf[d] \in 0..INVALID_LEN /\ SizeOf[d] # INVALID_LEN
        /\ Capacity(SizeOf[d]) \in 0..INVALID_LEN
    BY WordFacts, CapacityFacts
  <1>4. /\ r \in Record /\ r.key = k /\ r.data = d /\ r.len = SizeOf[d] /\ IsRecordValid(r)
        /\ index[k] = NoInfo => r.seq_num = 0
        /\ index[k] # NoInfo => r.seq_num = index[k].seq_num + 1
    BY <1>2, <1>3 DEF Record, IsRecordValid
  <1>5. w \in Write /\ w.offset = append_offset /\ w.record = r
    BY <1>2, <1>4 DEF Write
  <1> HIDE DEF r, w
  <1>6. InfoAt(append_offset, r) \in RecordInfo
    BY <1>2, <1>4, InfoFacts
  <1>7. index' \in [Key -> RecordInfo \cup {NoInfo}]
    BY <1>1, <1>2, <1>6
  <1>8. ASSUME ~failed
        PROVE  LET G == Apply(File, w) IN
               WellFormed(G) /\ IndexOf(index', G, Len(G)) /\ append_offset' = Len(G) + 1
    <2> DEFINE G == Append(File, r)
    <2>1. Live
      BY <1>8 DEF Live
    <2>2. /\ File \in Seq(Record) /\ WellFormed(File) /\ Len(File) \in Nat
          /\ IndexOf(index, File, Len(File)) /\ append_offset = Len(File) + 1
      BY <2>1, FileIsFile DEF IInv, FilesInv, OpenInv
    <2>3. Apply(File, w) = G /\ Len(G) = Len(File) + 1
      BY <1>4, <1>5, <2>2, ApplyFacts, EndFacts
    <2>4. \/ r.seq_num = 0 /\ \A j \in 1..Len(File) : File[j].key = r.key => ~IsRecordValid(File[j])
          \/ \E o : IsLast(File, Len(File), r.key, o) /\ r.seq_num = File[o].seq_num + 1
      <3>1. CASE index[k] = NoInfo
        BY <1>4, <2>2, <3>1 DEF IndexOf
      <3>2. CASE index[k] # NoInfo
        BY <1>4, <2>1, <3>2, EntryFacts
      <3>. QED BY <3>1, <3>2
    <2>5. WellFormed(G)
      BY <1>4, <2>2, <2>4, WellFormedAtEnd
    <2>6. IndexOf([index EXCEPT ![k] = InfoAt(Len(File) + 1, r)], G, Len(File) + 1)
      BY <1>2, <1>4, <2>2, IndexAtEnd
    <2>. QED BY <1>1, <2>2, <2>3, <2>5, <2>6
  <1>. QED BY <1>1, <1>2, <1>5, <1>7, <1>8, WriteInv

LEMMA UpdateInv ==
    ASSUME IInv, NEW k \in Key, NEW d \in Data, UpdateRecord(k, d)
    PROVE  IInv'
  BY UpdateInPlaceInv, UpdateAppendInv DEF UpdateRecord

LEMMA DeleteInv ==
    ASSUME IInv, NEW k \in Key, DeleteRecord(k)
    PROVE  IInv'
  <1> DEFINE o == index[k].offset
             info == [index[k] EXCEPT !.len = INVALID_LEN]
             r == [key |-> k, len |-> INVALID_LEN, capacity |-> info.capacity,
                   seq_num |-> info.seq_num, data |-> Missing]
             w == [offset |-> info.offset, record |-> r]
             e == IF info.seq_num = 0 THEN NoInfo ELSE info
  <1>1. /\ phase = "open" /\ index[k] # NoInfo
        /\ UNCHANGED <<phase, scanVars, append_offset, next_unused_key, tempVars>>
        /\ \/ ~failed /\ WriteOut(w) /\ index' = [index EXCEPT ![k] = e]
           \/ failed /\ UNCHANGED fileVars /\ UNCHANGED index
           \/ ~failed /\ WriteFails(w) /\ UNCHANGED index
    BY DEF DeleteRecord
  <1>2. /\ index[k] \in RecordInfo /\ index \in [Key -> RecordInfo \cup {NoInfo}]
        /\ append_offset \in Nat
    BY <1>1, EntryFacts DEF IInv, TypeOK
  <1>3. /\ info \in RecordInfo /\ info.offset = o /\ info.len = INVALID_LEN
        /\ info.capacity = index[k].capacity /\ info.seq_num = index[k].seq_num
    BY <1>2, WordFacts DEF RecordInfo
  <1>4. /\ r \in Record /\ r.key = k /\ r.seq_num = index[k].seq_num /\ ~IsRecordValid(r)
        /\ InfoAt(o, r) = info
    BY <1>2, <1>3, WordFacts DEF Record, RecordInfo, IsRecordValid, InfoAt
  <1>5. w \in Write /\ w.offset = o /\ w.record = r
    BY <1>3, <1>4 DEF Write, RecordInfo
  <1>6. index' \in [Key -> RecordInfo \cup {NoInfo}]
    BY <1>1, <1>2, <1>3
  <1>7. TryWrite(w)
    BY <1>1 DEF TryWrite
  <1>8. ~failed /\ ~failed' => index' = [index EXCEPT ![k] = e]
    BY <1>1 DEF WriteFails
  <1>9. e = IF r.seq_num = 0 THEN NoInfo ELSE InfoAt(o, r)
    BY <1>3, <1>4
  <1> HIDE DEF info, r, w, o, e
  <1>10. ASSUME ~failed
         PROVE  LET G == Apply(File, w) IN
                /\ WellFormed(G) /\ append_offset = Len(G) + 1
                /\ IndexOf([index EXCEPT ![k] = e], G, Len(G))
    <2> DEFINE G == [File EXCEPT ![o] = r]
    <2>1. Live
      BY <1>1, <1>10 DEF Live
    <2>2. /\ IsLast(File, Len(File), k, o) /\ o \in 1..Len(File)
          /\ index[k].seq_num = File[o].seq_num
      BY <1>1, <2>1, EntryFacts DEF o
    <2>3. /\ File \in Seq(Record) /\ WellFormed(File)
          /\ IndexOf(index, File, Len(File)) /\ append_offset = Len(File) + 1
      BY <2>1, FileIsFile DEF IInv, FilesInv, OpenInv
    <2>4. Apply(File, w) = G /\ Len(G) = Len(File)
      BY <1>4, <1>5, <2>2, <2>3, ApplyFacts, PlaceFacts
    <2>5. WellFormed(G)
      BY <1>4, <2>2, <2>3, WellFormedInPlace
    <2>6. IndexOf([index EXCEPT ![k] = e], G, Len(G))
      BY <1>1, <1>2, <1>4, <1>9, <2>2, <2>3, IndexInPlace DEF o
    <2>. QED BY <2>3, <2>4, <2>5, <2>6
  <1>. QED BY <1>1, <1>2, <1>5, <1>6, <1>7, <1>8, <1>10, WriteInv

LEMMA FlushInv == ASSUME IInv, Flush PROVE IInv'
  <1>1. /\ phase = "open" /\ ~failed
        /\ \/ disk' = File /\ buffered' = NoWrite /\ UNCHANGED <<failed, torn>>
           \/ WriteFails(NoWrite)
        /\ UNCHANGED <<phase, objectVars, scanVars, tempVars>>
    BY DEF Flush
  <1>2. File \in Seq(Record) /\ disk \in Seq(Record) /\ torn \in BOOLEAN /\ failed \in BOOLEAN
    BY FileIsFile DEF IInv, TypeOK
  <1>3. /\ buffered' = NoWrite /\ disk' \in {disk, File} /\ torn' \in BOOLEAN
        /\ failed' \in BOOLEAN /\ (~failed' => disk' = File)
    BY <1>1, <1>2 DEF WriteFails, IsAppend
  <1>4. File' = disk'
    BY <1>3 DEF File, Apply
  <1>5. TypeOK'
    BY <1>1, <1>2, <1>3 DEF IInv, TypeOK, objectVars, scanVars, tempVars
  <1>6. FilesInv'
    BY <1>1, <1>3, <1>4 DEF IInv, FilesInv
  <1>7. FreshInv' /\ ReadInv' /\ CompactInv'
    BY <1>1 DEF IInv, FreshInv, ReadInv, Reading, CompactInv, tempVars
  <1>8. OpenInv'
    BY <1>1, <1>3, <1>4 DEF IInv, OpenInv, Live, objectVars
  <1>. QED BY <1>5, <1>6, <1>7, <1>8 DEF IInv

LEMMA NextInv == ASSUME IInv, Next PROVE IInv'
  <1>1. /\ disk \in Seq(Record) /\ File \in Seq(Record) /\ temp \in Seq(Record)
        /\ torn \in BOOLEAN /\ WellFormed(disk) /\ WellFormed(File)
    BY FileIsFile DEF IInv, TypeOK, FilesInv
  <1>2. \A F, v : IsAppend(F, v) \in BOOLEAN
    BY DEF IsAppend
  <1>3. CASE MakeOrClear
    BY <1>3, ClearInv
  <1>4. CASE StartReading
    BY <1>4, StartInv
  <1>5. CASE ReadRecord
    BY <1>5, ReadRecordInv
  <1>6. CASE ReadFails
    BY <1>1, <1>6, ForgetInv DEF ReadFails
  <1>7. CASE FinishReading
    BY <1>7, FinishInv
  <1>8. CASE CompactWrite
    BY <1>8, CompactWriteInv
  <1>9. CASE CompactMove
    BY <1>1, <1>9, CompactedIsWellFormed, ForgetInv DEF CompactMove
  <1>10. CASE AllocUnusedKey
    BY <1>10, AllocInv
  <1>11. CASE \E k \in Key, d \in Data : UpdateRecord(k, d)
    BY <1>11, UpdateInv
  <1>12. CASE \E k \in Key : DeleteRecord(k)
    BY <1>12, DeleteInv
  <1>13. CASE Flush
    BY <1>13, FlushInv
  <1>14. CASE Close
    BY <1>1, <1>2, <1>14, ForgetInv DEF Close
  <1>15. CASE Crash
    BY <1>1, <1>2, <1>15, ForgetInv DEF Crash
  <1>. QED BY <1>3, <1>4, <1>5, <1>6, <1>7, <1>8, <1>9, <1>10, <1>11, <1>12, <1>13,
              <1>14, <1>15 DEF Next

LEMMA StutterInv == ASSUME IInv, UNCHANGED vars PROVE IInv'
  <1>1. File' = File
    BY DEF vars, fileVars, File
  <1>. QED BY <1>1 DEF IInv, TypeOK, FilesInv, FreshInv, ReadInv, OpenInv, CompactInv, Live,
                       Reading, Holds, vars, fileVars, objectVars, scanVars, tempVars

THEOREM Invariance == Spec => []IInv
  <1>1. IInv /\ [Next]_vars => IInv'
    BY NextInv, StutterInv
  <1>. QED BY <1>1, InitInv, PTL DEF Spec

-----------------------------------------------------------------------------
(* What follows from the invariant.                                         *)

(* The state of the database has its type.                                  *)
THEOREM TypeCorrect == Spec => []TypeOK
  <1>1. IInv => TypeOK
    BY DEF IInv
  <1>. QED BY <1>1, Invariance, PTL

(* A sequence number tells any two records of a key apart, after any        *)
(* updates, deletions, crashes and compactions, the deleted records of      *)
(* number 0 aside (updateRecord's info.seq_num++).                          *)
THEOREM NumbersTellApart == Spec => []SequenceNumbersDiffer
  <1>1. IInv => SequenceNumbersDiffer
    <2> SUFFICES ASSUME IInv, NEW i \in DOMAIN File, NEW j \in DOMAIN File,
                        i < j, File[i].key = File[j].key, File[i].seq_num = File[j].seq_num
                 PROVE  File[i].seq_num = 0 /\ ~IsRecordValid(File[i])
      BY DEF SequenceNumbersDiffer
    <2>1. File \in Seq(Record) /\ WellFormed(File)
      BY FileIsFile DEF IInv, FilesInv
    <2>2. File[i].seq_num \in Nat
      BY <2>1, FileFacts
    <2>. QED BY <2>1, <2>2 DEF WellFormed, NumbersGrow
  <1>. QED BY <1>1, Invariance, PTL

(* The index that updateRecord and deleteRecord keep is the one that        *)
(* startReadingFromDisk would build from the file, and what is appended     *)
(* goes to the file's end, until a write fails.                             *)
THEOREM IndexIsKept == Spec => []IndexIsWhatTheFileSays
  <1>1. IInv => IndexIsWhatTheFileSays
    <2> SUFFICES ASSUME IInv, Live
                 PROVE  /\ index = [k \in Key |-> InfoIn(File, k)]
                        /\ append_offset = Len(File) + 1
      BY DEF IndexIsWhatTheFileSays
    <2>1. /\ File \in Seq(Record) /\ WellFormed(File) /\ IndexOf(index, File, Len(File))
          /\ append_offset = Len(File) + 1
      BY FileIsFile DEF IInv, FilesInv, OpenInv
    <2>2. \A k \in Key : InfoIn(File, k) = index[k]
      BY <2>1, IndexIsInfo
    <2>3. index \in [Key -> RecordInfo \cup {NoInfo}]
      BY DEF IInv, TypeOK
    <2>. QED BY <2>1, <2>2, <2>3
  <1>. QED BY <1>1, Invariance, PTL

(* No key that allocUnusedKey will return after the file has been read is   *)
(* one the file has an entry for.                                           *)
THEOREM UnusedKeysAreNew == Spec => NewKeysAreUnused
  <1>1. ASSUME IInv, [Next]_vars, phase = "reading", phase' = "open",
               NEW k \in Key, k >= next_unused_key', index'[k] # NoInfo
        PROVE  FALSE
    <2>1. FinishReading
      BY <1>1 DEF Next, vars, MakeOrClear, StartReading, ReadRecord, ReadFails, CompactWrite,
                  CompactMove, AllocUnusedKey, UpdateRecord, DeleteRecord, Flush, Close, Crash,
                  Forget
    <2>2. /\ pos > Len(disk) /\ index' = index /\ next_unused_key' = max_used_key + 1
          /\ pos \in 1..Len(disk) + 1 /\ IndexOf(index, disk, pos - 1)
          /\ \A i \in 1..pos - 1 : disk[i].key <= max_used_key
          /\ max_used_key \in Key
      BY <1>1, <2>1 DEF FinishReading, IInv, ReadInv, Reading, TypeOK
    <2>3. IsLast(disk, pos - 1, k, index[k].offset)
      BY <1>1, <2>2 DEF IndexOf
    <2>4. k <= max_used_key
      BY <2>2, <2>3 DEF IsLast
    <2>. QED BY <1>1, <2>2, <2>4 DEF Key
  <1>2. IInv /\ [Next]_vars =>
            (phase = "reading" /\ phase' = "open" =>
                \A k \in Key : k >= next_unused_key' => index'[k] = NoInfo)
    BY <1>1
  <1>. QED BY <1>2, Invariance, PTL DEF Spec, NewKeysAreUnused

-----------------------------------------------------------------------------
(* The length of a valid record is at most its capacity, provided that      *)
(* adding 64 to the size of an update and rounding up does not wrap around. *)
(* Otherwise allocRecordSpace gives it a capacity it does not fit.          *)
NoSizeWraps == \A d \in Data : SizeOf[d] + 68 <= WordSize

LengthsFit(F) == \A i \in DOMAIN F : IsRecordValid(F[i]) => F[i].len <= F[i].capacity

LenInv ==
    /\ LengthsFit(disk) /\ LengthsFit(File)
    /\ LenWithinCapacity
    /\ AlwaysReadable

LEMMA CapacitySuffices ==
    ASSUME NoSizeWraps, NEW d \in Data
    PROVE  SizeOf[d] <= Capacity(SizeOf[d])
  <1> DEFINE n == SizeOf[d]
  <1>1. n \in Nat /\ n + 68 <= WordSize /\ WordSize \in Nat
    BY WordFacts DEF NoSizeWraps
  <1> HIDE DEF n
  <1>2. (n + 64) % WordSize = n + 64
    BY <1>1
  <1>3. (n + 67) % WordSize = n + 67
    BY <1>1
  <1>4. Capacity(n) = ((n + 67) \div 4) * 4
    <2>1. ((n + 64) + 3) % WordSize = n + 67
      BY <1>1, <1>3
    <2>. QED BY <1>2, <2>1 DEF Capacity, RoundUp4
  <1>5. ((n + 67) \div 4) * 4 >= n
    BY <1>1
  <1>. QED BY <1>4, <1>5, <1>1 DEF n

LEMMA FitAfterWrite ==
    ASSUME NEW F \in Seq(Record), LengthsFit(F), NEW w \in Write,
           IsRecordValid(w.record) => w.record.len <= w.record.capacity
    PROVE  LengthsFit(Apply(F, w))
  <1>1. w.record \in Record /\ DOMAIN F = 1..Len(F) /\ Len(F) \in Nat
    BY DEF Write
  <1>2. CASE w.offset \in 1..Len(F)
    BY <1>1, <1>2, ApplyFacts, PlaceFacts DEF LengthsFit
  <1>3. CASE w.offset \notin 1..Len(F)
    <2>1. Apply(F, w) = Append(F, w.record)
      BY <1>3, ApplyFacts
    <2>2. DOMAIN Append(F, w.record) = 1..Len(F) + 1
      BY <1>1, EndFacts
    <2>3. \A i \in 1..Len(F) + 1 : i \in 1..Len(F) \/ i = Len(F) + 1
      BY <1>1
    <2>. QED BY <1>1, <2>1, <2>2, <2>3, EndFacts DEF LengthsFit
  <1>. QED BY <1>2, <1>3

LEMMA CompactedFits ==
    ASSUME IInv, NoSizeWraps, phase = "compact_write"
    PROVE  LengthsFit(temp)
  <1> SUFFICES ASSUME NEW i \in DOMAIN temp, IsRecordValid(temp[i])
               PROVE  temp[i].len <= temp[i].capacity
    BY DEF LengthsFit
  <1>1. temp[i].data \in Data /\ temp[i].len = SizeOf[temp[i].data]
    BY CompactedIsWellFormed DEF WellFormed, RecordsWhole
  <1>2. temp[i].capacity = Capacity(temp[i].len)
    BY DEF IInv, CompactInv
  <1>. QED BY <1>1, <1>2, CapacitySuffices

LEMMA FitKept ==
    ASSUME IInv, LenInv, NEW w \in Write, TryWrite(w),
           IsRecordValid(w.record) => w.record.len <= w.record.capacity
    PROVE  LengthsFit(disk') /\ LengthsFit(File')
  <1>1. File \in Seq(Record) /\ LengthsFit(Apply(File, w))
    BY FileIsFile, FitAfterWrite DEF IInv, LenInv
  <1>2. CASE failed
    <2>1. UNCHANGED fileVars
      BY <1>2 DEF TryWrite
    <2>2. File' = File /\ disk' = disk
      BY <2>1 DEF fileVars, File
    <2>. QED BY <2>2 DEF LenInv
  <1>3. CASE ~failed
    <2>1. WriteOut(w) \/ WriteFails(w) \/ WriteFails(NoWrite)
      BY <1>3 DEF TryWrite
    <2>2. /\ failed' \in BOOLEAN
          /\ failed' => File' = disk' /\ disk' \in {disk, File}
          /\ ~failed' => File' = Apply(File, w) /\ disk' \in {File, File'}
      BY <1>3, <2>1, WriteEffect DEF IInv
    <2>. QED BY <1>1, <2>2 DEF LenInv
  <1>. QED BY <1>2, <1>3

LEMMA ForgetFits ==
    ASSUME Forget, phase' \in {"closed", "error", "open"}, LengthsFit(disk'),
           phase' = "error" => torn'
    PROVE  LenInv'
  <1>1. File' = disk'
    BY DEF Forget, File, Apply
  <1>. QED BY <1>1 DEF Forget, NoIndex, LenInv, LenWithinCapacity, AlwaysReadable

LEMMA LenInvNext ==
    ASSUME IInv, LenInv, NoSizeWraps, [Next]_vars
    PROVE  LenInv'
  <1> USE DEF LenInv
  <1>1. /\ disk \in Seq(Record) /\ File \in Seq(Record)
        /\ index \in [Key -> RecordInfo \cup {NoInfo}] /\ append_offset \in Nat
    BY FileIsFile DEF IInv, TypeOK
  <1>2. CASE MakeOrClear
    BY <1>2, ForgetFits DEF MakeOrClear, LengthsFit
  <1>3. CASE UNCHANGED <<fileVars, index>> /\ phase' # "error"
    <2>1. File' = File /\ disk' = disk /\ index' = index
      BY <1>3 DEF fileVars, File
    <2>. QED BY <1>3, <2>1 DEF LenWithinCapacity, AlwaysReadable
  <1>4. CASE StartReading \/ FinishReading \/ CompactWrite \/ AllocUnusedKey
    <2>1. UNCHANGED <<fileVars, index>> /\ phase' # "error"
      BY <1>4 DEF StartReading, FinishReading, CompactWrite, AllocUnusedKey, objectVars
    <2>. QED BY <2>1, <1>3
  <1>5. CASE ReadRecord
    <2> DEFINE r == disk[pos]
    <2>1. /\ Reading /\ pos \in 1..Len(disk) /\ r \in Record /\ pos \in Nat /\ r.key \in Key
      BY <1>1, <1>5, FileFacts DEF ReadRecord, IInv, ReadInv
    <2>2. /\ IsRecordValid(r) => r.len <= r.capacity
          /\ index' \in {index, [index EXCEPT ![r.key] = InfoAt(pos, r)]}
          /\ UNCHANGED <<fileVars, phase>>
      BY <1>5 DEF ReadRecord
    <2>3. LenWithinCapacity'
      <3> SUFFICES ASSUME NEW k \in Key, index'[k] # NoInfo, IsRecordValid(index'[k])
                   PROVE  index'[k].len <= index'[k].capacity
        BY DEF LenWithinCapacity
      <3>1. index'[k] = index[k] \/ index'[k] = InfoAt(pos, r)
        BY <1>1, <2>2
      <3>. QED BY <3>1, <2>1, <2>2, InfoFacts DEF LenWithinCapacity
    <2>4. File' = File /\ disk' = disk
      BY <2>2 DEF fileVars, File
    <2>. QED BY <2>1, <2>2, <2>3, <2>4 DEF Reading, AlwaysReadable
  <1>6. CASE ReadFails
    <2>1. pos \in Nat /\ pos <= Len(disk) => pos \in DOMAIN disk
      BY <1>1, <1>6 DEF ReadFails, IInv, ReadInv
    <2>2. torn
      <3>1. ASSUME pos <= Len(disk) PROVE FALSE
        <4>1. /\ pos \in 1..Len(disk) /\ IsRecordValid(disk[pos])
              /\ disk[pos].len > disk[pos].capacity
          BY <1>1, <1>6, <3>1 DEF ReadFails, IInv, ReadInv
        <4>2. /\ disk[pos].len <= disk[pos].capacity
              /\ disk[pos] \in Record
          BY <1>1, <4>1, FileFacts DEF LengthsFit
        <4>3. disk[pos].len \in Nat /\ disk[pos].capacity \in Nat
          BY <4>2, WordFacts DEF Record
        <4>. QED BY <4>1, <4>2, <4>3
      <3>. QED BY <1>6, <3>1 DEF ReadFails
    <2>. QED BY <1>6, <2>2, ForgetFits DEF ReadFails
  <1>7. CASE CompactMove
    BY <1>7, CompactedFits, ForgetFits DEF CompactMove
  <1>8. ASSUME NEW k \in Key, NEW d \in Data, UpdateRecord(k, d)
        PROVE  LenInv'
    <2> DEFINE info == [index[k] EXCEPT !.len = SizeOf[d]]
               place == [key |-> k, len |-> info.len, capacity |-> info.capacity,
                         seq_num |-> info.seq_num, data |-> d]
               new == [key |-> k, len |-> SizeOf[d], capacity |-> Capacity(SizeOf[d]),
                       seq_num |-> IF index[k] = NoInfo THEN 0 ELSE index[k].seq_num + 1,
                       data |-> d]
    <2>1. SizeOf[d] \in 0..INVALID_LEN /\ SizeOf[d] <= Capacity(SizeOf[d])
          /\ Capacity(SizeOf[d]) \in 0..INVALID_LEN
      BY WordFacts, CapacitySuffices, CapacityFacts
    <2>2. CASE UpdateInPlace(k, d)
      <3>1. /\ index[k] \in RecordInfo /\ index[k].capacity >= SizeOf[d]
            /\ index' = [index EXCEPT ![k] = info]
            /\ TryWrite([offset |-> info.offset, record |-> place])
        BY <1>1, <2>2 DEF UpdateInPlace
      <3>2. /\ info \in RecordInfo /\ info.len = SizeOf[d] /\ info.capacity = index[k].capacity
            /\ SizeOf[d] <= index[k].capacity
        BY <2>1, <3>1, WordFacts DEF RecordInfo
      <3>3. place \in Record /\ place.len <= place.capacity
        BY <2>1, <3>1, <3>2 DEF Record, RecordInfo
      <3>4. [offset |-> info.offset, record |-> place] \in Write
        BY <3>2, <3>3 DEF Write, RecordInfo
      <3>5. LengthsFit(disk') /\ LengthsFit(File')
        BY <3>1, <3>3, <3>4, FitKept
      <3>6. LenWithinCapacity'
        BY <1>1, <3>1, <3>2 DEF LenWithinCapacity
      <3>. QED BY <1>8, <3>5, <3>6 DEF UpdateRecord, AlwaysReadable
    <2>3. CASE UpdateAppend(k, d)
      <3>1. /\ index' = [index EXCEPT ![k] = InfoAt(append_offset, new)]
            /\ TryWrite([offset |-> append_offset, record |-> new])
        BY <2>3 DEF UpdateAppend
      <3>2. new.seq_num \in Nat
        BY <1>1 DEF RecordInfo
      <3>3. new \in Record /\ new.len <= new.capacity
        BY <2>1, <3>2 DEF Record
      <3>4. [offset |-> append_offset, record |-> new] \in Write
        BY <1>1, <3>3 DEF Write
      <3>5. LengthsFit(disk') /\ LengthsFit(File')
        BY <3>1, <3>3, <3>4, FitKept
      <3>6. InfoAt(append_offset, new).len <= InfoAt(append_offset, new).capacity
        BY <1>1, <3>3, InfoFacts
      <3>7. LenWithinCapacity'
        BY <1>1, <3>1, <3>6 DEF LenWithinCapacity
      <3>. QED BY <1>8, <3>5, <3>7 DEF UpdateRecord, AlwaysReadable
    <2>. QED BY <1>8, <2>2, <2>3 DEF UpdateRecord
  <1>9. ASSUME NEW k \in Key, DeleteRecord(k)
        PROVE  LenInv'
    <2> DEFINE info == [index[k] EXCEPT !.len = INVALID_LEN]
               r == [key |-> k, len |-> INVALID_LEN, capacity |-> info.capacity,
                     seq_num |-> info.seq_num, data |-> Missing]
               w == [offset |-> info.offset, record |-> r]
               e == IF info.seq_num = 0 THEN NoInfo ELSE info
    <2>1. /\ index[k] \in RecordInfo /\ phase' = "open"
          /\ index' \in {index, [index EXCEPT ![k] = e]}
          /\ TryWrite(w)
      BY <1>1, <1>9 DEF DeleteRecord, TryWrite
    <2>2. info \in RecordInfo /\ info.len = INVALID_LEN
      BY <2>1, WordFacts DEF RecordInfo
    <2>3. w \in Write /\ ~IsRecordValid(w.record)
      BY <2>2, WordFacts DEF Write, Record, RecordInfo, IsRecordValid
    <2>4. LengthsFit(disk') /\ LengthsFit(File')
      BY <2>1, <2>3, FitKept
    <2>5. LenWithinCapacity'
      <3> SUFFICES ASSUME NEW l \in Key, index'[l] # NoInfo, IsRecordValid(index'[l])
                   PROVE  index'[l].len <= index'[l].capacity
        BY DEF LenWithinCapacity
      <3>1. index'[l] = index[l]
        BY <1>1, <2>1, <2>2 DEF IsRecordValid
      <3>. QED BY <3>1 DEF LenWithinCapacity
    <2>. QED BY <2>1, <2>4, <2>5 DEF AlwaysReadable
  <1>10. CASE Flush
    <2>1. disk' \in {disk, File} /\ buffered' = NoWrite /\ index' = index /\ phase' = "open"
      BY <1>10 DEF Flush, WriteFails, objectVars, File, Apply
    <2>2. File' = disk'
      BY <2>1 DEF File, Apply
    <2>. QED BY <2>1, <2>2 DEF LenWithinCapacity, AlwaysReadable
  <1>11. CASE Close
    BY <1>11, ForgetFits DEF Close
  <1>12. CASE Crash
    BY <1>12, ForgetFits DEF Crash
  <1>13. CASE UNCHANGED vars
    <2>1. File' = File
      BY <1>13 DEF vars, fileVars, File
    <2>. QED BY <1>13, <2>1 DEF vars, fileVars, objectVars, LenWithinCapacity, AlwaysReadable
  <1>. QED BY <1>2, <1>4, <1>5, <1>6, <1>7, <1>8, <1>9, <1>10, <1>11, <1>12, <1>13 DEF Next

LEMMA LenInvariance == ASSUME NoSizeWraps PROVE Spec => []LenInv
  <1>1. Init => LenInv
    <2>1. Init => File = disk
      BY DEF Init, File, Apply
    <2>. QED BY <2>1 DEF Init, NoIndex, LenInv, LengthsFit, LenWithinCapacity, AlwaysReadable
  <1>2. IInv /\ LenInv /\ [Next]_vars => LenInv'
    BY LenInvNext
  <1>. QED BY <1>1, <1>2, Invariance, PTL DEF Spec

(* Every entry's length is at most its capacity, as Database.h says, for    *)
(* sizes that do not wrap.                                                  *)
THEOREM LengthsWithinCapacity == ASSUME NoSizeWraps PROVE Spec => []LenWithinCapacity
  <1>1. LenInv => LenWithinCapacity
    BY DEF LenInv
  <1>. QED BY <1>1, LenInvariance, PTL

(* startReadingFromDisk rejects no file that this class wrote, whatever was *)
(* lost, unless an append failed half way; for sizes that do not wrap.      *)
THEOREM WrittenIsReadable == ASSUME NoSizeWraps PROVE Spec => []AlwaysReadable
  <1>1. LenInv => AlwaysReadable
    BY DEF LenInv
  <1>. QED BY <1>1, LenInvariance, PTL

-----------------------------------------------------------------------------
(* The refinement.  What the database holds is what its file, with the      *)
(* buffer in it, says; once it is closed or its stream has failed, what the *)
(* file says that the operating system has.                                 *)
LEMMA IndexedIsContents ==
    ASSUME NEW F \in Seq(Record), WellFormed(F), NEW idx, IndexOf(idx, F, Len(F))
    PROVE  Contents(F) = [k \in Key |-> IF idx[k] # NoInfo /\ IsRecordValid(idx[k])
                                        THEN F[idx[k].offset].data ELSE Missing]
  <1>1. \A k \in Key : Lookup(F, k) = IF idx[k] # NoInfo /\ IsRecordValid(idx[k])
                                      THEN F[idx[k].offset].data ELSE Missing
    BY IndexIsInfo
  <1>. QED BY <1>1 DEF Contents

Store == IF Live THEN Held ELSE Contents(disk)

LEMMA StoreIsContents == IInv => Store = IF Live THEN Contents(File) ELSE Contents(disk)
  <1> SUFFICES ASSUME IInv, Live PROVE Held = Contents(File)
    BY DEF Store
  <1>1. File \in Seq(Record) /\ WellFormed(File) /\ IndexOf(index, File, Len(File))
    BY FileIsFile DEF IInv, FilesInv, OpenInv
  <1>. QED BY <1>1, IndexedIsContents DEF Held

(* The same of the state after a step.                                      *)
LEMMA NextStoreIsContents ==
    (IInv => Store = IF Live THEN Contents(File) ELSE Contents(disk))'
  BY StoreIsContents, PTL

LEMMA EmptyContents == Contents(<<>>) = KVS!Empty
  <1>1. \A k : Entries(<<>>, k) = {}
    BY DEF Entries
  <1>2. \A k : Lookup(<<>>, k) = Missing
    BY <1>1 DEF Lookup
  <1>. QED BY <1>2 DEF Contents, KVS!Empty

(* A new entry for one key, with what it refers to, changes what the file   *)
(* says of that key only.                                                   *)
LEMMA LookupAfter ==
    ASSUME NEW F \in Seq(Record), WellFormed(F), NEW idx, IndexOf(idx, F, Len(F)),
           NEW G \in Seq(Record), WellFormed(G), NEW new, IndexOf(new, G, Len(G)),
           NEW k \in Key, \A l \in Key : l # k => new[l] = idx[l],
           \A j \in 1..Len(F) : F[j].key = k \/ G[j] = F[j]
    PROVE  /\ Lookup(G, k) = IF new[k] # NoInfo /\ IsRecordValid(new[k])
                             THEN G[new[k].offset].data ELSE Missing
           /\ \A l \in Key : l # k => Lookup(G, l) = Lookup(F, l)
  <1>1. \A l \in Key : Lookup(F, l) = IF idx[l] # NoInfo /\ IsRecordValid(idx[l])
                                      THEN F[idx[l].offset].data ELSE Missing
    BY IndexIsInfo
  <1>2. \A l \in Key : Lookup(G, l) = IF new[l] # NoInfo /\ IsRecordValid(new[l])
                                      THEN G[new[l].offset].data ELSE Missing
    BY IndexIsInfo
  <1>3. ASSUME NEW l \in Key, l # k
        PROVE  Lookup(G, l) = Lookup(F, l)
    <2>1. new[l] = idx[l]
      BY <1>3
    <2>2. CASE idx[l] = NoInfo
      BY <2>1, <2>2, <1>1, <1>2
    <2>3. CASE idx[l] # NoInfo
      <3>1. IsLast(F, Len(F), l, idx[l].offset)
        BY <2>3 DEF IndexOf
      <3>2. G[idx[l].offset] = F[idx[l].offset]
        BY <3>1, <1>3 DEF IsLast
      <3>. QED BY <2>1, <3>2, <1>1, <1>2
    <2>. QED BY <2>2, <2>3
  <1>. QED BY <1>2, <1>3

(* A failed write, or the end of the process, leaves what was safe, or all. *)
LEMMA FailedWrite ==
    ASSUME IInv, IInv', Live, ~Live', disk' \in {disk, File}
    PROVE  \/ Store' = Contents(disk) /\ Contents(disk') = Contents(disk)
           \/ Store' = Store /\ Contents(disk') = Store
  <1>1. Store = Contents(File)
    BY StoreIsContents
  <1>2. Store' = Contents(disk')
    BY StoreIsContents DEF Store
  <1>. QED BY <1>1, <1>2

MapNext == KVS!Next \/ UNCHANGED <<Store, Contents(disk)>>

LEMMA LoseStep ==
    ASSUME Store' = Contents(disk), Contents(disk') = Contents(disk)
    PROVE  KVS!Next
  BY DEF KVS!Next, KVS!Lose, Store

LEMMA FlushStep ==
    ASSUME Store' = Store, Contents(disk') = Store
    PROVE  KVS!Next
  BY DEF KVS!Next, KVS!Flush, Store

(* An update or a deletion.                                                 *)
LEMMA SetStep ==
    ASSUME IInv, IInv', phase = "open", phase' = "open",
           NEW w \in Write, TryWrite(w), NEW k \in Key, NEW e,
           ~failed /\ ~failed' => index' = [index EXCEPT ![k] = e],
           ~failed => \A j \in 1..Len(File) : File[j].key = k \/ Apply(File, w)[j] = File[j],
           ~failed => IF e # NoInfo /\ IsRecordValid(e)
                      THEN Apply(File, w)[e.offset].data \in Data ELSE TRUE
    PROVE  MapNext
  <1>1. CASE failed
    <2>1. UNCHANGED fileVars
      BY <1>1 DEF TryWrite
    <2>2. ~Live /\ ~Live' /\ disk' = disk
      BY <1>1, <2>1 DEF fileVars, Live
    <2>3. Store' = Store /\ Contents(disk)' = Contents(disk)
      BY <2>2 DEF Store
    <2>. QED BY <2>3 DEF MapNext
  <1>2. CASE ~failed /\ failed'
    <2>1. disk' \in {disk, File}
      BY <1>2, WriteEffect DEF TryWrite, IInv
    <2>2. Live /\ ~Live'
      BY <1>2 DEF Live
    <2>. QED BY <2>1, <2>2, FailedWrite, LoseStep, FlushStep DEF MapNext
  <1>3. CASE ~failed /\ ~failed'
    <2> DEFINE G == Apply(File, w)
               x == Lookup(G, k)
    <2>1. File' = G /\ disk' \in {File, G}
      BY <1>3, WriteEffect DEF TryWrite, IInv
    <2>2. Live /\ Live'
      BY <1>3 DEF Live
    <2>3. /\ File \in Seq(Record) /\ WellFormed(File) /\ IndexOf(index, File, Len(File))
          /\ index \in [Key -> RecordInfo \cup {NoInfo}]
      BY <2>2, FileIsFile DEF IInv, FilesInv, OpenInv, TypeOK
    <2>4. G \in Seq(Record)
      BY <2>3, ApplyFacts
    <2>5. WellFormed(G) /\ IndexOf(index', G, Len(G))
      BY <2>1, <2>2 DEF IInv, FilesInv, OpenInv
    <2>6. \A j \in 1..Len(File) : File[j].key = k \/ G[j] = File[j]
      BY <1>3
    <2>7. index'[k] = e /\ \A l \in Key : l # k => index'[l] = index[l]
      BY <1>3, <2>3
    <2>8. /\ x \in Data \cup {Missing}
          /\ Contents(G) = [Contents(File) EXCEPT ![k] = x]
      <3> HIDE DEF G
      <3>1. /\ Lookup(G, k) = IF index'[k] # NoInfo /\ IsRecordValid(index'[k])
                             THEN G[index'[k].offset].data ELSE Missing
            /\ \A l \in Key : l # k => Lookup(G, l) = Lookup(File, l)
        BY ONLY <2>3, <2>4, <2>5, <2>6, <2>7, LookupAfter, k \in Key
      <3>2. x \in Data \cup {Missing}
        BY <1>3, <2>7, <3>1 DEF G
      <3>. QED BY <3>1, <3>2 DEF Contents
    <2> HIDE DEF G
    <2>9. Store = Contents(File) /\ Store' = Contents(G)
      <3>1. Store = Contents(File)
        BY <2>2, StoreIsContents
      <3>2. Store' = Contents(File')
        BY <2>2, NextStoreIsContents
      <3>. QED BY <2>1, <3>1, <3>2
    <2>10. Contents(disk') \in {Store, Store'}
      BY <2>1, <2>9
    <2> HIDE DEF x
    <2>11. KVS!Set(k, x)
      BY <2>8, <2>9, <2>10 DEF KVS!Set, Store
    <2>. QED BY <2>8, <2>11 DEF MapNext, KVS!Next
  <1>. QED BY <1>1, <1>2, <1>3

LEMMA UpdateStep ==
    ASSUME IInv, IInv', NEW k \in Key, NEW d \in Data, UpdateRecord(k, d)
    PROVE  MapNext
  <1> DEFINE o == index[k].offset
             info == [index[k] EXCEPT !.len = SizeOf[d]]
             place == [key |-> k, len |-> info.len, capacity |-> info.capacity,
                       seq_num |-> info.seq_num, data |-> d]
             new == [key |-> k, len |-> SizeOf[d], capacity |-> Capacity(SizeOf[d]),
                     seq_num |-> IF index[k] = NoInfo THEN 0 ELSE index[k].seq_num + 1,
                     data |-> d]
  <1>1. /\ phase = "open" /\ phase' = "open"
        /\ File \in Seq(Record) /\ Len(File) \in Nat
        /\ index \in [Key -> RecordInfo \cup {NoInfo}] /\ append_offset \in Nat
    BY FileIsFile, FileFacts DEF UpdateRecord, IInv, TypeOK
  <1>2. /\ SizeOf[d] \in 0..INVALID_LEN /\ SizeOf[d] # INVALID_LEN
        /\ Capacity(SizeOf[d]) \in 0..INVALID_LEN
    BY WordFacts, CapacityFacts
  <1>3. CASE UpdateInPlace(k, d)
    <2> DEFINE w == [offset |-> info.offset, record |-> place]
    <2>1. /\ index[k] # NoInfo /\ index[k] \in RecordInfo
          /\ index' = [index EXCEPT ![k] = info] /\ TryWrite(w)
      BY <1>1, <1>3 DEF UpdateInPlace
    <2>2. /\ info \in RecordInfo /\ info.offset = o /\ IsRecordValid(info)
      BY <1>2, <2>1 DEF RecordInfo, IsRecordValid
    <2>3. place \in Record /\ place.data = d
      BY <2>2 DEF Record, RecordInfo
    <2>4. w \in Write /\ w.offset = o /\ w.record = place
      BY <2>2, <2>3 DEF Write, RecordInfo
    <2> HIDE DEF w, info, place
    <2>5. ~failed => /\ \A j \in 1..Len(File) : File[j].key = k \/ Apply(File, w)[j] = File[j]
                     /\ Apply(File, w)[o] = place
      <3> SUFFICES ASSUME ~failed
                   PROVE  /\ \A j \in 1..Len(File) : File[j].key = k \/ Apply(File, w)[j] = File[j]
                          /\ Apply(File, w)[o] = place
        OBVIOUS
      <3>1. o \in 1..Len(File) /\ File[o].key = k
        BY <1>1, <2>1, EntryFacts DEF Live
      <3>2. Apply(File, w) = [File EXCEPT ![o] = place]
        BY <1>1, <2>4, <3>1, ApplyFacts
      <3>. QED BY <1>1, <2>3, <3>1, <3>2, PlaceFacts
    <2>6. ~failed => Apply(File, w)[info.offset].data \in Data
      BY <2>2, <2>3, <2>5
    <2>. QED BY <1>1, <2>1, <2>4, <2>5, <2>6, SetStep
  <1>4. CASE UpdateAppend(k, d)
    <2> DEFINE w == [offset |-> append_offset, record |-> new]
               e == InfoAt(append_offset, new)
    <2>1. index' = [index EXCEPT ![k] = e] /\ TryWrite(w)
      BY <1>4 DEF UpdateAppend
    <2>2. new.seq_num \in Nat
      BY <1>1 DEF RecordInfo
    <2>3. new \in Record /\ new.data = d
      BY <1>2, <2>2 DEF Record
    <2>4. w \in Write /\ w.offset = append_offset /\ w.record = new
      BY <1>1, <2>3 DEF Write
    <2>5. e.offset = append_offset
      BY <1>1, <2>3, InfoFacts
    <2> HIDE DEF w, new, e
    <2>6. ~failed => /\ \A j \in 1..Len(File) : Apply(File, w)[j] = File[j]
                     /\ Apply(File, w)[append_offset] = new
      <3> SUFFICES ASSUME ~failed
                   PROVE  /\ \A j \in 1..Len(File) : Apply(File, w)[j] = File[j]
                          /\ Apply(File, w)[append_offset] = new
        OBVIOUS
      <3>1. append_offset = Len(File) + 1
        BY <1>1 DEF IInv, OpenInv, Live
      <3>2. append_offset \notin 1..Len(File)
        BY <1>1, <3>1
      <3>3. Apply(File, w) = Append(File, new)
        BY <1>1, <2>4, <3>2, ApplyFacts
      <3>. QED BY <1>1, <2>3, <3>1, <3>3, EndFacts
    <2>7. ~failed => Apply(File, w)[e.offset].data \in Data
      BY <2>3, <2>5, <2>6
    <2>. QED BY <1>1, <2>1, <2>4, <2>6, <2>7, SetStep
  <1>. QED BY <1>3, <1>4 DEF UpdateRecord

LEMMA DeleteStep ==
    ASSUME IInv, IInv', NEW k \in Key, DeleteRecord(k)
    PROVE  MapNext
  <1> DEFINE o == index[k].offset
             info == [index[k] EXCEPT !.len = INVALID_LEN]
             r == [key |-> k, len |-> INVALID_LEN, capacity |-> info.capacity,
                   seq_num |-> info.seq_num, data |-> Missing]
             w == [offset |-> info.offset, record |-> r]
             e == IF info.seq_num = 0 THEN NoInfo ELSE info
  <1>1. /\ phase = "open" /\ phase' = "open" /\ index[k] # NoInfo
        /\ TryWrite(w)
        /\ ~failed /\ ~failed' => index' = [index EXCEPT ![k] = e]
        /\ File \in Seq(Record) /\ Len(File) \in Nat
        /\ index[k] \in RecordInfo
    BY FileIsFile, FileFacts, EntryFacts DEF DeleteRecord, TryWrite, WriteFails, IInv
  <1>2. /\ info \in RecordInfo /\ info.offset = o /\ ~IsRecordValid(info)
    BY <1>1, WordFacts DEF RecordInfo, IsRecordValid
  <1>3. r \in Record
    BY <1>2, WordFacts DEF Record, RecordInfo
  <1>4. w \in Write /\ w.offset = o /\ w.record = r
    BY <1>2, <1>3 DEF Write, RecordInfo
  <1>5. ~(e # NoInfo /\ IsRecordValid(e))
    BY <1>2
  <1> HIDE DEF w, r, e, info
  <1>6. ~failed => \A j \in 1..Len(File) : File[j].key = k \/ Apply(File, w)[j] = File[j]
    <2> SUFFICES ASSUME ~failed
                 PROVE  \A j \in 1..Len(File) : File[j].key = k \/ Apply(File, w)[j] = File[j]
      OBVIOUS
    <2>1. o \in 1..Len(File) /\ File[o].key = k
      BY <1>1, EntryFacts DEF Live
    <2>2. Apply(File, w) = [File EXCEPT ![o] = r]
      BY <1>1, <1>4, <2>1, ApplyFacts
    <2>. QED BY <1>1, <1>3, <2>1, <2>2, PlaceFacts
  <1>. QED BY <1>1, <1>4, <1>5, <1>6, SetStep

(* The records compaction has written say what the whole file said.         *)
LEMMA CompactedContents ==
    ASSUME IInv, phase = "compact_write", to_write = {}
    PROVE  Contents(temp) = Contents(disk)
  <1>1. /\ disk \in Seq(Record) /\ WellFormed(disk) /\ IndexOf(index, disk, Len(disk))
        /\ DOMAIN temp = 1..Len(temp) /\ Len(temp) \in Nat
    BY DEF IInv, TypeOK, FilesInv, CompactInv
  <1>2. ASSUME NEW k \in Key PROVE Lookup(temp, k) = Lookup(disk, k)
    <2>1. Lookup(disk, k) = IF Holds(k) THEN disk[index[k].offset].data ELSE Missing
      BY <1>1, IndexIsInfo DEF Holds
    <2>2. CASE Holds(k)
      <3>1. PICK i \in 1..Len(temp) : temp[i].key = k
        BY <1>1, <2>2 DEF IInv, CompactInv
      <3>2. \A j \in 1..Len(temp) : temp[j].key = k => j = i
        BY <1>1, <3>1 DEF IInv, CompactInv
      <3>3. temp[i].data = disk[index[k].offset].data /\ IsRecordValid(temp[i])
        BY <1>1, <2>2, <3>1 DEF IInv, CompactInv, Holds, IsRecordValid
      <3>4. Entries(temp, k) = {i}
        <4>1. i \in Entries(temp, k)
          BY <1>1, <3>1, <3>3 DEF Entries
        <4>2. \A j \in Entries(temp, k) : j = i
          BY <1>1, <3>2 DEF Entries
        <4>. QED BY <4>1, <4>2
      <3>5. Latest(temp, k) = i
        <4>1. temp[i].seq_num = temp[i].seq_num /\ i <= i
          BY <3>1
        <4>. QED BY <3>4, <4>1 DEF Latest
      <3>. QED BY <2>1, <2>2, <3>3, <3>4, <3>5 DEF Lookup
    <2>3. CASE ~Holds(k)
      <3>1. \A i \in 1..Len(temp) : temp[i].key # k
        BY <1>1, <2>3 DEF IInv, CompactInv
      <3>2. Entries(temp, k) = {}
        BY <1>1, <3>1 DEF Entries
      <3>. QED BY <2>1, <2>3, <3>2 DEF Lookup
    <2>. QED BY <2>2, <2>3
  <1>. QED BY <1>2 DEF Contents

LEMMA RefinementStep == ASSUME IInv, IInv', [Next]_vars PROVE MapNext
  <1>1. /\ Store = IF Live THEN Contents(File) ELSE Contents(disk)
        /\ Store' = IF Live' THEN Contents(File') ELSE Contents(disk')
    BY StoreIsContents, NextStoreIsContents
  <1>2. ASSUME Live' = Live, disk' = disk, File' = File
        PROVE  MapNext
    BY <1>1, <1>2 DEF MapNext
  <1>3. ASSUME ~Live', disk' = disk
        PROVE  MapNext
    BY <1>1, <1>3, LoseStep DEF MapNext
  <1>4. CASE MakeOrClear
    <2>1. disk' = <<>> /\ File' = <<>>
      BY <1>4 DEF MakeOrClear, Forget, File, Apply
    <2>2. Store' = KVS!Empty /\ Contents(disk') = KVS!Empty
      BY <1>1, <2>1, EmptyContents
    <2>. QED BY <2>2 DEF MapNext, KVS!Next, KVS!Clear, Store
  <1>5. CASE \/ StartReading \/ ReadRecord \/ CompactWrite \/ AllocUnusedKey \/ UNCHANGED vars
    <2>1. /\ UNCHANGED fileVars
          /\ phase' = "open" <=> phase = "open"
      BY <1>5 DEF StartReading, ReadRecord, CompactWrite, AllocUnusedKey, vars
    <2>2. Live' = Live /\ disk' = disk /\ File' = File
      BY <2>1 DEF fileVars, Live, File
    <2>. QED BY <1>2, <2>2
  <1>6. CASE ReadFails \/ Crash
    BY <1>3, <1>6 DEF ReadFails, Crash, Live
  <1>7. CASE FinishReading
    <2>1. ~Live /\ File = disk /\ UNCHANGED fileVars
      BY <1>7, FileIsFile DEF FinishReading, Reading, Live, IInv, FilesInv
    <2>2. File' = disk /\ disk' = disk
      BY <2>1 DEF fileVars, File
    <2>3. Store' = Store /\ Contents(disk)' = Contents(disk)
      BY <1>1, <2>1, <2>2
    <2>. QED BY <2>3 DEF MapNext
  <1>8. CASE CompactMove
    <2>1. disk' = temp /\ ~Live /\ ~Live'
      BY <1>8 DEF CompactMove, Live
    <2>2. Contents(disk') = Contents(disk)
      BY <1>8, <2>1, CompactedContents DEF CompactMove
    <2>. QED BY <1>1, <2>1, <2>2 DEF MapNext
  <1>9. CASE \E k \in Key, d \in Data : UpdateRecord(k, d)
    BY <1>9, UpdateStep
  <1>10. CASE \E k \in Key : DeleteRecord(k)
    BY <1>10, DeleteStep
  <1>11. CASE Flush
    <2>1. Live /\ disk' \in {disk, File} /\ (Live' => disk' = File) /\ buffered' = NoWrite
      BY <1>11 DEF Flush, WriteFails, Live, File, Apply
    <2>2. File' = disk'
      BY <2>1 DEF File, Apply
    <2>3. CASE Live'
      <3>1. Store' = Store /\ Contents(disk') = Store
        BY <1>1, <2>1, <2>2, <2>3
      <3>. QED BY <3>1, FlushStep DEF MapNext
    <2>4. CASE ~Live'
      BY <2>1, <2>4, FailedWrite, LoseStep, FlushStep DEF MapNext
    <2>. QED BY <2>3, <2>4
  <1>12. CASE Close
    <2>1. ~Live' /\ disk' \in {disk, File}
      BY <1>12 DEF Close, Live
    <2>2. CASE Live
      BY <2>1, <2>2, FailedWrite, LoseStep, FlushStep DEF MapNext
    <2>3. CASE ~Live
      <3>1. File = disk
        BY <1>12, <2>3, FileIsFile DEF Close, Live, IInv, FilesInv
      <3>. QED BY <1>3, <2>1, <3>1
    <2>. QED BY <2>2, <2>3
  <1>. QED BY <1>4, <1>5, <1>6, <1>7, <1>8, <1>9, <1>10, <1>11, <1>12 DEF Next

(* The database implements the key-value store: what it holds changes with  *)
(* updates and deletions only, and a crash or a failed write loses at most  *)
(* the last of them.                                                        *)
THEOREM IsKeyValueStore == Spec => ImplementsKeyValueStore
  <1>1. Init => KVS!Init
    <2> SUFFICES ASSUME Init PROVE KVS!Init
      OBVIOUS
    <2>1. disk = <<>> /\ ~Live
      BY DEF Init, Live
    <2>. QED BY <2>1, EmptyContents DEF KVS!Init
  <1>2. IInv /\ IInv' /\ [Next]_vars => [KVS!Next]_<<IF Live THEN Held ELSE Contents(disk), Contents(disk)>>
    BY RefinementStep DEF MapNext, Store
  <1>. QED BY <1>1, <1>2, Invariance, PTL DEF Spec, ImplementsKeyValueStore, KVS!Spec

(* removeOldRecordsOnDisk removes no record that counts, whenever it is     *)
(* interrupted.                                                             *)
THEOREM CompactionLosesNothing == Spec => CompactionKeepsContents
  <1>1. IInv /\ [Next]_vars => (phase = "compact_write" /\ phase' = "closed"
                                => Contents(disk') = Contents(disk))
    <2> SUFFICES ASSUME IInv, [Next]_vars, phase = "compact_write", phase' = "closed"
                 PROVE  Contents(disk') = Contents(disk)
      OBVIOUS
    <2>1. CompactMove \/ Crash
      BY DEF Next, vars, MakeOrClear, StartReading, ReadRecord, ReadFails, Reading, FinishReading,
             CompactWrite, AllocUnusedKey, UpdateRecord, DeleteRecord, Flush, Close
    <2>. QED BY <2>1, CompactedContents DEF CompactMove, Crash
  <1>. QED BY <1>1, Invariance, PTL DEF Spec, CompactionKeepsContents

(* The file compaction leaves has one record for each key that had data,    *)
(* and none that is deleted.                                                *)
THEOREM CompactionIsComplete == Spec => CompactedFileIsMinimal
  <1>1. ASSUME IInv, [Next]_vars, phase = "compact_write", phase' = "closed", disk' # disk
        PROVE  /\ \A i \in DOMAIN disk' : IsRecordValid(disk'[i])
               /\ Len(disk') = Cardinality({k \in Key : Lookup(disk, k) # Missing})
    <2> DEFINE S == {k \in Key : Lookup(disk, k) # Missing}
               f == [i \in 1..Len(temp) |-> temp[i].key]
    <2>1. CompactMove
      BY <1>1 DEF Next, vars, MakeOrClear, StartReading, ReadRecord, ReadFails, Reading,
                  FinishReading, CompactWrite, AllocUnusedKey, UpdateRecord, DeleteRecord, Flush,
                  Close, Crash
    <2>2. /\ disk' = temp /\ to_write = {}
          /\ temp \in Seq(Record) /\ DOMAIN temp = 1..Len(temp) /\ Len(temp) \in Nat
          /\ disk \in Seq(Record) /\ WellFormed(disk) /\ IndexOf(index, disk, Len(disk))
      BY <1>1, <2>1 DEF CompactMove, IInv, TypeOK, FilesInv, CompactInv
    <2>3. \A i \in 1..Len(temp) : IsRecordValid(temp[i]) /\ temp[i].key \in Key /\ Holds(temp[i].key)
      BY <1>1, <2>2, FileFacts DEF IInv, CompactInv, Holds, IsRecordValid
    <2>4. \A k \in Key : Lookup(disk, k) # Missing <=> Holds(k)
      <3> SUFFICES ASSUME NEW k \in Key PROVE Lookup(disk, k) # Missing <=> Holds(k)
        OBVIOUS
      <3>1. Lookup(disk, k) = IF Holds(k) THEN disk[index[k].offset].data ELSE Missing
        BY <2>2, IndexIsInfo DEF Holds
      <3>2. ASSUME Holds(k) PROVE disk[index[k].offset].data # Missing
        <4> DEFINE o == index[k].offset
        <4>1. o \in 1..Len(disk) /\ index[k] = InfoAt(o, disk[o])
          BY <2>2, <3>2 DEF IndexOf, IsLast, Holds
        <4>2. disk[o] \in Record /\ o \in Nat /\ DOMAIN disk = 1..Len(disk)
          BY <2>2, <4>1, FileFacts
        <4>3. IsRecordValid(disk[o])
          BY <3>2, <4>1, <4>2, InfoFacts DEF Holds
        <4>4. disk[o].data \in Data
          BY <2>2, <4>1, <4>2, <4>3 DEF WellFormed, RecordsWhole
        <4>. QED BY <4>4, DatabaseAssumption DEF DatabaseAssumption
      <3>. QED BY <3>1, <3>2
    <2>5. f \in Bijection(1..Len(temp), S)
      <3>1. f \in [1..Len(temp) -> S]
        BY <2>3, <2>4
      <3>2. f \in Injection(1..Len(temp), S)
        <4>1. \A i, j \in 1..Len(temp) : f[i] = f[j] => i = j
          BY <1>1, <2>2 DEF IInv, CompactInv
        <4>. QED BY <3>1, <4>1 DEF Injection, IsInjective
      <3>3. \A k \in S : \E i \in 1..Len(temp) : f[i] = k
        BY <1>1, <2>2, <2>4 DEF IInv, CompactInv
      <3>4. f \in Surjection(1..Len(temp), S)
        BY <3>1, <3>3 DEF Surjection
      <3>. QED BY <3>2, <3>4 DEF Bijection
    <2>6. Cardinality(1..Len(temp)) = Len(temp) /\ IsFiniteSet(1..Len(temp))
      <3> DEFINE n == Len(temp)
      <3>1. n \in Int /\ 1 \in Int /\ n >= 0
        BY <2>2
      <3> HIDE DEF n
      <3>2. IsFiniteSet(1..n) /\ Cardinality(1..n) = IF 1 > n THEN 0 ELSE n - 1 + 1
        BY <3>1, FS_Interval
      <3>. QED BY <3>1, <3>2 DEF n
    <2>7. Cardinality(S) = Len(temp)
      <3>1. ExistsBijection(1..Len(temp), S)
        BY <2>5 DEF ExistsBijection
      <3>. QED BY <2>6, <3>1, FS_Bijection
    <2>. QED BY <2>2, <2>3, <2>7
  <1>2. IInv /\ [Next]_vars =>
            (phase = "compact_write" /\ phase' = "closed" /\ disk' # disk =>
                /\ \A i \in DOMAIN disk' : IsRecordValid(disk'[i])
                /\ Len(disk') = Cardinality({k \in Key : Lookup(disk, k) # Missing}))
    BY <1>1
  <1>. QED BY <1>2, Invariance, PTL DEF Spec, CompactedFileIsMinimal
=============================================================================
