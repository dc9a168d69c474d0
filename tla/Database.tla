------------------------------ MODULE Database ------------------------------
(***************************************************************************)
(* Database (utils/Database.cpp): a key-value store in one append-only     *)
(* file of records, with an index built by scanning the file.              *)
(*                                                                         *)
(* A file is the sequence of its records; a record's offset is its place   *)
(* in that sequence.  The file is written through a FileOutStream, whose   *)
(* buffer holds at most the last record written: the seek before each      *)
(* write empties it.  A process that dies loses the buffer.  One thread    *)
(* uses a Database; the steps below are its calls, and within the two that *)
(* go through a file, each record.                                         *)
(***************************************************************************)
EXTENDS Integers, Sequences, FiniteSets

CONSTANTS MaxKey,       \* bound: keys are 0..MaxKey
          Data,         \* contents of records
          SizeOf,       \* their size in bytes
          WordSize,     \* 2^32: sizes are uint32
          Missing,      \* no data
          NoInfo,       \* no entry in the index
          NoWrite,      \* nothing buffered
          MaxRecords    \* bound: the most records in a file

Key == 0..MaxKey

INVALID_LEN == WordSize - 1     \* the length of a deleted record

ASSUME DatabaseAssumption ==
    /\ MaxKey \in Nat /\ MaxRecords \in Nat
    /\ WordSize \in Nat /\ WordSize % 4 = 0 /\ WordSize > 128
    /\ SizeOf \in [Data -> 0..(INVALID_LEN - 2)]   \* else updateRecord throws "data too large."
    /\ Missing \notin Data

(* One record: header and data.  The data of a deleted record is never read. *)
Record == [key : Key, len : 0..INVALID_LEN, capacity : 0..INVALID_LEN, seq_num : Nat,
           data : Data \cup {Missing}]
RecordInfo == [offset : Nat, len : 0..INVALID_LEN, capacity : 0..INVALID_LEN, seq_num : Nat]
Write == [offset : Nat, record : Record]

ASSUME SentinelAssumption == NoInfo \notin RecordInfo /\ NoWrite \notin Write

VARIABLES disk,             \* the file, as the operating system has it
          buffered,         \* the write still in the stream's buffer, if any
          failed,           \* the stream's fail bit: a write failed, none is tried again
          torn,             \* the file ends in a part of a record
          phase,            \* what the Database object is doing
          pos,              \* the record startReadingFromDisk reads next
          max_used_key,     \* startReadingFromDisk's local
          index,            \* key_to_info_map
          append_offset,
          next_unused_key,
          temp, to_write    \* removeOldRecordsOnDisk: its file, the keys to write to it

fileVars   == <<disk, buffered, failed, torn>>
objectVars == <<index, append_offset, next_unused_key>>
scanVars   == <<pos, max_used_key>>
tempVars   == <<temp, to_write>>
vars == <<fileVars, phase, objectVars, scanVars, tempVars>>

Phase == {"closed", "reading", "open", "compact_read", "compact_write", "error"}

TypeOK ==
    /\ disk \in Seq(Record)
    /\ buffered \in Write \cup {NoWrite}
    /\ failed \in BOOLEAN /\ torn \in BOOLEAN
    /\ phase \in Phase
    /\ pos \in Nat /\ max_used_key \in Key
    /\ index \in [Key -> RecordInfo \cup {NoInfo}]
    /\ append_offset \in Nat /\ next_unused_key \in Nat
    /\ temp \in Seq(Record) /\ to_write \in SUBSET Key

NoIndex == [k \in Key |-> NoInfo]

Init ==
    /\ disk = <<>> /\ buffered = NoWrite /\ failed = FALSE /\ torn = FALSE
    /\ phase = "closed"
    /\ pos = 1 /\ max_used_key = 0
    /\ index = NoIndex /\ append_offset = 1 /\ next_unused_key = 0
    /\ temp = <<>> /\ to_write = {}

-----------------------------------------------------------------------------
RoundUp4(n) == (((n + 3) % WordSize) \div 4) * 4

(* The capacity given to a record for data of this size, in uint32.         *)
Capacity(size) == RoundUp4((size + 64) % WordSize)

IsRecordValid(x) == x.len # INVALID_LEN

(* The file once write w has reached it.                                    *)
Apply(file, w) ==
    IF w = NoWrite THEN file
    ELSE IF w.offset \in DOMAIN file THEN [file EXCEPT ![w.offset] = w.record]
    ELSE Append(file, w.record)

(* What is in the file once the stream's buffer is.                         *)
File == Apply(disk, buffered)

(* seek and writeData.  The seek empties the buffer; the record then stays  *)
(* in the buffer, or is too large for it and goes straight to the file.     *)
WriteOut(w) ==
    /\ \/ disk' = File /\ buffered' = w
       \/ disk' = Apply(File, w) /\ buffered' = NoWrite
    /\ UNCHANGED <<failed, torn>>

(* Emptying the buffer fails, or writing w behind it does.  An append that  *)
(* fails may leave a part of its record at the end of the file.             *)
IsAppend(file, w) == w # NoWrite /\ w.offset \notin DOMAIN file
WriteFails(w) ==
    /\ failed' = TRUE /\ buffered' = NoWrite
    /\ \/ disk' = disk /\ torn' \in {FALSE, IsAppend(disk, buffered)}
       \/ disk' = File /\ torn' \in {FALSE, IsAppend(File, w)}

(* Once the stream has failed, it fails every write without trying it.      *)
TryWrite(w) == IF failed THEN UNCHANGED fileVars ELSE WriteOut(w) \/ WriteFails(w)

(* The Database object is gone, and with it what it held in memory.         *)
Forget ==
    /\ buffered' = NoWrite /\ failed' = FALSE
    /\ pos' = 1 /\ max_used_key' = 0
    /\ index' = NoIndex /\ append_offset' = 1 /\ next_unused_key' = 0
    /\ temp' = <<>> /\ to_write' = {}

InfoAt(offset, r) ==
    [offset |-> offset, len |-> r.len, capacity |-> r.capacity, seq_num |-> r.seq_num]

-----------------------------------------------------------------------------
(* makeOrClearDatabase, on a file no Database has open, and                 *)
(* openAndMakeOrClearDatabase, on a new Database.                           *)
MakeOrClear ==
    /\ phase \in {"closed", "error"}
    /\ disk' = <<>> /\ torn' = FALSE
    /\ phase' \in {"closed", "open"}
    /\ Forget

(* startReadingFromDisk on a new Database, by itself or from                *)
(* removeOldRecordsOnDisk, which starts its temporary file afresh.          *)
StartReading ==
    /\ phase = "closed"
    /\ phase' \in {"reading", "compact_read"}
    /\ UNCHANGED <<fileVars, objectVars, scanVars, tempVars>>

Reading == phase \in {"reading", "compact_read"}

(* Mutants of ReadRecord: max_used_key is one too large; a deleted record   *)
(* is passed over, also when the index has an older one of its key.         *)
ReadRecordKeyAfter ==
    /\ Reading /\ pos <= Len(disk)
    /\ LET r == disk[pos]
           old == index[r.key]
       IN  /\ IsRecordValid(r) => r.len <= r.capacity
           /\ IF (old = NoInfo /\ IsRecordValid(r)) \/ (old # NoInfo /\ r.seq_num > old.seq_num)
              THEN index' = [index EXCEPT ![r.key] = InfoAt(pos, r)]
              ELSE UNCHANGED index
           /\ max_used_key' = IF r.key >= max_used_key THEN r.key + 1 ELSE max_used_key
    /\ pos' = pos + 1
    /\ UNCHANGED <<fileVars, phase, append_offset, next_unused_key, tempVars>>
ReadRecordSkipsDeleted ==
    /\ Reading /\ pos <= Len(disk)
    /\ LET r == disk[pos]
           old == index[r.key]
       IN  /\ IsRecordValid(r) => r.len <= r.capacity
           /\ IF IsRecordValid(r) /\ (old = NoInfo \/ r.seq_num > old.seq_num)
              THEN index' = [index EXCEPT ![r.key] = InfoAt(pos, r)]
              ELSE UNCHANGED index
           /\ max_used_key' = IF r.key > max_used_key THEN r.key ELSE max_used_key
    /\ pos' = pos + 1
    /\ UNCHANGED <<fileVars, phase, append_offset, next_unused_key, tempVars>>

(* One turn of the loop: a record replaces the entry for its key if it has  *)
(* a greater sequence number; a deleted one makes no entry of its own.      *)
ReadRecord ==
    /\ Reading /\ pos <= Len(disk)
    /\ LET r == disk[pos]
           old == index[r.key]
       IN  /\ IsRecordValid(r) => r.len <= r.capacity
           /\ IF (old = NoInfo /\ IsRecordValid(r)) \/ (old # NoInfo /\ r.seq_num > old.seq_num)
              THEN index' = [index EXCEPT ![r.key] = InfoAt(pos, r)]
              ELSE UNCHANGED index
           /\ max_used_key' = IF r.key > max_used_key THEN r.key ELSE max_used_key
    /\ pos' = pos + 1
    /\ UNCHANGED <<fileVars, phase, append_offset, next_unused_key, tempVars>>

(* "Invalid length, was > capacity.", or the file ends within a record: the *)
(* database cannot be opened.                                               *)
ReadFails ==
    /\ Reading
    /\ IF pos <= Len(disk)
       THEN IsRecordValid(disk[pos]) /\ disk[pos].len > disk[pos].capacity
       ELSE torn
    /\ phase' = "error"
    /\ Forget
    /\ UNCHANGED <<disk, torn>>

(* Mutants of FinishReading: the greatest key counts as unused; compaction  *)
(* writes out the deleted records too.                                      *)
FinishReadingReusesKey ==
    /\ Reading /\ pos > Len(disk) /\ ~torn
    /\ append_offset' = pos
    /\ next_unused_key' = max_used_key
    /\ \/ phase = "reading" /\ phase' = "open" /\ UNCHANGED to_write
       \/ /\ phase = "compact_read" /\ phase' = "compact_write"
          /\ to_write' = {k \in Key : index[k] # NoInfo /\ IsRecordValid(index[k])}
    /\ UNCHANGED <<fileVars, scanVars, index, temp>>
FinishReadingKeepsDeleted ==
    /\ Reading /\ pos > Len(disk) /\ ~torn
    /\ append_offset' = pos
    /\ next_unused_key' = max_used_key + 1
    /\ \/ phase = "reading" /\ phase' = "open" /\ UNCHANGED to_write
       \/ /\ phase = "compact_read" /\ phase' = "compact_write"
          /\ to_write' = {k \in Key : index[k] # NoInfo}
    /\ UNCHANGED <<fileVars, scanVars, index, temp>>

FinishReading ==
    /\ Reading /\ pos > Len(disk) /\ ~torn
    /\ append_offset' = pos
    /\ next_unused_key' = max_used_key + 1
    /\ \/ phase = "reading" /\ phase' = "open" /\ UNCHANGED to_write
       \/ /\ phase = "compact_read" /\ phase' = "compact_write"
          /\ to_write' = {k \in Key : index[k] # NoInfo /\ IsRecordValid(index[k])}
    /\ UNCHANGED <<fileVars, scanVars, index, temp>>

(* removeOldRecordsOnDisk: each valid record once, in the order of the hash *)
(* map; then the temporary file takes the place of the database's.          *)
CompactWrite ==
    /\ phase = "compact_write"
    /\ \E k \in to_write :
        /\ temp' = Append(temp, [key |-> k, len |-> index[k].len,
                                 capacity |-> Capacity(index[k].len), seq_num |-> 0,
                                 data |-> disk[index[k].offset].data])
        /\ to_write' = to_write \ {k}
    /\ UNCHANGED <<fileVars, phase, scanVars, index, append_offset, next_unused_key>>

CompactMove ==
    /\ phase = "compact_write" /\ to_write = {}
    /\ disk' = temp /\ UNCHANGED torn
    /\ phase' = "closed"
    /\ Forget

(* The temporary file's stream is closed by its destructor, which reports   *)
(* no error: any number of the last records may be missing from the file    *)
(* that takes the place of the database's.                                  *)
CompactMoveTruncated ==
    /\ phase = "compact_write" /\ to_write = {}
    /\ \E n \in 0..Len(temp) - 1 : disk' = SubSeq(temp, 1, n)
    /\ torn' \in BOOLEAN
    /\ phase' = "closed"
    /\ Forget

-----------------------------------------------------------------------------
AllocUnusedKey ==
    /\ phase = "open" /\ next_unused_key \in Key
    /\ next_unused_key' = next_unused_key + 1
    /\ UNCHANGED <<fileVars, phase, scanVars, index, append_offset, tempVars>>

(* Mutant of UpdateInPlace: the capacity is not looked at.                  *)
UpdateInPlaceAnySize(k, d) ==
    LET info == [index[k] EXCEPT !.len = SizeOf[d]] IN
    /\ index[k] # NoInfo
    /\ index' = [index EXCEPT ![k] = info]
    /\ TryWrite([offset |-> info.offset,
                 record |-> [key |-> k, len |-> info.len, capacity |-> info.capacity,
                             seq_num |-> info.seq_num, data |-> d]])
    /\ UNCHANGED append_offset

(* updateRecord: in place if the data fits the record the key has, else in  *)
(* a new record at the end with the next sequence number.  The index is     *)
(* updated first, so it keeps the update when the write throws.             *)
UpdateInPlace(k, d) ==
    LET info == [index[k] EXCEPT !.len = SizeOf[d]] IN
    /\ index[k] # NoInfo /\ index[k].capacity >= SizeOf[d]
    /\ index' = [index EXCEPT ![k] = info]
    /\ TryWrite([offset |-> info.offset,
                 record |-> [key |-> k, len |-> info.len, capacity |-> info.capacity,
                             seq_num |-> info.seq_num, data |-> d]])
    /\ UNCHANGED append_offset

(* Mutant of UpdateAppend: the sequence number is not increased.            *)
UpdateAppendSameNumber(k, d) ==
    LET r == [key |-> k, len |-> SizeOf[d], capacity |-> Capacity(SizeOf[d]),
              seq_num |-> IF index[k] = NoInfo THEN 0 ELSE index[k].seq_num, data |-> d]
    IN
    /\ index[k] # NoInfo => index[k].capacity < SizeOf[d]
    /\ append_offset <= MaxRecords
    /\ index' = [index EXCEPT ![k] = InfoAt(append_offset, r)]
    /\ TryWrite([offset |-> append_offset, record |-> r])
    /\ append_offset' = append_offset + 1

UpdateAppend(k, d) ==
    LET r == [key |-> k, len |-> SizeOf[d], capacity |-> Capacity(SizeOf[d]),
              seq_num |-> IF index[k] = NoInfo THEN 0 ELSE index[k].seq_num + 1, data |-> d]
    IN
    /\ index[k] # NoInfo => index[k].capacity < SizeOf[d]
    /\ append_offset <= MaxRecords
    /\ index' = [index EXCEPT ![k] = InfoAt(append_offset, r)]
    /\ TryWrite([offset |-> append_offset, record |-> r])
    /\ append_offset' = append_offset + 1

UpdateRecord(k, d) ==
    /\ phase = "open"
    /\ UpdateInPlace(k, d) \/ UpdateAppend(k, d)
    /\ UNCHANGED <<phase, scanVars, next_unused_key, tempVars>>

(* Mutant of DeleteRecord: the index forgets the key whatever its number.   *)
DeleteForgets(k) ==
    LET info == [index[k] EXCEPT !.len = INVALID_LEN]
        w == [offset |-> info.offset,
              record |-> [key |-> k, len |-> INVALID_LEN, capacity |-> info.capacity,
                          seq_num |-> info.seq_num, data |-> Missing]]
    IN
    /\ phase = "open" /\ index[k] # NoInfo
    /\ \/ /\ ~failed /\ WriteOut(w)
          /\ index' = [index EXCEPT ![k] = NoInfo]
       \/ IF failed THEN UNCHANGED fileVars /\ UNCHANGED index
          ELSE WriteFails(w) /\ UNCHANGED index
    /\ UNCHANGED <<phase, scanVars, append_offset, next_unused_key, tempVars>>

(* The header is rewritten with an invalid length.  The index forgets a key *)
(* whose sequence number is 0, and keeps the number of any other; when the  *)
(* write throws it still has the record.                                    *)
DeleteRecord(k) ==
    LET info == [index[k] EXCEPT !.len = INVALID_LEN]
        w == [offset |-> info.offset,
              record |-> [key |-> k, len |-> INVALID_LEN, capacity |-> info.capacity,
                          seq_num |-> info.seq_num, data |-> Missing]]
    IN
    /\ phase = "open" /\ index[k] # NoInfo
    /\ \/ /\ ~failed /\ WriteOut(w)
          /\ index' = [index EXCEPT ![k] = IF info.seq_num = 0 THEN NoInfo ELSE info]
       \/ IF failed THEN UNCHANGED fileVars /\ UNCHANGED index
          ELSE WriteFails(w) /\ UNCHANGED index
    /\ UNCHANGED <<phase, scanVars, append_offset, next_unused_key, tempVars>>

(* flush: a failure is not reported.                                        *)
Flush ==
    /\ phase = "open" /\ ~failed
    /\ \/ disk' = File /\ buffered' = NoWrite /\ UNCHANGED <<failed, torn>>
       \/ WriteFails(NoWrite)
    /\ UNCHANGED <<phase, objectVars, scanVars, tempVars>>

(* ~Database: closing the stream empties its buffer, or fails to.           *)
Close ==
    /\ phase = "open"
    /\ \/ disk' = File /\ UNCHANGED torn
       \/ buffered # NoWrite /\ disk' = disk /\ torn' \in {FALSE, IsAppend(disk, buffered)}
    /\ phase' = "closed"
    /\ Forget

(* The process dies, in any call or between calls, also while a part of the *)
(* record it is appending is in the file.  A call that throws and whose     *)
(* caller drops the Database is no different.                               *)
Crash ==
    /\ phase \notin {"closed", "error"}
    /\ torn' \in {torn, torn \/ IsAppend(disk, buffered)}
    /\ phase' = "closed"
    /\ Forget
    /\ UNCHANGED disk

Next ==
    \/ MakeOrClear
    \/ StartReading \/ ReadRecord \/ ReadFails \/ FinishReading
    \/ CompactWrite \/ CompactMove
    \/ AllocUnusedKey
    \/ \E k \in Key, d \in Data : UpdateRecord(k, d)
    \/ \E k \in Key : DeleteRecord(k)
    \/ Flush \/ Close \/ Crash

Spec == Init /\ [][Next]_vars

(* The same when closing the compacted file may fail, of which Next knows   *)
(* nothing.                                                                 *)
FullDiskSpec == Init /\ [][Next \/ CompactMoveTruncated]_vars

-----------------------------------------------------------------------------
(* What a file says of key k, by the rule of the format: the record with    *)
(* the greatest sequence number counts, among those from the first that is  *)
(* not deleted.                                                             *)
Entries(file, k) ==
    {i \in DOMAIN file :
        /\ file[i].key = k
        /\ \E j \in 1..i : file[j].key = k /\ IsRecordValid(file[j])}

Latest(file, k) ==
    CHOOSE i \in Entries(file, k) :
        \A j \in Entries(file, k) : \/ file[j].seq_num < file[i].seq_num
                                    \/ file[j].seq_num = file[i].seq_num /\ i <= j

InfoIn(file, k) ==
    IF Entries(file, k) = {} THEN NoInfo
    ELSE InfoAt(Latest(file, k), file[Latest(file, k)])

Lookup(file, k) ==
    IF Entries(file, k) = {} THEN Missing
    ELSE IF IsRecordValid(file[Latest(file, k)]) THEN file[Latest(file, k)].data ELSE Missing

Contents(file) == [k \in Key |-> Lookup(file, k)]

(* What the open database holds: for each valid entry of the index, the     *)
(* data at its offset.                                                      *)
Held ==
    [k \in Key |-> IF index[k] # NoInfo /\ IsRecordValid(index[k])
                   THEN File[index[k].offset].data ELSE Missing]

Live == phase = "open" /\ ~failed

-----------------------------------------------------------------------------
(* While no write has failed, the index of the open database, kept up to    *)
(* date by updateRecord and deleteRecord, is the one that reading the file  *)
(* again would build, whatever updates, deletions, crashes, failures and    *)
(* compactions went before; and appends go to the file's end.               *)
IndexIsWhatTheFileSays ==
    Live => /\ index = [k \in Key |-> InfoIn(File, k)]
            /\ append_offset = Len(File) + 1

(* The sequence number tells any two records of a key apart, deleted ones   *)
(* of number 0 aside ("we know there are no other records using this key"). *)
SequenceNumbersDiffer ==
    \A i, j \in DOMAIN File :
        i < j /\ File[i].key = File[j].key /\ File[i].seq_num = File[j].seq_num
            => File[i].seq_num = 0 /\ ~IsRecordValid(File[i])

(* A file this class wrote can be read again, after crashes and failed      *)
(* writes too, unless an append failed half way.                            *)
AlwaysReadable == phase = "error" => torn

(* Database.h: capacity is ">= len"; Database.cpp: "otherwise have len <=   *)
(* capacity".                                                               *)
LenWithinCapacity ==
    \A k \in Key : index[k] # NoInfo /\ IsRecordValid(index[k])
                   => index[k].len <= index[k].capacity

KVS == INSTANCE KeyValueStore WITH
    store <- IF Live THEN Held ELSE Contents(disk),
    safe  <- Contents(disk)

(* The database is the key-value store: only an update or a deletion        *)
(* changes what it holds, opening and compacting in particular do not, and  *)
(* a crash or a failed write costs at most the last update.                 *)
ImplementsKeyValueStore == KVS!Spec

(* removeOldRecordsOnDisk "removes deleted records, removes old records":   *)
(* the new file has one record for each key held, and no other.             *)
CompactedFileIsMinimal ==
    [][phase = "compact_write" /\ phase' = "closed" /\ disk' # disk =>
        /\ \A i \in DOMAIN disk' : IsRecordValid(disk'[i])
        /\ Len(disk') = Cardinality({k \in Key : Lookup(disk, k) # Missing})]_vars

(* Database.h of removeOldRecordsOnDisk: "Removes deleted records, removes  *)
(* old records."  It removes no other.                                      *)
CompactionKeepsContents ==
    [][phase = "compact_write" /\ phase' = "closed"
       => Contents(disk') = Contents(disk)]_vars

(* Once a file has been read, no key that allocUnusedKey is going to return *)
(* is in the index; keys of deleted records may come again.                 *)
NewKeysAreUnused ==
    [][phase = "reading" /\ phase' = "open" =>
        \A k \in Key : k >= next_unused_key' => index'[k] = NoInfo]_vars
=============================================================================
