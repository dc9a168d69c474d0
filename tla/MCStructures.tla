---------------------------- MODULE MCStructures ----------------------------
(***************************************************************************)
(* The library's data structures and a ThreadManager, one beside the       *)
(* other, for TLC.  They share nothing, so that a behaviour is one of any  *)
(* one of them: part says of which, and the others' variables keep their   *)
(* initial values.                                                         *)
(***************************************************************************)
EXTENDS ParallelFor, CircularBuffer, HashMap, BestFitAllocator, WebSocket, Timers, TextureCache,
        WeakReference, Threads

CONSTANTS k1, k2, k3, k4    \* keys of the HashMap

(* Keys that collide, and whose runs reach around the end of 4, of 8 and of *)
(* no buckets.                                                              *)
CollidingHashes ==
    {k1 :> 3 @@ k2 :> b @@ k3 :> c @@ k4 :> d : b \in {2, 3}, c \in {6, 7}, d \in {0, 3}}

(* Sizes and alignments; one too many BlockInfos, for the one that takes    *)
(* the place of others.                                                     *)
MixedRequests == {<<0, 1>>, <<1, 2>>, <<2, 4>>}
TenBlocks     == 0..9

VARIABLE part

vars == <<part, rangeVars, ringVars, hashVars, bestFitVars, wsVars, timerVars,
          textureVars, weakVars, threadVars>>

Parts == {"ranges", "buffer", "hash", "arena", "socket", "clock", "textures",
          "weak", "threads"}

Init ==
    /\ part \in Parts
    /\ InitRing /\ InitArena /\ InitSocket /\ InitTimers
    /\ InitRanges /\ (part # "ranges" => concurrency = 1)
    /\ InitMap /\ (part # "hash" => hash_func = CHOOSE h \in Hashes : TRUE)
    /\ InitTextures
    /\ part # "textures" => key_of = [t \in Texture |-> CHOOSE k \in Key : TRUE]
    /\ InitThreads
    /\ WeakInit /\ (part # "weak" => wpc[CHOOSE t \in RefThread : TRUE] = "held")

(* A step of part p, which leaves the others as they are.                   *)
Only(p) ==
    /\ part = p /\ part' = p
    /\ IF p = "ranges"   THEN TRUE ELSE UNCHANGED rangeVars
    /\ IF p = "buffer"   THEN TRUE ELSE UNCHANGED ringVars
    /\ IF p = "hash"     THEN TRUE ELSE UNCHANGED hashVars
    /\ IF p = "arena"    THEN TRUE ELSE UNCHANGED bestFitVars
    /\ IF p = "socket"   THEN TRUE ELSE UNCHANGED wsVars
    /\ IF p = "clock"    THEN TRUE ELSE UNCHANGED timerVars
    /\ IF p = "textures" THEN TRUE ELSE UNCHANGED textureVars
    /\ IF p = "weak"     THEN TRUE ELSE UNCHANGED weakVars
    /\ IF p = "threads"  THEN TRUE ELSE UNCHANGED threadVars

Next ==
    \/ Only("ranges")   /\ NextRanges
    \/ Only("buffer")   /\ NextRing
    \/ Only("hash")     /\ NextMap
    \/ Only("arena")    /\ NextArena
    \/ Only("socket")   /\ NextSocket
    \/ Only("clock")    /\ NextTimers
    \/ Only("textures") /\ NextTextures
    \/ Only("weak")     /\ WeakNext
    \/ Only("threads")  /\ NextThreads

(* No step that is fair is possible in the other parts.                     *)
Spec == Init /\ [][Next]_vars /\ FairThreads

-----------------------------------------------------------------------------
(* Each structure's representation is one its operations may leave behind:  *)
(* ParallelFor's types; CircularBuffer::invariant(), with objects in        *)
(* exactly the slots of the items; HashMap with an empty bucket, at which   *)
(* every search ends.                                                       *)
TypeOK ==
    CASE part = "ranges" -> RangesTypeOK
      [] part = "buffer" -> RingTypeOK
      [] part = "hash"   -> HashTypeOK
      [] OTHER -> TRUE
=============================================================================
