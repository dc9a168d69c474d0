---------------------------- MODULE TextureCache ----------------------------
(***************************************************************************)
(* The textures of OpenGLEngine: opengl_textures, a ManagerWithCache       *)
(* (utils/ManagerWithCache.h) that keeps textures no one refers to for     *)
(* later, and the reference counts of OpenGLTexture, by which it learns    *)
(* that no one does.  Only the main thread uses opengl_textures, but any   *)
(* thread may drop the last reference but the cache's own: it then leaves  *)
(* the texture's key in a list for the main thread.                        *)
(*                                                                         *)
(* A decrement of a count, and what is done under the list's mutex, is one *)
(* step; so is a call on the main thread, but for the places where a       *)
(* decrement elsewhere makes a difference.  Every texture is of size 1.    *)
(***************************************************************************)
EXTENDS Integers, Sequences, FiniteSets, SequencesExt

CONSTANTS Key,          \* OpenGLTextureKeys
          Texture,      \* addresses of OpenGLTexture objects
          NoTexture,
          Main,         \* the main thread
          Others,       \* other threads
          max_tex_mem_usage,
          MaxReports    \* bound: the most keys left for the main thread at once

ASSUME TextureAssumption ==
    NoTexture \notin Texture /\ Main \notin Others /\ max_tex_mem_usage \in Nat

VARIABLES items,            \* opengl_textures.items: the texture of each key
          unused_items,     \* its unused_items, most recent first
          became_unused_tex_keys,
          tex_mem_usage,
          key_of, inserted, \* per texture: key, inserted_into_opengl_textures
          holders,          \* per texture, the threads with a reference to it
          found,            \* the texture the main thread is about to refer to
          reporting,        \* per other thread, the texture whose count it brought to 1
          reports           \* per other thread, the key it is about to leave, at most one

cacheVars == <<items, unused_items, became_unused_tex_keys, tex_mem_usage>>
texVars   == <<key_of, inserted, holders>>
textureVars == <<cacheVars, texVars, found, reporting, reports>>

InitTextures ==
    /\ items = [k \in Key |-> NoTexture]
    /\ unused_items = <<>> /\ became_unused_tex_keys = <<>>
    /\ tex_mem_usage = 0
    /\ \E k \in Key : key_of = [t \in Texture |-> k]
    /\ inserted = [t \in Texture |-> FALSE]
    /\ holders = [t \in Texture |-> {}]
    /\ found = NoTexture
    /\ reporting = [u \in Others |-> NoTexture]
    /\ reports = [u \in Others |-> {}]

-----------------------------------------------------------------------------
Cached(t)   == \E k \in Key : items[k] = t
RefCount(t) == Cardinality(holders[t]) + IF Cached(t) THEN 1 ELSE 0

(* A key's item knows where in the list the key is (unused_items_it).       *)
Without(s, k) ==
    IF k \in ToSet(s) THEN RemoveAt(s, CHOOSE i \in DOMAIN s : s[i] = k) ELSE s

(* itemBecameUnused and itemBecameUsed.                                     *)
BecameUnused(unused, k) ==
    IF items[k] # NoTexture /\ k \notin ToSet(unused) THEN <<k>> \o unused ELSE unused
BecameUsed(unused, k) == IF items[k] # NoTexture THEN Without(unused, k) ELSE unused

(* A key is looked up (getTextureIfLoaded and the like).                    *)
LookUp(k) ==
    /\ found = NoTexture /\ items[k] # NoTexture
    /\ found' = items[k]
    /\ unused_items' = IF RefCount(items[k]) = 1 THEN BecameUsed(unused_items, key_of[items[k]])
                       ELSE unused_items
    /\ UNCHANGED <<items, became_unused_tex_keys, tex_mem_usage, texVars, reporting, reports>>

(* The counted reference is returned, another thread's may be gone by then. *)
ReturnFound ==
    /\ found # NoTexture
    /\ holders' = [holders EXCEPT ![found] = @ \cup {Main}]
    /\ found' = NoTexture
    /\ UNCHANGED <<cacheVars, key_of, inserted, reporting, reports>>

(* How many trimTextureUsage takes out for the usage to come down: the keys *)
(* that became unused first; removeLRUUnusedItem drops the only reference.  *)
Excess(usage)  == Min({Len(unused_items), Max({0, usage - max_tex_mem_usage})})
Kept(usage)    == SubSeq(unused_items, 1, Len(unused_items) - Excess(usage))
Evicted(usage) == ToSet(unused_items) \ ToSet(Kept(usage))

(* A texture for a key that was not found is loaded, and added              *)
(* (addOpenGLTexture).                                                      *)
Load(k, t) ==
    LET gone == Evicted(tex_mem_usage + 1) IN
    /\ found = NoTexture /\ items[k] = NoTexture /\ RefCount(t) = 0
    /\ key_of' = [key_of EXCEPT ![t] = k]
    /\ inserted' = [u \in Texture |-> u = t \/ (inserted[u] /\ ~\E j \in gone : items[j] = u)]
    /\ items' = [j \in Key |-> IF j = k THEN t ELSE IF j \in gone THEN NoTexture ELSE items[j]]
    /\ holders' = [holders EXCEPT ![t] = {Main}]
    /\ unused_items' = Kept(tex_mem_usage + 1)
    /\ tex_mem_usage' = (tex_mem_usage + 1) - Excess(tex_mem_usage + 1)
    /\ UNCHANGED <<became_unused_tex_keys, found, reporting, reports>>

(* trimTextureUsage, called by draw.                                        *)
TrimTextureUsage ==
    LET gone == Evicted(tex_mem_usage) IN
    /\ found = NoTexture
    /\ inserted' = [t \in Texture |-> inserted[t] /\ ~\E k \in gone : items[k] = t]
    /\ items' = [k \in Key |-> IF k \in gone THEN NoTexture ELSE items[k]]
    /\ unused_items' = Kept(tex_mem_usage)
    /\ tex_mem_usage' = tex_mem_usage - Excess(tex_mem_usage)
    /\ UNCHANGED <<became_unused_tex_keys, key_of, holders, found, reporting, reports>>

RemoveOpenGLTexture(k) ==
    /\ found = NoTexture /\ items[k] # NoTexture
    /\ inserted' = [inserted EXCEPT ![items[k]] = FALSE]
    /\ items' = [items EXCEPT ![k] = NoTexture]
    /\ unused_items' = Without(unused_items, k)
    /\ tex_mem_usage' = tex_mem_usage - 1
    /\ UNCHANGED <<became_unused_tex_keys, key_of, holders, found, reporting, reports>>

UnloadAllData ==
    /\ found = NoTexture
    /\ inserted' = [t \in Texture |-> inserted[t] /\ ~Cached(t)]
    /\ items' = [k \in Key |-> NoTexture]
    /\ unused_items' = <<>>
    /\ tex_mem_usage' = 0
    /\ UNCHANGED <<became_unused_tex_keys, key_of, holders, found, reporting, reports>>

(* Mutant of ProcessReports: a texture that is referred to again meanwhile  *)
(* is marked unused all the same.                                           *)
ProcessReportsUnchecked ==
    /\ found = NoTexture
    /\ unused_items' = FoldLeft(BecameUnused, unused_items, became_unused_tex_keys)
    /\ became_unused_tex_keys' = <<>>
    /\ UNCHANGED <<items, tex_mem_usage, texVars, found, reporting, reports>>

(* draw goes through the keys the other threads have left: unused_items     *)
(* after the first i of them.                                               *)
Processed(unused, k) ==
    IF items[k] # NoTexture /\ RefCount(items[k]) = 1 THEN BecameUnused(unused, k) ELSE unused
AfterReports[i \in 0..Len(became_unused_tex_keys)] ==
    IF i = 0 THEN unused_items ELSE Processed(AfterReports[i - 1], became_unused_tex_keys[i])

ProcessReports ==
    /\ found = NoTexture
    /\ unused_items' = AfterReports[Len(became_unused_tex_keys)]
    /\ became_unused_tex_keys' = <<>>
    /\ UNCHANGED <<items, tex_mem_usage, texVars, found, reporting, reports>>

(* The main thread drops its reference.                                     *)
DropOnMain(t) ==
    /\ found = NoTexture /\ Main \in holders[t]
    /\ holders' = [holders EXCEPT ![t] = @ \ {Main}]
    /\ unused_items' = IF RefCount(t) = 2 /\ inserted[t] THEN BecameUnused(unused_items, key_of[t])
                       ELSE unused_items
    /\ UNCHANGED <<items, became_unused_tex_keys, tex_mem_usage, key_of, inserted, found,
                   reporting, reports>>

-----------------------------------------------------------------------------
(* A thread gets a reference from one that has one.                         *)
Share(t, u) ==
    /\ holders[t] # {} /\ u \notin holders[t]
    /\ reporting[u] = NoTexture /\ reports[u] = {}
    /\ holders' = [holders EXCEPT ![t] = @ \cup {u}]
    /\ UNCHANGED <<cacheVars, key_of, inserted, found, reporting, reports>>

(* Another thread's decRefCount, and what it does when the count was 2: the *)
(* texture is not its own any more.                                         *)
Drop(t, u) ==
    /\ u \in holders[t] /\ reporting[u] = NoTexture /\ reports[u] = {}
    /\ holders' = [holders EXCEPT ![t] = @ \ {u}]
    /\ reporting' = [reporting EXCEPT ![u] = IF RefCount(t) = 2 THEN t ELSE NoTexture]
    /\ UNCHANGED <<cacheVars, key_of, inserted, found, reports>>

(* textureRefCountDecreasedToOne reads the texture.  If it was destroyed in *)
(* the meantime, what is read is whatever lies there.                       *)
ReadTexture(u) ==
    LET t == reporting[u] IN
    /\ t # NoTexture
    /\ reporting' = [reporting EXCEPT ![u] = NoTexture]
    /\ \E k \in {{j} : j \in Key} \cup {{}} :
         /\ RefCount(t) > 0 => k = IF inserted[t] THEN {key_of[t]} ELSE {}
         /\ reports' = [reports EXCEPT ![u] = k]
    /\ UNCHANGED <<cacheVars, texVars, found>>

(* Mutant of Report: the key is not left for the main thread.               *)
ReportNothing(u) ==
    /\ reports[u] # {}
    /\ reports' = [reports EXCEPT ![u] = {}]
    /\ UNCHANGED <<cacheVars, texVars, found, reporting>>

Report(u) ==
    /\ Len(became_unused_tex_keys) < MaxReports
    /\ \E k \in reports[u] : became_unused_tex_keys' = Append(became_unused_tex_keys, k)
    /\ reports' = [reports EXCEPT ![u] = {}]
    /\ UNCHANGED <<items, unused_items, tex_mem_usage, texVars, found, reporting>>

NextTextures ==
    \/ \E k \in Key : LookUp(k) \/ RemoveOpenGLTexture(k) \/ \E t \in Texture : Load(k, t)
    \/ ReturnFound \/ UnloadAllData \/ ProcessReports \/ TrimTextureUsage
    \/ \E t \in Texture : DropOnMain(t) \/ \E u \in Others : Share(t, u) \/ Drop(t, u)
    \/ \E u \in Others : ReadTexture(u) \/ Report(u)

SpecTextures == InitTextures /\ [][NextTextures]_textureVars

-----------------------------------------------------------------------------
(* "Therefore the texture is not used": whichever threads drop, report and  *)
(* look up in between, a texture in the list of unused ones, which trimming *)
(* takes out of the cache to free its memory, has no reference to it but    *)
(* the cache's.                                                             *)
UnusedAreUnreferenced ==
    /\ IsInjective(unused_items)
    /\ \A k \in ToSet(unused_items) : items[k] # NoTexture /\ holders[items[k]] = {}

(* A cached texture that no one else refers to does not stay in memory      *)
(* unnoticed: it is in the list, or its key is on the way there.            *)
UnreferencedAreNoticed ==
    \A k \in Key :
        items[k] # NoTexture /\ holders[items[k]] = {} =>
            \/ k \in ToSet(unused_items) \cup ToSet(became_unused_tex_keys)
            \/ found = items[k]
            \/ \E u \in Others : reporting[u] = items[k] \/ k \in reports[u]

(* "Threadsafe - can call from any thread": the texture handed to           *)
(* textureBecameUnused is there when its key is read.                       *)
ReportedTextureExists ==
    \A u \in Others : reporting[u] # NoTexture => RefCount(reporting[u]) > 0
=============================================================================
