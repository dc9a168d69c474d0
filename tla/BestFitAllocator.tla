-------------------------- MODULE BestFitAllocator --------------------------
(***************************************************************************)
(* glare::BestFitAllocator (utils/BestFitAllocator.cpp): an arena cut into *)
(* blocks, a doubly linked list in address order, and a multimap from size *)
(* to the free blocks.  It gives out offsets, for memory of any kind.      *)
(***************************************************************************)
EXTENDS Integers, Sequences, FiniteSets, SequencesExt

CONSTANTS BlockId,      \* addresses of BlockInfo objects, numbers
          Null,
          ArenaSize,    \* the arena's size at first
          MaxArena,     \* bound: the greatest size expand is given
          Requests      \* the requests made: pairs of a size and an alignment

ASSUME ArenaAssumption ==
    /\ BlockId \subseteq Nat /\ Null \notin BlockId
    /\ ArenaSize \in Nat \ {0} /\ MaxArena \in Nat
    /\ IsFiniteSet(BlockId) => Cardinality(BlockId) > Max({ArenaSize, MaxArena})
    /\ \A r \in Requests : r[1] \in Nat /\ r[2] \in Nat \ {0}

VARIABLES blocks,               \* the BlockInfos that exist
          first, last,
          size_to_free_blocks,  \* the multimap: pairs, least size first
          arena_size

bestFitVars == <<blocks, first, last, size_to_free_blocks, arena_size>>

NewId == Min(BlockId \ DOMAIN blocks)

(* What a client was given: bytes client .. client + asked - 1.             *)
FreeBlock(offset, size, prev, next) ==
    [offset |-> offset, size |-> size, prev |-> prev, next |-> next,
     allocated |-> FALSE, client |-> 0, asked |-> 0]

InitArena ==
    LET b == Min(BlockId) IN
    /\ blocks = [c \in {b} |-> FreeBlock(0, ArenaSize, Null, Null)]
    /\ first = b /\ last = b
    /\ size_to_free_blocks = <<<<ArenaSize, b>>>>
    /\ arena_size = ArenaSize

-----------------------------------------------------------------------------
(* The multimap: an entry goes behind those of its size; an entry is looked *)
(* up by its block's size.  Mutant of Removed: every entry of that size     *)
(* goes.                                                                    *)
Inserted(m, s, b) ==
    InsertAt(m, 1 + Cardinality({i \in DOMAIN m : m[i][1] <= s}), <<s, b>>)
RemovedBySize(m, b) == SelectSeq(m, LAMBDA e : e[1] # blocks[b].size)
Removed(m, b) == RemoveFirst(m, <<blocks[b].size, b>>)

(* The list with a new block b, made as x.                                  *)
WithBlock(bs, b, x) == [c \in DOMAIN bs \cup {b} |-> IF c = b THEN x ELSE bs[c]]

(* The list with b's links written into its neighbours, and which blocks    *)
(* are the first and last then.                                             *)
Link(bs, b) ==
    [c \in DOMAIN bs |->
        IF c = bs[b].prev THEN [bs[c] EXCEPT !.next = b]
        ELSE IF c = bs[b].next THEN [bs[c] EXCEPT !.prev = b]
        ELSE bs[c]]
Ends(bs, b) ==
    /\ first' = IF bs[b].prev = Null THEN b ELSE first
    /\ last'  = IF bs[b].next = Null THEN b ELSE last

RoundUpToMultiple(x, m) == ((x + m - 1) \div m) * m

-----------------------------------------------------------------------------
(* The bytes taken for a request: the client's offset is rounded up.        *)
UseSize(size, alignment) == Max({size, 1}) + alignment

(* alloc, when some free block is large enough: the first of the smallest   *)
(* such, and what it has too much becomes a free block behind it.           *)
Alloc(size, alignment) ==
    LET use  == UseSize(size, alignment)
        fits == {i \in DOMAIN size_to_free_blocks : size_to_free_blocks[i][1] >= use}
        b    == size_to_free_blocks[Min(fits)][2]
        old  == blocks[b]
        taken == [old EXCEPT !.size = use, !.allocated = TRUE,
                             !.client = RoundUpToMultiple(old.offset, alignment),
                             !.asked  = Max({size, 1})]
        rest == NewId
        cut  == WithBlock([blocks EXCEPT ![b] = taken], rest,
                          FreeBlock(old.offset + use, old.size - use, b, old.next))
    IN  /\ fits # {}
        /\ IF old.size = use
           THEN /\ blocks' = [blocks EXCEPT ![b] = taken]
                /\ size_to_free_blocks' = Removed(size_to_free_blocks, b)
                /\ UNCHANGED <<first, last>>
           ELSE /\ blocks' = Link(cut, rest)
                /\ size_to_free_blocks' =
                     Inserted(Removed(size_to_free_blocks, b), old.size - use, rest)
                /\ Ends(cut, rest)
        /\ UNCHANGED arena_size

(* free: with no free neighbour the block itself is free again (case A),    *)
(* otherwise a new block takes the place of it and the free ones before and *)
(* behind it (cases B, C and D).                                            *)
Free(b) ==
    LET old   == blocks[b]
        left  == old.prev # Null /\ ~blocks[old.prev].allocated
        right == old.next # Null /\ ~blocks[old.next].allocated
        lo    == IF left THEN old.prev ELSE b
        hi    == IF right THEN old.next ELSE b
        size  == (IF left THEN blocks[lo].size ELSE 0) + old.size
                 + (IF right THEN blocks[hi].size ELSE 0)
        n     == NewId
        joined == WithBlock([c \in DOMAIN blocks \ {lo, b, hi} |-> blocks[c]], n,
                    FreeBlock(blocks[lo].offset, size, blocks[lo].prev, blocks[hi].next))
        m     == IF left THEN Removed(size_to_free_blocks, lo) ELSE size_to_free_blocks
    IN  /\ old.allocated
        /\ IF ~left /\ ~right
           THEN /\ blocks' = [blocks EXCEPT
                               ![b] = FreeBlock(old.offset, old.size, old.prev, old.next)]
                /\ size_to_free_blocks' = Inserted(m, old.size, b)
                /\ UNCHANGED <<first, last>>
           ELSE /\ blocks' = Link(joined, n) /\ Ends(joined, n)
                /\ size_to_free_blocks' =
                     Inserted(IF right THEN Removed(m, hi) ELSE m, size, n)
        /\ UNCHANGED arena_size

(* expand: a new free block, in the place of the last one if that is free.  *)
Expand(size) ==
    LET old  == blocks[last]
        n    == NewId
        kept  == DOMAIN blocks \ (IF old.allocated THEN {} ELSE {last})
        grown == WithBlock([c \in kept |-> blocks[c]], n,
                   IF old.allocated
                   THEN FreeBlock(arena_size, size - arena_size, last, Null)
                   ELSE FreeBlock(old.offset, size - old.offset, old.prev, Null))
    IN  /\ size > arena_size
        /\ blocks' = Link(grown, n) /\ Ends(grown, n)
        /\ size_to_free_blocks' =
             Inserted(IF old.allocated THEN size_to_free_blocks
                      ELSE Removed(size_to_free_blocks, last), grown[n].size, n)
        /\ arena_size' = size

NextArena ==
    \/ \E r \in Requests : Alloc(r[1], r[2])
    \/ \E b \in DOMAIN blocks : Free(b)
    \/ \E size \in arena_size..MaxArena : Expand(size)

SpecArena == InitArena /\ [][NextArena]_bestFitVars

-----------------------------------------------------------------------------
(* The list: each block is reached once, links agree, and each block begins *)
(* where the one before it ends, over the whole arena (checkInvariants);    *)
(* no two neighbours are both free.                                         *)
ListCoversArena ==
    /\ blocks[first].prev = Null /\ blocks[first].offset = 0
    /\ blocks[last].next = Null
    /\ blocks[last].offset + blocks[last].size = arena_size
    /\ \A b \in DOMAIN blocks :
         /\ blocks[b].size > 0
         /\ b = last \/ LET n == blocks[b].next IN
              /\ n \in DOMAIN blocks /\ blocks[n].prev = b
              /\ blocks[n].offset = blocks[b].offset + blocks[b].size
              /\ blocks[b].allocated \/ blocks[n].allocated
         /\ b = first \/ blocks[b].prev \in DOMAIN blocks

(* Exactly the free blocks are in the multimap, each under its size.        *)
MultimapIsFreeBlocks ==
    /\ ToSet(size_to_free_blocks) =
         {<<blocks[b].size, b>> : b \in {c \in DOMAIN blocks : ~blocks[c].allocated}}
    /\ IsInjective(size_to_free_blocks)

(* What clients hold lies inside their own blocks.                          *)
ClientsInsideBlocks ==
    \A b \in DOMAIN blocks : blocks[b].allocated =>
        /\ blocks[b].client >= blocks[b].offset
        /\ blocks[b].client + blocks[b].asked <= blocks[b].offset + blocks[b].size

(* In whatever order blocks are allocated, freed and joined, the blocks     *)
(* tile the arena, so no two clients' bytes overlap and nothing is lost,    *)
(* and free space is never left in two neighbouring pieces.                 *)
ArenaIsTiled == ListCoversArena /\ MultimapIsFreeBlocks /\ ClientsInsideBlocks
=============================================================================
