--------------------------- MODULE CircularBuffer ---------------------------
(***************************************************************************)
(* CircularBuffer (utils/CircularBuffer.h), the storage of every           *)
(* ThreadSafeQueue: a ring that wraps around and grows by at least         *)
(* doubling.  An operator takes the buffer as it is and returns it as the  *)
(* operation leaves it; indices are counted from 0 as in the code.         *)
(***************************************************************************)
EXTENDS Integers, Sequences, FiniteSetsExt

CONSTANTS Item,         \* the objects stored
          Raw,          \* storage that holds no object
          MaxItems      \* bound: the most items at once

ASSUME RingAssumption == Raw \notin Item /\ MaxItems \in Nat

VARIABLES ring,         \* [begin, end, data]; data[i + 1] is the code's data[i]
          call          \* history: the last call, what it was given or copied out, how
                        \* many items it was to drop

ringVars == <<ring, call>>

Cap(r) == Len(r.data)
Size(r) == IF r.begin <= r.end THEN r.end - r.begin ELSE Cap(r) - r.begin + r.end
Wrapped(i, r) == IF i >= Cap(r) THEN 0 ELSE i

(* The items, front first.                                                  *)
Contents(r) == [i \in 1..Size(r) |-> r.data[1 + ((r.begin + i - 1) % Cap(r))]]

InitRing ==
    /\ ring = [begin |-> 0, end |-> 0, data |-> <<>>]
    /\ call = [op |-> "none", items |-> <<>>, n |-> 0]

-----------------------------------------------------------------------------
(* Mutant of Grow: the part that had wrapped around is not moved.           *)
GrowInPlace(r, n) ==
    [r EXCEPT !.data = [k \in 1..Max({4, n}) |-> IF k <= Cap(r) THEN r.data[k] ELSE Raw]]

(* increaseDataSize: the first segment stays where it is, what had wrapped  *)
(* around to the start follows the old storage's end.                       *)
Grow(r, n) ==
    LET wrapped  == r.end < r.begin
        firstEnd == IF wrapped THEN Cap(r) ELSE r.end
        Moved(k) == IF r.begin < k /\ k <= firstEnd THEN r.data[k]
                    ELSE IF wrapped /\ k - Cap(r) \in 1..r.end THEN r.data[k - Cap(r)]
                    ELSE Raw
    IN  [begin |-> r.begin,
         end   |-> IF wrapped THEN r.begin + Size(r) ELSE r.end,
         data  |-> [k \in 1..Max({4, n}) |-> Moved(k)]]

WithRoom(r) ==
    IF Size(r) + 1 >= Cap(r) THEN Grow(r, Max({Size(r) + 2, Cap(r) * 2})) ELSE r

PushBack(r, x) ==
    LET g == WithRoom(r)
    IN  [g EXCEPT !.data[g.end + 1] = x, !.end = Wrapped(g.end + 1, g)]

PushFront(r, x) ==
    LET g == WithRoom(r)
        b == IF g.begin = 0 THEN Cap(g) - 1 ELSE g.begin - 1
    IN  [g EXCEPT !.data[b + 1] = x, !.begin = b]

PopBack(r) ==
    LET e == IF r.end = 0 THEN Cap(r) - 1 ELSE r.end - 1
    IN  [r EXCEPT !.data[e + 1] = Raw, !.end = e]

PopFront(r) ==
    [r EXCEPT !.data[r.begin + 1] = Raw,
              !.begin = IF r.begin = Cap(r) - 1 THEN 0 ELSE r.begin + 1]

(* pushBackNItems: up to the end of the storage, then from its start.       *)
PushBackN(r, s) ==
    LET n == Len(s)
        g == IF Size(r) + n >= Cap(r)
             THEN Grow(r, Max({Size(r) + n + 1, Cap(r) * 2})) ELSE r
        toEnd == Cap(g) - g.end
        first == Min({n, toEnd})
    IN  [g EXCEPT
          !.data = [k \in DOMAIN g.data |->
                      IF k - g.end \in 1..first THEN s[k - g.end]
                      ELSE IF k <= n - toEnd THEN s[first + k]
                      ELSE g.data[k]],
          !.end = Wrapped(IF n > toEnd THEN n - toEnd ELSE g.end + first, g)]

(* popFrontNItems, and what it copies to dest.                              *)
PopFrontN(r, n) ==
    LET toEnd == Cap(r) - r.begin
        first == Min({n, toEnd})
        Popped(k) == k - r.begin \in 1..first \/ k <= n - toEnd
    IN  [r EXCEPT
          !.data  = [k \in DOMAIN r.data |-> IF Popped(k) THEN Raw ELSE r.data[k]],
          !.begin = Wrapped(IF n > toEnd THEN n - toEnd ELSE r.begin + first, r)]
Popped(r, n) ==
    LET toEnd == Cap(r) - r.begin
    IN  [i \in 1..n |-> IF i <= toEnd THEN r.data[r.begin + i] ELSE r.data[i - toEnd]]

PopBackN(r, n) ==
    LET after[i \in 0..n] == IF i = 0 THEN r ELSE PopBack(after[i - 1])
    IN  after[n]

Cleared(r) == [begin |-> 0, end |-> 0, data |-> [k \in DOMAIN r.data |-> Raw]]

Freed == [begin |-> 0, end |-> 0, data |-> <<>>]

(* A buffer that was assigned r (operator =).                               *)
CopyOf(r) ==
    [begin |-> 0, end |-> Size(r),
     data  |-> [k \in 1..Max({4, Size(r) + 1}) |->
                  IF k <= Size(r) THEN Contents(r)[k] ELSE Raw]]

-----------------------------------------------------------------------------
Room == MaxItems - Size(ring)

Called(op, items, n) == call' = [op |-> op, items |-> items, n |-> n]

PushItems ==
    /\ Room > 0
    /\ \/ \E x \in Item :
            \/ ring' = PushBack(ring, x) /\ Called("pushBack", <<x>>, 0)
            \/ ring' = PushFront(ring, x) /\ Called("pushFront", <<x>>, 0)
       \/ \E n \in 0..Room : \E s \in [1..n -> Item] :
            ring' = PushBackN(ring, s) /\ Called("pushBack", s, 0)

Pop ==
    /\ Size(ring) > 0
    /\ ring' = PopFront(ring)
    /\ Called("popFront", <<ring.data[ring.begin + 1]>>, 0)

PopN(n) ==
    /\ ring' = PopFrontN(ring, n)
    /\ Called("popFront", Popped(ring, n), 0) \/ Called("dropFront", <<>>, n)

Discard ==
    \/ Size(ring) > 0 /\ ring' = PopBack(ring) /\ Called("dropBack", <<>>, 1)
    \/ \E n \in 0..Size(ring) : ring' = PopBackN(ring, n) /\ Called("dropBack", <<>>, n)
    \/ ring' \in {Cleared(ring), Freed} /\ Called("dropBack", <<>>, Size(ring))
    \/ ring' = CopyOf(ring) /\ Called("dropBack", <<>>, 0)

NextRing == PushItems \/ Pop \/ (\E n \in 0..Size(ring) : PopN(n)) \/ Discard

SpecRing == InitRing /\ [][NextRing]_ringVars

-----------------------------------------------------------------------------
(* CircularBuffer::invariant(), and exactly the slots of the items hold     *)
(* objects: none is constructed over another or left undestroyed.           *)
RingTypeOK ==
    /\ ring.data \in Seq(Item \cup {Raw})
    /\ IF Cap(ring) = 0 THEN ring.begin = 0 /\ ring.end = 0
       ELSE ring.begin \in 0..Cap(ring) - 1 /\ ring.end \in 0..Cap(ring) - 1
    /\ \A i \in 0..Cap(ring) - 1 :
         ring.data[i + 1] # Raw <=> (i - ring.begin + Cap(ring)) % Cap(ring) < Size(ring)

Ring == INSTANCE Deque WITH queue <- Contents(ring)

(* However often the ring wraps around and grows, it is the sequence of     *)
(* items that was pushed and not yet popped, in order.                      *)
ImplementsDeque == Ring!Spec
=============================================================================
