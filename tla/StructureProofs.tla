-------------------------- MODULE StructureProofs --------------------------
(***************************************************************************)
(* Theorems about CircularBuffer, BestFitAllocator, WebSocket and HashMap. *)
(***************************************************************************)
EXTENDS CircularBuffer, BestFitAllocator, WebSocket, HashMap, SequenceLemmas

(***************************************************************************)
(* The ring buffer.  A ring is in order when exactly the slots between     *)
(* begin and end hold objects; each operation is shown to leave it so, and *)
(* to do to the sequence of its items what Deque says.                     *)
(***************************************************************************)
(* The storage slot, counted from 1, of the i-th item of a ring that begins *)
(* at b and has c slots.                                                    *)
Slot(b, c, i) == IF b + i <= c THEN b + i ELSE b + i - c

(* Whether slot k is between begin and end, around the storage's end.       *)
Used(b, e, k) == IF b <= e THEN b < k /\ k <= e ELSE b < k \/ k <= e

(* CircularBuffer::invariant(), and exactly the slots between begin and end *)
(* hold objects.                                                            *)
Within(b, e, c) == IF c = 0 THEN b = 0 /\ e = 0 ELSE b < c /\ e < c
RingShape(r) ==
    /\ r \in [begin : Nat, end : Nat, data : Seq(Item \cup {Raw})]
    /\ Within(r.begin, r.end, Cap(r))
    /\ \A k \in 1..Cap(r) : r.data[k] # Raw <=> Used(r.begin, r.end, k)

LEMMA MinMaxOfTwo ==
    ASSUME NEW m \in Int, NEW n \in Int
    PROVE  /\ Max({m, n}) = IF m >= n THEN m ELSE n
           /\ Min({m, n}) = IF m <= n THEN m ELSE n
BY DEF Max, Min

LEMMA ShapeFacts ==
    ASSUME NEW r, RingShape(r)
    PROVE  /\ r = [begin |-> r.begin, end |-> r.end, data |-> r.data]
           /\ r.begin \in Nat /\ r.end \in Nat /\ r.data \in Seq(Item \cup {Raw})
           /\ Cap(r) \in Nat /\ DOMAIN r.data = 1..Cap(r)
           /\ \A k \in 1..Cap(r) : r.data[k] \in Item \cup {Raw}
           /\ Within(r.begin, r.end, Cap(r))
           /\ Size(r) \in Nat /\ Size(r) <= Cap(r) /\ (Cap(r) # 0 => Size(r) < Cap(r))
<1>1. r \in [begin : Nat, end : Nat, data : Seq(Item \cup {Raw})] /\ Within(r.begin, r.end, Cap(r))
  BY DEF RingShape
<1> DEFINE S == Item \cup {Raw}
<1>2. r.data \in Seq(S) /\ r.begin \in Nat /\ r.end \in Nat
      /\ r = [begin |-> r.begin, end |-> r.end, data |-> r.data]
  BY <1>1
<1> HIDE DEF S
<1>3. Cap(r) \in Nat /\ DOMAIN r.data = 1..Cap(r) /\ \A k \in 1..Cap(r) : r.data[k] \in S
  BY <1>2 DEF Cap
<1>4. Size(r) \in Nat /\ Size(r) <= Cap(r) /\ (Cap(r) # 0 => Size(r) < Cap(r))
  BY <1>1, <1>2, <1>3 DEF Size, Within
<1> QED
  BY <1>1, <1>2, <1>3, <1>4 DEF S

(* The i-th item is in a slot in use, and that is the slot Contents reads.  *)
LEMMA SlotFacts ==
    ASSUME NEW b \in Nat, NEW e \in Nat, NEW c \in Nat, Within(b, e, c),
           NEW i \in 1..(IF b <= e THEN e - b ELSE c - b + e)
    PROVE  /\ Slot(b, c, i) \in 1..c /\ Used(b, e, Slot(b, c, i))
           /\ 1 + ((b + i - 1) % c) = Slot(b, c, i)
<1>1. c \in Nat \ {0} /\ b + i - 1 \in 0..2 * c - 1 /\ b < c /\ e < c
  BY DEF Within
<1>2. (b + i - 1) % c = IF b + i - 1 < c THEN b + i - 1 ELSE b + i - 1 - c
  <2> DEFINE a == b + i - 1
  <2>1. a \in 0..2 * c - 1
    BY <1>1
  <2> HIDE DEF a
  <2>2. CASE a < c
    BY <1>1, <2>1, <2>2 DEF a
  <2>3. CASE ~(a < c)
    <3>1. a \in c..2 * c - 1
      BY <1>1, <2>1, <2>3
    <3>2. a - c \in 0..c - 1 /\ a % c = a - c
      BY <1>1, <3>1
    <3> QED
      BY <2>3, <3>2 DEF a
  <2> QED
    BY <2>2, <2>3
<1> QED
  BY <1>1, <1>2 DEF Slot, Used

LEMMA ContentsAre ==
    ASSUME NEW r, RingShape(r)
    PROVE  /\ Contents(r) \in Seq(Item) /\ Len(Contents(r)) = Size(r)
           /\ \A i \in 1..Size(r) : Contents(r)[i] = r.data[Slot(r.begin, Cap(r), i)]
<1> DEFINE b == r.begin
           e == r.end
           c == Cap(r)
           n == Size(r)
           d == r.data
<1>1. /\ b \in Nat /\ e \in Nat /\ c \in Nat /\ n \in Nat /\ Within(b, e, c)
      /\ \A k \in 1..c : d[k] \in Item \cup {Raw} /\ (d[k] # Raw <=> Used(b, e, k))
  BY ShapeFacts DEF RingShape
<1>2. n = IF b <= e THEN e - b ELSE c - b + e
  BY DEF Size
<1>3. Contents(r) = [i \in 1..n |-> d[1 + ((b + i - 1) % c)]]
  BY DEF Contents
<1> HIDE DEF b, e, c, n, d
<1>4. \A i \in 1..n : /\ Slot(b, c, i) \in 1..c /\ Used(b, e, Slot(b, c, i))
                      /\ 1 + ((b + i - 1) % c) = Slot(b, c, i)
  BY <1>1, <1>2, SlotFacts
<1>5. \A i \in 1..n : d[1 + ((b + i - 1) % c)] = d[Slot(b, c, i)] /\ d[Slot(b, c, i)] \in Item
  BY <1>1, <1>4
<1>6. Contents(r) \in [1..n -> Item] /\ \A i \in 1..n : Contents(r)[i] = d[Slot(b, c, i)]
  BY <1>3, <1>5
<1>7. Contents(r) \in Seq(Item) /\ Len(Contents(r)) = n
  BY <1>1, <1>6
<1> QED
  BY <1>6, <1>7 DEF b, c, n, d

LEMMA ContentsEqual ==
    ASSUME NEW r, RingShape(r), NEW s \in Seq(Item), Len(s) = Size(r),
           \A i \in 1..Size(r) : r.data[Slot(r.begin, Cap(r), i)] = s[i]
    PROVE  Contents(r) = s
<1>1. Contents(r) \in Seq(Item) /\ Len(Contents(r)) = Len(s)
  BY ContentsAre
<1>2. \A i \in 1..Len(s) : Contents(r)[i] = s[i]
  BY ContentsAre
<1> QED
  BY <1>1, <1>2, SeqEqual

(* The items s in a storage d of c slots, from b to e.                      *)
Holds(b, e, c, d, s) ==
    /\ b \in Nat /\ e \in Nat /\ c \in Nat /\ Within(b, e, c)
    /\ d \in [1..c -> Item \cup {Raw}]
    /\ \A k \in 1..c : d[k] # Raw <=> Used(b, e, k)
    /\ s \in Seq(Item) /\ Len(s) = (IF b <= e THEN e - b ELSE c - b + e)
    /\ \A i \in 1..Len(s) : d[Slot(b, c, i)] = s[i]

(* A ring put together from its parts.                                      *)
LEMMA ShapeOf ==
    ASSUME NEW b, NEW e, NEW c, NEW d, NEW s, Holds(b, e, c, d, s)
    PROVE  LET r == [begin |-> b, end |-> e, data |-> d]
           IN  RingShape(r) /\ Contents(r) = s /\ Cap(r) = c /\ Size(r) = Len(s)
<1> DEFINE r == [begin |-> b, end |-> e, data |-> d]
           S == Item \cup {Raw}
<1>0. /\ b \in Nat /\ e \in Nat /\ c \in Nat /\ Within(b, e, c) /\ d \in [1..c -> S]
      /\ \A k \in 1..c : d[k] # Raw <=> Used(b, e, k)
      /\ s \in Seq(Item) /\ Len(s) = (IF b <= e THEN e - b ELSE c - b + e)
      /\ \A i \in 1..Len(s) : d[Slot(b, c, i)] = s[i]
  BY DEF Holds
<1>1. d \in Seq(S) /\ Len(d) = c
  <2> HIDE DEF S
  <2> QED
    BY <1>0
<1>2. r.begin = b /\ r.end = e /\ r.data = d /\ r \in [begin : Nat, end : Nat, data : Seq(S)]
  BY <1>0, <1>1
<1> HIDE DEF r, S
<1>3. Cap(r) = c /\ Size(r) = Len(s)
  BY <1>0, <1>1, <1>2 DEF Cap, Size
<1>4. RingShape(r)
  BY <1>0, <1>1, <1>2, <1>3 DEF RingShape, S
<1>5. Contents(r) = s
  BY <1>0, <1>2, <1>3, <1>4, ContentsEqual
<1> QED
  BY <1>3, <1>4, <1>5 DEF r
(* The parts of a ring, for the proofs about its operations.                *)
LEMMA Parts ==
    ASSUME NEW r, RingShape(r)
    PROVE  /\ Holds(r.begin, r.end, Cap(r), r.data, Contents(r))
           /\ Len(Contents(r)) = Size(r) /\ Size(r) \in Nat
<1>1. r.data \in [1..Cap(r) -> Item \cup {Raw}]
  <2> DEFINE S == Item \cup {Raw}
  <2>1. r.data \in Seq(S) /\ \A k \in 1..Cap(r) : r.data[k] \in S
    BY ShapeFacts
  <2> HIDE DEF S
  <2>2. r.data \in [1..Cap(r) -> S]
    BY <2>1 DEF Cap
  <2> QED
    BY <2>2 DEF S
<1>2. \A k \in 1..Cap(r) : r.data[k] # Raw <=> Used(r.begin, r.end, k)
  BY DEF RingShape
<1>3. Size(r) = IF r.begin <= r.end THEN r.end - r.begin ELSE Cap(r) - r.begin + r.end
  BY DEF Size
<1> QED
  BY <1>1, <1>2, <1>3, ShapeFacts, ContentsAre DEF Holds

(* Growing keeps the items in their order; they do not wrap around then.    *)
LEMMA GrowKeeps ==
    ASSUME NEW r, RingShape(r), NEW n \in Nat, n >= 2 * Cap(r)
    PROVE  /\ RingShape(Grow(r, n)) /\ Contents(Grow(r, n)) = Contents(r)
           /\ Cap(Grow(r, n)) = Max({4, n}) /\ Size(Grow(r, n)) = Size(r)
<1> DEFINE b == r.begin
           e == r.end
           c == Cap(r)
           s == Contents(r)
           d == r.data
           m == Max({4, n})
           end == IF e < b THEN b + Size(r) ELSE e
           firstEnd == IF e < b THEN c ELSE e
           Moved(k) == IF b < k /\ k <= firstEnd THEN d[k]
                       ELSE IF e < b /\ k - c \in 1..e THEN d[k - c]
                       ELSE Raw
           g == [k \in 1..m |-> Moved(k)]
<1>1. Holds(b, e, c, d, s) /\ Size(r) = Len(s) /\ Size(r) \in Nat
  BY Parts
<1>2. m \in Nat /\ m >= 4 /\ m >= 2 * c
  <2>1. m \in Nat /\ m >= 4 /\ m >= n
    BY MinMaxOfTwo
  <2> HIDE DEF m
  <2> QED
    BY <2>1, <1>1 DEF Holds
<1>3. Grow(r, n) = [begin |-> b, end |-> end, data |-> g]
  BY DEF Grow
<1>4. /\ end = b + Len(s) /\ b <= end /\ end < m /\ end \in Nat /\ Within(b, end, m)
      /\ firstEnd \in Nat /\ firstEnd <= c
      /\ Len(s) = (IF b <= end THEN end - b ELSE m - b + end)
  <2> HIDE DEF b, e, c, s, d, m
  <2> QED
    BY <1>1, <1>2 DEF Within, Holds
<1> HIDE DEF b, e, c, s, d, m
<1>5. \A k \in 1..m : Moved(k) \in Item \cup {Raw} /\ (Moved(k) # Raw <=> Used(b, end, k))
  <2> TAKE k \in 1..m
  <2>1. CASE b < k /\ k <= firstEnd
    <3>1. k \in 1..c /\ Used(b, e, k) /\ Used(b, end, k)
      BY <1>1, <1>4, <2>1 DEF Used, Within, Holds
    <3> QED
      BY <1>1, <2>1, <3>1 DEF Holds
  <2>2. CASE ~(b < k /\ k <= firstEnd) /\ e < b /\ k - c \in 1..e
    <3>1. k - c \in 1..c /\ Used(b, e, k - c) /\ Used(b, end, k)
      BY <1>1, <1>4, <2>2 DEF Used, Within, Holds
    <3> QED
      BY <1>1, <2>2, <3>1 DEF Holds
  <2>3. CASE ~(b < k /\ k <= firstEnd) /\ ~(e < b /\ k - c \in 1..e)
    <3>1. ~Used(b, end, k)
      BY <1>1, <1>4, <2>3 DEF Used, Within, Holds
    <3> QED
      BY <2>3, <3>1
  <2> QED
    BY <2>1, <2>2, <2>3
<1>6. \A i \in 1..Len(s) : Slot(b, m, i) \in 1..m /\ Moved(Slot(b, m, i)) = s[i]
  <2> TAKE i \in 1..Len(s)
  <2>1. Slot(b, m, i) = b + i /\ b + i \in 1..m /\ d[Slot(b, c, i)] = s[i]
    BY <1>1, <1>2, <1>4 DEF Slot, Within, Holds
  <2>2. CASE b + i <= firstEnd
    <3>1. Slot(b, c, i) = b + i /\ b < b + i
      BY <1>1, <1>4, <2>2 DEF Slot, Holds
    <3> QED
      BY <2>1, <2>2, <3>1
  <2>3. CASE ~(b + i <= firstEnd)
    <3>1. e < b /\ b + i - c \in 1..e /\ Slot(b, c, i) = b + i - c
      BY <1>1, <1>4, <2>3 DEF Slot, Within, Holds
    <3>2. Moved(b + i) = d[b + i - c]
      BY <1>1, <1>4, <2>3, <3>1 DEF Holds
    <3> QED
      BY <2>1, <3>1, <3>2
  <2> QED
    BY <2>2, <2>3
<1>7. g \in [1..m -> Item \cup {Raw}] /\ \A k \in 1..m : g[k] = Moved(k)
  BY <1>5
<1> HIDE DEF g, Moved, end
<1>8. LET q == [begin |-> b, end |-> end, data |-> g]
      IN  RingShape(q) /\ Contents(q) = s /\ Cap(q) = m /\ Size(q) = Len(s)
  <2>1. \A k \in 1..m : g[k] # Raw <=> Used(b, end, k)
    BY <1>5, <1>7
  <2>2. \A i \in 1..Len(s) : g[Slot(b, m, i)] = s[i]
    BY <1>6, <1>7
  <2>3. b \in Nat /\ end \in Nat /\ m \in Nat /\ s \in Seq(Item) /\ Within(b, end, m)
    BY <1>1, <1>2, <1>4 DEF Holds
  <2>4. g \in [1..m -> Item \cup {Raw}] /\ Len(s) = (IF b <= end THEN end - b ELSE m - b + end)
    BY <1>4, <1>7
  <2>5. Holds(b, end, m, g, s)
    BY ONLY <2>1, <2>2, <2>3, <2>4 DEF Holds
  <2> QED
    BY <2>5, ShapeOf
<1> QED
  BY <1>1, <1>3, <1>8 DEF s, m

(* Before something is pushed there is room for it.                         *)
LEMMA GrownForRoom ==
    ASSUME NEW r, RingShape(r), NEW n \in Nat
    PROVE  LET g == IF Size(r) + n >= Cap(r)
                    THEN Grow(r, Max({Size(r) + n + 1, Cap(r) * 2})) ELSE r
           IN  /\ RingShape(g) /\ Contents(g) = Contents(r) /\ Size(g) = Size(r)
               /\ Size(g) + n < Cap(g)
<1> DEFINE m == Max({Size(r) + n + 1, Cap(r) * 2})
<1>1. Size(r) \in Nat /\ Cap(r) \in Nat
  BY ShapeFacts
<1>2. m \in Nat /\ m >= Size(r) + n + 1 /\ m >= 2 * Cap(r)
  BY <1>1, MinMaxOfTwo
<1> HIDE DEF m
<1>3. /\ RingShape(Grow(r, m)) /\ Contents(Grow(r, m)) = Contents(r)
      /\ Cap(Grow(r, m)) = Max({4, m}) /\ Size(Grow(r, m)) = Size(r)
  BY <1>2, GrowKeeps
<1>4. Max({4, m}) >= m
  BY <1>2, MinMaxOfTwo
<1>5. Max({4, m}) \in Nat
  BY <1>2, MinMaxOfTwo
<1> QED
  BY <1>1, <1>2, <1>3, <1>4, <1>5 DEF m
LEMMA RoomForOne ==
    ASSUME NEW r, RingShape(r)
    PROVE  LET g == WithRoom(r)
           IN  /\ RingShape(g) /\ Contents(g) = Contents(r) /\ Size(g) = Size(r)
               /\ Size(g) + 1 < Cap(g)
<1>1. Size(r) \in Nat /\ Cap(r) \in Nat
  BY ShapeFacts
<1>2. Size(r) + 1 + 1 = Size(r) + 2
  BY <1>1
<1>3. WithRoom(r) = IF Size(r) + 1 >= Cap(r)
                    THEN Grow(r, Max({Size(r) + 1 + 1, Cap(r) * 2})) ELSE r
  BY <1>2 DEF WithRoom
<1> QED
  BY <1>3, GrownForRoom

LEMMA PushBackKeeps ==
    ASSUME NEW r, RingShape(r), NEW x \in Item
    PROVE  RingShape(PushBack(r, x)) /\ Contents(PushBack(r, x)) = Contents(r) \o <<x>>
<1> DEFINE g == WithRoom(r)
           s == Contents(r)
           t == s \o <<x>>
           b == g.begin
           e == g.end
           c == Cap(g)
           d == g.data
           f == Wrapped(e + 1, g)
           h == [d EXCEPT ![e + 1] = x]
<1>1. RingShape(g) /\ Contents(g) = s /\ Size(g) + 1 < Cap(g)
  BY RoomForOne
<1>2. Holds(b, e, c, d, s) /\ Len(s) + 1 < c
  BY <1>1, Parts
<1>3. PushBack(r, x) = [begin |-> b, end |-> f, data |-> h]
  <2>1. g = [begin |-> b, end |-> e, data |-> d]
    BY <1>1, ShapeFacts
  <2>2. PushBack(r, x) = [g EXCEPT !.data[g.end + 1] = x, !.end = Wrapped(g.end + 1, g)]
    BY DEF PushBack
  <2> HIDE DEF g, b, e, d
  <2> QED
    BY <2>1, <2>2 DEF b, e, d
<1>4. f = IF e + 1 >= c THEN 0 ELSE e + 1
  BY DEF Wrapped
<1> HIDE DEF g, b, e, c, d, f, s
<1>5. Holds(b, f, c, h, t)
  <2>1. /\ f \in Nat /\ Within(b, f, c) /\ e + 1 \in 1..c
        /\ Len(s) + 1 = IF b <= f THEN f - b ELSE c - b + f
    BY <1>2, <1>4 DEF Holds, Within
  <2>2. h \in [1..c -> Item \cup {Raw}] /\ \A k \in 1..c : h[k] # Raw <=> Used(b, f, k)
    <3>1. \A k \in 1..c : Used(b, f, k) <=> Used(b, e, k) \/ k = e + 1
      BY <1>2, <1>4 DEF Holds, Within, Used
    <3>2. \A k \in 1..c : h[k] = IF k = e + 1 THEN x ELSE d[k]
      BY <1>2 DEF Holds
    <3> QED
      BY <1>2, <3>1, <3>2, RingAssumption DEF Holds
  <2>3. t \in Seq(Item) /\ Len(t) = Len(s) + 1 /\ t[Len(s) + 1] = x
        /\ \A i \in 1..Len(s) : t[i] = s[i]
    BY <1>2 DEF Holds
  <2> HIDE DEF t
  <2>4. \A i \in 1..Len(t) : h[Slot(b, c, i)] = t[i]
    <3>1. \A i \in 1..Len(s) : Slot(b, c, i) \in 1..c /\ Slot(b, c, i) # e + 1
      BY <1>2 DEF Holds, Within, Slot
    <3>2. Slot(b, c, Len(s) + 1) = e + 1
      BY <1>2 DEF Holds, Within, Slot
    <3>3. Len(s) \in Nat
      BY <1>2 DEF Holds
    <3>4. h[e + 1] = x /\ \A k \in 1..c : k # e + 1 => h[k] = d[k]
      BY <1>2, <2>1 DEF Holds
    <3>5. \A i \in 1..Len(s) : d[Slot(b, c, i)] = s[i]
      BY <1>2 DEF Holds
    <3> HIDE DEF h
    <3> QED
      BY <2>3, <3>1, <3>2, <3>3, <3>4, <3>5
  <2> QED
    BY <1>2, <2>1, <2>2, <2>3, <2>4 DEF Holds
<1> HIDE DEF h, t
<1>6. RingShape(PushBack(r, x)) /\ Contents(PushBack(r, x)) = t
  BY <1>3, <1>5, ShapeOf
<1> QED
  BY <1>6 DEF t, s

LEMMA PushFrontKeeps ==
    ASSUME NEW r, RingShape(r), NEW x \in Item
    PROVE  RingShape(PushFront(r, x)) /\ Contents(PushFront(r, x)) = <<x>> \o Contents(r)
<1> DEFINE g == WithRoom(r)
           s == Contents(r)
           t == <<x>> \o s
           b == g.begin
           e == g.end
           c == Cap(g)
           d == g.data
           f == IF b = 0 THEN c - 1 ELSE b - 1
           h == [d EXCEPT ![f + 1] = x]
<1>1. RingShape(g) /\ Contents(g) = s /\ Size(g) + 1 < Cap(g)
  BY RoomForOne
<1>2. Holds(b, e, c, d, s) /\ Len(s) + 1 < c
  BY <1>1, Parts
<1>3. PushFront(r, x) = [begin |-> f, end |-> e, data |-> h]
  <2>1. g = [begin |-> b, end |-> e, data |-> d]
    BY <1>1, ShapeFacts
  <2>2. PushFront(r, x) = [g EXCEPT !.data[f + 1] = x, !.begin = f]
    BY DEF PushFront
  <2> HIDE DEF g, b, e, d, f
  <2> QED
    BY <2>1, <2>2 DEF b, e, d
<1> HIDE DEF g, b, e, c, d, s
<1>4. f = IF b = 0 THEN c - 1 ELSE b - 1
  OBVIOUS
<1> HIDE DEF f
<1>5. Holds(f, e, c, h, t)
  <2>1. /\ f \in Nat /\ Within(f, e, c) /\ f + 1 \in 1..c
        /\ Len(s) + 1 = IF f <= e THEN e - f ELSE c - f + e
    BY <1>2, <1>4 DEF Holds, Within
  <2>2. h \in [1..c -> Item \cup {Raw}] /\ \A k \in 1..c : h[k] # Raw <=> Used(f, e, k)
    <3>1. \A k \in 1..c : Used(f, e, k) <=> Used(b, e, k) \/ k = f + 1
      BY <1>2, <1>4 DEF Holds, Within, Used
    <3>2. \A k \in 1..c : h[k] = IF k = f + 1 THEN x ELSE d[k]
      BY <1>2 DEF Holds
    <3> QED
      BY <1>2, <3>1, <3>2, RingAssumption DEF Holds
  <2>3. t \in Seq(Item) /\ Len(t) = Len(s) + 1 /\ t[1] = x
        /\ \A i \in 1..Len(s) : t[i + 1] = s[i]
    BY <1>2 DEF Holds
  <2> HIDE DEF t
  <2>4. \A i \in 1..Len(t) : h[Slot(f, c, i)] = t[i]
    <3>1. \A i \in 1..Len(s) : /\ Slot(b, c, i) \in 1..c /\ Slot(b, c, i) # f + 1
                               /\ Slot(f, c, i + 1) = Slot(b, c, i)
      BY <1>2, <1>4 DEF Holds, Within, Slot
    <3>2. Slot(f, c, 1) = f + 1
      BY <1>2, <1>4 DEF Holds, Within, Slot
    <3>3. Len(s) \in Nat
      BY <1>2 DEF Holds
    <3>4. h[f + 1] = x /\ \A k \in 1..c : k # f + 1 => h[k] = d[k]
      BY <1>2, <2>1 DEF Holds
    <3>5. \A i \in 1..Len(s) : d[Slot(b, c, i)] = s[i]
      BY <1>2 DEF Holds
    <3> HIDE DEF h
    <3>6. \A i \in 1..Len(s) : h[Slot(f, c, i + 1)] = t[i + 1]
      BY <2>3, <3>1, <3>4, <3>5
    <3>7. \A i \in 1..Len(t) : i = 1 \/ (i - 1 \in 1..Len(s) /\ (i - 1) + 1 = i)
      BY <2>3, <3>3
    <3> QED
      BY <2>3, <3>2, <3>4, <3>6, <3>7
  <2> QED
    BY <1>2, <2>1, <2>2, <2>3, <2>4 DEF Holds
<1> HIDE DEF h, t
<1>6. RingShape(PushFront(r, x)) /\ Contents(PushFront(r, x)) = t
  BY <1>3, <1>5, ShapeOf
<1> QED
  BY <1>6 DEF t, s
(* The items from the second, or the n-th, on, and those before the last n. *)
LEMMA SubSeqFacts ==
    ASSUME NEW s \in Seq(Item), NEW n \in 0..Len(s)
    PROVE  /\ SubSeq(s, n + 1, Len(s)) \in Seq(Item)
           /\ Len(SubSeq(s, n + 1, Len(s))) = Len(s) - n
           /\ \A i \in 1..Len(s) - n : SubSeq(s, n + 1, Len(s))[i] = s[n + i]
           /\ SubSeq(s, 1, n) \in Seq(Item) /\ Len(SubSeq(s, 1, n)) = n
           /\ \A i \in 1..n : SubSeq(s, 1, n)[i] = s[i]
<1>1. Len(s) \in Nat /\ n \in Nat /\ n <= Len(s) /\ \A i \in 1..Len(s) : s[i] \in Item
  OBVIOUS
<1>2. /\ SubSeq(s, n + 1, Len(s)) \in Seq(Item)
      /\ Len(SubSeq(s, n + 1, Len(s))) =
           IF n + 1 <= Len(s) THEN Len(s) - (n + 1) + 1 ELSE 0
      /\ \A i \in 1..Len(s) - (n + 1) + 1 : SubSeq(s, n + 1, Len(s))[i] = s[n + 1 + i - 1]
  BY <1>1, SubSeqProperties
<1>3. /\ SubSeq(s, 1, n) \in Seq(Item)
      /\ Len(SubSeq(s, 1, n)) = IF 1 <= n THEN n - 1 + 1 ELSE 0
      /\ \A i \in 1..n - 1 + 1 : SubSeq(s, 1, n)[i] = s[1 + i - 1]
  BY <1>1, SubSeqProperties
<1>4. /\ Len(s) - (n + 1) + 1 = Len(s) - n /\ n - 1 + 1 = n
      /\ (n + 1 <= Len(s) \/ Len(s) - n = 0) /\ (1 <= n \/ n = 0)
      /\ \A i \in 1..Len(s) - n : n + 1 + i - 1 = n + i
      /\ \A i \in 1..n : 1 + i - 1 = i
  BY <1>1
<1> DEFINE u == SubSeq(s, n + 1, Len(s))
           v == SubSeq(s, 1, n)
<1> HIDE DEF u, v
<1>5. u \in Seq(Item) /\ Len(u) = Len(s) - n /\ \A i \in 1..Len(s) - n : u[i] = s[n + i]
  <2>1. /\ u \in Seq(Item) /\ Len(u) = IF n + 1 <= Len(s) THEN Len(s) - (n + 1) + 1 ELSE 0
        /\ \A i \in 1..Len(s) - n : u[i] = s[n + 1 + i - 1]
    BY <1>2, <1>4 DEF u
  <2>2. Len(u) = Len(s) - n
    BY <1>1, <2>1
  <2>3. ASSUME NEW i \in 1..Len(s) - n
        PROVE  u[i] = s[n + i]
    <3>1. n + 1 + i - 1 = n + i /\ u[i] = s[n + 1 + i - 1]
      BY <1>4, <2>1
    <3> QED
      BY <3>1
  <2> QED
    BY <2>1, <2>2, <2>3
<1>6. v \in Seq(Item) /\ Len(v) = n /\ \A i \in 1..n : v[i] = s[i]
  BY <1>3, <1>4 DEF v
<1> QED
  BY <1>5, <1>6 DEF u, v

LEMMA PopFrontKeeps ==
    ASSUME NEW r, RingShape(r), Size(r) > 0
    PROVE  /\ RingShape(PopFront(r))
           /\ Contents(PopFront(r)) = SubSeq(Contents(r), 2, Len(Contents(r)))
           /\ r.data[r.begin + 1] = Contents(r)[1]
<1> DEFINE s == Contents(r)
           t == SubSeq(s, 1 + 1, Len(s))
           b == r.begin
           e == r.end
           c == Cap(r)
           d == r.data
           f == IF b = c - 1 THEN 0 ELSE b + 1
           h == [d EXCEPT ![b + 1] = Raw]
<1>1. Holds(b, e, c, d, s) /\ Len(s) > 0
  BY Parts
<1>2. PopFront(r) = [begin |-> f, end |-> e, data |-> h]
  <2>1. r = [begin |-> b, end |-> e, data |-> d]
    BY ShapeFacts
  <2>2. PopFront(r) = [r EXCEPT !.data[b + 1] = Raw, !.begin = f]
    BY DEF PopFront
  <2> HIDE DEF b, e, d, f
  <2> QED
    BY <2>1, <2>2
<1> HIDE DEF b, e, c, d, s
<1>3. f = IF b = c - 1 THEN 0 ELSE b + 1
  OBVIOUS
<1> HIDE DEF f
<1>4. /\ t \in Seq(Item) /\ Len(t) = Len(s) - 1 /\ Len(s) \in Nat
      /\ \A i \in 1..Len(s) - 1 : t[i] = s[1 + i]
  <2>1. 1 \in 0..Len(s) /\ s \in Seq(Item) /\ Len(s) \in Nat
    BY <1>1 DEF Holds
  <2> QED
    BY <2>1, SubSeqFacts
<1> HIDE DEF t
<1>5. Holds(f, e, c, h, t)
  <2>1. /\ f \in Nat /\ Within(f, e, c) /\ b + 1 \in 1..c
        /\ Len(s) - 1 = IF f <= e THEN e - f ELSE c - f + e
    BY <1>1, <1>3 DEF Holds, Within
  <2>2. h \in [1..c -> Item \cup {Raw}] /\ \A k \in 1..c : h[k] # Raw <=> Used(f, e, k)
    <3>1. \A k \in 1..c : Used(f, e, k) <=> Used(b, e, k) /\ k # b + 1
      BY <1>1, <1>3 DEF Holds, Within, Used
    <3>2. \A k \in 1..c : h[k] = IF k = b + 1 THEN Raw ELSE d[k]
      BY <1>1 DEF Holds
    <3> QED
      BY <1>1, <3>1, <3>2 DEF Holds
  <2>3. \A i \in 1..Len(t) : h[Slot(f, c, i)] = t[i]
    <3>1. \A i \in 1..Len(s) - 1 : /\ 1 + i \in 1..Len(s) /\ Slot(f, c, i) = Slot(b, c, 1 + i)
                                   /\ Slot(f, c, i) \in 1..c /\ Slot(f, c, i) # b + 1
      BY <1>1, <1>3 DEF Holds, Within, Slot
    <3>2. \A k \in 1..c : k # b + 1 => h[k] = d[k]
      BY <1>1 DEF Holds
    <3>3. \A i \in 1..Len(s) : d[Slot(b, c, i)] = s[i]
      BY <1>1 DEF Holds
    <3> HIDE DEF h
    <3> QED
      BY <1>4, <3>1, <3>2, <3>3
  <2> QED
    BY <1>1, <1>4, <2>1, <2>2, <2>3 DEF Holds
<1>6. d[b + 1] = s[1]
  <2>1. 1 \in 1..Len(s) /\ Slot(b, c, 1) = b + 1 /\ \A i \in 1..Len(s) : d[Slot(b, c, i)] = s[i]
    BY <1>1 DEF Holds, Within, Slot
  <2> QED
    BY <2>1
<1> HIDE DEF h
<1>7. RingShape(PopFront(r)) /\ Contents(PopFront(r)) = t
  BY <1>2, <1>5, ShapeOf
<1> QED
  BY <1>6, <1>7 DEF t, s, b, d

LEMMA PopBackKeeps ==
    ASSUME NEW r, RingShape(r), Size(r) > 0
    PROVE  /\ RingShape(PopBack(r))
           /\ Contents(PopBack(r)) = SubSeq(Contents(r), 1, Len(Contents(r)) - 1)
<1> DEFINE s == Contents(r)
           n == Len(s) - 1
           t == SubSeq(s, 1, n)
           b == r.begin
           e == r.end
           c == Cap(r)
           d == r.data
           f == IF e = 0 THEN c - 1 ELSE e - 1
           h == [d EXCEPT ![f + 1] = Raw]
<1>1. Holds(b, e, c, d, s) /\ Len(s) > 0
  BY Parts
<1>2. PopBack(r) = [begin |-> b, end |-> f, data |-> h]
  <2>1. r = [begin |-> b, end |-> e, data |-> d]
    BY ShapeFacts
  <2>2. PopBack(r) = [r EXCEPT !.data[f + 1] = Raw, !.end = f]
    BY DEF PopBack
  <2> HIDE DEF b, e, d, f
  <2> QED
    BY <2>1, <2>2
<1> HIDE DEF b, e, c, d, s
<1>3. f = IF e = 0 THEN c - 1 ELSE e - 1
  OBVIOUS
<1>4. n \in Nat /\ n + 1 = Len(s) /\ Len(s) \in Nat
  BY <1>1 DEF Holds
<1> HIDE DEF f, n
<1>5. t \in Seq(Item) /\ Len(t) = n /\ \A i \in 1..n : t[i] = s[i]
  <2>1. n \in 0..Len(s) /\ s \in Seq(Item)
    BY <1>1, <1>4 DEF Holds
  <2> QED
    BY <2>1, SubSeqFacts
<1> HIDE DEF t
<1>6. Holds(b, f, c, h, t)
  <2>1. /\ f \in Nat /\ Within(b, f, c) /\ f + 1 \in 1..c
        /\ n = IF b <= f THEN f - b ELSE c - b + f
    BY <1>1, <1>3, <1>4 DEF Holds, Within
  <2>2. h \in [1..c -> Item \cup {Raw}] /\ \A k \in 1..c : h[k] # Raw <=> Used(b, f, k)
    <3>1. \A k \in 1..c : Used(b, f, k) <=> Used(b, e, k) /\ k # f + 1
      BY <1>1, <1>3 DEF Holds, Within, Used
    <3>2. \A k \in 1..c : h[k] = IF k = f + 1 THEN Raw ELSE d[k]
      BY <1>1 DEF Holds
    <3> QED
      BY <1>1, <3>1, <3>2 DEF Holds
  <2>3. \A i \in 1..Len(t) : h[Slot(b, c, i)] = t[i]
    <3>1. \A i \in 1..n : /\ i \in 1..Len(s)
                          /\ Slot(b, c, i) \in 1..c /\ Slot(b, c, i) # f + 1
      BY <1>1, <1>3, <1>4 DEF Holds, Within, Slot
    <3>2. \A k \in 1..c : k # f + 1 => h[k] = d[k]
      BY <1>1 DEF Holds
    <3>3. \A i \in 1..Len(s) : d[Slot(b, c, i)] = s[i]
      BY <1>1 DEF Holds
    <3> HIDE DEF h
    <3> QED
      BY <1>5, <3>1, <3>2, <3>3
  <2> QED
    BY <1>1, <1>5, <2>1, <2>2, <2>3 DEF Holds
<1> HIDE DEF h
<1>7. RingShape(PopBack(r)) /\ Contents(PopBack(r)) = t
  BY <1>2, <1>6, ShapeOf
<1> QED
  BY <1>7 DEF t, s, n
LEMMA PushBackNKeeps ==
    ASSUME NEW r, RingShape(r), NEW z \in Seq(Item)
    PROVE  RingShape(PushBackN(r, z)) /\ Contents(PushBackN(r, z)) = Contents(r) \o z
<1> DEFINE n == Len(z)
           g == IF Size(r) + n >= Cap(r)
                THEN Grow(r, Max({Size(r) + n + 1, Cap(r) * 2})) ELSE r
           s == Contents(r)
           t == s \o z
           b == g.begin
           e == g.end
           c == Cap(g)
           d == g.data
           toEnd == c - e
           before == Min({n, toEnd})
           f == Wrapped(IF n > toEnd THEN n - toEnd ELSE e + before, g)
           h == [k \in DOMAIN d |-> IF k - e \in 1..before THEN z[k - e]
                                    ELSE IF k <= n - toEnd THEN z[before + k]
                                    ELSE d[k]]
<1>1. RingShape(g) /\ Contents(g) = s /\ Size(g) + n < Cap(g) /\ n \in Nat
  <2>1. n \in Nat
    OBVIOUS
  <2> HIDE DEF n
  <2> QED
    BY <2>1, GrownForRoom
<1>2. Holds(b, e, c, d, s) /\ Len(s) + n < c /\ n \in Nat
  BY <1>1, Parts
<1>3. PushBackN(r, z) = [begin |-> b, end |-> f, data |-> h]
  <2>1. g = [begin |-> b, end |-> e, data |-> d]
    <3> HIDE DEF g
    <3> QED
      BY <1>1, ShapeFacts
  <2>2. PushBackN(r, z) = [g EXCEPT !.data = h, !.end = f]
    BY DEF PushBackN
  <2> HIDE DEF g, b, e, d, f, h
  <2> QED
    BY <2>1, <2>2
<1>4. f = IF (IF n > toEnd THEN n - toEnd ELSE e + before) >= c THEN 0
          ELSE (IF n > toEnd THEN n - toEnd ELSE e + before)
  BY DEF Wrapped
<1>5. toEnd = c - e /\ toEnd \in Nat /\ before = IF n <= toEnd THEN n ELSE toEnd
  <2>1. toEnd \in Nat
    BY <1>2 DEF Holds, Within
  <2> HIDE DEF toEnd, n
  <2>2. before = IF n <= toEnd THEN n ELSE toEnd
    <3>1. n \in Int /\ toEnd \in Int
      BY <1>2, <2>1
    <3> QED
      BY ONLY <3>1, MinMaxOfTwo
  <2> HIDE DEF before
  <2> QED
    BY <2>1, <2>2 DEF toEnd
<1>6. /\ b \in Nat /\ e \in Nat /\ c \in Nat /\ b < c /\ e < c
      /\ Len(s) = (IF b <= e THEN e - b ELSE c - b + e)
  BY <1>2 DEF Holds, Within
<1>7. DOMAIN d = 1..c
  BY <1>2 DEF Holds
<1> HIDE DEF g, b, e, c, d, s, n, f, before, toEnd
<1>8. /\ f \in Nat /\ Within(b, f, c) /\ Len(s) \in Nat
      /\ Len(s) + n = IF b <= f THEN f - b ELSE c - b + f
  BY <1>2, <1>4, <1>5, <1>6 DEF Within
<1> DEFINE New(k) == k - e \in 1..before \/ k <= n - toEnd
<1>9. \A k \in 1..c : Used(b, f, k) <=> Used(b, e, k) \/ New(k)
  BY <1>2, <1>4, <1>5, <1>6 DEF Used
<1>10. \A k \in 1..c : New(k) => h[k] \in Item
  <2> TAKE k \in 1..c
  <2>1. \A i \in 1..n : z[i] \in Item
    BY DEF n
  <2>2. CASE k - e \in 1..before
    <3>1. k - e \in 1..n
      BY <1>2, <1>5, <1>6, <2>2
    <3> QED
      BY <1>7, <2>1, <2>2, <3>1
  <2>3. CASE ~(k - e \in 1..before) /\ k <= n - toEnd
    <3>1. before + k \in 1..n
      BY <1>2, <1>5, <1>6, <2>3
    <3> QED
      BY <1>7, <2>1, <2>3, <3>1
  <2> QED
    BY <2>2, <2>3
<1>11. \A k \in 1..c : ~New(k) => h[k] = d[k]
  BY <1>7
<1>12. h \in [1..c -> Item \cup {Raw}] /\ \A k \in 1..c : h[k] # Raw <=> Used(b, f, k)
  <2>1. \A k \in 1..c : d[k] \in Item \cup {Raw} /\ (d[k] # Raw <=> Used(b, e, k))
    BY <1>2 DEF Holds
  <2>2. h = [k \in 1..c |-> h[k]]
    BY <1>7
  <2> HIDE DEF h, New
  <2> QED
    BY <1>9, <1>10, <1>11, <2>1, <2>2, RingAssumption
<1>13. /\ t \in Seq(Item) /\ Len(t) = Len(s) + n
       /\ \A i \in 1..Len(s) : t[i] = s[i]
       /\ \A i \in 1..n : t[Len(s) + i] = z[i]
  <2>1. s \in Seq(Item) /\ z \in Seq(Item) /\ Len(s) \in Nat
    BY <1>2, <1>8 DEF Holds
  <2>2. /\ t \in Seq(Item) /\ Len(t) = Len(s) + Len(z)
        /\ \A i \in 1..Len(s) + Len(z) : t[i] = IF i <= Len(s) THEN s[i] ELSE z[i - Len(s)]
    BY <2>1, ConcatProperties
  <2> HIDE DEF t
  <2>3. \A i \in 1..Len(s) : t[i] = s[i]
    BY <1>2, <2>1, <2>2 DEF n
  <2>4. \A i \in 1..n : /\ Len(s) + i \in 1..Len(s) + n /\ ~(Len(s) + i <= Len(s))
                        /\ (Len(s) + i) - Len(s) = i
    BY <1>2, <2>1
  <2>5. \A i \in 1..n : t[Len(s) + i] = z[i]
    BY <2>2, <2>4 DEF n
  <2> QED
    BY <2>2, <2>3, <2>5 DEF n
<1>14. \A i \in 1..Len(s) : h[Slot(b, c, i)] = s[i]
  <2> TAKE i \in 1..Len(s)
  <2>1. Slot(b, c, i) \in 1..c /\ ~New(Slot(b, c, i))
    BY <1>2, <1>5, <1>6, <1>8 DEF Slot
  <2>2. d[Slot(b, c, i)] = s[i]
    BY <1>2 DEF Holds
  <2> HIDE DEF h, New
  <2> QED
    BY <1>11, <2>1, <2>2
<1>15. \A i \in 1..n : h[Slot(b, c, Len(s) + i)] = z[i]
  <2> TAKE i \in 1..n
  <2>1. CASE i <= before
    <3>1. Slot(b, c, Len(s) + i) = e + i /\ e + i \in 1..c /\ (e + i) - e = i /\ i \in 1..before
      BY <1>2, <1>5, <1>6, <1>8, <2>1 DEF Slot
    <3> QED
      BY <1>7, <3>1
  <2>2. CASE ~(i <= before)
    <3>1. /\ Slot(b, c, Len(s) + i) = i - before /\ i - before \in 1..c
          /\ before + (i - before) = i /\ i - before <= n - toEnd /\ ~(i - before - e \in 1..before)
      BY <1>2, <1>5, <1>6, <1>8, <2>2 DEF Slot
    <3> QED
      BY <1>7, <3>1
  <2> QED
    BY <2>1, <2>2
<1> HIDE DEF h, t
<1>16. \A i \in 1..Len(t) : h[Slot(b, c, i)] = t[i]
  <2> TAKE i \in 1..Len(t)
  <2>1. CASE i <= Len(s)
    <3>1. i \in 1..Len(s)
      BY <1>8, <2>1
    <3> QED
      BY <1>13, <1>14, <3>1
  <2>2. CASE ~(i <= Len(s))
    <3> DEFINE j == i - Len(s)
    <3>1. j \in 1..n /\ i = Len(s) + j
      BY <1>2, <1>8, <1>13, <2>2
    <3> HIDE DEF j
    <3> QED
      BY <1>13, <1>15, <3>1
  <2> QED
    BY <2>1, <2>2
<1>17. Holds(b, f, c, h, t)
  BY <1>6, <1>8, <1>12, <1>13, <1>16 DEF Holds
<1>18. RingShape(PushBackN(r, z)) /\ Contents(PushBackN(r, z)) = t
  BY <1>3, <1>17, ShapeOf
<1> QED
  BY <1>18 DEF t, s

LEMMA PopFrontNKeeps ==
    ASSUME NEW r, RingShape(r), NEW n \in 0..Size(r)
    PROVE  /\ RingShape(PopFrontN(r, n))
           /\ Contents(PopFrontN(r, n)) = SubSeq(Contents(r), n + 1, Len(Contents(r)))
           /\ Popped(r, n) = SubSeq(Contents(r), 1, n)
<1> DEFINE s == Contents(r)
           t == SubSeq(s, n + 1, Len(s))
           u == SubSeq(s, 1, n)
           b == r.begin
           e == r.end
           c == Cap(r)
           d == r.data
           toEnd == c - b
           before == Min({n, toEnd})
           f == Wrapped(IF n > toEnd THEN n - toEnd ELSE b + before, r)
           Gone(k) == k - b \in 1..before \/ k <= n - toEnd
           h == [k \in DOMAIN d |-> IF Gone(k) THEN Raw ELSE d[k]]
<1>1. Holds(b, e, c, d, s) /\ Len(s) = Size(r) /\ Len(s) \in Nat
  BY Parts
<1>2. PopFrontN(r, n) = [begin |-> f, end |-> e, data |-> h]
  <2>1. r = [begin |-> b, end |-> e, data |-> d]
    BY ShapeFacts
  <2>2. PopFrontN(r, n) = [r EXCEPT !.data = h, !.begin = f]
    BY DEF PopFrontN
  <2> HIDE DEF b, e, d, f, h
  <2> QED
    BY <2>1, <2>2
<1>3. f = IF (IF n > toEnd THEN n - toEnd ELSE b + before) >= c THEN 0
          ELSE (IF n > toEnd THEN n - toEnd ELSE b + before)
  BY DEF Wrapped
<1>4. n \in Nat /\ n <= Len(s) /\ n \in 0..Len(s)
  BY <1>1
<1>5. toEnd = c - b /\ toEnd \in Nat /\ before = IF n <= toEnd THEN n ELSE toEnd
  <2>1. toEnd \in Nat
    BY <1>1 DEF Holds, Within
  <2> HIDE DEF toEnd
  <2>2. before = IF n <= toEnd THEN n ELSE toEnd
    <3>1. n \in Int /\ toEnd \in Int
      BY <1>4, <2>1
    <3> QED
      BY ONLY <3>1, MinMaxOfTwo
  <2> HIDE DEF before
  <2> QED
    BY <2>1, <2>2 DEF toEnd
<1>6. Popped(r, n) = [i \in 1..n |-> IF i <= toEnd THEN d[b + i] ELSE d[i - toEnd]]
  BY DEF Popped
<1> HIDE DEF b, e, c, d, s, f, before, toEnd
<1>7. /\ b \in Nat /\ e \in Nat /\ c \in Nat /\ Within(b, e, c)
      /\ Len(s) = (IF b <= e THEN e - b ELSE c - b + e)
      /\ s \in Seq(Item) /\ DOMAIN d = 1..c
  BY <1>1 DEF Holds
<1>8. /\ t \in Seq(Item) /\ Len(t) = Len(s) - n /\ \A i \in 1..Len(s) - n : t[i] = s[n + i]
      /\ u \in Seq(Item) /\ Len(u) = n /\ \A i \in 1..n : u[i] = s[i]
  BY <1>4, <1>7, SubSeqFacts
<1> HIDE DEF t, u
<1>9. /\ f \in Nat /\ Within(f, e, c)
      /\ Len(s) - n = IF f <= e THEN e - f ELSE c - f + e
  BY <1>1, <1>3, <1>4, <1>5, <1>7 DEF Within
<1>10. \A k \in 1..c : Used(f, e, k) <=> Used(b, e, k) /\ ~Gone(k)
  BY <1>1, <1>3, <1>4, <1>5, <1>7 DEF Used, Within
<1>11. \A k \in 1..c : h[k] = IF Gone(k) THEN Raw ELSE d[k]
  BY <1>7
<1>12. h \in [1..c -> Item \cup {Raw}] /\ \A k \in 1..c : h[k] # Raw <=> Used(f, e, k)
  <2>1. \A k \in 1..c : d[k] \in Item \cup {Raw} /\ (d[k] # Raw <=> Used(b, e, k))
    BY <1>1 DEF Holds
  <2>2. h = [k \in 1..c |-> h[k]]
    BY <1>7
  <2> HIDE DEF h, Gone
  <2> QED
    BY <1>10, <1>11, <2>1, <2>2
<1>13. \A i \in 1..Len(s) : d[Slot(b, c, i)] = s[i]
  BY <1>1 DEF Holds
<1>14. \A i \in 1..Len(t) : h[Slot(f, c, i)] = t[i]
  <2> TAKE i \in 1..Len(t)
  <2>1. /\ n + i \in 1..Len(s) /\ Slot(f, c, i) = Slot(b, c, n + i)
        /\ Slot(f, c, i) \in 1..c /\ ~Gone(Slot(f, c, i))
    <3>1. i \in Nat /\ i >= 1 /\ i <= Len(s) - n
      BY <1>1, <1>4, <1>8
    <3>2. n + i \in 1..Len(s) /\ c # 0 /\ b < c /\ e < c /\ f < c
      BY <1>1, <1>4, <1>7, <1>9, <3>1 DEF Within
    <3>3. Slot(f, c, i) = Slot(b, c, n + i) /\ Slot(f, c, i) \in 1..c
      BY <1>1, <1>3, <1>4, <1>5, <1>7, <3>1, <3>2 DEF Slot
    <3>4. ~Gone(Slot(f, c, i))
      BY <1>1, <1>3, <1>4, <1>5, <1>7, <3>1, <3>2 DEF Slot
    <3> QED
      BY <3>2, <3>3, <3>4
  <2> HIDE DEF h, Gone
  <2>2. h[Slot(f, c, i)] = d[Slot(b, c, n + i)]
    BY <1>11, <2>1
  <2>3. i \in 1..Len(s) - n
    BY <1>8
  <2> QED
    BY <1>8, <1>13, <2>1, <2>2, <2>3
<1>15. Popped(r, n) = u
  <2>1. \A i \in 1..n : i \in 1..Len(s) /\ Slot(b, c, i) = IF i <= toEnd THEN b + i ELSE i - toEnd
    BY <1>1, <1>4, <1>5, <1>7 DEF Slot
  <2>2. \A i \in 1..n : (IF i <= toEnd THEN d[b + i] ELSE d[i - toEnd]) = u[i]
    BY <1>8, <1>13, <2>1
  <2>3. u = [i \in 1..n |-> u[i]]
    BY <1>8
  <2> QED
    BY <1>6, <2>2, <2>3
<1> HIDE DEF h
<1>16. Holds(f, e, c, h, t)
  BY <1>7, <1>8, <1>9, <1>12, <1>14 DEF Holds
<1>17. RingShape(PopFrontN(r, n)) /\ Contents(PopFrontN(r, n)) = t
  BY <1>2, <1>16, ShapeOf
<1> QED
  BY <1>15, <1>17 DEF t, s, u
(* What dropping i items at the back makes of a ring that holds s.          *)
Rings == [begin : Nat, end : Nat, data : Seq(Item \cup {Raw})]
DroppedBack(s, i) == {r \in Rings : RingShape(r) /\ Contents(r) = SubSeq(s, 1, Len(s) - i)}

LEMMA DroppedBackNext ==
    ASSUME NEW s \in Seq(Item), NEW i \in 1..Len(s), NEW r \in DroppedBack(s, i - 1)
    PROVE  PopBack(r) \in DroppedBack(s, i)
<1> DEFINE n == Len(s) - i
           m == Len(s) - (i - 1)
           v == SubSeq(s, 1, m)
           w == SubSeq(s, 1, n)
<1>1. /\ n \in Nat /\ m = n + 1 /\ m \in 0..Len(s) /\ n \in 0..Len(s) /\ m \in Nat
  OBVIOUS
<1>2. RingShape(r) /\ Contents(r) = v
  BY DEF DroppedBack
<1> HIDE DEF n, m
<1>3. /\ v \in Seq(Item) /\ Len(v) = m /\ \A j \in 1..m : v[j] = s[j]
      /\ w \in Seq(Item) /\ Len(w) = n /\ \A j \in 1..n : w[j] = s[j]
  BY <1>1, SubSeqFacts
<1> HIDE DEF v, w
<1>4. Size(r) > 0 /\ Len(v) - 1 = n /\ n \in 0..Len(v)
  <2>1. Size(r) = Len(v)
    BY <1>2, ContentsAre
  <2> QED
    BY <2>1, <1>1, <1>3
<1>5. RingShape(PopBack(r)) /\ Contents(PopBack(r)) = SubSeq(v, 1, n)
  BY <1>2, <1>4, PopBackKeeps
<1>6. SubSeq(v, 1, n) = w
  <2>1. /\ SubSeq(v, 1, n) \in Seq(Item) /\ Len(SubSeq(v, 1, n)) = n
        /\ \A j \in 1..n : SubSeq(v, 1, n)[j] = v[j]
    BY <1>3, <1>4, SubSeqFacts
  <2>2. \A j \in 1..n : j \in 1..m
    BY <1>1
  <2> DEFINE x == SubSeq(v, 1, n)
  <2> HIDE DEF x
  <2>3. x \in Seq(Item) /\ Len(x) = Len(w) /\ \A j \in 1..Len(x) : x[j] = w[j]
    BY <2>1, <2>2, <1>3 DEF x
  <2>4. x = w
    BY <2>3, <1>3, SeqEqual
  <2> QED
    BY <2>4 DEF x
<1> QED
  BY <1>5, <1>6 DEF DroppedBack, w, n, Rings, RingShape

LEMMA PopBackNKeeps ==
    ASSUME NEW r, RingShape(r), NEW n \in 0..Size(r)
    PROVE  PopBackN(r, n) \in DroppedBack(Contents(r), n)
<1> DEFINE s == Contents(r)
           T == [i \in 0..n |-> DroppedBack(s, i)]
           G == [i \in 1..n |-> [x \in Rings |-> PopBack(x)]]
           after[i \in 0..n] == IF i = 0 THEN r ELSE PopBack(after[i - 1])
<1>1. s \in Seq(Item) /\ Len(s) = Size(r) /\ Len(s) \in Nat /\ n \in Nat /\ n <= Len(s)
  BY Parts DEF Holds
<1>2. r \in DroppedBack(s, 0)
  <2>1. SubSeq(s, 1, Len(s) - 0) = s
    <3>1. Len(s) - 0 = Len(s)
      BY <1>1
    <3> QED
      BY <1>1, <3>1, SubSeqFull
  <2> HIDE DEF s
  <2> QED
    BY <2>1 DEF DroppedBack, Rings, RingShape, s
<1> HIDE DEF s
<1>3. \A i \in 1..n : i \in 0..n /\ i - 1 \in 0..n /\ i \in 1..Len(s)
  BY <1>1
<1>4. \A i \in 1..n : \A x \in DroppedBack(s, i - 1) : PopBack(x) \in DroppedBack(s, i)
  BY <1>1, <1>3, DroppedBackNext
<1>5. \A i \in 0..n : \A x \in T[i] : x \in Rings /\ x \in DroppedBack(s, i)
  BY DEF DroppedBack
<1>6. \A i \in 1..n : \A x \in T[i - 1] : G[i][x] \in T[i]
  BY <1>3, <1>4, <1>5
<1>7. r \in T[0]
  BY <1>1, <1>2
<1> PICK f : IsRecursive(f, n, r, G) /\ \A i \in 0..n : f[i] \in T[i]
  <2> HIDE DEF T, G
  <2> QED
    BY <1>1, <1>6, <1>7, RecursiveFunctionExists
<1>8. \A i \in 1..n : G[i][f[i - 1]] = PopBack(f[i - 1])
  BY <1>3, <1>5
<1>9. f = [i \in 0..n |-> IF i = 0 THEN r ELSE PopBack(f[i - 1])]
  <2> HIDE DEF T, G
  <2>1. \A i \in 0..n : f[i] = IF i = 0 THEN r ELSE G[i][f[i - 1]]
    BY DEF IsRecursive
  <2>2. f = [i \in 0..n |-> f[i]]
    BY DEF IsRecursive
  <2>3. \A i \in 0..n : i # 0 => i \in 1..n
    BY <1>1
  <2>4. \A i \in 0..n : f[i] = IF i = 0 THEN r ELSE PopBack(f[i - 1])
    BY <2>1, <2>3, <1>8
  <2> QED
    BY <2>2, <2>4
<1>10. after = [i \in 0..n |-> IF i = 0 THEN r ELSE PopBack(after[i - 1])]
  BY <1>9
<1>11. PopBackN(r, n) = after[n]
  BY DEF PopBackN
<1> HIDE DEF after
<1> DEFINE Bad == {i \in 0..n : after[i] \notin DroppedBack(s, i)}
<1>12. Bad = {}
  <2> SUFFICES ASSUME Bad # {} PROVE FALSE
    OBVIOUS
  <2>1. Bad \in SUBSET Nat
    BY <1>1
  <2> PICK m \in Bad : \A i \in Bad : m <= i
    BY <2>1, LeastNatural
  <2>2. m \in 0..n /\ after[m] \notin DroppedBack(s, m)
    OBVIOUS
  <2>3. CASE m = 0
    BY <2>2, <2>3, <1>2, <1>10
  <2>4. CASE m # 0
    <3>1. m \in 1..n /\ m - 1 \in 0..n /\ ~(m <= m - 1)
      BY <2>2, <2>4, <1>1
    <3>2. after[m - 1] \in DroppedBack(s, m - 1)
      BY <3>1
    <3>3. after[m] = PopBack(after[m - 1])
      BY <3>1, <2>4, <1>10
    <3> QED
      BY <3>1, <3>2, <3>3, <2>2, <1>4
  <2> QED
    BY <2>3, <2>4
<1>13. n \in 0..n
  BY <1>1
<1> QED
  BY <1>11, <1>12, <1>13 DEF s

(* An empty ring, with storage or without.                                  *)
LEMMA EmptyRing ==
    ASSUME NEW c \in Nat
    PROVE  LET r == [begin |-> 0, end |-> 0, data |-> [k \in 1..c |-> Raw]]
           IN  RingShape(r) /\ Contents(r) = <<>>
<1> DEFINE d == [k \in 1..c |-> Raw]
<1>1. Holds(0, 0, c, d, <<>>)
  <2>1. \A k \in 1..c : d[k] = Raw /\ ~Used(0, 0, k)
    BY DEF Used
  <2>2. d \in [1..c -> Item \cup {Raw}]
    OBVIOUS
  <2>3. <<>> \in Seq(Item) /\ Len(<<>>) = 0
    OBVIOUS
  <2> HIDE DEF d
  <2> QED
    BY <2>1, <2>2, <2>3 DEF Holds, Within
<1> HIDE DEF d
<1> QED
  BY <1>1, ShapeOf DEF d

LEMMA ClearedIsEmpty ==
    ASSUME NEW r, RingShape(r)
    PROVE  /\ RingShape(Cleared(r)) /\ Contents(Cleared(r)) = <<>>
           /\ RingShape(Freed) /\ Contents(Freed) = <<>>
<1>1. Cap(r) \in Nat /\ DOMAIN r.data = 1..Cap(r)
  BY ShapeFacts
<1>2. Cleared(r) = [begin |-> 0, end |-> 0, data |-> [k \in 1..Cap(r) |-> Raw]]
  BY <1>1 DEF Cleared
<1>3. [k \in 1..0 |-> Raw] = <<>>
  OBVIOUS
<1>4. Freed = [begin |-> 0, end |-> 0, data |-> [k \in 1..0 |-> Raw]]
  BY <1>3, Zenon DEF Freed
<1> QED
  BY <1>1, <1>2, <1>4, EmptyRing

LEMMA CopyKeeps ==
    ASSUME NEW r, RingShape(r)
    PROVE  RingShape(CopyOf(r)) /\ Contents(CopyOf(r)) = Contents(r)
<1> DEFINE s == Contents(r)
           n == Size(r)
           c == Max({4, n + 1})
           d == [k \in 1..c |-> IF k <= n THEN s[k] ELSE Raw]
<1>1. s \in Seq(Item) /\ Len(s) = n /\ n \in Nat
  BY Parts DEF Holds
<1>2. CopyOf(r) = [begin |-> 0, end |-> n, data |-> d]
  BY DEF CopyOf
<1> HIDE DEF s, n
<1>3. c \in Nat /\ n < c
  <2>1. 4 \in Int /\ n + 1 \in Int
    BY <1>1
  <2>2. c = IF 4 >= n + 1 THEN 4 ELSE n + 1
    BY ONLY <2>1, MinMaxOfTwo
  <2> QED
    BY <1>1, <2>2
<1> HIDE DEF c
<1>4. \A k \in 1..c : Used(0, n, k) <=> k <= n
  BY <1>1 DEF Used
<1>5. \A k \in 1..c : k <= n => s[k] \in Item
  BY <1>1
<1>6. d \in [1..c -> Item \cup {Raw}] /\ \A k \in 1..c : d[k] # Raw <=> Used(0, n, k)
  BY <1>4, <1>5, RingAssumption
<1>7. \A i \in 1..Len(s) : d[Slot(0, c, i)] = s[i]
  <2>1. \A i \in 1..Len(s) : Slot(0, c, i) = i /\ i \in 1..c /\ i <= n
    BY <1>1, <1>3 DEF Slot
  <2> QED
    BY <2>1
<1> HIDE DEF d
<1>8. Holds(0, n, c, d, s)
  BY <1>1, <1>3, <1>6, <1>7 DEF Holds, Within
<1>9. RingShape(CopyOf(r)) /\ Contents(CopyOf(r)) = s
  BY <1>2, <1>8, ShapeOf
<1> QED
  BY <1>9 DEF s
-----------------------------------------------------------------------------
RingInv == RingShape(ring)

LEMMA RingStart == InitRing => RingInv /\ Ring!Init
<1> SUFFICES ASSUME InitRing PROVE RingInv /\ Ring!Init
  OBVIOUS
<1>1. [k \in 1..0 |-> Raw] = <<>>
  OBVIOUS
<1>2. ring = [begin |-> 0, end |-> 0, data |-> [k \in 1..0 |-> Raw]]
  BY <1>1, Zenon DEF InitRing
<1>3. RingShape(ring) /\ Contents(ring) = <<>>
  BY <1>2, EmptyRing
<1> QED
  BY <1>3 DEF InitRing, RingInv, Ring!Init

(* Each operation on the ring is one of Deque's on its contents.            *)
RingStep == RingInv' /\ Ring!Next

LEMMA DequeSteps ==
    ASSUME RingInv
    PROVE  /\ \A n \in 0..MaxItems : \A s \in [1..n -> Item] :
                Called("pushBack", s, 0) /\ Contents(ring)' = Contents(ring) \o s => Ring!Next
           /\ \A x \in Item :
                Called("pushFront", <<x>>, 0) /\ Contents(ring)' = <<x>> \o Contents(ring)
                => Ring!Next
           /\ \A n \in 0..Len(Contents(ring)) :
                Contents(ring)' = SubSeq(Contents(ring), n + 1, Len(Contents(ring)))
                /\ (Called("popFront", SubSeq(Contents(ring), 1, n), 0)
                    \/ Called("dropFront", <<>>, n))
                => Ring!Next
           /\ \A n \in 0..Len(Contents(ring)) :
                Called("dropBack", <<>>, n)
                /\ Contents(ring)' = SubSeq(Contents(ring), 1, Len(Contents(ring)) - n)
                => Ring!Next
BY Zenon DEF Called, Ring!Next, Ring!PushBack, Ring!PushFront, Ring!TakeFront, Ring!DropFront,
             Ring!DropBack, Ring!Called

LEMMA PushStep == ASSUME RingInv, PushItems PROVE RingStep
<1>1. Size(ring) \in Nat /\ Room > 0 /\ Room = MaxItems - Size(ring) /\ MaxItems \in Nat
  BY Parts, RingAssumption DEF RingInv, PushItems, Room
<1>2. ASSUME NEW x \in Item, ring' = PushBack(ring, x), Called("pushBack", <<x>>, 0)
      PROVE  RingStep
  <2>1. RingInv' /\ Contents(ring)' = Contents(ring) \o <<x>>
    BY <1>2, PushBackKeeps DEF RingInv
  <2>2. 1 \in 0..MaxItems /\ <<x>> \in [1..1 -> Item]
    BY <1>1
  <2> QED
    BY <1>2, <2>1, <2>2, DequeSteps DEF RingStep
<1>3. ASSUME NEW x \in Item, ring' = PushFront(ring, x), Called("pushFront", <<x>>, 0)
      PROVE  RingStep
  <2>1. RingInv' /\ Contents(ring)' = <<x>> \o Contents(ring)
    BY <1>3, PushFrontKeeps DEF RingInv
  <2> QED
    BY <1>3, <2>1, DequeSteps DEF RingStep
<1>4. ASSUME NEW n \in 0..Room, NEW s \in [1..n -> Item],
             ring' = PushBackN(ring, s), Called("pushBack", s, 0)
      PROVE  RingStep
  <2>1. n \in 0..MaxItems /\ n \in Nat
    BY <1>1
  <2>2. s \in Seq(Item)
    BY <2>1
  <2>3. RingInv' /\ Contents(ring)' = Contents(ring) \o s
    BY <1>4, <2>2, PushBackNKeeps DEF RingInv
  <2> QED
    BY <1>4, <2>1, <2>3, DequeSteps DEF RingStep
<1> QED
  BY <1>2, <1>3, <1>4 DEF PushItems

LEMMA PopStep == ASSUME RingInv, Pop PROVE RingStep
<1> DEFINE q == Contents(ring)
<1>1. q \in Seq(Item) /\ Len(q) = Size(ring) /\ Size(ring) > 0 /\ Len(q) \in Nat
  BY Parts DEF RingInv, Holds, Pop
<1>2. /\ RingInv' /\ q' = SubSeq(q, 2, Len(q)) /\ ring.data[ring.begin + 1] = q[1]
  BY <1>1, PopFrontKeeps DEF RingInv, Pop
<1>3. Called("popFront", <<ring.data[ring.begin + 1]>>, 0)
  BY DEF Pop
<1>4. SubSeq(q, 1, 1) = <<q[1]>> /\ 1 \in 0..Len(q) /\ 1 + 1 = 2
  <2> HIDE DEF q
  <2>1. 1 \in 0..Len(q)
    BY <1>1
  <2>2. /\ SubSeq(q, 1, 1) \in Seq(Item) /\ Len(SubSeq(q, 1, 1)) = 1
        /\ SubSeq(q, 1, 1)[1] = q[1]
    BY <1>1, <2>1, SubSeqFacts
  <2> DEFINE v == SubSeq(q, 1, 1)
  <2> HIDE DEF v
  <2>3. v = <<q[1]>>
    <3>1. v \in Seq(Item) /\ Len(v) = 1 /\ v[1] = q[1] /\ q[1] \in Item
      BY <1>1, <2>2 DEF v
    <3>2. <<q[1]>> \in Seq(Item) /\ Len(<<q[1]>>) = 1 /\ <<q[1]>>[1] = q[1]
      BY <3>1
    <3>3. \A i \in 1..Len(v) : v[i] = <<q[1]>>[i]
      BY <3>1, <3>2
    <3> QED
      BY <3>1, <3>2, <3>3, SeqEqual
  <2> QED
    BY <2>1, <2>3 DEF v
<1>5. Called("popFront", SubSeq(q, 1, 1), 0) /\ q' = SubSeq(q, 1 + 1, Len(q))
  BY <1>2, <1>3, <1>4
<1> QED
  BY <1>2, <1>4, <1>5, DequeSteps DEF RingStep

LEMMA PopNStep == ASSUME RingInv, NEW n \in 0..Size(ring), PopN(n) PROVE RingStep
<1>1. n \in 0..Len(Contents(ring))
  BY Parts DEF RingInv
<1>2. /\ RingInv' /\ Contents(ring)' = SubSeq(Contents(ring), n + 1, Len(Contents(ring)))
      /\ Popped(ring, n) = SubSeq(Contents(ring), 1, n)
  BY PopFrontNKeeps DEF RingInv, PopN
<1>3. Called("popFront", Popped(ring, n), 0) \/ Called("dropFront", <<>>, n)
  BY DEF PopN
<1> QED
  BY <1>1, <1>2, <1>3, DequeSteps DEF RingStep

LEMMA DiscardStep == ASSUME RingInv, Discard PROVE RingStep
<1> DEFINE q == Contents(ring)
<1>1. q \in Seq(Item) /\ Len(q) = Size(ring) /\ Len(q) \in Nat
  BY Parts DEF RingInv, Holds
<1>2. ASSUME NEW n \in 0..Size(ring), Called("dropBack", <<>>, n),
             RingShape(ring'), Contents(ring') = SubSeq(q, 1, Len(q) - n)
      PROVE  RingStep
  <2>1. n \in 0..Len(q)
    BY <1>1
  <2>2. RingInv' /\ Contents(ring)' = SubSeq(Contents(ring), 1, Len(Contents(ring)) - n)
    BY <1>2 DEF RingInv
  <2> QED
    BY <1>2, <2>1, <2>2, DequeSteps DEF RingStep
<1>3. CASE Size(ring) > 0 /\ ring' = PopBack(ring) /\ Called("dropBack", <<>>, 1)
  <2>1. RingShape(ring') /\ Contents(ring') = SubSeq(q, 1, Len(q) - 1)
    BY <1>3, PopBackKeeps DEF RingInv
  <2>2. 1 \in 0..Size(ring)
    BY <1>1, <1>3
  <2> QED
    BY <1>2, <1>3, <2>1, <2>2
<1>4. ASSUME NEW n \in 0..Size(ring), ring' = PopBackN(ring, n), Called("dropBack", <<>>, n)
      PROVE  RingStep
  <2>1. ring' \in DroppedBack(q, n)
    BY <1>4, PopBackNKeeps DEF RingInv
  <2>2. RingShape(ring') /\ Contents(ring') = SubSeq(q, 1, Len(q) - n)
    BY <2>1 DEF DroppedBack
  <2> QED
    BY <1>2, <1>4, <2>2
<1>5. CASE ring' \in {Cleared(ring), Freed} /\ Called("dropBack", <<>>, Size(ring))
  <2>1. RingShape(ring') /\ Contents(ring') = <<>>
    BY <1>5, ClearedIsEmpty DEF RingInv
  <2>2. SubSeq(q, 1, Len(q) - Size(ring)) = <<>>
    <3> HIDE DEF q
    <3>1. Len(q) - Size(ring) = 0 /\ 1 > 0
      BY <1>1
    <3> QED
      BY <1>1, <3>1, SubSeqEmpty
  <2>3. Size(ring) \in 0..Size(ring)
    BY <1>1
  <2> QED
    BY <1>2, <1>5, <2>1, <2>2, <2>3
<1>6. CASE ring' = CopyOf(ring) /\ Called("dropBack", <<>>, 0)
  <2>1. RingShape(ring') /\ Contents(ring') = q
    BY <1>6, CopyKeeps DEF RingInv
  <2>2. SubSeq(q, 1, Len(q) - 0) = q
    <3> HIDE DEF q
    <3>1. Len(q) - 0 = Len(q)
      BY <1>1
    <3> QED
      BY <1>1, <3>1, SubSeqFull
  <2>3. 0 \in 0..Size(ring)
    BY <1>1
  <2> QED
    BY <1>2, <1>6, <2>1, <2>2, <2>3
<1> QED
  BY <1>3, <1>4, <1>5, <1>6 DEF Discard

LEMMA RingNext ==
    ASSUME RingInv, [NextRing]_ringVars
    PROVE  RingInv' /\ [Ring!Next]_<<Contents(ring), call>>
<1>1. CASE UNCHANGED ringVars
  BY <1>1 DEF ringVars, RingInv
<1>2. CASE NextRing
  BY <1>2, PushStep, PopStep, PopNStep, DiscardStep DEF NextRing, RingStep
<1> QED
  BY <1>1, <1>2

(* For any items, and any bound on how many: the ring buffer is a sequence  *)
(* that grows and shrinks at both ends, and hands back what it drops at the *)
(* front.                                                                   *)
THEOREM RingIsDeque == SpecRing => ImplementsDeque
<1>1. SpecRing => []RingInv
  BY RingStart, RingNext, PTL DEF SpecRing
<1> QED
  BY <1>1, RingStart, RingNext, PTL DEF SpecRing, ImplementsDeque, Ring!Spec

(* CircularBuffer::invariant() holds, and objects are constructed in the    *)
(* slots of the items and in no other.                                      *)
THEOREM RingIsKept == SpecRing => []RingTypeOK
<1>1. SpecRing => []RingInv
  BY RingStart, RingNext, PTL DEF SpecRing
<1>2. RingInv => RingTypeOK
  <2> SUFFICES ASSUME RingInv PROVE RingTypeOK
    OBVIOUS
  <2> DEFINE b == ring.begin
             e == ring.end
             c == Cap(ring)
             d == ring.data
             n == Size(ring)
  <2>1. /\ b \in Nat /\ e \in Nat /\ c \in Nat /\ Within(b, e, c)
        /\ \A k \in 1..c : d[k] # Raw <=> Used(b, e, k)
        /\ d \in Seq(Item \cup {Raw})
    BY ShapeFacts DEF RingInv, RingShape
  <2>2. n = IF b <= e THEN e - b ELSE c - b + e
    BY DEF Size
  <2> HIDE DEF b, e, c, d, n
  <2>3. IF c = 0 THEN b = 0 /\ e = 0 ELSE b \in 0..c - 1 /\ e \in 0..c - 1
    BY <2>1 DEF Within
  <2>4. ASSUME NEW i \in 0..c - 1
        PROVE  d[i + 1] # Raw <=> (i - b + c) % c < n
    <3>1. c \in Nat \ {0} /\ b < c /\ e < c /\ i + 1 \in 1..c /\ i - b + c \in 0..2 * c - 1
      BY <2>1 DEF Within
    <3>2. (i - b + c) % c = IF i < b THEN i - b + c ELSE i - b
      <4> DEFINE a == i - b + c
      <4>1. a \in 0..2 * c - 1 /\ (i < b <=> a < c) /\ a - c = i - b
        BY <2>1, <3>1
      <4> HIDE DEF a
      <4>2. CASE a < c
        BY <3>1, <4>1, <4>2 DEF a
      <4>3. CASE ~(a < c)
        <5>1. a \in c..2 * c - 1
          BY <3>1, <4>1, <4>3
        <5>2. a - c \in 0..c - 1 /\ a % c = a - c
          BY <3>1, <5>1
        <5> QED
          BY <4>1, <4>3, <5>2 DEF a
      <4> QED
        BY <4>2, <4>3
    <3>3. Used(b, e, i + 1) <=> (IF i < b THEN i - b + c ELSE i - b) < n
      BY <2>1, <2>2, <3>1 DEF Used
    <3> QED
      BY <2>1, <3>1, <3>2, <3>3
  <2> QED
    BY <2>1, <2>3, <2>4 DEF RingTypeOK, b, e, c, d, n
<1> QED
  BY <1>1, <1>2, PTL

-----------------------------------------------------------------------------
(***************************************************************************)
(* The arena.  Its blocks tile it when the list visits them in the order   *)
(* of their offsets and no two share a byte; then no more blocks exist     *)
(* than bytes, and the three ways in which an operation changes the list - *)
(* a block cut in two, a block appended, a row of blocks joined into one - *)
(* leave it tiled.                                                         *)
(***************************************************************************)
(* What removing an entry makes of the multimap.                            *)
LEMMA RemovedEntries ==
    ASSUME NEW S, NEW m \in Seq(S), IsInjective(m), NEW x
    PROVE  /\ RemoveFirst(m, x) \in Seq(S) /\ IsInjective(RemoveFirst(m, x))
           /\ ToSet(RemoveFirst(m, x)) = ToSet(m) \ {x}
<1>1. CASE ~ \E i \in 1..Len(m) : m[i] = x
  <2>1. RemoveFirst(m, x) = m
    BY <1>1 DEF RemoveFirst
  <2>2. x \notin ToSet(m)
    BY <1>1 DEF ToSet
  <2> QED
    BY <2>1, <2>2
<1>2. CASE \E i \in 1..Len(m) : m[i] = x
  <2> DEFINE I == {i \in 1..Len(m) : m[i] = x}
             p == Min(I)
             r == RemoveAt(m, p)
  <2>1. I \in SUBSET Nat /\ I # {}
    BY <1>2
  <2>2. p \in I
    <3>1. \E j \in I : \A i \in I : j <= i
      BY <2>1, LeastNatural
    <3> HIDE DEF I
    <3> QED
      BY <3>1 DEF Min
  <2>3. RemoveFirst(m, x) = r
    BY <1>2, <2>1 DEF RemoveFirst, SelectInSeq
  <2>4. p \in 1..Len(m) /\ m[p] = x /\ Len(m) \in Nat
    BY <2>2
  <2> HIDE DEF p, I
  <2>5. /\ r \in Seq(S) /\ Len(r) = Len(m) - 1
        /\ \A i \in 1..Len(m) - 1 : r[i] = IF i < p THEN m[i] ELSE m[i + 1]
    BY <2>4, RemoveAtProperties
  <2> HIDE DEF r
  <2>6. \A i \in 1..Len(m), j \in 1..Len(m) : m[i] = m[j] => i = j
    BY DEF IsInjective
  <2>7. IsInjective(r)
    <3>1. DOMAIN r = 1..Len(m) - 1
      BY <2>4, <2>5
    <3>2. ASSUME NEW i \in 1..Len(m) - 1, NEW j \in 1..Len(m) - 1, r[i] = r[j]
          PROVE  i = j
      <4> DEFINE a == IF i < p THEN i ELSE i + 1
                 b == IF j < p THEN j ELSE j + 1
      <4>1. a \in 1..Len(m) /\ b \in 1..Len(m) /\ r[i] = m[a] /\ r[j] = m[b]
        BY <2>4, <2>5
      <4>2. a = b
        BY <4>1, <3>2, <2>6
      <4> QED
        BY <4>2, <2>4
    <3> QED
      BY <3>1, <3>2 DEF IsInjective
  <2>8. ToSet(r) = {r[i] : i \in 1..Len(m) - 1} /\ ToSet(m) = {m[i] : i \in 1..Len(m)}
    BY <2>4, <2>5 DEF ToSet
  <2>9. \A i \in 1..Len(m) - 1 : r[i] \in ToSet(m) \ {x}
    <3> TAKE i \in 1..Len(m) - 1
    <3> DEFINE a == IF i < p THEN i ELSE i + 1
    <3>1. a \in 1..Len(m) /\ r[i] = m[a] /\ a # p
      BY <2>4, <2>5
    <3> QED
      BY <3>1, <2>4, <2>6, <2>8
  <2>10. ASSUME NEW i \in 1..Len(m), m[i] # x
         PROVE  m[i] \in ToSet(r)
    <3> DEFINE a == IF i < p THEN i ELSE i - 1
    <3>1. i # p
      BY <2>10, <2>4
    <3>2. a \in 1..Len(m) - 1 /\ r[a] = m[i]
      BY <3>1, <2>4, <2>5
    <3> QED
      BY <3>2, <2>8
  <2>11. ToSet(r) = ToSet(m) \ {x}
    BY <2>8, <2>9, <2>10
  <2> QED
    BY <2>3, <2>5, <2>7, <2>11
<1> QED
  BY <1>1, <1>2

(* Adding one, in any place.                                                *)
LEMMA InsertedEntries ==
    ASSUME NEW S, NEW m \in Seq(S), IsInjective(m), NEW x \in S, x \notin ToSet(m),
           NEW p \in 1..Len(m) + 1
    PROVE  /\ InsertAt(m, p, x) \in Seq(S) /\ IsInjective(InsertAt(m, p, x))
           /\ ToSet(InsertAt(m, p, x)) = ToSet(m) \cup {x}
<1> DEFINE n == Len(m)
           a == SubSeq(m, 1, p - 1)
           b == SubSeq(m, p, n)
           ax == a \o <<x>>
           r == InsertAt(m, p, x)
<1>1. n \in Nat /\ p \in 1..n + 1 /\ \A i \in 1..n : m[i] \in S
  OBVIOUS
<1> HIDE DEF n
<1>2. a \in Seq(S) /\ Len(a) = p - 1 /\ \A i \in 1..p - 1 : a[i] = m[i]
  <2>1. \A i \in 1..p - 1 : m[i] \in S
    BY <1>1
  <2>2. /\ a \in Seq(S)
        /\ Len(a) = IF 1 <= p - 1 THEN (p - 1) - 1 + 1 ELSE 0
        /\ \A i \in 1..(p - 1) - 1 + 1 : a[i] = m[1 + i - 1]
    BY <1>1, <2>1, SubSeqProperties
  <2>3. (p - 1) - 1 + 1 = p - 1 /\ \A i \in 1..p - 1 : 1 + i - 1 = i
    BY <1>1
  <2> HIDE DEF a
  <2> QED
    BY <1>1, <2>2, <2>3
<1>3. b \in Seq(S) /\ Len(b) = n - p + 1 /\ \A i \in 1..n - p + 1 : b[i] = m[p + i - 1]
  <2>1. \A i \in p..n : m[i] \in S
    BY <1>1
  <2>2. /\ b \in Seq(S)
        /\ Len(b) = IF p <= n THEN n - p + 1 ELSE 0
        /\ \A i \in 1..n - p + 1 : b[i] = m[p + i - 1]
    BY <1>1, <2>1, SubSeqProperties
  <2> HIDE DEF b
  <2> QED
    BY <1>1, <2>2
<1>4. r = ax \o b
  BY DEF InsertAt, n
<1> HIDE DEF a, b, r
<1>5. /\ ax \in Seq(S) /\ Len(ax) = p
      /\ \A i \in 1..p : ax[i] = IF i = p THEN x ELSE m[i]
  <2>1. <<x>> \in Seq(S) /\ Len(<<x>>) = 1 /\ <<x>>[1] = x
    OBVIOUS
  <2>2. /\ ax \in Seq(S) /\ Len(ax) = Len(a) + Len(<<x>>)
        /\ \A i \in 1..Len(a) + Len(<<x>>) : ax[i] = IF i <= Len(a) THEN a[i] ELSE <<x>>[i - Len(a)]
    BY <1>2, <2>1, ConcatProperties
  <2> HIDE DEF ax
  <2>3. ASSUME NEW i \in 1..p
        PROVE  ax[i] = IF i = p THEN x ELSE m[i]
    <3>1. CASE i = p
      <4>1. i \in 1..Len(a) + Len(<<x>>) /\ ~(i <= Len(a)) /\ i - Len(a) = 1
        BY <1>1, <1>2, <2>1, <3>1
      <4> QED
        BY <3>1, <4>1, <2>1, <2>2
    <3>2. CASE i # p
      <4>1. i \in 1..Len(a) + Len(<<x>>) /\ i <= Len(a) /\ i \in 1..p - 1
        BY <1>1, <1>2, <2>1, <3>2
      <4> QED
        BY <3>2, <4>1, <1>2, <2>2
    <3> QED
      BY <3>1, <3>2
  <2> QED
    BY <1>1, <1>2, <2>1, <2>2, <2>3
<1> HIDE DEF ax
<1>6. /\ r \in Seq(S) /\ Len(r) = n + 1
      /\ \A i \in 1..n + 1 : r[i] = IF i < p THEN m[i] ELSE IF i = p THEN x ELSE m[i - 1]
  <2>1. /\ r \in Seq(S) /\ Len(r) = Len(ax) + Len(b)
        /\ \A i \in 1..Len(ax) + Len(b) : r[i] = IF i <= Len(ax) THEN ax[i] ELSE b[i - Len(ax)]
    BY <1>3, <1>4, <1>5, ConcatProperties
  <2>2. Len(ax) + Len(b) = n + 1
    BY <1>1, <1>3, <1>5
  <2>3. ASSUME NEW i \in 1..n + 1
        PROVE  r[i] = IF i < p THEN m[i] ELSE IF i = p THEN x ELSE m[i - 1]
    <3>1. CASE i <= p
      <4>1. i \in 1..p /\ r[i] = ax[i]
        BY <1>1, <1>5, <2>1, <2>2, <3>1
      <4> QED
        BY <4>1, <1>1, <1>5
    <3>2. CASE ~(i <= p)
      <4>1. i - p \in 1..n - p + 1 /\ p + (i - p) - 1 = i - 1 /\ r[i] = b[i - p]
        BY <1>1, <1>5, <2>1, <2>2, <3>2
      <4>2. r[i] = m[i - 1] /\ ~(i < p) /\ i # p
        BY <4>1, <1>1, <1>3, <3>2
      <4> QED
        BY <4>2
    <3> QED
      BY <3>1, <3>2
  <2> QED
    BY <2>1, <2>2, <2>3
<1>7. /\ DOMAIN r = 1..n + 1 /\ DOMAIN m = 1..n
      /\ ToSet(r) = {r[i] : i \in 1..n + 1} /\ ToSet(m) = {m[i] : i \in 1..n}
  BY <1>1, <1>6 DEF ToSet, n
<1>8. \A i \in 1..n, j \in 1..n : m[i] = m[j] => i = j
  BY <1>7 DEF IsInjective
<1>9. \A i \in 1..n : m[i] # x
  BY <1>7
<1>10. ASSUME NEW i \in 1..n + 1, i # p
       PROVE  \E k \in 1..n : r[i] = m[k] /\ k = IF i < p THEN i ELSE i - 1
  <2> DEFINE k == IF i < p THEN i ELSE i - 1
  <2>1. k \in 1..n /\ r[i] = m[k]
    BY <1>1, <1>6, <1>10
  <2> QED
    BY <2>1
<1>11. r[p] = x /\ p \in 1..n + 1
  BY <1>1, <1>6
<1>12. IsInjective(r)
  <2>1. ASSUME NEW i \in 1..n + 1, NEW j \in 1..n + 1, r[i] = r[j]
        PROVE  i = j
    <3>1. CASE i = p \/ j = p
      BY <2>1, <3>1, <1>9, <1>10, <1>11
    <3>2. CASE i # p /\ j # p
      <4>1. PICK k \in 1..n : r[i] = m[k] /\ k = IF i < p THEN i ELSE i - 1
        BY <3>2, <1>10
      <4>2. PICK l \in 1..n : r[j] = m[l] /\ l = IF j < p THEN j ELSE j - 1
        BY <3>2, <1>10
      <4>3. k = l
        BY <4>1, <4>2, <2>1, <1>8
      <4> QED
        BY <4>1, <4>2, <4>3, <3>2, <1>1
    <3> QED
      BY <3>1, <3>2
  <2> QED
    BY <2>1, <1>7 DEF IsInjective
<1>13. ToSet(r) = ToSet(m) \cup {x}
  <2>1. \A i \in 1..n + 1 : r[i] \in ToSet(m) \cup {x}
    BY <1>7, <1>10, <1>11
  <2>2. ASSUME NEW k \in 1..n
        PROVE  m[k] \in ToSet(r)
    <3> DEFINE i == IF k < p THEN k ELSE k + 1
    <3>1. i \in 1..n + 1 /\ r[i] = m[k]
      BY <1>1, <1>6
    <3> QED
      BY <3>1, <1>7
  <2> QED
    BY <2>1, <2>2, <1>7, <1>11
<1> QED
  BY <1>6, <1>12, <1>13 DEF r
(* The list of blocks: its types, its links, what each block spans.         *)
BlockInfo ==
    [offset : Nat, size : Nat, prev : BlockId \cup {Null}, next : BlockId \cup {Null},
     allocated : BOOLEAN, client : Nat, asked : Nat]

EndOf(bs, b) == bs[b].offset + bs[b].size

BlockTypes(D, bs, f, l, total) ==
    /\ D \subseteq BlockId /\ bs \in [D -> BlockInfo]
    /\ f \in D /\ l \in D /\ total \in Nat

Chained(D, bs, f, l) ==
    /\ bs[f].prev = Null /\ bs[l].next = Null
    /\ \A b \in D : b # l => bs[b].next \in D /\ bs[bs[b].next].prev = b
    /\ \A b \in D : b # f => bs[b].prev \in D /\ bs[bs[b].prev].next = b

Adjoining(D, bs, f, l, total) ==
    /\ bs[f].offset = 0 /\ EndOf(bs, l) = total
    /\ \A b \in D : b # l => bs[bs[b].next].offset = EndOf(bs, b)
    /\ \A b \in D : bs[b].size > 0 /\ EndOf(bs, b) <= total

Apart(D, bs) ==
    \A b \in D, c \in D : b # c => EndOf(bs, b) <= bs[c].offset \/ EndOf(bs, c) <= bs[b].offset

Tiled(D, bs, f, l, total) ==
    BlockTypes(D, bs, f, l, total) /\ Chained(D, bs, f, l) /\ Adjoining(D, bs, f, l, total)
    /\ Apart(D, bs)

(* The fields of a block, one by one.                                       *)
LEMMA BlockFields ==
    ASSUME NEW x \in BlockInfo
    PROVE  /\ x.offset \in Nat /\ x.size \in Nat /\ x.allocated \in BOOLEAN
           /\ x.prev \in BlockId \cup {Null} /\ x.next \in BlockId \cup {Null}
           /\ x.client \in Nat /\ x.asked \in Nat
BY DEF BlockInfo

LinkedAs(new, D, bs, b) ==
    /\ new \in [D -> BlockInfo]
    /\ \A c \in D :
         /\ new[c].offset = bs[c].offset /\ new[c].size = bs[c].size
         /\ new[c].allocated = bs[c].allocated
         /\ new[c].client = bs[c].client /\ new[c].asked = bs[c].asked
         /\ new[c].next = IF c = bs[b].prev THEN b ELSE bs[c].next
         /\ new[c].prev = IF c = bs[b].next THEN b ELSE bs[c].prev

(* Linking a block in writes its neighbours' links and nothing else.        *)
LEMMA LinkFields ==
    ASSUME NEW D, D \subseteq BlockId, NEW bs \in [D -> BlockInfo], NEW b \in D,
           bs[b].prev # bs[b].next \/ bs[b].prev = Null,
           NEW new, new = Link(bs, b)
    PROVE  LinkedAs(new, D, bs, b)
<1> DEFINE New(c) == IF c = bs[b].prev THEN [bs[c] EXCEPT !.next = b]
                     ELSE IF c = bs[b].next THEN [bs[c] EXCEPT !.prev = b]
                     ELSE bs[c]
<1>1. new = [c \in D |-> New(c)]
  BY DEF Link
<1>2. \A c \in D : c # Null /\ c \in BlockId /\ bs[c] \in BlockInfo
  BY ArenaAssumption
<1>3. ASSUME NEW c \in D
      PROVE  /\ New(c) \in BlockInfo
             /\ New(c).offset = bs[c].offset /\ New(c).size = bs[c].size
             /\ New(c).allocated = bs[c].allocated
             /\ New(c).client = bs[c].client /\ New(c).asked = bs[c].asked
             /\ New(c).next = IF c = bs[b].prev THEN b ELSE bs[c].next
             /\ New(c).prev = IF c = bs[b].next THEN b ELSE bs[c].prev
  <2>1. bs[c] \in BlockInfo /\ b \in BlockId /\ c # Null
    BY <1>2
  <2>2. CASE c = bs[b].prev
    <3>1. c # bs[b].next /\ New(c) = [bs[c] EXCEPT !.next = b]
      BY <2>1, <2>2
    <3> HIDE DEF New
    <3> QED
      BY <2>1, <2>2, <3>1 DEF BlockInfo
  <2>3. CASE c # bs[b].prev /\ c = bs[b].next
    <3>1. New(c) = [bs[c] EXCEPT !.prev = b]
      BY <2>3
    <3> HIDE DEF New
    <3> QED
      BY <2>1, <2>3, <3>1 DEF BlockInfo
  <2>4. CASE c # bs[b].prev /\ c # bs[b].next
    <3>1. New(c) = bs[c]
      BY <2>4
    <3> HIDE DEF New
    <3> QED
      BY <2>1, <2>4, <3>1
  <2> QED
    BY <2>2, <2>3, <2>4
<1> HIDE DEF New
<1> QED
  BY <1>1, <1>3 DEF LinkedAs

(* What a block's place in the list says of its neighbours.                 *)
LEMMA Neighbours ==
    ASSUME NEW D, NEW bs, NEW f, NEW l, NEW total, Tiled(D, bs, f, l, total), NEW b \in D
    PROVE  /\ bs[b] \in BlockInfo /\ b # Null
           /\ bs[b].next = Null <=> b = l
           /\ bs[b].prev = Null <=> b = f
           /\ bs[b].next # Null => /\ bs[b].next \in D /\ bs[bs[b].next].prev = b
                                   /\ bs[bs[b].next].offset = EndOf(bs, b)
           /\ bs[b].prev # Null => /\ bs[b].prev \in D /\ bs[bs[b].prev].next = b
                                   /\ EndOf(bs, bs[b].prev) = bs[b].offset
           /\ bs[b].next # b /\ bs[b].prev # b
           /\ bs[b].next # bs[b].prev \/ bs[b].prev = Null
<1>1. /\ D \subseteq BlockId /\ bs \in [D -> BlockInfo] /\ f \in D /\ l \in D
      /\ Null \notin D
  BY ArenaAssumption DEF Tiled, BlockTypes
<1>2. \A c \in D : bs[c].offset \in Nat /\ bs[c].size \in Nat /\ bs[c].size > 0
  BY <1>1, BlockFields DEF Tiled, Adjoining
<1>3. bs[b].next = Null <=> b = l
  BY <1>1 DEF Tiled, Chained
<1>4. bs[b].prev = Null <=> b = f
  BY <1>1 DEF Tiled, Chained
<1>5. \A c \in D : bs[c].next # Null => /\ bs[c].next \in D /\ bs[bs[c].next].prev = c
                                        /\ bs[bs[c].next].offset = EndOf(bs, c)
  BY <1>1 DEF Tiled, Chained, Adjoining
<1>6. bs[b].prev # Null => bs[b].prev \in D /\ bs[bs[b].prev].next = b
  BY <1>4 DEF Tiled, Chained
<1>7. bs[b].prev # Null => EndOf(bs, bs[b].prev) = bs[b].offset
  BY <1>1, <1>5, <1>6
<1>8. bs[b].next # Null => bs[bs[b].next].offset > bs[b].offset
  BY <1>2, <1>5 DEF EndOf
<1>9. bs[b].prev # Null => bs[bs[b].prev].offset < bs[b].offset
  BY <1>2, <1>6, <1>7 DEF EndOf
<1>10. /\ bs[b].next # b /\ bs[b].prev # b
       /\ bs[b].next # bs[b].prev \/ bs[b].prev = Null
  BY <1>1, <1>2, <1>5, <1>6, <1>8, <1>9
<1> QED
  BY <1>1, <1>3, <1>4, <1>5, <1>6, <1>7, <1>10

(* The blocks R, which lie in a row from lo to hi, make room for one block  *)
(* n that spans them; when hi is the last block it may reach further.       *)
Spans(D, bs, R, lo, hi) ==
    /\ R \subseteq D /\ lo \in R /\ hi \in R
    /\ \A c \in R : /\ c # hi => bs[c].next \in R
                    /\ c # lo => bs[c].prev \in R
                    /\ bs[lo].offset <= bs[c].offset /\ EndOf(bs, c) <= EndOf(bs, hi)
    /\ \A c \in D \ R : EndOf(bs, c) <= bs[lo].offset \/ EndOf(bs, hi) <= bs[c].offset

(* The list new is bs with one block n in the place of the blocks R.        *)
JoinedAs(new, D, bs, R, lo, hi, n, grown) ==
    /\ new \in [(D \ R) \cup {n} -> BlockInfo]
    /\ new[n].offset = bs[lo].offset /\ new[n].prev = bs[lo].prev
    /\ new[n].next = bs[hi].next /\ EndOf(new, n) = EndOf(bs, hi) + grown
    /\ \A c \in D \ R :
         /\ new[c].offset = bs[c].offset /\ new[c].size = bs[c].size
         /\ new[c].next = IF c = bs[lo].prev THEN n ELSE bs[c].next
         /\ new[c].prev = IF c = bs[hi].next THEN n ELSE bs[c].prev

(* Such a list tiles the arena.                                             *)
LEMMA JoinedTiled ==
    ASSUME NEW D, NEW bs, NEW f, NEW l, NEW total, Tiled(D, bs, f, l, total),
           NEW R, NEW lo, NEW hi, Spans(D, bs, R, lo, hi),
           NEW n \in BlockId, n \notin D, NEW total2 \in Nat,
           total2 = total \/ (hi = l /\ total2 >= total),
           NEW new, JoinedAs(new, D, bs, R, lo, hi, n, total2 - total)
    PROVE  Tiled((D \ R) \cup {n}, new,
                 IF bs[lo].prev = Null THEN n ELSE f,  IF bs[hi].next = Null THEN n ELSE l, total2)
<1> DEFINE E == (D \ R) \cup {n}
           g == IF bs[lo].prev = Null THEN n ELSE f
           m == IF bs[hi].next = Null THEN n ELSE l
<1>0. /\ new \in [E -> BlockInfo]
      /\ new[n].offset = bs[lo].offset /\ new[n].prev = bs[lo].prev
      /\ new[n].next = bs[hi].next /\ EndOf(new, n) = EndOf(bs, hi) + (total2 - total)
      /\ \A c \in D \ R :
           /\ new[c].offset = bs[c].offset /\ new[c].size = bs[c].size
           /\ new[c].next = IF c = bs[lo].prev THEN n ELSE bs[c].next
           /\ new[c].prev = IF c = bs[hi].next THEN n ELSE bs[c].prev
  BY Zenon DEF JoinedAs
<1> USE <1>0
<1>1. /\ D \subseteq BlockId /\ bs \in [D -> BlockInfo] /\ f \in D /\ l \in D
      /\ Null \notin D /\ total \in Nat /\ n # Null
  BY ArenaAssumption DEF Tiled, BlockTypes
<1>2. \A c \in D : bs[c].offset \in Nat /\ bs[c].size \in Nat /\ bs[c].size > 0
                   /\ EndOf(bs, c) <= total /\ EndOf(bs, c) \in Nat
  BY <1>1, BlockFields DEF Tiled, Adjoining, EndOf
<1>3. R \subseteq D /\ lo \in R /\ hi \in R
  BY DEF Spans
<1>4. \A c \in D : /\ bs[c].next = Null <=> c = l
                   /\ bs[c].prev = Null <=> c = f
                   /\ bs[c].next # Null => /\ bs[c].next \in D /\ bs[bs[c].next].prev = c
                                           /\ bs[bs[c].next].offset = EndOf(bs, c)
                   /\ bs[c].prev # Null => /\ bs[c].prev \in D /\ bs[bs[c].prev].next = c
                                           /\ EndOf(bs, bs[c].prev) = bs[c].offset
  BY Neighbours
<1>5. bs[lo].prev \notin R
  <2> SUFFICES ASSUME bs[lo].prev \in R PROVE FALSE
    OBVIOUS
  <2>1. bs[lo].prev # Null /\ bs[bs[lo].prev].offset < bs[lo].offset
    BY <1>1, <1>2, <1>3, <1>4 DEF EndOf
  <2>2. bs[lo].offset <= bs[bs[lo].prev].offset
    BY DEF Spans
  <2> QED
    BY <2>1, <2>2, <1>2, <1>3
<1>6. bs[hi].next \notin R
  <2> SUFFICES ASSUME bs[hi].next \in R PROVE FALSE
    OBVIOUS
  <2>1. bs[hi].next # Null /\ bs[bs[hi].next].offset = EndOf(bs, hi)
    BY <1>1, <1>3, <1>4
  <2>2. EndOf(bs, bs[hi].next) <= EndOf(bs, hi)
    BY DEF Spans
  <2> QED
    BY <2>1, <2>2, <1>2, <1>3 DEF EndOf
<1>7. \A c \in D \ R : bs[c].next \in R => c = bs[lo].prev
  <2> TAKE c \in D \ R
  <2>1. ASSUME bs[c].next \in R, bs[c].next # lo
        PROVE  FALSE
    <3>1. bs[bs[c].next].prev \in R
      BY <2>1 DEF Spans
    <3>2. bs[c].next # Null
      BY <2>1, <1>1, <1>3
    <3>3. bs[bs[c].next].prev = c
      BY <3>2, <1>4
    <3> QED
      BY <3>1, <3>3
  <2>2. bs[c].next = lo => c = bs[lo].prev
    BY <1>1, <1>3, <1>4
  <2> QED
    BY <2>1, <2>2
<1>8. \A c \in D \ R : bs[c].prev \in R => c = bs[hi].next
  <2> TAKE c \in D \ R
  <2>1. ASSUME bs[c].prev \in R, bs[c].prev # hi
        PROVE  FALSE
    <3>1. bs[bs[c].prev].next \in R
      BY <2>1 DEF Spans
    <3>2. bs[c].prev # Null
      BY <2>1, <1>1, <1>3
    <3>3. bs[bs[c].prev].next = c
      BY <3>2, <1>4
    <3> QED
      BY <3>1, <3>3
  <2>2. bs[c].prev = hi => c = bs[hi].next
    BY <1>1, <1>3, <1>4
  <2> QED
    BY <2>1, <2>2
<1>9. BlockTypes(E, new, g, m, total2)
  <2>1. E \subseteq BlockId
    BY <1>1
  <2>2. bs[lo].prev # Null => f \in D \ R
    <3> SUFFICES ASSUME bs[lo].prev # Null PROVE f \notin R
      BY <1>1
    <3>1. lo # f
      BY <1>3, <1>4
    <3>2. f \in R => bs[f].prev \in R
      BY <3>1 DEF Spans
    <3> QED
      BY <3>2, <1>1, <1>3, <1>4
  <2>3. bs[hi].next # Null => l \in D \ R
    <3> SUFFICES ASSUME bs[hi].next # Null PROVE l \notin R
      BY <1>1
    <3>1. hi # l
      BY <1>3, <1>4
    <3>2. l \in R => bs[l].next \in R
      BY <3>1 DEF Spans
    <3> QED
      BY <3>2, <1>1, <1>3, <1>4
  <2> QED
    BY <2>1, <2>2, <2>3 DEF BlockTypes
<1>10. \A c \in D \ R : /\ c # n /\ c \in D
                        /\ EndOf(new, c) = EndOf(bs, c) /\ new[c].offset = bs[c].offset
                        /\ new[c].size = bs[c].size
                        /\ new[c].next = IF c = bs[lo].prev THEN n ELSE bs[c].next
                        /\ new[c].prev = IF c = bs[hi].next THEN n ELSE bs[c].prev
  BY DEF EndOf
<1>11. g \in E /\ m \in E /\ new \in [E -> BlockInfo]
  BY <1>9 DEF BlockTypes
<1> HIDE DEF E
<1>12. \A c \in E : c = n \/ c \in D \ R
  BY DEF E
<1>13. n \in E /\ \A c \in D \ R : c \in E
  BY DEF E
<1>14. Chained(E, new, g, m)
  <2>1. new[g].prev = Null
    <3>1. CASE bs[lo].prev = Null
      BY <3>1
    <3>2. CASE bs[lo].prev # Null
      <4>1. g = f /\ f \in D \ R
        BY <3>2, <1>11, <1>12, <1>1
      <4>2. bs[f].prev = Null /\ f # bs[hi].next
        BY <1>1, <1>3, <1>4
      <4> QED
        BY <4>1, <4>2, <1>10
    <3> QED
      BY <3>1, <3>2
  <2>2. new[m].next = Null
    <3>1. CASE bs[hi].next = Null
      BY <3>1
    <3>2. CASE bs[hi].next # Null
      <4>1. m = l /\ l \in D \ R
        BY <3>2, <1>11, <1>12, <1>1
      <4>2. bs[l].next = Null /\ l # bs[lo].prev
        BY <1>1, <1>3, <1>4
      <4> QED
        BY <4>1, <4>2, <1>10
    <3> QED
      BY <3>1, <3>2
  <2>3. ASSUME NEW c \in E, c # m
        PROVE  new[c].next \in E /\ new[new[c].next].prev = c
    <3>1. CASE c = n
      <4>1. bs[hi].next # Null
        BY <3>1, <2>3
      <4>2. bs[hi].next \in D \ R
        BY <4>1, <1>3, <1>4, <1>6
      <4> QED
        BY <3>1, <4>2, <1>10, <1>13
    <3>2. CASE c \in D \ R
      <4>1. CASE c = bs[lo].prev
        BY <4>1, <3>2, <1>10, <1>13
      <4>2. CASE c # bs[lo].prev
        <5>1. new[c].next = bs[c].next /\ c \in D
          BY <3>2, <4>2, <1>10
        <5>2. c # l
          <6>1. bs[hi].next = Null => hi = l
            BY <1>3, <1>4
          <6> QED
            BY <6>1, <2>3, <3>2, <1>3
        <5>3. bs[c].next \in D \ R /\ bs[bs[c].next].prev = c
          BY <5>1, <5>2, <3>2, <4>2, <1>4, <1>7
        <5>4. bs[c].next # bs[hi].next
          BY <5>3, <3>2, <1>1, <1>3, <1>4
        <5> QED
          BY <5>1, <5>3, <5>4, <1>10, <1>13
      <4> QED
        BY <4>1, <4>2
    <3> QED
      BY <3>1, <3>2, <1>12
  <2>4. ASSUME NEW c \in E, c # g
        PROVE  new[c].prev \in E /\ new[new[c].prev].next = c
    <3>1. CASE c = n
      <4>1. bs[lo].prev # Null
        BY <3>1, <2>4
      <4>2. bs[lo].prev \in D \ R
        BY <4>1, <1>3, <1>4, <1>5
      <4> QED
        BY <3>1, <4>2, <1>10, <1>13
    <3>2. CASE c \in D \ R
      <4>1. CASE c = bs[hi].next
        BY <4>1, <3>2, <1>10, <1>13
      <4>2. CASE c # bs[hi].next
        <5>1. new[c].prev = bs[c].prev /\ c \in D
          BY <3>2, <4>2, <1>10
        <5>2. c # f
          <6>1. bs[lo].prev = Null => lo = f
            BY <1>3, <1>4
          <6> QED
            BY <6>1, <2>4, <3>2, <1>3
        <5>3. bs[c].prev \in D \ R /\ bs[bs[c].prev].next = c
          BY <5>1, <5>2, <3>2, <4>2, <1>4, <1>8
        <5>4. bs[c].prev # bs[lo].prev
          BY <5>3, <3>2, <1>1, <1>3, <1>4
        <5> QED
          BY <5>1, <5>3, <5>4, <1>10, <1>13
      <4> QED
        BY <4>1, <4>2
    <3> QED
      BY <3>1, <3>2, <1>12
  <2> QED
    BY <2>1, <2>2, <2>3, <2>4 DEF Chained
<1>15. Adjoining(E, new, g, m, total2)
  <2>1. new[g].offset = 0
    <3>1. \A c \in D : c = f => bs[c].offset = 0
      BY DEF Tiled, Adjoining
    <3>2. CASE bs[lo].prev = Null
      BY <3>1, <3>2, <1>3, <1>4
    <3>3. CASE bs[lo].prev # Null
      <4>1. g = f /\ f \in D \ R
        BY <3>3, <1>11, <1>12, <1>1
      <4> QED
        BY <4>1, <3>1, <1>10
    <3> QED
      BY <3>2, <3>3
  <2>2. EndOf(bs, l) = total
    BY DEF Tiled, Adjoining
  <2>3. EndOf(new, m) = total2
    <3>1. CASE bs[hi].next = Null
      <4>1. hi = l /\ m = n
        BY <3>1, <1>3, <1>4
      <4> QED
        BY <4>1, <2>2, <1>1
    <3>2. CASE bs[hi].next # Null
      <4>1. m = l /\ l \in D \ R /\ hi # l
        BY <3>2, <1>1, <1>3, <1>4, <1>11, <1>12
      <4> QED
        BY <4>1, <2>2, <1>10
    <3> QED
      BY <3>1, <3>2
  <2>4. ASSUME NEW c \in E, c # m
        PROVE  new[new[c].next].offset = EndOf(new, c)
    <3>1. CASE c = n
      <4>1. bs[hi].next # Null /\ hi # l
        BY <3>1, <2>4, <1>3, <1>4
      <4>2. bs[hi].next \in D \ R /\ bs[bs[hi].next].offset = EndOf(bs, hi)
        BY <4>1, <1>3, <1>4, <1>6
      <4>3. EndOf(new, n) = EndOf(bs, hi)
        BY <4>1, <1>1, <1>2, <1>3
      <4> QED
        BY <3>1, <4>2, <4>3, <1>10
    <3>2. CASE c \in D \ R /\ c = bs[lo].prev
      <4>1. EndOf(bs, c) = bs[lo].offset
        BY <3>2, <1>1, <1>3, <1>4
      <4> QED
        BY <3>2, <4>1, <1>10
    <3>3. CASE c \in D \ R /\ c # bs[lo].prev
      <4>1. new[c].next = bs[c].next /\ c \in D
        BY <3>3, <1>10
      <4>2. c # l
        <5>1. bs[hi].next = Null => hi = l
          BY <1>3, <1>4
        <5> QED
          BY <5>1, <2>4, <3>3, <1>3
      <4>3. bs[c].next \in D \ R /\ bs[bs[c].next].offset = EndOf(bs, c)
        BY <4>1, <4>2, <3>3, <1>4, <1>7
      <4> QED
        BY <4>1, <4>3, <3>3, <1>10
    <3> QED
      BY <3>1, <3>2, <3>3, <1>12
  <2>5. ASSUME NEW c \in E
        PROVE  new[c].size > 0 /\ EndOf(new, c) <= total2
    <3>1. total2 >= total
      BY <1>1
    <3>2. CASE c = n
      <4>1. EndOf(new, n) <= total2 /\ EndOf(new, n) >= EndOf(bs, hi)
        BY <3>1, <1>1, <1>2, <1>3
      <4>2. EndOf(bs, hi) > bs[lo].offset
        <5>1. EndOf(bs, lo) <= EndOf(bs, hi)
          BY <1>3 DEF Spans
        <5> QED
          BY <5>1, <1>2, <1>3 DEF EndOf
      <4>3. new[n].offset \in Nat /\ new[n].size \in Nat
        BY <1>11, <1>13, BlockFields
      <4> QED
        BY <3>2, <4>1, <4>2, <4>3, <1>2, <1>3 DEF EndOf
    <3>3. CASE c \in D \ R
      BY <3>1, <3>3, <1>1, <1>2, <1>10
    <3> QED
      BY <3>2, <3>3, <1>12
  <2> QED
    BY <2>1, <2>3, <2>4, <2>5 DEF Adjoining
<1>16. Apart(E, new)
  <2>1. ASSUME NEW c \in D \ R
        PROVE  EndOf(new, c) <= new[n].offset \/ EndOf(new, n) <= new[c].offset
    <3>1. EndOf(bs, c) <= bs[lo].offset \/ EndOf(bs, hi) <= bs[c].offset
      BY DEF Spans
    <3>2. hi = l => EndOf(bs, hi) = total
      BY DEF Tiled, Adjoining
    <3>3. EndOf(bs, hi) <= bs[c].offset => hi # l
      BY <3>2, <1>1, <1>2, <1>3 DEF EndOf
    <3> QED
      BY <3>1, <3>3, <1>1, <1>2, <1>3, <1>10
  <2>2. \A b \in D \ R, c \in D \ R : b # c =>
          EndOf(new, b) <= new[c].offset \/ EndOf(new, c) <= new[b].offset
    BY <1>10 DEF Tiled, Apart
  <2> QED
    BY <2>1, <2>2, <1>12 DEF Apart
<1> QED
  BY <1>9, <1>14, <1>15, <1>16 DEF Tiled, E

(* A new block n behind b: either b gives up its tail, or b is the last and *)
(* the arena grows.                                                         *)
BehindAs(new, D, bs, b, n, grown) ==
    /\ new \in [D \cup {n} -> BlockInfo]
    /\ new[b].offset = bs[b].offset /\ new[b].prev = bs[b].prev
    /\ new[b].next = n /\ new[b].size > 0
    /\ new[n].offset = EndOf(new, b) /\ new[n].prev = b
    /\ new[n].next = bs[b].next /\ new[n].size > 0
    /\ EndOf(new, n) = EndOf(bs, b) + grown
    /\ \A c \in D \ {b} : /\ new[c].offset = bs[c].offset /\ new[c].size = bs[c].size
                          /\ new[c].next = bs[c].next
                          /\ new[c].prev = IF c = bs[b].next THEN n ELSE bs[c].prev

(* Such a list, too, tiles the arena.                                       *)
LEMMA InsertedTiled ==
    ASSUME NEW D, NEW bs, NEW f, NEW l, NEW total, Tiled(D, bs, f, l, total),
           NEW b \in D, NEW n \in BlockId, n \notin D, NEW total2 \in Nat,
           total2 = total \/ (b = l /\ total2 >= total),
           NEW new, BehindAs(new, D, bs, b, n, total2 - total)
    PROVE  Tiled(D \cup {n}, new, f, IF bs[b].next = Null THEN n ELSE l, total2)
<1> DEFINE E == D \cup {n}
           m == IF bs[b].next = Null THEN n ELSE l
<1> SUFFICES ASSUME
      new \in [E -> BlockInfo],
      new[b].offset = bs[b].offset, new[b].prev = bs[b].prev, new[b].next = n,
      new[b].size > 0,
      new[n].offset = EndOf(new, b), new[n].prev = b, new[n].next = bs[b].next,
      new[n].size > 0,
      EndOf(new, n) = EndOf(bs, b) + (total2 - total),
      \A c \in D \ {b} : /\ new[c].offset = bs[c].offset /\ new[c].size = bs[c].size
                         /\ new[c].next = bs[c].next
                         /\ new[c].prev = IF c = bs[b].next THEN n ELSE bs[c].prev
    PROVE Tiled(E, new, f, m, total2)
  BY DEF BehindAs
<1>1. /\ D \subseteq BlockId /\ bs \in [D -> BlockInfo] /\ f \in D /\ l \in D
      /\ Null \notin D /\ total \in Nat /\ n # Null
  BY ArenaAssumption DEF Tiled, BlockTypes
<1>2. \A c \in D : bs[c].offset \in Nat /\ bs[c].size \in Nat /\ bs[c].size > 0
                   /\ EndOf(bs, c) <= total /\ EndOf(bs, c) \in Nat
  BY <1>1, BlockFields DEF Tiled, Adjoining, EndOf
<1>3. /\ E \subseteq BlockId /\ f \in E /\ m \in E /\ new \in [E -> BlockInfo]
      /\ n \in E /\ D \subseteq E /\ \A c \in E : c = n \/ c = b \/ c \in D \ {b}
  BY <1>1
<1>4. \A c \in D : /\ bs[c].next = Null <=> c = l
                   /\ bs[c].prev = Null <=> c = f
                   /\ bs[c].next # Null => /\ bs[c].next \in D /\ bs[bs[c].next].prev = c
                                           /\ bs[bs[c].next].offset = EndOf(bs, c)
                   /\ bs[c].prev # Null => /\ bs[c].prev \in D /\ bs[bs[c].prev].next = c
                   /\ bs[c].next # c /\ bs[c].prev # c
  BY Neighbours
<1>5. \A c \in E : new[c].offset \in Nat /\ new[c].size \in Nat
  BY <1>3, BlockFields
<1>6. \A c \in D \ {b} : /\ c # n /\ c \in D /\ c # b
                         /\ EndOf(new, c) = EndOf(bs, c) /\ new[c].offset = bs[c].offset
                         /\ new[c].size = bs[c].size
                         /\ new[c].next = bs[c].next
                         /\ new[c].prev = IF c = bs[b].next THEN n ELSE bs[c].prev
  BY DEF EndOf
<1> HIDE DEF E
<1>7. BlockTypes(E, new, f, m, total2)
  BY <1>3 DEF BlockTypes
<1>8. Chained(E, new, f, m)
  <2>1. new[f].prev = Null
    <3>1. bs[f].prev = Null /\ f # bs[b].next
      BY <1>1, <1>4
    <3> QED
      BY <3>1, <1>1, <1>6
  <2>2. new[m].next = Null
    <3>1. CASE bs[b].next = Null
      BY <3>1
    <3>2. CASE bs[b].next # Null
      BY <3>2, <1>1, <1>4, <1>6
    <3> QED
      BY <3>1, <3>2
  <2>3. ASSUME NEW c \in E, c # m
        PROVE  new[c].next \in E /\ new[new[c].next].prev = c
    <3>1. CASE c = n
      <4>1. bs[b].next \in D \ {b}
        BY <2>3, <3>1, <1>4
      <4> QED
        BY <3>1, <4>1, <1>3, <1>6
    <3>2. CASE c = b
      BY <3>2, <1>3
    <3>3. CASE c \in D \ {b}
      <4>1. c # l
        <5>1. bs[b].next = Null => b = l
          BY <1>4
        <5> QED
          BY <5>1, <2>3, <3>3
      <4>2. bs[c].next \in D /\ bs[bs[c].next].prev = c
        BY <4>1, <3>3, <1>4
      <4>3. CASE bs[c].next = b
        BY <3>3, <4>2, <4>3, <1>3, <1>6
      <4>4. CASE bs[c].next # b
        <5>1. bs[c].next # bs[b].next
          BY <4>2, <3>3, <1>1, <1>4
        <5> QED
          BY <5>1, <3>3, <4>2, <4>4, <1>3, <1>6
      <4> QED
        BY <4>3, <4>4
    <3> QED
      BY <3>1, <3>2, <3>3, <1>3
  <2>4. ASSUME NEW c \in E, c # f
        PROVE  new[c].prev \in E /\ new[new[c].prev].next = c
    <3>1. CASE c = n
      BY <3>1, <1>3
    <3>2. CASE c = b
      <4>1. bs[b].prev \in D \ {b} /\ bs[bs[b].prev].next = b
        BY <2>4, <3>2, <1>4
      <4> QED
        BY <3>2, <4>1, <1>3, <1>6
    <3>3. CASE c \in D \ {b}
      <4>1. bs[c].prev \in D /\ bs[bs[c].prev].next = c
        BY <2>4, <3>3, <1>4
      <4>2. CASE c = bs[b].next
        BY <4>2, <3>3, <1>3, <1>6
      <4>3. CASE c # bs[b].next
        <5>1. bs[c].prev \in D \ {b}
          BY <4>1, <4>3
        <5> QED
          BY <5>1, <4>1, <4>3, <3>3, <1>3, <1>6
      <4> QED
        BY <4>2, <4>3
    <3> QED
      BY <3>1, <3>2, <3>3, <1>3
  <2> QED
    BY <2>1, <2>2, <2>3, <2>4 DEF Chained
<1>9. EndOf(bs, l) = total /\ bs[f].offset = 0
  BY DEF Tiled, Adjoining
<1>10. Adjoining(E, new, f, m, total2)
  <2>1. new[f].offset = 0
    BY <1>1, <1>6, <1>9
  <2>2. EndOf(new, m) = total2
    <3>1. CASE bs[b].next = Null
      BY <3>1, <1>1, <1>4, <1>9
    <3>2. CASE bs[b].next # Null
      BY <3>2, <1>1, <1>4, <1>6, <1>9
    <3> QED
      BY <3>1, <3>2
  <2>3. ASSUME NEW c \in E, c # m
        PROVE  new[new[c].next].offset = EndOf(new, c)
    <3>1. CASE c = n
      <4>1. bs[b].next \in D \ {b} /\ bs[bs[b].next].offset = EndOf(bs, b) /\ b # l
        BY <2>3, <3>1, <1>4
      <4>2. EndOf(new, n) = EndOf(bs, b)
        BY <4>1, <1>1, <1>2
      <4> QED
        BY <3>1, <4>1, <4>2, <1>6
    <3>2. CASE c = b
      BY <3>2
    <3>3. CASE c \in D \ {b}
      <4>1. c # l
        <5>1. bs[b].next = Null => b = l
          BY <1>4
        <5> QED
          BY <5>1, <2>3, <3>3
      <4>2. bs[c].next \in D /\ bs[bs[c].next].offset = EndOf(bs, c)
        BY <4>1, <3>3, <1>4
      <4> QED
        BY <4>2, <3>3, <1>6
    <3> QED
      BY <3>1, <3>2, <3>3, <1>3
  <2>4. ASSUME NEW c \in E
        PROVE  new[c].size > 0 /\ EndOf(new, c) <= total2
    <3>1. total2 >= total /\ EndOf(new, n) <= total2
      BY <1>1, <1>2
    <3>2. EndOf(new, b) <= EndOf(new, n)
      BY <1>3, <1>5 DEF EndOf
    <3>3. EndOf(new, b) \in Nat /\ EndOf(new, n) \in Nat
      BY <1>3, <1>5 DEF EndOf
    <3>4. CASE c \in D \ {b}
      BY <3>1, <3>4, <1>1, <1>2, <1>6
    <3> QED
      BY <3>1, <3>2, <3>3, <3>4, <1>3
  <2> QED
    BY <2>1, <2>2, <2>3, <2>4 DEF Adjoining
<1>11. Apart(E, new)
  <2>1. \A c \in D, d \in D : c # d => EndOf(bs, c) <= bs[d].offset \/ EndOf(bs, d) <= bs[c].offset
    BY DEF Tiled, Apart
  <2>2. /\ EndOf(new, b) = new[n].offset /\ bs[b].offset <= new[n].offset
        /\ new[b].offset = bs[b].offset
        /\ EndOf(new, b) <= EndOf(new, n) /\ EndOf(new, n) \in Nat
    BY <1>3, <1>5 DEF EndOf
  <2>3. ASSUME NEW c \in D \ {b}
        PROVE  /\ EndOf(new, c) <= new[b].offset \/ EndOf(new, n) <= new[c].offset
               /\ EndOf(new, c) \in Nat /\ new[c].offset \in Nat
    <3>1. EndOf(bs, b) <= bs[c].offset => b # l
      BY <1>1, <1>2, <1>9 DEF EndOf
    <3>2. EndOf(bs, c) <= bs[b].offset \/ EndOf(bs, b) <= bs[c].offset
      BY <2>1
    <3>3. b # l => EndOf(new, n) = EndOf(bs, b)
      BY <1>1, <1>2
    <3> QED
      BY <3>1, <3>2, <3>3, <2>2, <1>2, <1>6
  <2>4. ASSUME NEW c \in E, NEW d \in E, c # d
        PROVE  EndOf(new, c) <= new[d].offset \/ EndOf(new, d) <= new[c].offset
    <3>1. new[b].offset \in Nat /\ new[n].offset \in Nat /\ EndOf(new, b) \in Nat
      BY <1>3, <1>5 DEF EndOf
    <3>2. CASE c \in D \ {b} /\ d \in D \ {b}
      BY <2>1, <2>4, <3>2, <1>6
    <3>3. CASE c \in D \ {b} /\ d \notin D \ {b}
      BY <2>2, <2>3, <3>1, <3>3, <1>3
    <3>4. CASE c \notin D \ {b} /\ d \in D \ {b}
      BY <2>2, <2>3, <3>1, <3>4, <1>3
    <3>5. CASE c \notin D \ {b} /\ d \notin D \ {b}
      BY <2>2, <2>4, <3>1, <3>5, <1>3
    <3> QED
      BY <3>2, <3>3, <3>4, <3>5
  <2> QED
    BY <2>4 DEF Apart
<1> QED
  BY <1>7, <1>8, <1>10, <1>11 DEF Tiled

(* Blocks begin at different bytes of the arena, so there are no more of    *)
(* them than bytes, and an address is left for a new one.                   *)
LEMMA NewIdIsNew ==
    ASSUME NEW f, NEW l, NEW total, Tiled(DOMAIN blocks, blocks, f, l, total),
           total <= Max({ArenaSize, MaxArena})
    PROVE  NewId \in BlockId /\ NewId \notin DOMAIN blocks
<1> DEFINE D == DOMAIN blocks
           g == [b \in D |-> blocks[b].offset]
           I == BlockId \ D
<1>1. D \subseteq BlockId /\ total \in Nat /\ blocks \in [D -> BlockInfo]
  BY DEF Tiled, BlockTypes
<1>2. \A b \in D : /\ blocks[b].offset \in Nat /\ blocks[b].size \in Nat /\ blocks[b].size > 0
                   /\ EndOf(blocks, b) <= total
  BY <1>1, BlockFields DEF Tiled, Adjoining
<1>3. g \in Injection(D, 0..total - 1)
  <2>1. g \in [D -> 0..total - 1]
    BY <1>1, <1>2 DEF EndOf
  <2>2. \A b \in D, c \in D : g[b] = g[c] => b = c
    BY <1>2 DEF Tiled, Apart, EndOf
  <2> HIDE DEF g
  <2> QED
    BY <2>1, <2>2 DEF Injection, IsInjective
<1>4. IsFiniteSet(0..total - 1) /\ Cardinality(0..total - 1) = total
  <2>1. 0 \in Int /\ total - 1 \in Int /\ total \in Nat
    BY <1>1
  <2>2. /\ IsFiniteSet(0..total - 1)
        /\ Cardinality(0..total - 1) = IF 0 > total - 1 THEN 0 ELSE (total - 1) - 0 + 1
    BY ONLY <2>1, FS_Interval
  <2> QED
    BY <2>1, <2>2
<1> HIDE DEF g
<1>5. IsFiniteSet(D) /\ Cardinality(D) <= total
  BY <1>3, <1>4, FS_Injection
<1>6. Max({ArenaSize, MaxArena}) \in Nat
  BY ArenaAssumption, MinMaxOfTwo
<1>7. I # {}
  <2> SUFFICES ASSUME I = {} PROVE FALSE
    OBVIOUS
  <2>1. BlockId = D
    BY <1>1
  <2>2. Cardinality(D) \in Nat
    BY <1>5, FS_CardinalityType
  <2> QED
    BY <2>1, <2>2, <1>1, <1>5, <1>6, ArenaAssumption
<1>8. I \in SUBSET Nat
  BY ArenaAssumption
<1>9. \E m \in I : \A i \in I : m <= i
  BY <1>7, <1>8, LeastNatural
<1>10. Min(I) \in I
  <2> HIDE DEF I
  <2> QED
    BY <1>9 DEF Min
<1> QED
  BY <1>10 DEF NewId

(* What else holds of the blocks and the multimap.                          *)
FreeEntries(bs) ==
    {<<bs[b].size, b>> : b \in {c \in DOMAIN bs : ~bs[c].allocated}}

Listed(m, bs) ==
    m \in Seq(Nat \X BlockId) /\ IsInjective(m) /\ ToSet(m) = FreeEntries(bs)

NoFreeNeighbours(bs) ==
    \A b \in DOMAIN bs : bs[b].next # Null => bs[b].allocated \/ bs[bs[b].next].allocated

ClientInside(x) ==
    x.allocated => x.client >= x.offset /\ x.client + x.asked <= x.offset + x.size

ClientsInside(bs) == \A b \in DOMAIN bs : ClientInside(bs[b])

ArenaShape(bs, f, l, m, total) ==
    /\ Tiled(DOMAIN bs, bs, f, l, total)
    /\ NoFreeNeighbours(bs) /\ Listed(m, bs) /\ ClientsInside(bs)

ArenaInv ==
    /\ ArenaShape(blocks, first, last, size_to_free_blocks, arena_size)
    /\ arena_size <= Max({ArenaSize, MaxArena})

(* Inserted and Removed, as sets of entries.                                *)
LEMMA InsertedListed ==
    ASSUME NEW m \in Seq(Nat \X BlockId), IsInjective(m), NEW s \in Nat, NEW b \in BlockId,
           <<s, b>> \notin ToSet(m)
    PROVE  /\ Inserted(m, s, b) \in Seq(Nat \X BlockId) /\ IsInjective(Inserted(m, s, b))
           /\ ToSet(Inserted(m, s, b)) = ToSet(m) \cup {<<s, b>>}
<1> DEFINE S == Nat \X BlockId
           x == <<s, b>>
           K == {i \in DOMAIN m : m[i][1] <= s}
           p == 1 + Cardinality(K)
<1>1. Len(m) \in Nat /\ K \in SUBSET (1..Len(m)) /\ x \in S
  OBVIOUS
<1>2. IsFiniteSet(1..Len(m)) /\ Cardinality(1..Len(m)) = Len(m)
  <2>1. 1 \in Int /\ Len(m) \in Int
    BY <1>1
  <2>2. /\ IsFiniteSet(1..Len(m))
        /\ Cardinality(1..Len(m)) = IF 1 > Len(m) THEN 0 ELSE Len(m) - 1 + 1
    BY ONLY <2>1, FS_Interval
  <2> QED
    BY <2>2, <1>1
<1> HIDE DEF K
<1>3. IsFiniteSet(K) /\ Cardinality(K) <= Len(m)
  BY <1>1, <1>2, FS_Subset
<1>4. Cardinality(K) \in Nat
  BY <1>3, FS_CardinalityType
<1>5. p \in 1..Len(m) + 1
  BY <1>1, <1>3, <1>4
<1>6. Inserted(m, s, b) = InsertAt(m, p, x)
  BY DEF Inserted, K
<1> HIDE DEF p, S, x
<1>7. m \in Seq(S) /\ x \notin ToSet(m)
  BY DEF S, x
<1>8. /\ InsertAt(m, p, x) \in Seq(S) /\ IsInjective(InsertAt(m, p, x))
      /\ ToSet(InsertAt(m, p, x)) = ToSet(m) \cup {x}
  BY <1>1, <1>5, <1>7, InsertedEntries
<1> QED
  BY <1>6, <1>8 DEF S, x

LEMMA RemovedListed ==
    ASSUME NEW m \in Seq(Nat \X BlockId), IsInjective(m), NEW b
    PROVE  /\ Removed(m, b) \in Seq(Nat \X BlockId) /\ IsInjective(Removed(m, b))
           /\ ToSet(Removed(m, b)) = ToSet(m) \ {<<blocks[b].size, b>>}
BY RemovedEntries DEF Removed

(* Blocks whose places and links are as they were still tile the arena.     *)
LEMMA SameTiled ==
    ASSUME NEW D, NEW bs, NEW f, NEW l, NEW total, Tiled(D, bs, f, l, total),
           NEW new \in [D -> BlockInfo],
           \A c \in D : /\ new[c].offset = bs[c].offset /\ new[c].size = bs[c].size
                        /\ new[c].next = bs[c].next /\ new[c].prev = bs[c].prev
    PROVE  Tiled(D, new, f, l, total)
<1>1. BlockTypes(D, new, f, l, total) /\ f \in D /\ l \in D
  BY DEF Tiled, BlockTypes
<1>2. \A c \in D : EndOf(new, c) = EndOf(bs, c)
  BY DEF EndOf
<1>3. Chained(D, bs, f, l) /\ Adjoining(D, bs, f, l, total) /\ Apart(D, bs)
  BY DEF Tiled
<1>4. Chained(D, new, f, l)
  BY <1>1, <1>3 DEF Chained
<1>5. Adjoining(D, new, f, l, total)
  <2>1. new[f].offset = 0 /\ EndOf(new, l) = total
    BY <1>1, <1>2, <1>3 DEF Adjoining
  <2>2. \A b \in D : b # l => bs[b].next \in D /\ bs[bs[b].next].offset = EndOf(bs, b)
    BY <1>3 DEF Adjoining, Chained
  <2>3. \A b \in D : b # l => new[new[b].next].offset = EndOf(new, b)
    BY <2>2, <1>2
  <2>4. \A b \in D : new[b].size > 0 /\ EndOf(new, b) <= total
    BY <1>2, <1>3 DEF Adjoining
  <2> QED
    BY <2>1, <2>3, <2>4 DEF Adjoining
<1>6. Apart(D, new)
  BY <1>2, <1>3 DEF Apart
<1> QED
  BY <1>1, <1>4, <1>5, <1>6 DEF Tiled

(* A client's offset is at most its alignment beyond the block's.           *)
LEMMA RoundedUp ==
    ASSUME NEW x \in Nat, NEW m \in Nat \ {0}
    PROVE  /\ RoundUpToMultiple(x, m) \in Nat /\ RoundUpToMultiple(x, m) >= x
           /\ RoundUpToMultiple(x, m) < x + m
<1>1. (x + m - 1) \div m \in Nat /\ (x + m - 1) % m \in 0..m - 1
      /\ x + m - 1 = m * ((x + m - 1) \div m) + ((x + m - 1) % m)
  OBVIOUS
<1> DEFINE q == (x + m - 1) \div m
           r == (x + m - 1) % m
<1>2. RoundUpToMultiple(x, m) = q * m
  BY DEF RoundUpToMultiple
<1> HIDE DEF q, r
<1>3. q \in Nat /\ r \in 0..m - 1 /\ x + m - 1 = m * q + r
  BY <1>1 DEF q, r
<1>4. q * m = m * q /\ m * q \in Nat
  BY <1>3
<1> QED
  BY <1>2, <1>3, <1>4

(* The invariant says what the run checks.                                  *)
LEMMA ArenaInvTiles ==
    ASSUME ArenaInv PROVE ArenaIsTiled
<1> DEFINE D == DOMAIN blocks
<1>1. /\ Tiled(D, blocks, first, last, arena_size)
      /\ NoFreeNeighbours(blocks) /\ Listed(size_to_free_blocks, blocks) /\ ClientsInside(blocks)
  BY DEF ArenaInv, ArenaShape
<1>2. first \in D /\ last \in D
  BY <1>1 DEF Tiled, BlockTypes
<1>3. ListCoversArena
  <2>1. /\ blocks[first].prev = Null /\ blocks[first].offset = 0
        /\ blocks[last].next = Null
        /\ blocks[last].offset + blocks[last].size = arena_size
    BY <1>1, <1>2 DEF Tiled, Chained, Adjoining, EndOf
  <2>2. ASSUME NEW b \in D
        PROVE  /\ blocks[b].size > 0
               /\ b = last \/ LET n == blocks[b].next IN
                    /\ n \in D /\ blocks[n].prev = b
                    /\ blocks[n].offset = blocks[b].offset + blocks[b].size
                    /\ blocks[b].allocated \/ blocks[n].allocated
               /\ b = first \/ blocks[b].prev \in D
    <3>1. blocks[b].size > 0
      BY <1>1 DEF Tiled, Adjoining
    <3>2. b = first \/ blocks[b].prev \in D
      BY <1>1 DEF Tiled, Chained
    <3>3. b # last => /\ blocks[b].next \in D /\ blocks[b].next # Null
                      /\ blocks[blocks[b].next].prev = b
                      /\ blocks[blocks[b].next].offset = blocks[b].offset + blocks[b].size
      <4>1. b # last => blocks[b].next # Null
        BY <1>1, Neighbours
      <4>2. blocks[b].next # Null => /\ blocks[b].next \in D /\ blocks[blocks[b].next].prev = b
                                     /\ blocks[blocks[b].next].offset = EndOf(blocks, b)
        BY <1>1, Neighbours
      <4> QED
        BY <4>1, <4>2 DEF EndOf
    <3>4. blocks[b].next # Null => blocks[b].allocated \/ blocks[blocks[b].next].allocated
      BY <1>1 DEF NoFreeNeighbours
    <3> QED
      BY <3>1, <3>2, <3>3, <3>4
  <2> QED
    BY <2>1, <2>2 DEF ListCoversArena
<1>4. MultimapIsFreeBlocks
  BY <1>1 DEF MultimapIsFreeBlocks, Listed, FreeEntries
<1>5. ClientsInsideBlocks
  BY <1>1 DEF ClientsInsideBlocks, ClientsInside, ClientInside
<1> QED
  BY <1>3, <1>4, <1>5 DEF ArenaIsTiled

(* What the invariant says of the list and the multimap, as facts to cite.  *)
LEMMA ShapeFactsOfArena ==
    ASSUME NEW bs, NEW f, NEW l, NEW m, NEW total, ArenaShape(bs, f, l, m, total)
    PROVE  /\ DOMAIN bs \subseteq BlockId /\ bs \in [DOMAIN bs -> BlockInfo]
           /\ f \in DOMAIN bs /\ l \in DOMAIN bs /\ Null \notin DOMAIN bs /\ total \in Nat
           /\ Tiled(DOMAIN bs, bs, f, l, total)
           /\ m \in Seq(Nat \X BlockId) /\ IsInjective(m) /\ ToSet(m) = FreeEntries(bs)
BY ArenaAssumption DEF ArenaShape, Tiled, BlockTypes, Listed

(* At first one free block spans the arena.                                 *)
LEMMA InitArenaInv == InitArena => ArenaInv
<1> SUFFICES ASSUME InitArena PROVE ArenaInv
  OBVIOUS
<1> DEFINE b == Min(BlockId)
           x == FreeBlock(0, ArenaSize, Null, Null)
<1>1. b \in BlockId
  <2>1. BlockId # {}
    <3> SUFFICES ASSUME BlockId = {} PROVE FALSE
      OBVIOUS
    <3>1. IsFiniteSet(BlockId) /\ Cardinality(BlockId) = 0
      BY FS_EmptySet
    <3>2. Max({ArenaSize, MaxArena}) \in Nat
      BY ArenaAssumption, MinMaxOfTwo
    <3> QED
      BY <3>1, <3>2, ArenaAssumption
  <2>2. \E m \in BlockId : \A i \in BlockId : m <= i
    BY <2>1, ArenaAssumption, LeastNatural
  <2> QED
    BY <2>2 DEF Min
<1>2. /\ x \in BlockInfo /\ ~x.allocated
      /\ x.offset = 0 /\ x.size = ArenaSize /\ x.prev = Null /\ x.next = Null
  <2>1. ArenaSize \in Nat
    BY ArenaAssumption
  <2> QED
    BY <2>1 DEF FreeBlock, BlockInfo
<1>3. /\ blocks = [c \in {b} |-> x] /\ first = b /\ last = b
      /\ size_to_free_blocks = <<<<ArenaSize, b>>>> /\ arena_size = ArenaSize
  BY DEF InitArena
<1> HIDE DEF b, x
<1>4. blocks \in [{b} -> BlockInfo] /\ DOMAIN blocks = {b} /\ blocks[b] = x
  BY <1>2, <1>3
<1>5. Tiled(DOMAIN blocks, blocks, first, last, arena_size)
  <2>1. BlockTypes({b}, blocks, b, b, ArenaSize)
    BY <1>1, <1>4, ArenaAssumption DEF BlockTypes
  <2>2. Chained({b}, blocks, b, b)
    BY <1>2, <1>4 DEF Chained
  <2>3. Adjoining({b}, blocks, b, b, ArenaSize)
    BY <1>2, <1>4, ArenaAssumption DEF Adjoining, EndOf
  <2>4. Apart({b}, blocks)
    BY DEF Apart
  <2> QED
    BY <2>1, <2>2, <2>3, <2>4, <1>3, <1>4 DEF Tiled
<1>6. NoFreeNeighbours(blocks)
  BY <1>2, <1>4 DEF NoFreeNeighbours
<1>7. ClientsInside(blocks)
  BY <1>2, <1>4 DEF ClientsInside, ClientInside
<1>8. Listed(size_to_free_blocks, blocks)
  <2>1. FreeEntries(blocks) = {<<ArenaSize, b>>}
    BY <1>2, <1>4 DEF FreeEntries
  <2> DEFINE e == <<ArenaSize, b>>
  <2>2. e \in Nat \X BlockId /\ size_to_free_blocks = <<e>>
    BY <1>1, <1>3, ArenaAssumption
  <2> HIDE DEF e
  <2>3. <<e>> \in Seq(Nat \X BlockId) /\ ToSet(<<e>>) = {e} /\ IsInjective(<<e>>)
    BY <2>2 DEF ToSet, IsInjective
  <2> QED
    BY <2>1, <2>2, <2>3 DEF Listed, e
<1>9. arena_size <= Max({ArenaSize, MaxArena})
  BY <1>3, ArenaAssumption, MinMaxOfTwo
<1> QED
  BY <1>5, <1>6, <1>7, <1>8, <1>9 DEF ArenaInv, ArenaShape

(* alloc: the block found is taken whole, or cut in two.                    *)
LEMMA AllocKeepsInv ==
    ASSUME ArenaInv, NEW r \in Requests, Alloc(r[1], r[2])
    PROVE  ArenaInv'
<1> DEFINE D == DOMAIN blocks
           m == size_to_free_blocks
           use == UseSize(r[1], r[2])
           bytes == Max({r[1], 1})
           fits == {i \in DOMAIN m : m[i][1] >= use}
           b == m[Min(fits)][2]
           old == blocks[b]
           client == RoundUpToMultiple(old.offset, r[2])
           taken == [old EXCEPT !.size = use, !.allocated = TRUE,
                                !.client = client, !.asked = bytes]
           rest == NewId
           x == FreeBlock(old.offset + use, old.size - use, b, old.next)
           bs == [blocks EXCEPT ![b] = taken]
           cut == WithBlock(bs, rest, x)
<1>1. /\ fits # {} /\ arena_size' = arena_size
      /\ \/ /\ old.size = use
            /\ blocks' = bs
            /\ size_to_free_blocks' = Removed(m, b)
            /\ first' = first /\ last' = last
         \/ /\ old.size # use
            /\ blocks' = Link(cut, rest)
            /\ size_to_free_blocks' = Inserted(Removed(m, b), old.size - use, rest)
            /\ Ends(cut, rest)
  BY DEF Alloc
<1>2. /\ ArenaShape(blocks, first, last, m, arena_size)
      /\ arena_size <= Max({ArenaSize, MaxArena})
  BY DEF ArenaInv
<1>3. /\ D \subseteq BlockId /\ blocks \in [D -> BlockInfo]
      /\ first \in D /\ last \in D /\ Null \notin D /\ arena_size \in Nat
      /\ Tiled(D, blocks, first, last, arena_size)
      /\ m \in Seq(Nat \X BlockId) /\ IsInjective(m) /\ ToSet(m) = FreeEntries(blocks)
  BY <1>2, ShapeFactsOfArena
<1>4. r[1] \in Nat /\ r[2] \in Nat \ {0}
  BY ArenaAssumption
<1>5. bytes \in Nat \ {0} /\ use = bytes + r[2]
  BY <1>4, MinMaxOfTwo DEF UseSize
<1>6. b \in D /\ ~old.allocated /\ <<old.size, b>> \in ToSet(m) /\ old.size >= use
  <2>1. fits \in SUBSET Nat /\ fits # {}
    <3>1. fits # {}
      BY <1>1
    <3>2. DOMAIN m = 1..Len(m) /\ Len(m) \in Nat
      BY <1>3
    <3>3. fits \subseteq 1..Len(m)
      BY <3>2
    <3> HIDE DEF fits
    <3> QED
      BY <3>1, <3>2, <3>3
  <2>2. \E i \in fits : \A j \in fits : i <= j
    <3> HIDE DEF fits
    <3> QED
      BY <2>1, LeastNatural
  <2>3. Min(fits) \in fits
    <3> HIDE DEF fits
    <3> QED
      BY <2>2 DEF Min
  <2>4. Min(fits) \in DOMAIN m /\ m[Min(fits)][1] >= use
    BY <2>3
  <2>5. m[Min(fits)] \in ToSet(m)
    BY <2>4 DEF ToSet
  <2>6. PICK c \in D : ~blocks[c].allocated /\ m[Min(fits)] = <<blocks[c].size, c>>
    BY <2>5, <1>3 DEF FreeEntries
  <2>7. b = c /\ m[Min(fits)][1] = blocks[c].size
    BY <2>6
  <2> QED
    BY <2>4, <2>5, <2>6, <2>7
<1> HIDE DEF fits, b, bytes, use
<1>7. /\ old \in BlockInfo /\ old.offset \in Nat /\ old.size \in Nat
      /\ old.prev \in BlockId \cup {Null} /\ old.next \in BlockId \cup {Null}
  BY <1>3, <1>6, BlockFields
<1>8. client \in Nat /\ client >= old.offset /\ client < old.offset + r[2]
  BY <1>4, <1>7, RoundedUp
<1> HIDE DEF client
<1>9. /\ taken \in BlockInfo /\ taken.allocated /\ taken.size = use
      /\ taken.offset = old.offset /\ taken.prev = old.prev /\ taken.next = old.next
      /\ ClientInside(taken)
  <2>1. use \in Nat /\ bytes \in Nat
    BY <1>4, <1>5
  <2>2. taken.client = client /\ taken.asked = bytes
    BY <1>7 DEF BlockInfo
  <2>3. taken \in BlockInfo
    BY <1>7, <1>8, <2>1 DEF BlockInfo
  <2>4. /\ taken.allocated /\ taken.size = use
        /\ taken.offset = old.offset /\ taken.prev = old.prev /\ taken.next = old.next
    BY <1>7 DEF BlockInfo
  <2> HIDE DEF taken
  <2>5. ClientInside(taken)
    BY <2>1, <2>2, <2>4, <1>4, <1>5, <1>7, <1>8 DEF ClientInside
  <2> QED
    BY <2>3, <2>4, <2>5
<1> HIDE DEF taken
<1>10. /\ bs \in [D -> BlockInfo] /\ bs[b] = taken
       /\ \A c \in D \ {b} : bs[c] = blocks[c]
  BY <1>3, <1>6, <1>9
<1>11. /\ Removed(m, b) \in Seq(Nat \X BlockId) /\ IsInjective(Removed(m, b))
       /\ ToSet(Removed(m, b)) = FreeEntries(blocks) \ {<<old.size, b>>}
  BY <1>3, RemovedListed
<1>12. FreeEntries(blocks) \ {<<old.size, b>>}
         = {<<blocks[c].size, c>> : c \in {c \in D \ {b} : ~blocks[c].allocated}}
  BY DEF FreeEntries
<1>13. CASE old.size = use
  <2>1. /\ blocks' = bs /\ size_to_free_blocks' = Removed(m, b)
        /\ first' = first /\ last' = last /\ DOMAIN bs = D
    BY <1>1, <1>10, <1>13
  <2> HIDE DEF bs
  <2>2. \A c \in D : /\ bs[c].offset = blocks[c].offset /\ bs[c].size = blocks[c].size
                     /\ bs[c].next = blocks[c].next /\ bs[c].prev = blocks[c].prev
                     /\ blocks[c].allocated => bs[c].allocated
    BY <1>9, <1>10, <1>13
  <2>3. Tiled(D, bs, first, last, arena_size)
    BY <1>3, <1>10, <2>2, SameTiled
  <2>4. NoFreeNeighbours(bs)
    <3>1. \A c \in D : blocks[c].next # Null =>
                        /\ blocks[c].next \in D
                        /\ blocks[c].allocated \/ blocks[blocks[c].next].allocated
      BY <1>2, <1>3, Neighbours DEF ArenaShape, NoFreeNeighbours
    <3> QED
      BY <2>1, <2>2, <3>1 DEF NoFreeNeighbours
  <2>5. ClientsInside(bs)
    BY <1>2, <1>9, <1>10, <2>1 DEF ArenaShape, ClientsInside
  <2>6. Listed(Removed(m, b), bs)
    <3>1. FreeEntries(bs) = {<<blocks[c].size, c>> : c \in {c \in D \ {b} : ~blocks[c].allocated}}
      BY <1>9, <1>10, <2>1 DEF FreeEntries
    <3> QED
      BY <3>1, <1>11, <1>12 DEF Listed
  <2>7. ArenaShape(bs, first, last, Removed(m, b), arena_size)
    BY <2>1, <2>3, <2>4, <2>5, <2>6 DEF ArenaShape
  <2> QED
    BY <2>1, <2>7, <1>1, <1>2 DEF ArenaInv
<1>14. CASE old.size # use
  <2> DEFINE new == Link(cut, rest)
             E == D \cup {rest}
             m2 == Inserted(Removed(m, b), old.size - use, rest)
             l == IF old.next = Null THEN rest ELSE last
  <2>1. rest \in BlockId /\ rest \notin D /\ rest # Null
    BY <1>2, <1>3, NewIdIsNew, ArenaAssumption
  <2> HIDE DEF rest, bs
  <2>2. /\ old.next # b /\ old.next \in D \cup {Null}
        /\ old.prev # b /\ old.prev \in D \cup {Null}
    BY <1>3, <1>6, Neighbours
  <2>3. /\ old.offset + use \in Nat /\ old.size - use \in Nat \ {0}
    BY <1>4, <1>5, <1>6, <1>7, <1>14
  <2>4. /\ x \in BlockInfo /\ ~x.allocated /\ x.offset = old.offset + use
        /\ x.size = old.size - use /\ x.prev = b /\ x.next = old.next
    <3>1. b \in BlockId \cup {Null}
      BY <1>3, <1>6
    <3> QED
      BY <2>3, <3>1, <1>7 DEF FreeBlock, BlockInfo
  <2> HIDE DEF x
  <2>5. /\ cut \in [E -> BlockInfo] /\ cut[rest] = x /\ \A c \in D : cut[c] = bs[c]
    <3>1. cut = WithBlock(bs, rest, x)
      OBVIOUS
    <3>2. bs \in [D -> BlockInfo] /\ x \in BlockInfo
      BY <2>4, <1>10
    <3> HIDE DEF cut, D
    <3> QED
      BY <2>1, <3>1, <3>2 DEF WithBlock
  <2>6. E \subseteq BlockId /\ DOMAIN cut = E /\ rest \in E
    BY <2>1, <2>5, <1>3
  <2> HIDE DEF cut, E
  <2>7. /\ new \in [E -> BlockInfo]
        /\ \A c \in E :
             /\ new[c].offset = cut[c].offset /\ new[c].size = cut[c].size
             /\ new[c].allocated = cut[c].allocated
             /\ new[c].client = cut[c].client /\ new[c].asked = cut[c].asked
             /\ new[c].next = IF c = b THEN rest ELSE cut[c].next
             /\ new[c].prev = IF c = old.next THEN rest ELSE cut[c].prev
    <3>1. new = Link(cut, rest)
      OBVIOUS
    <3> HIDE DEF new
    <3>2. cut[rest].prev = b /\ cut[rest].next = old.next
      BY <2>4, <2>5
    <3>3. cut[rest].prev # cut[rest].next \/ cut[rest].prev = Null
      BY <2>2, <3>2
    <3>4. LinkedAs(new, E, cut, rest)
      <4>1. cut \in [E -> BlockInfo] /\ E \subseteq BlockId /\ rest \in E
        BY <2>5, <2>6
      <4> QED
        BY ONLY <4>1, <3>1, <3>3, LinkFields
    <3> QED
      BY ONLY <3>2, <3>4 DEF LinkedAs
  <2>8. /\ blocks' = new /\ size_to_free_blocks' = m2 /\ DOMAIN new = E
        /\ first' = first /\ last' = l
    BY <1>1, <1>3, <1>6, <1>14, <2>4, <2>5, <2>7 DEF Ends
  <2> HIDE DEF new
  <2>9. /\ \A c \in E : c = rest \/ c = b \/ c \in D \ {b}
        /\ \A c \in D : c \in E /\ c # rest
    BY <2>1 DEF E
  <2>10. /\ new[rest].offset = old.offset + use /\ new[rest].size = old.size - use
         /\ new[rest].prev = b /\ new[rest].next = old.next /\ ~new[rest].allocated
         /\ new[b].offset = old.offset /\ new[b].size = use
         /\ new[b].prev = old.prev /\ new[b].next = rest /\ new[b].allocated
         /\ new[b].client = taken.client /\ new[b].asked = taken.asked
    <3>1. rest \in E /\ b \in E /\ b \in D /\ rest # b /\ b # old.next /\ rest # old.next
      BY <1>3, <1>6, <2>1, <2>2, <2>6, <2>9
    <3>2. cut[rest] = x /\ cut[b] = taken
      BY <3>1, <2>5, <1>10
    <3> QED
      BY <3>1, <3>2, <1>9, <2>4, <2>7
  <2>11. \A c \in D \ {b} :
           /\ new[c].offset = blocks[c].offset /\ new[c].size = blocks[c].size
           /\ new[c].allocated = blocks[c].allocated
           /\ new[c].client = blocks[c].client /\ new[c].asked = blocks[c].asked
           /\ new[c].next = blocks[c].next
           /\ new[c].prev = IF c = old.next THEN rest ELSE blocks[c].prev
    BY <1>10, <2>5, <2>7, <2>9
  <2>12. Tiled(E, new, first, l, arena_size)
    <3>1. /\ new[rest].offset = EndOf(new, b)
          /\ EndOf(new, rest) = EndOf(blocks, b) + (arena_size - arena_size)
      BY <1>3, <1>4, <1>5, <1>7, <2>10 DEF EndOf
    <3>2. new[b].size > 0 /\ new[rest].size > 0
      BY <1>4, <1>5, <2>3, <2>10
    <3>3. new \in [D \cup {rest} -> BlockInfo]
      BY <2>7 DEF E
    <3>4. BehindAs(new, D, blocks, b, rest, arena_size - arena_size)
      BY <2>10, <2>11, <3>1, <3>2, <3>3 DEF BehindAs
    <3>5. Tiled(D \cup {rest}, new, first, IF blocks[b].next = Null THEN rest ELSE last, arena_size)
      BY ONLY <1>3, <1>6, <2>1, <3>4, InsertedTiled
    <3> QED
      BY <3>5 DEF E
  <2>13. NoFreeNeighbours(new)
    <3>1. \A c \in D : blocks[c].next # Null =>
                        /\ blocks[c].next \in D
                        /\ blocks[c].allocated \/ blocks[blocks[c].next].allocated
      BY <1>2, <1>3, Neighbours DEF ArenaShape, NoFreeNeighbours
    <3>2. \A c \in D : blocks[c].allocated => new[c].allocated
      BY <1>6, <2>11
    <3>3. old.next # Null => old.next \in D /\ new[old.next].allocated
      BY <3>1, <3>2, <1>6
    <3>4. ASSUME NEW c \in E, new[c].next # Null
          PROVE  new[c].allocated \/ new[new[c].next].allocated
      <4>1. CASE c = rest
        BY <3>3, <3>4, <4>1, <2>10
      <4>2. CASE c = b
        BY <4>2, <2>10
      <4>3. CASE c \in D \ {b}
        BY <3>1, <3>2, <3>4, <4>3, <2>11
      <4> QED
        BY <4>1, <4>2, <4>3, <2>9
    <3> QED
      BY <3>4, <2>8 DEF NoFreeNeighbours
  <2>14. ClientsInside(new)
    <3>1. ClientInside(new[rest])
      BY <2>10 DEF ClientInside
    <3>2. ClientInside(new[b])
      BY <2>10, <1>9 DEF ClientInside
    <3>3. \A c \in D \ {b} : ClientInside(blocks[c])
      BY <1>2 DEF ArenaShape, ClientsInside
    <3>4. \A c \in D \ {b} : ClientInside(new[c])
      BY <3>3, <2>11 DEF ClientInside
    <3> QED
      BY <3>1, <3>2, <3>4, <2>8, <2>9 DEF ClientsInside
  <2>15. Listed(m2, new)
    <3> DEFINE F == {<<blocks[c].size, c>> : c \in {c \in D \ {b} : ~blocks[c].allocated}}
               e == <<old.size - use, rest>>
    <3>1. e \notin F
      BY <2>1
    <3>2. FreeEntries(new) = F \cup {e}
      <4>1. \A c \in E : ~new[c].allocated <=> c = rest \/ (c \in D \ {b} /\ ~blocks[c].allocated)
        BY <2>9, <2>10, <2>11
      <4>2. FreeEntries(new) = {<<new[c].size, c>> : c \in {c \in E : ~new[c].allocated}}
        BY <2>8 DEF FreeEntries
      <4>3. {c \in E : ~new[c].allocated} = {c \in D \ {b} : ~blocks[c].allocated} \cup {rest}
        BY <4>1, <2>6, <2>9
      <4> QED
        BY <4>2, <4>3, <2>10, <2>11
    <3>3. /\ m2 \in Seq(Nat \X BlockId) /\ IsInjective(m2)
          /\ ToSet(m2) = ToSet(Removed(m, b)) \cup {e}
      <4> DEFINE r0 == Removed(m, b)
                 s0 == old.size - use
      <4>1. /\ r0 \in Seq(Nat \X BlockId) /\ IsInjective(r0) /\ s0 \in Nat
            /\ <<s0, rest>> \notin ToSet(r0) /\ m2 = Inserted(r0, s0, rest) /\ e = <<s0, rest>>
        BY <3>1, <1>11, <1>12, <2>3
      <4> HIDE DEF r0, s0, m2, e
      <4>2. /\ m2 \in Seq(Nat \X BlockId) /\ IsInjective(m2)
            /\ ToSet(m2) = ToSet(r0) \cup {e}
        BY <4>1, <2>1, InsertedListed
      <4> QED
        BY <4>2 DEF r0
    <3> QED
      BY <3>2, <3>3, <1>11, <1>12 DEF Listed
  <2>16. ArenaShape(new, first, l, m2, arena_size)
    BY <2>8, <2>12, <2>13, <2>14, <2>15 DEF ArenaShape
  <2> QED
    BY <2>8, <2>16, <1>1, <1>2 DEF ArenaInv
<1> QED
  BY <1>13, <1>14

(* A free block in the place of the blocks R, none of whose neighbours is   *)
(* free: what free makes of a block and its free neighbours, and expand of  *)
(* a free last block.                                                       *)
LEMMA JoinedShape ==
    ASSUME NEW bs, NEW f, NEW l, NEW m, NEW total, ArenaShape(bs, f, l, m, total),
           NEW R, NEW lo, NEW hi, Spans(DOMAIN bs, bs, R, lo, hi),
           NEW n \in BlockId, n \notin DOMAIN bs, NEW total2 \in Nat,
           total2 = total \/ (hi = l /\ total2 >= total),
           NEW s \in Nat, bs[lo].offset + s = EndOf(bs, hi) + (total2 - total),
           bs[lo].prev # Null => bs[bs[lo].prev].allocated,
           bs[hi].next # Null => bs[bs[hi].next].allocated,
           NEW m2 \in Seq(Nat \X BlockId), IsInjective(m2),
           ToSet(m2) = {<<bs[c].size, c>> : c \in {c \in DOMAIN bs \ R : ~bs[c].allocated}},
           NEW x, x = FreeBlock(bs[lo].offset, s, bs[lo].prev, bs[hi].next),
           NEW joined, joined = WithBlock([c \in DOMAIN bs \ R |-> bs[c]], n, x)
    PROVE  ArenaShape(Link(joined, n),
                      IF bs[lo].prev = Null THEN n ELSE f, IF bs[hi].next = Null THEN n ELSE l,
                      Inserted(m2, s, n), total2)
<1> DEFINE D == DOMAIN bs
           K == D \ R
           E == K \cup {n}
           kept == [c \in K |-> bs[c]]
           new == Link(joined, n)
           m3 == Inserted(m2, s, n)
           g == IF bs[lo].prev = Null THEN n ELSE f
           k == IF bs[hi].next = Null THEN n ELSE l
<1>1. /\ D \subseteq BlockId /\ bs \in [D -> BlockInfo] /\ Null \notin D /\ n # Null
      /\ Tiled(D, bs, f, l, total) /\ total \in Nat /\ NoFreeNeighbours(bs) /\ ClientsInside(bs)
  BY ShapeFactsOfArena, ArenaAssumption DEF ArenaShape
<1>2. R \subseteq D /\ lo \in R /\ hi \in R /\ lo \in D /\ hi \in D
  BY DEF Spans
<1>3. /\ bs[lo].offset \in Nat /\ bs[lo].prev \in D \cup {Null}
      /\ bs[hi].next \in D \cup {Null}
      /\ bs[lo].prev # Null => bs[bs[lo].prev].next = lo
      /\ bs[hi].next # Null => bs[bs[hi].next].prev = hi
  BY <1>1, <1>2, BlockFields, Neighbours
<1>4. /\ x \in BlockInfo /\ ~x.allocated /\ x.offset = bs[lo].offset /\ x.size = s
      /\ x.prev = bs[lo].prev /\ x.next = bs[hi].next
  <2>1. bs[lo].prev \in BlockId \cup {Null} /\ bs[hi].next \in BlockId \cup {Null}
    BY <1>1, <1>3
  <2> QED
    BY <2>1, <1>3 DEF FreeBlock, BlockInfo
<1>5. bs[lo].prev # bs[hi].next \/ bs[lo].prev = Null
  <2> SUFFICES ASSUME bs[lo].prev = bs[hi].next, bs[lo].prev # Null PROVE FALSE
    OBVIOUS
  <2> DEFINE c == bs[lo].prev
  <2>1. c \in D /\ EndOf(bs, c) = bs[lo].offset /\ bs[c].offset = EndOf(bs, hi)
    BY <1>1, <1>2, <1>3, Neighbours
  <2>2. EndOf(bs, lo) <= EndOf(bs, hi)
    BY <1>2 DEF Spans
  <2>3. \A d \in D : bs[d].offset \in Nat /\ bs[d].size \in Nat
    BY <1>1, BlockFields
  <2>4. bs[c].size > 0
    BY <2>1, <1>1 DEF Tiled, Adjoining
  <2> HIDE DEF c
  <2> QED
    BY <2>1, <2>2, <2>3, <2>4, <1>2 DEF EndOf
<1>6. joined \in [E -> BlockInfo] /\ joined[n] = x /\ \A c \in K : joined[c] = bs[c]
  <2>1. kept \in [K -> BlockInfo] /\ \A c \in K : kept[c] = bs[c]
    BY <1>1
  <2>2. n \notin K /\ joined = WithBlock(kept, n, x)
    OBVIOUS
  <2> HIDE DEF kept, K
  <2> QED
    BY <2>1, <2>2, <1>4 DEF WithBlock
<1>7. E \subseteq BlockId /\ n \in E /\ DOMAIN joined = E
  BY <1>1, <1>6
<1>8. /\ \A c \in E : c = n \/ c \in K
      /\ \A c \in K : c \in E /\ c # n /\ c \in D /\ c \notin R
  BY <1>2
<1>9. /\ new \in [E -> BlockInfo]
      /\ \A c \in E :
           /\ new[c].offset = joined[c].offset /\ new[c].size = joined[c].size
           /\ new[c].allocated = joined[c].allocated
           /\ new[c].client = joined[c].client /\ new[c].asked = joined[c].asked
           /\ new[c].next = IF c = bs[lo].prev THEN n ELSE joined[c].next
           /\ new[c].prev = IF c = bs[hi].next THEN n ELSE joined[c].prev
  <2>1. joined[n].prev = bs[lo].prev /\ joined[n].next = bs[hi].next
    BY <1>4, <1>6
  <2>2. joined[n].prev # joined[n].next \/ joined[n].prev = Null
    BY <2>1, <1>5
  <2>3. joined \in [E -> BlockInfo] /\ E \subseteq BlockId /\ n \in E
    BY <1>6, <1>7
  <2>4. new = Link(joined, n)
    OBVIOUS
  <2> HIDE DEF new, E
  <2>5. LinkedAs(new, E, joined, n)
    BY ONLY <2>2, <2>3, <2>4, LinkFields
  <2> QED
    BY ONLY <2>1, <2>5 DEF LinkedAs
<1>10. DOMAIN new = E
  BY <1>9
<1> HIDE DEF new, E, K
<1>11. /\ new[n].offset = bs[lo].offset /\ new[n].size = s /\ ~new[n].allocated
       /\ new[n].prev = bs[lo].prev /\ new[n].next = bs[hi].next
  <2>1. n # bs[lo].prev /\ n # bs[hi].next
    BY <1>1, <1>3
  <2>2. /\ new[n].offset = x.offset /\ new[n].size = x.size
        /\ new[n].allocated = x.allocated
        /\ new[n].prev = x.prev /\ new[n].next = x.next
    BY ONLY <2>1, <1>6, <1>7, <1>9
  <2> QED
    BY ONLY <2>2, <1>4
<1>12. \A c \in K :
         /\ new[c].offset = bs[c].offset /\ new[c].size = bs[c].size
         /\ new[c].allocated = bs[c].allocated
         /\ new[c].client = bs[c].client /\ new[c].asked = bs[c].asked
         /\ new[c].next = IF c = bs[lo].prev THEN n ELSE bs[c].next
         /\ new[c].prev = IF c = bs[hi].next THEN n ELSE bs[c].prev
  BY ONLY <1>6, <1>8, <1>9
<1>13. Tiled(E, new, g, k, total2)
  <2>1. new \in [(D \ R) \cup {n} -> BlockInfo]
    BY <1>9 DEF E, K
  <2>2. EndOf(new, n) = EndOf(bs, hi) + (total2 - total)
    BY <1>11 DEF EndOf
  <2>3. \A c \in D \ R :
          /\ new[c].offset = bs[c].offset /\ new[c].size = bs[c].size
          /\ new[c].next = IF c = bs[lo].prev THEN n ELSE bs[c].next
          /\ new[c].prev = IF c = bs[hi].next THEN n ELSE bs[c].prev
    BY <1>12 DEF K
  <2>4. JoinedAs(new, D, bs, R, lo, hi, n, total2 - total)
    BY <2>1, <2>2, <2>3, <1>11 DEF JoinedAs
  <2>5. Spans(D, bs, R, lo, hi) /\ n \notin D /\ n \in BlockId /\ total2 \in Nat
        /\ (total2 = total \/ (hi = l /\ total2 >= total))
    OBVIOUS
  <2>6. Tiled((D \ R) \cup {n}, new, g, k, total2)
    BY ONLY <1>1, <2>4, <2>5, JoinedTiled
  <2> QED
    BY <2>6 DEF E, K
<1>14. NoFreeNeighbours(new)
  <2>1. ASSUME NEW c \in E, new[c].next # Null
        PROVE  new[c].allocated \/ new[new[c].next].allocated
    <3>1. CASE c = n
      <4>1. bs[hi].next \in D /\ bs[bs[hi].next].allocated /\ bs[hi].next \notin R
        <5>1. bs[hi].next \in D /\ bs[hi].next # Null /\ bs[bs[hi].next].prev = hi
              /\ bs[bs[hi].next].offset = EndOf(bs, hi)
          BY <2>1, <3>1, <1>1, <1>2, <1>3, <1>11, Neighbours
        <5>2. bs[hi].next \in R => EndOf(bs, bs[hi].next) <= EndOf(bs, hi)
          BY DEF Spans
        <5>3. bs[bs[hi].next].size > 0
          BY <5>1, <1>1 DEF Tiled, Adjoining
        <5>4. bs[bs[hi].next].offset \in Nat /\ bs[bs[hi].next].size \in Nat
          BY <5>1, <1>1, BlockFields
        <5> QED
          BY <5>1, <5>2, <5>3, <5>4 DEF EndOf
      <4>2. bs[hi].next \in K
        BY <4>1 DEF K
      <4> QED
        BY <3>1, <4>1, <4>2, <1>11, <1>12
    <3>2. CASE c \in K /\ c = bs[lo].prev
      <4>1. bs[c].allocated
        BY <3>2, <1>1, <1>8
      <4> QED
        BY <3>2, <4>1, <1>12
    <3>3. CASE c \in K /\ c # bs[lo].prev
      <4>1. new[c].next = bs[c].next /\ bs[c].next # Null /\ c \in D /\ c \notin R
        BY <2>1, <3>3, <1>8, <1>12
      <4>2. bs[c].next \in D /\ bs[bs[c].next].prev = c
            /\ (bs[c].allocated \/ bs[bs[c].next].allocated)
        BY <4>1, <1>1, Neighbours DEF NoFreeNeighbours
      <4>3. bs[c].next \notin R
        <5>1. bs[c].next # lo
          BY <3>3, <4>2
        <5> QED
          BY <5>1, <4>1, <4>2 DEF Spans
      <4>4. bs[c].next \in K
        BY <4>2, <4>3 DEF K
      <4> QED
        BY <3>3, <4>1, <4>2, <4>4, <1>12
    <3> QED
      BY <3>1, <3>2, <3>3, <1>8
  <2> QED
    BY <2>1, <1>10 DEF NoFreeNeighbours
<1>15. ClientsInside(new)
  <2>1. ClientInside(new[n])
    BY <1>11 DEF ClientInside
  <2>2. \A c \in K : ClientInside(bs[c])
    BY <1>1, <1>8 DEF ClientsInside
  <2>3. \A c \in K : ClientInside(new[c])
    BY <2>2, <1>12 DEF ClientInside
  <2> QED
    BY <2>1, <2>3, <1>8, <1>10 DEF ClientsInside
<1>16. Listed(m3, new)
  <2> DEFINE F == {<<bs[c].size, c>> : c \in {c \in K : ~bs[c].allocated}}
             e == <<s, n>>
  <2>1. ToSet(m2) = F
    BY DEF K
  <2>2. e \notin F
    BY <1>8
  <2>3. FreeEntries(new) = F \cup {e}
    <3>1. {c \in E : ~new[c].allocated} = {c \in K : ~bs[c].allocated} \cup {n}
      BY <1>7, <1>8, <1>11, <1>12
    <3>2. FreeEntries(new) = {<<new[c].size, c>> : c \in {c \in E : ~new[c].allocated}}
      BY <1>10 DEF FreeEntries
    <3> QED
      BY <3>1, <3>2, <1>11, <1>12
  <2>4. /\ m3 \in Seq(Nat \X BlockId) /\ IsInjective(m3)
        /\ ToSet(m3) = ToSet(m2) \cup {e}
    <3>1. <<s, n>> \notin ToSet(m2)
      BY <2>1, <2>2
    <3> HIDE DEF F
    <3> QED
      BY <3>1, InsertedListed
  <2> QED
    BY <2>1, <2>3, <2>4 DEF Listed
<1>17. ArenaShape(new, g, k, m3, total2)
  BY <1>10, <1>13, <1>14, <1>15, <1>16 DEF ArenaShape
<1> QED
  BY <1>17 DEF new

(* free: the block alone, or with the free ones before and behind it.       *)
LEMMA FreeKeepsInv ==
    ASSUME ArenaInv, NEW b \in DOMAIN blocks, Free(b)
    PROVE  ArenaInv'
<1> DEFINE D == DOMAIN blocks
           m == size_to_free_blocks
           old == blocks[b]
           left == old.prev # Null /\ ~blocks[old.prev].allocated
           right == old.next # Null /\ ~blocks[old.next].allocated
           lo == IF left THEN old.prev ELSE b
           hi == IF right THEN old.next ELSE b
           size == (IF left THEN blocks[lo].size ELSE 0) + old.size
                   + (IF right THEN blocks[hi].size ELSE 0)
           n == NewId
           R == {lo, b, hi}
           x == FreeBlock(blocks[lo].offset, size, blocks[lo].prev, blocks[hi].next)
           joined == WithBlock([c \in D \ R |-> blocks[c]], n, x)
           m1 == IF left THEN Removed(m, lo) ELSE m
           m2 == IF right THEN Removed(m1, hi) ELSE m1
           y == FreeBlock(old.offset, old.size, old.prev, old.next)
           bs == [blocks EXCEPT ![b] = y]
<1>1. /\ old.allocated /\ arena_size' = arena_size
      /\ \/ /\ ~left /\ ~right /\ blocks' = bs
            /\ size_to_free_blocks' = Inserted(m1, old.size, b)
            /\ first' = first /\ last' = last
         \/ /\ left \/ right
            /\ blocks' = Link(joined, n) /\ Ends(joined, n)
            /\ size_to_free_blocks' = Inserted(m2, size, n)
  BY DEF Free
<1>2. /\ ArenaShape(blocks, first, last, m, arena_size)
      /\ arena_size <= Max({ArenaSize, MaxArena})
  BY DEF ArenaInv
<1>3. /\ D \subseteq BlockId /\ blocks \in [D -> BlockInfo] /\ b \in D
      /\ first \in D /\ last \in D /\ Null \notin D /\ arena_size \in Nat
      /\ Tiled(D, blocks, first, last, arena_size)
      /\ m \in Seq(Nat \X BlockId) /\ IsInjective(m) /\ ToSet(m) = FreeEntries(blocks)
  BY <1>2, ShapeFactsOfArena
<1>4. \A c \in D : /\ blocks[c].offset \in Nat /\ blocks[c].size \in Nat
                   /\ blocks[c].size > 0 /\ blocks[c].allocated \in BOOLEAN
  BY <1>3, BlockFields DEF Tiled, Adjoining
<1>5. \A c \in D : /\ blocks[c].next \in D \cup {Null} /\ blocks[c].prev \in D \cup {Null}
                   /\ blocks[c].next # Null => /\ blocks[blocks[c].next].prev = c
                                               /\ blocks[blocks[c].next].offset = EndOf(blocks, c)
                   /\ blocks[c].prev # Null => /\ blocks[blocks[c].prev].next = c
                                               /\ EndOf(blocks, blocks[c].prev) = blocks[c].offset
  BY <1>3, Neighbours
<1>6. \A c \in D : blocks[c].next # Null =>
                     blocks[c].allocated \/ blocks[blocks[c].next].allocated
  BY <1>2 DEF ArenaShape, NoFreeNeighbours
<1>7. CASE ~left /\ ~right /\ blocks' = bs
  <2>1. /\ size_to_free_blocks' = Inserted(m, old.size, b)
        /\ first' = first /\ last' = last /\ arena_size' = arena_size
    BY <1>1, <1>7
  <2>2. /\ y \in BlockInfo /\ ~y.allocated /\ y.offset = old.offset /\ y.size = old.size
        /\ y.prev = old.prev /\ y.next = old.next
    <3>1. /\ old.offset \in Nat /\ old.size \in Nat
          /\ old.prev \in BlockId \cup {Null} /\ old.next \in BlockId \cup {Null}
      BY <1>3, <1>4, BlockFields
    <3> HIDE DEF old
    <3> QED
      BY <3>1 DEF FreeBlock, BlockInfo
  <2> HIDE DEF y
  <2>3. /\ bs \in [D -> BlockInfo] /\ bs[b] = y /\ \A c \in D \ {b} : bs[c] = blocks[c]
        /\ DOMAIN bs = D
    BY <1>3, <2>2
  <2> HIDE DEF bs
  <2>4. \A c \in D : /\ bs[c].offset = blocks[c].offset /\ bs[c].size = blocks[c].size
                     /\ bs[c].next = blocks[c].next /\ bs[c].prev = blocks[c].prev
    BY <2>2, <2>3
  <2>5. Tiled(D, bs, first, last, arena_size)
    BY <1>3, <2>3, <2>4, SameTiled
  <2>6. NoFreeNeighbours(bs)
    <3>1. ASSUME NEW c \in D, bs[c].next # Null
          PROVE  bs[c].allocated \/ bs[bs[c].next].allocated
      <4>1. bs[c].next = blocks[c].next /\ blocks[c].next \in D
        BY <3>1, <2>4, <1>5
      <4>2. CASE c = b
        <5>1. blocks[b].next # b
          BY <1>3, Neighbours
        <5>2. blocks[blocks[b].next].allocated
          BY <1>7, <3>1, <4>1, <4>2
        <5> QED
          BY <4>1, <4>2, <5>1, <5>2, <2>3
      <4>3. CASE c # b /\ blocks[c].next = b
        <5>1. old.prev = c
          BY <4>1, <4>3, <1>3, <1>5
        <5> QED
          BY <5>1, <4>3, <1>3, <1>7, <2>3
      <4>4. CASE c # b /\ blocks[c].next # b
        BY <3>1, <4>1, <4>4, <1>6, <2>3
      <4> QED
        BY <4>2, <4>3, <4>4
    <3> QED
      BY <3>1, <2>3 DEF NoFreeNeighbours
  <2>7. ClientsInside(bs)
    <3>1. ClientInside(y)
      BY <2>2 DEF ClientInside
    <3> QED
      BY <3>1, <1>2, <2>3 DEF ArenaShape, ClientsInside
  <2>8. Listed(Inserted(m, old.size, b), bs)
    <3>1. <<old.size, b>> \notin FreeEntries(blocks)
      BY <1>1 DEF FreeEntries
    <3>2. FreeEntries(bs) = FreeEntries(blocks) \cup {<<old.size, b>>}
      <4>1. {c \in D : ~bs[c].allocated} = {c \in D : ~blocks[c].allocated} \cup {b}
        BY <1>3, <2>2, <2>3
      <4>2. /\ FreeEntries(bs) = {<<bs[c].size, c>> : c \in {c \in D : ~bs[c].allocated}}
            /\ FreeEntries(blocks) = {<<blocks[c].size, c>> : c \in {c \in D : ~blocks[c].allocated}}
        BY <2>3 DEF FreeEntries
      <4> QED
        BY <4>1, <4>2, <1>3, <2>4
    <3>3. old.size \in Nat /\ b \in BlockId
      BY <1>3, <1>4
    <3>4. /\ Inserted(m, old.size, b) \in Seq(Nat \X BlockId)
          /\ IsInjective(Inserted(m, old.size, b))
          /\ ToSet(Inserted(m, old.size, b)) = ToSet(m) \cup {<<old.size, b>>}
      <4> DEFINE s0 == old.size
      <4>1. s0 \in Nat /\ <<s0, b>> \notin ToSet(m)
        BY <3>1, <3>3, <1>3
      <4> HIDE DEF s0, m
      <4>2. /\ Inserted(m, s0, b) \in Seq(Nat \X BlockId)
            /\ IsInjective(Inserted(m, s0, b))
            /\ ToSet(Inserted(m, s0, b)) = ToSet(m) \cup {<<s0, b>>}
        BY ONLY <4>1, <3>3, <1>3, InsertedListed
      <4> QED
        BY <4>2 DEF s0
    <3> QED
      BY <3>2, <3>4, <1>3 DEF Listed
  <2>9. ArenaShape(bs, first, last, Inserted(m, old.size, b), arena_size)
    BY <2>3, <2>5, <2>6, <2>7, <2>8 DEF ArenaShape
  <2> QED
    BY <2>1, <2>9, <1>2, <1>7 DEF ArenaInv
<1>8. CASE (left \/ right) /\ blocks' = Link(joined, n)
  <2>1. /\ size_to_free_blocks' = Inserted(m2, size, n)
        /\ Ends(joined, n) /\ arena_size' = arena_size
    BY <1>1, <1>8
  <2>2. n \in BlockId /\ n \notin D
    BY <1>2, <1>3, NewIdIsNew
  <2> HIDE DEF n
  <2>3. /\ lo \in D /\ hi \in D
        /\ lo = b \/ (lo = old.prev /\ lo # Null /\ ~blocks[lo].allocated)
        /\ hi = b \/ (hi = old.next /\ hi # Null /\ ~blocks[hi].allocated)
        /\ left <=> lo # b
        /\ right <=> hi # b
    <3>1. /\ b \in D /\ old.prev # b /\ old.next # b
          /\ old.prev \in D \cup {Null} /\ old.next \in D \cup {Null}
      BY <1>3, <1>5, Neighbours
    <3> QED
      BY <3>1
  <2>4. size = (IF lo # b THEN blocks[lo].size ELSE 0) + old.size
               + (IF hi # b THEN blocks[hi].size ELSE 0)
    BY <2>3
  <2>5. /\ m1 = IF lo # b THEN Removed(m, lo) ELSE m
        /\ m2 = IF hi # b THEN Removed(m1, hi) ELSE m1
    BY <2>3
  <2>6. /\ lo # b => EndOf(blocks, lo) = old.offset /\ blocks[lo].next = b /\ blocks[b].prev = lo
        /\ hi # b => EndOf(blocks, b) = blocks[hi].offset /\ blocks[hi].prev = b
                     /\ blocks[b].next = hi
    BY <2>3, <1>3, <1>5
  <2>7. /\ blocks[lo].prev # Null => blocks[blocks[lo].prev].allocated
        /\ blocks[hi].next # Null => blocks[blocks[hi].next].allocated
    <3>1. blocks[lo].prev # Null => blocks[blocks[lo].prev].allocated
      <4>1. CASE lo = b
        <5>1. ~left
          BY <4>1, <2>3
        <5>2. blocks[lo].prev # Null => blocks[blocks[lo].prev].allocated \in BOOLEAN
          BY <2>3, <1>4, <1>5
        <5> QED
          BY <4>1, <5>1, <5>2
      <4>2. CASE lo # b
        BY <4>2, <2>3, <1>5, <1>6
      <4> QED
        BY <4>1, <4>2
    <3>2. blocks[hi].next # Null => blocks[blocks[hi].next].allocated
      <4>1. CASE hi = b
        <5>1. ~right
          BY <4>1, <2>3
        <5>2. blocks[hi].next # Null => blocks[blocks[hi].next].allocated \in BOOLEAN
          BY <2>3, <1>4, <1>5
        <5> QED
          BY <4>1, <5>1, <5>2
      <4>2. CASE hi # b
        BY <4>2, <2>3, <1>6
      <4> QED
        BY <4>1, <4>2
    <3> QED
      BY <3>1, <3>2
  <2> HIDE DEF lo, hi, left, right, size, m1, m2
  <2>8. Spans(D, blocks, R, lo, hi)
    <3>1. R \subseteq D /\ lo \in R /\ hi \in R
      BY <1>3, <2>3
    <3>2. \A c \in R : /\ c # hi => blocks[c].next \in R
                       /\ c # lo => blocks[c].prev \in R
      <4>1. lo # hi => lo # b \/ hi # b
        OBVIOUS
      <4>2. /\ blocks[lo].next \in R \/ lo = hi
            /\ blocks[b].next \in R \/ b = hi
            /\ blocks[hi].prev \in R \/ hi = lo
            /\ blocks[b].prev \in R \/ b = lo
        BY <2>6
      <4>3. lo # b /\ hi = lo => FALSE
        BY <2>3, <2>6, <1>3, <1>4 DEF EndOf
      <4> QED
        BY <4>1, <4>2, <4>3
    <3>3. \A c \in R : blocks[lo].offset <= blocks[c].offset /\ EndOf(blocks, c) <= EndOf(blocks, hi)
      <4>1. /\ blocks[b].offset \in Nat /\ blocks[b].size \in Nat
            /\ blocks[lo].offset \in Nat /\ blocks[lo].size \in Nat
            /\ blocks[hi].offset \in Nat /\ blocks[hi].size \in Nat
        BY <1>3, <1>4, <2>3
      <4>2. blocks[lo].offset <= blocks[b].offset /\ EndOf(blocks, b) <= EndOf(blocks, hi)
        BY <4>1, <2>6 DEF EndOf
      <4>3. blocks[lo].offset <= blocks[hi].offset /\ EndOf(blocks, lo) <= EndOf(blocks, hi)
        BY <4>1, <2>6 DEF EndOf
      <4>4. EndOf(blocks, hi) \in Nat
        BY <4>1 DEF EndOf
      <4> QED
        BY <4>1, <4>2, <4>3, <4>4
    <3>4. ASSUME NEW c \in D \ R
          PROVE  EndOf(blocks, c) <= blocks[lo].offset \/ EndOf(blocks, hi) <= blocks[c].offset
      <4>1. \A d \in R : \/ EndOf(blocks, c) <= blocks[d].offset
                         \/ EndOf(blocks, d) <= blocks[c].offset
        BY <3>1, <1>3 DEF Tiled, Apart
      <4>2. /\ EndOf(blocks, c) <= blocks[lo].offset \/ EndOf(blocks, lo) <= blocks[c].offset
            /\ EndOf(blocks, c) <= blocks[b].offset \/ EndOf(blocks, b) <= blocks[c].offset
            /\ EndOf(blocks, c) <= blocks[hi].offset \/ EndOf(blocks, hi) <= blocks[c].offset
        BY <4>1
      <4>3. /\ blocks[c].offset \in Nat /\ blocks[c].size \in Nat /\ blocks[c].size > 0
            /\ blocks[b].offset \in Nat /\ blocks[b].size \in Nat
            /\ blocks[lo].offset \in Nat /\ blocks[lo].size \in Nat
            /\ blocks[hi].offset \in Nat /\ blocks[hi].size \in Nat
        BY <1>3, <1>4, <2>3
      <4> QED
        BY <4>2, <4>3, <2>6 DEF EndOf
    <3> QED
      BY <3>1, <3>2, <3>3, <3>4 DEF Spans
  <2>9. size \in Nat /\ blocks[lo].offset + size = EndOf(blocks, hi) + (arena_size - arena_size)
    <3>1. /\ blocks[b].offset \in Nat /\ blocks[b].size \in Nat
          /\ blocks[lo].offset \in Nat /\ blocks[lo].size \in Nat
          /\ blocks[hi].offset \in Nat /\ blocks[hi].size \in Nat
      BY <1>3, <1>4, <2>3
    <3>2. EndOf(blocks, hi) + (arena_size - arena_size) = EndOf(blocks, hi)
      BY <3>1, <1>3 DEF EndOf
    <3> QED
      BY <3>1, <3>2, <2>4, <2>6 DEF EndOf
  <2>10. /\ m2 \in Seq(Nat \X BlockId) /\ IsInjective(m2)
         /\ ToSet(m2) = {<<blocks[c].size, c>> : c \in {c \in D \ R : ~blocks[c].allocated}}
    <3> DEFINE el == <<blocks[lo].size, lo>>
               eh == <<blocks[hi].size, hi>>
    <3>1. /\ m1 \in Seq(Nat \X BlockId) /\ IsInjective(m1)
          /\ ToSet(m1) = IF lo # b THEN ToSet(m) \ {el} ELSE ToSet(m)
      BY <2>5, <1>3, RemovedListed
    <3>2. /\ m2 \in Seq(Nat \X BlockId) /\ IsInjective(m2)
          /\ ToSet(m2) = IF hi # b THEN ToSet(m1) \ {eh} ELSE ToSet(m1)
      BY <3>1, <2>5, RemovedListed
    <3>3. FreeEntries(blocks) = {<<blocks[c].size, c>> : c \in {c \in D : ~blocks[c].allocated}}
      BY DEF FreeEntries
    <3>4. <<blocks[b].size, b>> \notin FreeEntries(blocks)
      BY <1>1, <3>3
    <3>5. ToSet(m2) = FreeEntries(blocks) \ {el, <<blocks[b].size, b>>, eh}
      BY <3>1, <3>2, <3>4, <1>3
    <3>6. \A c \in D : <<blocks[c].size, c>> \in {el, <<blocks[b].size, b>>, eh} <=> c \in R
      OBVIOUS
    <3> QED
      BY <3>2, <3>3, <3>5, <3>6
  <2>11. ArenaShape(Link(joined, n),
                    IF blocks[lo].prev = Null THEN n ELSE first,
                    IF blocks[hi].next = Null THEN n ELSE last,
                    Inserted(m2, size, n), arena_size)
    <3>1. x = FreeBlock(blocks[lo].offset, size, blocks[lo].prev, blocks[hi].next)
      OBVIOUS
    <3>2. joined = WithBlock([c \in DOMAIN blocks \ R |-> blocks[c]], n, x)
      OBVIOUS
    <3> HIDE DEF x, joined, R, m
    <3> QED
      BY ONLY <1>2, <1>3, <2>2, <2>7, <2>8, <2>9, <2>10, <3>1, <3>2, JoinedShape
  <2>12. joined[n].prev = blocks[lo].prev /\ joined[n].next = blocks[hi].next
    <3>1. joined[n] = x
      BY DEF WithBlock
    <3> HIDE DEF joined
    <3> QED
      BY <3>1 DEF FreeBlock
  <2>13. /\ first' = IF blocks[lo].prev = Null THEN n ELSE first
         /\ last' = IF blocks[hi].next = Null THEN n ELSE last
    BY <2>1, <2>12 DEF Ends
  <2> QED
    BY <2>1, <2>11, <2>13, <1>2, <1>8 DEF ArenaInv
<1> QED
  BY <1>1, <1>7, <1>8

(* The arena grows by a free block behind an allocated last one.            *)
LEMMA AppendedShape ==
    ASSUME NEW bs, NEW f, NEW l, NEW m, NEW total, ArenaShape(bs, f, l, m, total),
           bs[l].allocated,
           NEW n \in BlockId, n \notin DOMAIN bs, NEW total2 \in Nat, total2 > total,
           NEW x, x = FreeBlock(total, total2 - total, l, Null),
           NEW grown, grown = WithBlock([c \in DOMAIN bs |-> bs[c]], n, x)
    PROVE  ArenaShape(Link(grown, n), f, n, Inserted(m, total2 - total, n), total2)
<1> DEFINE D == DOMAIN bs
           E == D \cup {n}
           new == Link(grown, n)
           s == total2 - total
           m3 == Inserted(m, s, n)
<1>1. /\ D \subseteq BlockId /\ bs \in [D -> BlockInfo] /\ Null \notin D /\ n # Null /\ l \in D
      /\ Tiled(D, bs, f, l, total) /\ total \in Nat /\ NoFreeNeighbours(bs) /\ ClientsInside(bs)
      /\ m \in Seq(Nat \X BlockId) /\ IsInjective(m) /\ ToSet(m) = FreeEntries(bs)
  BY ShapeFactsOfArena, ArenaAssumption DEF ArenaShape
<1>2. \A c \in D : bs[c].offset \in Nat /\ bs[c].size \in Nat /\ bs[c].size > 0
  BY <1>1, BlockFields DEF Tiled, Adjoining
<1>3. bs[l].next = Null /\ EndOf(bs, l) = total
  BY <1>1 DEF Tiled, Chained, Adjoining
<1>4. s \in Nat \ {0}
  BY <1>1
<1>5. /\ x \in BlockInfo /\ ~x.allocated /\ x.offset = total /\ x.size = s
      /\ x.prev = l /\ x.next = Null
  <2>1. l \in BlockId
    BY <1>1
  <2> HIDE DEF s
  <2>2. x = FreeBlock(total, s, l, Null)
    BY DEF s
  <2> QED
    BY <2>1, <2>2, <1>1, <1>4 DEF FreeBlock, BlockInfo
<1>6. grown \in [E -> BlockInfo] /\ grown[n] = x /\ \A c \in D : grown[c] = bs[c]
  <2>1. [c \in D |-> bs[c]] = bs
    BY <1>1
  <2>2. grown = WithBlock(bs, n, x)
    BY <2>1
  <2> QED
    BY <2>2, <1>1, <1>5 DEF WithBlock
<1>7. E \subseteq BlockId /\ n \in E
  BY <1>1
<1>8. /\ \A c \in E : c = n \/ c \in D
      /\ \A c \in D : c \in E /\ c # n /\ c # Null
  BY <1>1
<1>9. /\ new \in [E -> BlockInfo]
      /\ \A c \in E :
           /\ new[c].offset = grown[c].offset /\ new[c].size = grown[c].size
           /\ new[c].allocated = grown[c].allocated
           /\ new[c].client = grown[c].client /\ new[c].asked = grown[c].asked
           /\ new[c].next = IF c = l THEN n ELSE grown[c].next
           /\ new[c].prev = IF c = Null THEN n ELSE grown[c].prev
  <2>1. grown[n].prev = l /\ grown[n].next = Null
    BY <1>5, <1>6
  <2>2. grown[n].prev # grown[n].next \/ grown[n].prev = Null
    BY <2>1, <1>1
  <2>3. grown \in [E -> BlockInfo] /\ E \subseteq BlockId /\ n \in E
    BY <1>6, <1>7
  <2>4. new = Link(grown, n)
    OBVIOUS
  <2> HIDE DEF new, E
  <2>5. LinkedAs(new, E, grown, n)
    BY ONLY <2>2, <2>3, <2>4, LinkFields
  <2> QED
    BY ONLY <2>1, <2>5 DEF LinkedAs
<1>10. DOMAIN new = E
  BY <1>9
<1> HIDE DEF new, E, s
<1>11. /\ new[n].offset = total /\ new[n].size = s /\ ~new[n].allocated
       /\ new[n].prev = l /\ new[n].next = Null
  <2>1. n # l /\ n # Null
    BY <1>1
  <2>2. /\ new[n].offset = x.offset /\ new[n].size = x.size
        /\ new[n].allocated = x.allocated
        /\ new[n].prev = x.prev /\ new[n].next = x.next
    BY ONLY <2>1, <1>6, <1>7, <1>9
  <2> QED
    BY ONLY <2>2, <1>5
<1>12. \A c \in D :
         /\ new[c].offset = bs[c].offset /\ new[c].size = bs[c].size
         /\ new[c].allocated = bs[c].allocated
         /\ new[c].client = bs[c].client /\ new[c].asked = bs[c].asked
         /\ new[c].next = IF c = l THEN n ELSE bs[c].next
         /\ new[c].prev = bs[c].prev
  BY ONLY <1>6, <1>8, <1>9
<1>13. Tiled(E, new, f, n, total2)
  <2>1. new \in [D \cup {n} -> BlockInfo]
    BY <1>9 DEF E
  <2>2. /\ EndOf(new, l) = total
        /\ EndOf(new, n) = EndOf(bs, l) + (total2 - total)
    BY <1>1, <1>3, <1>11, <1>12 DEF EndOf, s
  <2>3. \A c \in D \ {l} : c # bs[l].next
    BY <1>3, <1>8
  <2>4. new[n].size > 0 /\ new[l].size > 0
    BY <1>1, <1>2, <1>4, <1>11, <1>12
  <2>5. BehindAs(new, D, bs, l, n, total2 - total)
    BY <2>1, <2>2, <2>3, <2>4, <1>1, <1>3, <1>11, <1>12 DEF BehindAs
  <2>6. n \notin D /\ n \in BlockId /\ total2 \in Nat
        /\ (total2 = total \/ (l = l /\ total2 >= total))
    BY <1>1
  <2>7. Tiled(D \cup {n}, new, f, IF bs[l].next = Null THEN n ELSE l, total2)
    BY ONLY <1>1, <2>5, <2>6, InsertedTiled
  <2> QED
    BY <2>7, <1>3 DEF E
<1>14. NoFreeNeighbours(new)
  <2>1. ASSUME NEW c \in E, new[c].next # Null
        PROVE  new[c].allocated \/ new[new[c].next].allocated
    <3>1. CASE c = l
      BY <3>1, <1>1, <1>12
    <3>2. CASE c \in D /\ c # l
      <4>1. new[c].next = bs[c].next
        BY <3>2, <1>12
      <4>2. bs[c].next \in D /\ (bs[c].allocated \/ bs[bs[c].next].allocated)
        BY <2>1, <3>2, <4>1, <1>1, Neighbours DEF NoFreeNeighbours
      <4> QED
        BY <3>2, <4>1, <4>2, <1>12
    <3> QED
      BY <2>1, <3>1, <3>2, <1>8, <1>11
  <2> QED
    BY <2>1, <1>10 DEF NoFreeNeighbours
<1>15. ClientsInside(new)
  <2>1. ClientInside(new[n])
    BY <1>11 DEF ClientInside
  <2>2. \A c \in D : ClientInside(bs[c])
    BY <1>1 DEF ClientsInside
  <2>3. \A c \in D : ClientInside(new[c])
    BY <2>2, <1>12 DEF ClientInside
  <2> QED
    BY <2>1, <2>3, <1>8, <1>10 DEF ClientsInside
<1>16. Listed(m3, new)
  <2> DEFINE F == {<<bs[c].size, c>> : c \in {c \in D : ~bs[c].allocated}}
             e == <<s, n>>
  <2>1. ToSet(m) = F
    BY <1>1 DEF FreeEntries
  <2>2. e \notin F
    BY <1>8
  <2>3. FreeEntries(new) = F \cup {e}
    <3>1. {c \in E : ~new[c].allocated} = {c \in D : ~bs[c].allocated} \cup {n}
      BY <1>7, <1>8, <1>11, <1>12
    <3>2. FreeEntries(new) = {<<new[c].size, c>> : c \in {c \in E : ~new[c].allocated}}
      BY <1>10 DEF FreeEntries
    <3> QED
      BY <3>1, <3>2, <1>11, <1>12
  <2>4. /\ m3 \in Seq(Nat \X BlockId) /\ IsInjective(m3)
        /\ ToSet(m3) = ToSet(m) \cup {e}
    <3>1. <<s, n>> \notin ToSet(m)
      BY <2>1, <2>2
    <3> HIDE DEF F
    <3> QED
      BY <3>1, <1>1, <1>4, InsertedListed
  <2> QED
    BY <2>1, <2>3, <2>4 DEF Listed
<1>17. ArenaShape(new, f, n, m3, total2)
  BY <1>10, <1>13, <1>14, <1>15, <1>16 DEF ArenaShape
<1> QED
  BY <1>17 DEF new, s

(* expand: a block behind the last one, or in its place.                    *)
LEMMA ExpandKeepsInv ==
    ASSUME ArenaInv, NEW size \in arena_size..MaxArena, Expand(size)
    PROVE  ArenaInv'
<1> DEFINE D == DOMAIN blocks
           m == size_to_free_blocks
           old == blocks[last]
           n == NewId
<1>1. /\ ArenaShape(blocks, first, last, m, arena_size)
      /\ D \subseteq BlockId /\ blocks \in [D -> BlockInfo]
      /\ first \in D /\ last \in D /\ Null \notin D /\ arena_size \in Nat
      /\ Tiled(D, blocks, first, last, arena_size)
      /\ m \in Seq(Nat \X BlockId) /\ IsInjective(m) /\ ToSet(m) = FreeEntries(blocks)
  BY ShapeFactsOfArena DEF ArenaInv
<1>2. n \in BlockId /\ n \notin D
  BY <1>1, NewIdIsNew DEF ArenaInv
<1>3. size \in Nat /\ size > arena_size /\ arena_size' = size
  BY <1>1, ArenaAssumption DEF Expand
<1>4. size <= Max({ArenaSize, MaxArena})
  BY <1>3, ArenaAssumption, MinMaxOfTwo
<1>5. /\ old.offset \in Nat /\ old.size \in Nat /\ old.next = Null
      /\ old.prev \in D \cup {Null} /\ EndOf(blocks, last) = arena_size
      /\ old.prev # last
  BY <1>1, BlockFields, Neighbours DEF Tiled, Chained, Adjoining
<1>6. CASE old.allocated
  <2> DEFINE x == FreeBlock(arena_size, size - arena_size, last, Null)
             grown == WithBlock([c \in D |-> blocks[c]], n, x)
  <2>1. /\ blocks' = Link(grown, n) /\ Ends(grown, n)
        /\ size_to_free_blocks' = Inserted(m, grown[n].size, n)
    <3>1. D \ {} = D
      OBVIOUS
    <3> QED
      BY <1>6, <3>1 DEF Expand
  <2>2. grown[n] = x
    BY DEF WithBlock
  <2>3. x.size = size - arena_size /\ x.prev = last /\ x.next = Null
    BY DEF FreeBlock
  <2>4. ArenaShape(Link(grown, n), first, n, Inserted(m, size - arena_size, n), size)
    <3>1. x = FreeBlock(arena_size, size - arena_size, last, Null)
      OBVIOUS
    <3>2. grown = WithBlock([c \in DOMAIN blocks |-> blocks[c]], n, x)
      OBVIOUS
    <3> HIDE DEF x, grown, n, m
    <3> QED
      BY ONLY <1>1, <1>2, <1>3, <1>6, <3>1, <3>2, AppendedShape
  <2> HIDE DEF grown
  <2>5. last # Null
    BY <1>1
  <2>6. first' = first /\ last' = n
    BY <2>1, <2>2, <2>3, <2>5 DEF Ends
  <2> QED
    BY <2>1, <2>2, <2>3, <2>4, <2>6, <1>3, <1>4 DEF ArenaInv
<1>7. CASE ~old.allocated
  <2> DEFINE R == {last}
             s == size - old.offset
             x == FreeBlock(old.offset, s, old.prev, Null)
             grown == WithBlock([c \in D \ R |-> blocks[c]], n, x)
             m2 == Removed(m, last)
  <2>1. /\ blocks' = Link(grown, n) /\ Ends(grown, n)
        /\ size_to_free_blocks' = Inserted(m2, grown[n].size, n)
    BY <1>7 DEF Expand
  <2>2. grown[n] = x
    BY DEF WithBlock
  <2>3. x.size = s /\ x.prev = old.prev /\ x.next = Null
    BY DEF FreeBlock
  <2>4. s \in Nat /\ old.offset + s = EndOf(blocks, last) + (size - arena_size)
    <3> HIDE DEF old
    <3>1. /\ old.offset \in Nat /\ old.size \in Nat /\ arena_size \in Nat
          /\ old.offset + old.size = arena_size /\ EndOf(blocks, last) = arena_size
          /\ size \in Nat /\ size > arena_size
      BY <1>1, <1>3, <1>5 DEF EndOf, old
    <3> QED
      BY ONLY <3>1
  <2>5. Spans(D, blocks, R, last, last)
    <3>1. \A c \in D \ R : \/ EndOf(blocks, c) <= blocks[last].offset
                           \/ EndOf(blocks, last) <= blocks[c].offset
      BY <1>1 DEF Tiled, Apart
    <3>2. blocks[last].offset <= blocks[last].offset /\ EndOf(blocks, last) <= EndOf(blocks, last)
      BY <1>1, <1>5
    <3> QED
      BY <3>1, <3>2, <1>1 DEF Spans
  <2>6. old.prev # Null => blocks[old.prev].allocated
    BY <1>1, <1>5, <1>7, Neighbours DEF ArenaShape, NoFreeNeighbours
  <2>7. /\ m2 \in Seq(Nat \X BlockId) /\ IsInjective(m2)
        /\ ToSet(m2) = {<<blocks[c].size, c>> : c \in {c \in D \ R : ~blocks[c].allocated}}
    <3>1. /\ m2 \in Seq(Nat \X BlockId) /\ IsInjective(m2)
          /\ ToSet(m2) = FreeEntries(blocks) \ {<<blocks[last].size, last>>}
      BY <1>1, RemovedListed
    <3>2. FreeEntries(blocks) \ {<<blocks[last].size, last>>}
            = {<<blocks[c].size, c>> : c \in {c \in D \ R : ~blocks[c].allocated}}
      BY DEF FreeEntries
    <3> QED
      BY <3>1, <3>2
  <2>8. ArenaShape(Link(grown, n),
                   IF blocks[last].prev = Null THEN n ELSE first,
                   IF blocks[last].next = Null THEN n ELSE last,
                   Inserted(m2, s, n), size)
    <3>1. x = FreeBlock(blocks[last].offset, s, blocks[last].prev, blocks[last].next)
      BY <1>5
    <3>2. grown = WithBlock([c \in DOMAIN blocks \ R |-> blocks[c]], n, x)
      OBVIOUS
    <3>3. blocks[last].next # Null => blocks[blocks[last].next].allocated
      BY <1>5
    <3>4. size = arena_size \/ (last = last /\ size >= arena_size)
      BY <1>1, <1>3
    <3> HIDE DEF x, grown, n, m, m2, s, R
    <3> QED
      BY ONLY <1>1, <1>2, <1>3, <2>4, <2>5, <2>6, <2>7, <3>1, <3>2, <3>3, <3>4, JoinedShape
  <2> HIDE DEF grown
  <2>9. first' = (IF old.prev = Null THEN n ELSE first) /\ last' = n
    BY <2>1, <2>2, <2>3 DEF Ends
  <2> QED
    BY <2>1, <2>2, <2>3, <2>8, <2>9, <1>3, <1>4, <1>5 DEF ArenaInv
<1> QED
  BY <1>6, <1>7

(* In whatever order blocks are allocated, freed, joined with their free    *)
(* neighbours and the arena expanded, the blocks tile the arena, links and  *)
(* multimap agree with them, no two neighbours are free and clients stay    *)
(* inside their blocks.                                                     *)
THEOREM ArenaStaysTiled == SpecArena => []ArenaIsTiled
<1>1. InitArena => ArenaInv
  BY InitArenaInv
<1>2. ArenaInv /\ [NextArena]_bestFitVars => ArenaInv'
  <2> SUFFICES ASSUME ArenaInv, [NextArena]_bestFitVars PROVE ArenaInv'
    OBVIOUS
  <2>1. CASE \E r \in Requests : Alloc(r[1], r[2])
    BY <2>1, AllocKeepsInv
  <2>2. CASE \E b \in DOMAIN blocks : Free(b)
    BY <2>2, FreeKeepsInv
  <2>3. CASE \E size \in arena_size..MaxArena : Expand(size)
    BY <2>3, ExpandKeepsInv
  <2>4. CASE UNCHANGED bestFitVars
    BY <2>4 DEF bestFitVars, ArenaInv
  <2> QED
    BY <2>1, <2>2, <2>3, <2>4 DEF NextArena
<1>3. ArenaInv => ArenaIsTiled
  BY ArenaInvTiles
<1> QED
  BY <1>1, <1>2, <1>3, PTL DEF SpecArena

-----------------------------------------------------------------------------
(***************************************************************************)
(* What WebSocket::readTo gives its caller, for every size of frame and of *)
(* read: at any point of its loop it knows which frame it is in, how much  *)
(* of it is left and at which place of the key it is.                      *)
(***************************************************************************)
(* The frames of the other end.                                             *)
Received ==
    {[op |-> op, n |-> n, length |-> ProperLength(n), masked |-> masked] :
        op \in FrameOps, n \in FrameSizes, masked \in BOOLEAN}

Counted ==
    /\ wire \in Seq(Received)
    /\ wire_read \in Nat /\ payload_remaining \in Nat
    /\ amount_still_to_read \in Nat /\ got \in Nat
    /\ asked = got + amount_still_to_read

(* Inside a frame the header that was read is that of the first frame on    *)
(* the wire, and control frames are not read in part.                       *)
InFrame ==
    /\ wire # <<>>
    /\ header_opcode = Head(wire).op /\ header_opcode \in Nat
    /\ payload_len = Head(wire).n
    /\ wire_read + payload_remaining = Head(wire).n
    /\ payload_i = wire_read
    /\ header_opcode > Binary => wire_read = 0

(* Between frames nothing of the next one was read.                         *)
Place ==
    /\ need_header_read \in BOOLEAN
    /\ need_header_read => wire_read = 0
    /\ ~need_header_read => InFrame

ReadInv == Counted /\ Place

(* A length is read as it was written.                                      *)
LEMMA LengthIsRead ==
    ASSUME NEW f \in Received
    PROVE  LengthOf(f) = f.n /\ f.n \in Nat /\ f.op \in Nat
BY WebSocketAssumption DEF Received, LengthOf, ProperLength

(* The frame being read.                                                    *)
LEMMA FirstFrame ==
    ASSUME Counted, wire # <<>>
    PROVE  /\ Head(wire) \in Received /\ Tail(wire) \in Seq(Received)
           /\ LengthOf(Head(wire)) = Head(wire).n
           /\ Head(wire).n \in Nat /\ Head(wire).op \in Nat
<1>1. Head(wire) \in Received /\ Tail(wire) \in Seq(Received)
  BY HeadTailProperties DEF Counted
<1> QED
  BY <1>1, LengthIsRead

(* Nothing that the reading depends on changes.                             *)
LEMMA SamePlace ==
    ASSUME ReadInv,
           UNCHANGED <<wire, wire_read, need_header_read, header_opcode, payload_len,
                       payload_remaining, payload_i>>
    PROVE  Place'
<1>1. InFrame => InFrame'
  BY DEF InFrame
<1>2. need_header_read' = need_header_read /\ wire_read' = wire_read
  OBVIOUS
<1>3. Place
  BY DEF ReadInv
<1> QED
  BY ONLY <1>1, <1>2, <1>3, Zenon DEF Place

LEMMA ReceivePlace ==
    ASSUME ReadInv, NEW op \in FrameOps, NEW n \in FrameSizes, NEW masked \in BOOLEAN,
           Receive(op, n, masked)
    PROVE  ReadInv'
<1> DEFINE f == [op |-> op, n |-> n, length |-> ProperLength(n), masked |-> masked]
<1>1. f \in Received /\ wire \in Seq(Received)
  BY DEF Received, ReadInv, Counted
<1>2. wire' = Append(wire, f)
  BY DEF Receive
<1>3. UNCHANGED <<wire_read, need_header_read, header_opcode, payload_len, payload_remaining,
                  payload_i, amount_still_to_read, got, asked>>
  BY DEF Receive
<1> HIDE DEF f
<1>4. wire' \in Seq(Received) /\ (wire # <<>> => wire' # <<>> /\ Head(wire') = Head(wire))
  BY <1>1, <1>2
<1>5. Counted'
  BY <1>3, <1>4 DEF ReadInv, Counted
<1>6. InFrame => InFrame'
  BY <1>3, <1>4 DEF InFrame
<1>7. need_header_read' = need_header_read /\ wire_read' = wire_read
  BY <1>3
<1> QED
  BY <1>5, <1>6, <1>7, Zenon DEF ReadInv, Place

LEMMA ReadHeaderPlace ==
    ASSUME ReadInv, ReadHeader
    PROVE  ReadInv'
<1>1. Counted /\ wire_read = 0 /\ wire # <<>>
  BY Zenon DEF ReadInv, Place, ReadHeader, Reading
<1>2. /\ UNCHANGED <<wire, wire_read, amount_still_to_read, got, asked>>
      /\ header_opcode' = Head(wire).op
      /\ payload_len' = LengthOf(Head(wire)) /\ payload_remaining' = payload_len'
      /\ payload_i' = 0
  BY Zenon DEF ReadHeader
<1>3. Counted'
  BY <1>1, <1>2, FirstFrame DEF Counted
<1>4. InFrame'
  BY <1>1, <1>2, FirstFrame DEF InFrame
<1>5. need_header_read' = FALSE
  BY DEF ReadHeader
<1> QED
  BY <1>3, <1>4, <1>5 DEF ReadInv, Place

(* Reading on in a frame keeps the place in it; its end is the end of the   *)
(* frame.                                                                   *)
LEMMA ReadPayloadPlace ==
    ASSUME ReadInv, ReadPayload
    PROVE  ReadInv'
<1> DEFINE n == Min({payload_remaining, amount_still_to_read})
           len == Head(wire).n
<1>1. Counted /\ InFrame /\ header_opcode <= Binary
  BY Zenon DEF ReadInv, Place, ReadPayload
<1>2. /\ Head(wire) \in Received /\ Tail(wire) \in Seq(Received) /\ len \in Nat
  BY <1>1, FirstFrame DEF InFrame
<1>3. /\ wire' = IF wire_read + n < len THEN wire ELSE Tail(wire)
      /\ wire_read' = IF wire_read + n < len THEN wire_read + n ELSE 0
      /\ got' = IF InPlace(n) /\ got # Garbled THEN got + n ELSE Garbled
      /\ payload_i' = payload_i + n
      /\ payload_remaining' = payload_remaining - n
      /\ amount_still_to_read' = amount_still_to_read - n
      /\ header_opcode' = header_opcode /\ payload_len' = payload_len /\ asked' = asked
  BY Zenon DEF ReadPayload, Take
<1>4. need_header_read' = (payload_remaining' = 0)
  BY Zenon DEF ReadPayload
<1>5. n \in Nat /\ n <= payload_remaining /\ n <= amount_still_to_read
  <2>1. payload_remaining \in Nat /\ amount_still_to_read \in Nat
    BY <1>1 DEF Counted
  <2>2. n = IF payload_remaining <= amount_still_to_read THEN payload_remaining
            ELSE amount_still_to_read
    BY <2>1, MinMaxOfTwo
  <2> QED
    BY <2>1, <2>2
<1>6. wire_read + payload_remaining = len /\ payload_i = wire_read
  BY <1>1 DEF InFrame
<1> HIDE DEF n
<1>7. InPlace(n)
  BY <1>1, <1>5, <1>6 DEF InPlace, Counted
<1>8. got' = got + n
  BY <1>1, <1>3, <1>7 DEF Counted, Garbled
<1>9. payload_remaining' = 0 <=> ~(wire_read + n < len)
  BY <1>1, <1>2, <1>3, <1>5, <1>6 DEF Counted
<1>10. Counted'
  <2>1. /\ payload_remaining' \in Nat /\ amount_still_to_read' \in Nat /\ got' \in Nat
        /\ asked' = got' + amount_still_to_read'
    <3>1. /\ payload_remaining \in Nat /\ amount_still_to_read \in Nat /\ got \in Nat
          /\ asked = got + amount_still_to_read
      BY <1>1 DEF Counted
    <3>2. /\ payload_remaining' = payload_remaining - n
          /\ amount_still_to_read' = amount_still_to_read - n
          /\ got' = got + n /\ asked' = asked
      BY <1>3, <1>8
    <3> QED
      BY ONLY <3>1, <3>2, <1>5
  <2>2. wire' \in Seq(Received) /\ wire_read' \in Nat
    BY <1>1, <1>2, <1>3, <1>5 DEF Counted
  <2> QED
    BY <2>1, <2>2 DEF Counted
<1>11. CASE wire_read + n < len
  <2>1. InFrame'
    BY <1>1, <1>2, <1>3, <1>5, <1>6, <1>11 DEF InFrame, Counted, Binary
  <2>2. need_header_read' = FALSE
    BY <1>4, <1>9, <1>11
  <2> QED
    BY <1>10, <2>1, <2>2 DEF ReadInv, Place
<1>12. CASE ~(wire_read + n < len)
  <2>1. need_header_read' = TRUE /\ wire_read' = 0
    BY <1>3, <1>4, <1>9, <1>12
  <2> QED
    BY <1>10, <2>1 DEF ReadInv, Place
<1> QED
  BY <1>11, <1>12

(* A ping is taken from the wire whole.                                     *)
LEMMA AnswerPingPlace ==
    ASSUME ReadInv, AnswerPing
    PROVE  ReadInv'
<1>1. Counted /\ InFrame /\ header_opcode = Ping
  BY DEF ReadInv, Place, AnswerPing
<1>2. /\ Tail(wire) \in Seq(Received)
      /\ wire_read = 0 /\ payload_len = Head(wire).n /\ Head(wire).n \in Nat
  BY <1>1, FirstFrame DEF InFrame, Ping, Binary
<1>3. Take(payload_len) /\ UNCHANGED <<payload_remaining, amount_still_to_read, got, asked>>
  BY DEF AnswerPing
<1>4. wire' = Tail(wire) /\ wire_read' = 0
  BY <1>2, <1>3 DEF Take
<1>5. Counted'
  BY <1>1, <1>2, <1>3, <1>4 DEF Counted
<1>6. need_header_read' = TRUE
  BY DEF AnswerPing
<1> QED
  BY <1>4, <1>5, <1>6 DEF ReadInv, Place

(* However calls of readTo cut the frames, and whatever pings lie between   *)
(* them, each call gives the bytes that follow those given before, each     *)
(* unmasked at the place of the key it was masked at.                       *)
THEOREM StreamIsRead == SpecSocket => []StreamIsWhatWasWritten
<1>1. InitSocket => ReadInv
  BY DEF InitSocket, ReadInv, Counted, Place
<1>2. ReadInv /\ [NextSocket]_wsVars => ReadInv'
  <2> SUFFICES ASSUME ReadInv, [NextSocket]_wsVars PROVE ReadInv'
    OBVIOUS
  <2>1. ASSUME NEW n \in ReadSizes, ReadTo(n)
        PROVE  ReadInv'
    <3>1. Counted'
      BY <2>1, WebSocketAssumption DEF ReadTo, ReadInv, Counted
    <3> QED
      BY <2>1, <3>1, SamePlace DEF ReadTo, ReadInv
  <2>2. CASE Throw \/ Flush \/ UNCHANGED wsVars \/ \E n \in WriteSizes : Write(n)
    <3>1. UNCHANGED <<wire, wire_read, need_header_read, header_opcode, payload_len,
                      payload_remaining, payload_i, amount_still_to_read, got, asked>>
      BY <2>2, Zenon DEF Throw, Flush, Write, wsVars, readVars
    <3>2. Counted'
      BY <3>1 DEF ReadInv, Counted
    <3> QED
      BY <3>1, <3>2, SamePlace DEF ReadInv
  <2> QED
    BY <2>1, <2>2, ReceivePlace, ReadHeaderPlace, ReadPayloadPlace, AnswerPingPlace DEF NextSocket
<1>3. ReadInv => StreamIsWhatWasWritten
  BY DEF ReadInv, Counted, StreamIsWhatWasWritten
<1> QED
  BY <1>1, <1>2, <1>3, PTL DEF SpecSocket

-----------------------------------------------------------------------------
(***************************************************************************)
(* The hash map.  A table is kept on which every item is in reach of its   *)
(* own bucket: no bucket between the two is empty.  Then find, which stops *)
(* at an empty bucket, finds what is there, and each operation is shown to *)
(* keep the table and to do to its content what FiniteMap says.            *)
(***************************************************************************)
(* The steps from bucket x of n to bucket y, around the end, and the bucket *)
(* d steps after x.                                                         *)
Dist(n, x, y)  == IF y >= x THEN y - x ELSE y - x + n
Ahead(n, x, d) == IF x + d < n THEN x + d ELSE x + d - n

(* A bucket's contents; whether bucket x is filled; the keys stored; k's    *)
(* own bucket.                                                              *)
Entry  == [key : HashKey \cup {EmptyKey}, value : Value \cup {Missing}]
Filled(b, x) == KeyAt(b, x) # EmptyKey
Stored(b) == {b[i].key : i \in 1..Len(b)} \ {EmptyKey}
Home(f, n, k) == f[k] % n

(* No key is in two buckets.                                                *)
IsDistinct(b) == \A x, y \in 0..Len(b) - 1 : Filled(b, x) /\ KeyAt(b, x) = KeyAt(b, y) => x = y

(* The buckets from an item's own to where it is are filled.                *)
IsReached(f, b) ==
    \A x, y \in 0..Len(b) - 1 :
        /\ Filled(b, x)
        /\ Dist(Len(b), Home(f, Len(b), KeyAt(b, x)), y)
             < Dist(Len(b), Home(f, Len(b), KeyAt(b, x)), x)
        => Filled(b, y)

(* A table for the hash function f: some bucket is empty.                   *)
IsTable(f, b) ==
    /\ b \in Seq(Entry) /\ Len(b) # 0
    /\ \A x \in 0..Len(b) - 1 : Filled(b, x) => b[x + 1].value \in Value
    /\ IsDistinct(b)
    /\ IsReached(f, b)
    /\ Cardinality(Stored(b)) < Len(b)

(* The value under each key, wherever in the table it is.                   *)
Content(b) ==
    [k \in HashKey |->
        IF \E x \in 0..Len(b) - 1 : KeyAt(b, x) = k
        THEN b[(CHOOSE x \in 0..Len(b) - 1 : KeyAt(b, x) = k) + 1].value
        ELSE Missing]

(* Buckets around the end.                                                  *)
LEMMA RemainderOfSum ==
    ASSUME NEW n \in Nat \ {0}, NEW a \in 0..2 * n - 1
    PROVE  a % n = IF a < n THEN a ELSE a - n
<1>1. CASE a < n
  BY <1>1
<1>2. CASE a >= n
  <2>1. a \div n \in Nat /\ a % n \in 0..n - 1 /\ a = n * (a \div n) + (a % n)
    OBVIOUS
  <2> DEFINE q == a \div n
  <2> HIDE DEF q
  <2>2. q \in Nat /\ a = n * q + (a % n) /\ a % n \in 0..n - 1
    BY <2>1 DEF q
  <2>3. q # 0
    BY <2>2, <1>2
  <2>4. q < 2
    <3> SUFFICES ASSUME q >= 2 PROVE FALSE
      BY <2>2
    <3>1. n * q >= n * 2
      BY <2>2
    <3> QED
      BY <3>1, <2>2
  <2>5. q = 1
    BY <2>2, <2>3, <2>4
  <2> QED
    BY <2>2, <2>5, <1>2
<1> QED
  BY <1>1, <1>2

LEMMA AheadIs ==
    ASSUME NEW n \in Nat \ {0}, NEW x \in 0..n - 1, NEW d \in 0..n - 1
    PROVE  /\ (x + d) % n = Ahead(n, x, d)
           /\ Ahead(n, x, d) \in 0..n - 1
           /\ Dist(n, x, Ahead(n, x, d)) = d
<1>1. \A a \in 0..2 * n - 1 : a % n = IF a < n THEN a ELSE a - n
  BY RemainderOfSum
<1>2. x + d \in 0..2 * n - 1
  OBVIOUS
<1>3. (x + d) % n = IF x + d < n THEN x + d ELSE x + d - n
  BY ONLY <1>1, <1>2
<1> QED
  BY <1>3 DEF Ahead, Dist

LEMMA DistIs ==
    ASSUME NEW n \in Nat \ {0}, NEW x \in 0..n - 1, NEW y \in 0..n - 1
    PROVE  /\ Dist(n, x, y) \in 0..n - 1
           /\ Ahead(n, x, Dist(n, x, y)) = y
BY DEF Ahead, Dist

LEMMA HomeIs ==
    ASSUME NEW f \in Hashes, NEW n \in Nat \ {0}, NEW k \in HashKey
    PROVE  Home(f, n, k) \in 0..n - 1
<1>1. f[k] \in Nat
  BY MapAssumption
<1> QED
  BY <1>1 DEF Home

(* The shape of a table, as the leaves below need it.                       *)
LEMMA TableShape ==
    ASSUME NEW b \in Seq(Entry), NEW n, n = Len(b), n # 0
    PROVE  /\ n \in Nat \ {0} /\ DOMAIN b = 1..n
           /\ \A x \in 0..n - 1 : /\ x + 1 \in 1..n
                                  /\ b[x + 1] \in Entry
                                  /\ b[x + 1] = [key |-> b[x + 1].key, value |-> b[x + 1].value]
                                  /\ b[x + 1].key = KeyAt(b, x)
                                  /\ b[x + 1].value \in Value \cup {Missing}
                                  /\ Filled(b, x) => KeyAt(b, x) \in HashKey
           /\ \A i \in 1..n : i - 1 \in 0..n - 1 /\ b[i].key = KeyAt(b, i - 1)
<1>1. n \in Nat \ {0} /\ DOMAIN b = 1..n
  OBVIOUS
<1>2. ASSUME NEW x \in 0..n - 1
      PROVE  x + 1 \in 1..n /\ b[x + 1] \in Entry
  <2>1. x + 1 \in 1..n
    BY <1>1
  <2> QED
    BY <2>1, <1>1
<1>3. \A e \in Entry : /\ e = [key |-> e.key, value |-> e.value]
                       /\ e.value \in Value \cup {Missing}
                       /\ e.key \in HashKey \cup {EmptyKey}
  BY DEF Entry
<1>4. \A i \in 1..n : i - 1 \in 0..n - 1 /\ (i - 1) + 1 = i
  BY <1>1
<1> QED
  BY <1>1, <1>2, <1>3, <1>4 DEF KeyAt, Filled

(* The keys of a table are in as many buckets as there are keys.            *)
LEMMA StoredIs ==
    ASSUME NEW b \in Seq(Entry), Len(b) # 0, IsDistinct(b)
    PROVE  /\ IsFiniteSet(Stored(b))
           /\ Stored(b) = {KeyAt(b, x) : x \in 0..Len(b) - 1} \ {EmptyKey}
           /\ Stored(b) \in SUBSET HashKey
           /\ Cardinality({i \in DOMAIN b : b[i].key # EmptyKey}) = Cardinality(Stored(b))
<1> DEFINE n == Len(b)
           I == {i \in 1..n : b[i].key # EmptyKey}
           g == [i \in I |-> b[i].key]
<1>1. /\ n \in Nat \ {0} /\ DOMAIN b = 1..n
      /\ \A x \in 0..n - 1 : x + 1 \in 1..n /\ b[x + 1].key = KeyAt(b, x)
                             /\ (Filled(b, x) => KeyAt(b, x) \in HashKey)
      /\ \A i \in 1..n : i - 1 \in 0..n - 1 /\ b[i].key = KeyAt(b, i - 1)
  BY TableShape
<1>2. IsFiniteSet(I)
  <2>1. IsFiniteSet(1..n)
    BY <1>1, FS_Interval
  <2> QED
    BY <2>1, FS_Subset
<1>3. g \in Bijection(I, Stored(b))
  <2>1. \A i, j \in I : b[i].key = b[j].key => i = j
    <3> SUFFICES ASSUME NEW i \in I, NEW j \in I, b[i].key = b[j].key PROVE i = j
      OBVIOUS
    <3>1. i - 1 \in 0..n - 1 /\ j - 1 \in 0..n - 1 /\ i \in Int /\ j \in Int
          /\ KeyAt(b, i - 1) = KeyAt(b, j - 1) /\ Filled(b, i - 1)
      BY <1>1 DEF Filled
    <3>2. i - 1 = j - 1
      BY <3>1 DEF IsDistinct
    <3> QED
      BY <3>1, <3>2
  <2>2. \A k \in Stored(b) : \E i \in I : b[i].key = k
    BY DEF Stored
  <2>3. \A i \in I : b[i].key \in Stored(b)
    BY DEF Stored
  <2>4. g \in Injection(I, Stored(b))
    BY <2>1, <2>3 DEF Injection, IsInjective
  <2>5. g \in Surjection(I, Stored(b))
    BY <2>2, <2>3 DEF Surjection
  <2> QED
    BY <2>4, <2>5 DEF Bijection
<1>4. IsFiniteSet(Stored(b)) /\ Cardinality(Stored(b)) = Cardinality(I)
  <2>1. ExistsBijection(I, Stored(b))
    BY <1>3 DEF ExistsBijection
  <2> QED
    BY <1>2, <2>1, FS_Bijection
<1>5. Stored(b) = {KeyAt(b, x) : x \in 0..n - 1} \ {EmptyKey}
  <2>1. \A k : (\E i \in 1..n : k = b[i].key) <=> (\E x \in 0..n - 1 : k = KeyAt(b, x))
    BY <1>1
  <2> QED
    BY <2>1 DEF Stored
<1>6. Stored(b) \in SUBSET HashKey
  BY <1>1, <1>5 DEF Filled
<1> QED
  BY <1>1, <1>4, <1>5, <1>6

LEMMA SomeEmpty ==
    ASSUME NEW f, NEW b, IsTable(f, b)
    PROVE  \E x \in 0..Len(b) - 1 : ~Filled(b, x)
<1> SUFFICES ASSUME \A x \in 0..Len(b) - 1 : Filled(b, x) PROVE FALSE
  OBVIOUS
<1> DEFINE n == Len(b)
<1>1. b \in Seq(Entry) /\ n \in Nat \ {0} /\ IsDistinct(b) /\ Cardinality(Stored(b)) < n
      /\ DOMAIN b = 1..n
  BY DEF IsTable
<1>2. Cardinality({i \in DOMAIN b : b[i].key # EmptyKey}) = Cardinality(Stored(b))
  BY <1>1, StoredIs
<1>3. \A i \in 1..n : i - 1 \in 0..n - 1 /\ b[i].key = KeyAt(b, i - 1)
  BY <1>1, TableShape
<1>4. {i \in DOMAIN b : b[i].key # EmptyKey} = 1..n
  BY <1>1, <1>3 DEF Filled
<1>5. Cardinality(1..n) = n
  BY <1>1, FS_Interval
<1>6. Cardinality({i \in DOMAIN b : b[i].key # EmptyKey}) = n
  BY <1>4, <1>5
<1> HIDE DEF n
<1>7. n < n
  BY <1>1, <1>2, <1>6
<1> QED
  BY <1>1, <1>7

(* The search for k stops at k's bucket, or, if it is in none, at an empty  *)
(* one; all the buckets it passes are filled, and none with k.              *)
LEMMA SearchEnds ==
    ASSUME hash_func \in Hashes, NEW b, IsTable(hash_func, b), NEW k \in HashKey
    PROVE  LET n == Len(b)
               p == Probe(b, k)
               h == Home(hash_func, n, k)
           IN  /\ p \in 0..n - 1 /\ h \in 0..n - 1
               /\ KeyAt(b, p) \in {k, EmptyKey}
               /\ \A x \in 0..n - 1 : Dist(n, h, x) < Dist(n, h, p) => Filled(b, x)
               /\ \A x \in 0..n - 1 : KeyAt(b, x) = k => x = p
               /\ IsIn(b, k) <=> k \in Stored(b)
               /\ ~IsIn(b, k) => ~Filled(b, p)
<1> DEFINE n == Len(b)
           h == Home(hash_func, n, k)
           At(i) == Ahead(n, h, i)
           D == {i \in 0..n - 1 : KeyAt(b, At(i)) \in {k, EmptyKey}}
<1>1. /\ b \in Seq(Entry) /\ n \in Nat \ {0} /\ IsDistinct(b) /\ IsReached(hash_func, b)
  BY DEF IsTable
<1>2. h \in 0..n - 1
  BY <1>1, HomeIs
<1>3. \A i \in 0..n - 1 : /\ Bucket(b, h, i) = At(i) /\ At(i) \in 0..n - 1
                          /\ Dist(n, h, At(i)) = i
  BY <1>1, <1>2, AheadIs DEF Bucket
<1>4. \A x \in 0..n - 1 : Dist(n, h, x) \in 0..n - 1 /\ At(Dist(n, h, x)) = x
  BY <1>1, <1>2, DistIs
<1>5. k # EmptyKey
  BY MapAssumption
<1>6. h = hashKey(b, k)
  BY DEF Home, hashKey
<1> HIDE DEF h, n, At
<1>7. D # {} /\ D \in SUBSET Nat
  <2>1. PICK x \in 0..n - 1 : ~Filled(b, x)
    BY SomeEmpty DEF n
  <2>2. Dist(n, h, x) \in D
    BY <2>1, <1>4 DEF Filled
  <2> QED
    BY <2>2, <1>1
<1> DEFINE m == Min(D)
<1>8. m \in D /\ \A i \in D : m <= i
  <2>1. \E i \in D : \A j \in D : i <= j
    BY <1>7, LeastNatural
  <2> QED
    BY <2>1 DEF Min
<1>9. D = {i \in 0..n - 1 : KeyAt(b, Bucket(b, h, i)) \in {k, EmptyKey}}
  BY <1>3
<1> DEFINE p == Probe(b, k)
<1>10. p = At(m)
  <2>1. p = Bucket(b, h, m)
    BY <1>6, <1>9 DEF Probe, n
  <2> QED
    BY <2>1, <1>3, <1>8
<1> HIDE DEF m
<1>11. p \in 0..n - 1 /\ KeyAt(b, p) \in {k, EmptyKey} /\ Dist(n, h, p) = m
  BY <1>3, <1>8, <1>10
<1> HIDE DEF p, D
<1>12. ASSUME NEW x \in 0..n - 1, Dist(n, h, x) < Dist(n, h, p)
       PROVE  Filled(b, x) /\ KeyAt(b, x) # k
  <2>1. Dist(n, h, x) \notin D
    <3>1. Dist(n, h, x) \in Nat /\ m \in Nat
      BY <1>4, <1>11, <1>1
    <3> QED
      BY <3>1, <1>8, <1>11, <1>12
  <2> QED
    BY <2>1, <1>4 DEF D, Filled
<1>13. ASSUME NEW x \in 0..n - 1, KeyAt(b, x) = k
       PROVE  x = p
  <2>1. Dist(n, h, x) \in Int /\ Dist(n, h, p) \in Int
    BY <1>4, <1>11
  <2>2. ~(Dist(n, h, x) < Dist(n, h, p))
    BY <1>12, <1>13
  <2>3. CASE Dist(n, h, x) = Dist(n, h, p)
    BY <2>3, <1>4, <1>11
  <2>4. CASE Dist(n, h, p) < Dist(n, h, x)
    <3>1. Filled(b, x) /\ h = Home(hash_func, n, KeyAt(b, x))
      BY <1>13, <1>5 DEF Filled, h
    <3>2. Filled(b, p)
      BY <3>1, <2>4, <1>1, <1>11 DEF IsReached, n
    <3>3. KeyAt(b, p) = KeyAt(b, x)
      BY <3>2, <1>11, <1>13 DEF Filled
    <3> QED
      BY <3>1, <3>3, <1>1, <1>11 DEF IsDistinct, n
  <2> QED
    BY <2>1, <2>2, <2>3, <2>4
<1>14. Stored(b) = {KeyAt(b, x) : x \in 0..n - 1} \ {EmptyKey}
  BY <1>1, StoredIs DEF n
<1>15. IsIn(b, k) <=> k \in Stored(b)
  BY <1>5, <1>11, <1>13, <1>14 DEF IsIn, p
<1>16. ~IsIn(b, k) => ~Filled(b, p)
  BY <1>11 DEF IsIn, Filled, p
<1>17. /\ p \in 0..n - 1 /\ h \in 0..n - 1
       /\ KeyAt(b, p) \in {k, EmptyKey}
       /\ \A x \in 0..n - 1 : Dist(n, h, x) < Dist(n, h, p) => Filled(b, x)
       /\ \A x \in 0..n - 1 : KeyAt(b, x) = k => x = p
       /\ IsIn(b, k) <=> k \in Stored(b)
       /\ ~IsIn(b, k) => ~Filled(b, p)
  BY <1>2, <1>11, <1>12, <1>13, <1>15, <1>16
<1> QED
  BY <1>17 DEF n, h, p

(* What a table holds, read off its buckets.                                *)
LEMMA ContentIs ==
    ASSUME NEW b \in Seq(Entry), IsDistinct(b), Len(b) # 0
    PROVE  /\ Content(b) = [k \in HashKey |-> Content(b)[k]]
           /\ \A x \in 0..Len(b) - 1 : Filled(b, x) =>
                KeyAt(b, x) \in HashKey /\ Content(b)[KeyAt(b, x)] = b[x + 1].value
           /\ \A k \in HashKey : k \notin Stored(b) => Content(b)[k] = Missing
<1> DEFINE n == Len(b)
<1>1. Content(b) = [k \in HashKey |-> Content(b)[k]]
  BY DEF Content
<1>2. ASSUME NEW x \in 0..n - 1, Filled(b, x)
      PROVE  KeyAt(b, x) \in HashKey /\ Content(b)[KeyAt(b, x)] = b[x + 1].value
  <2> DEFINE k == KeyAt(b, x)
             y == CHOOSE y \in 0..n - 1 : KeyAt(b, y) = k
  <2>1. k \in HashKey
    BY <1>2, TableShape
  <2>2. y \in 0..n - 1 /\ KeyAt(b, y) = k
    OBVIOUS
  <2>3. x = y
    BY <2>2, <1>2 DEF IsDistinct
  <2>4. Content(b)[k] = b[y + 1].value
    BY <2>1, <2>2 DEF Content
  <2> QED
    BY <2>1, <2>3, <2>4
<1>3. ASSUME NEW k \in HashKey, k \notin Stored(b)
      PROVE  Content(b)[k] = Missing
  <2>1. k # EmptyKey
    BY MapAssumption
  <2>2. ~\E x \in 0..n - 1 : KeyAt(b, x) = k
    BY <2>1, <1>3, StoredIs
  <2> QED
    BY <2>2 DEF Content
<1> QED
  BY <1>1, <1>2, <1>3

(* So the search finds it.                                                  *)
LEMMA SearchFinds ==
    ASSUME hash_func \in Hashes, NEW b, IsTable(hash_func, b), NEW k \in HashKey
    PROVE  (IF IsIn(b, k) THEN b[Probe(b, k) + 1].value ELSE Missing) = Content(b)[k]
<1>1. b \in Seq(Entry) /\ Len(b) # 0 /\ IsDistinct(b)
  BY DEF IsTable
<1>2. /\ Probe(b, k) \in 0..Len(b) - 1
      /\ IsIn(b, k) <=> k \in Stored(b)
  BY SearchEnds
<1>3. CASE IsIn(b, k)
  <2>1. KeyAt(b, Probe(b, k)) = k /\ Filled(b, Probe(b, k))
    BY <1>3, MapAssumption DEF IsIn, Filled
  <2> QED
    BY <2>1, <1>1, <1>2, <1>3, ContentIs
<1>4. CASE ~IsIn(b, k)
  BY <1>4, <1>1, <1>2, ContentIs
<1> QED
  BY <1>3, <1>4

(* Two tables hold the same when they do under every key.                   *)
LEMMA SameContent ==
    ASSUME NEW b, NEW c, \A k \in HashKey : Content(c)[k] = Content(b)[k]
    PROVE  Content(c) = Content(b)
BY DEF Content

-----------------------------------------------------------------------------
(* What each operation on a table leaves.                                   *)
LEMMA EmptyTable ==
    ASSUME NEW f, NEW n \in Nat \ {0}
    PROVE  /\ IsTable(f, EmptyBuckets(n)) /\ Len(EmptyBuckets(n)) = n
           /\ Stored(EmptyBuckets(n)) = {}
           /\ Content(EmptyBuckets(n)) = [k \in HashKey |-> Missing]
<1> DEFINE b == EmptyBuckets(n)
<1>1. EmptyBucket \in Entry /\ EmptyBucket.key = EmptyKey
  BY DEF EmptyBucket, Entry
<1>2. b \in Seq(Entry) /\ Len(b) = n /\ \A i \in 1..n : b[i] = EmptyBucket
  BY <1>1 DEF EmptyBuckets
<1>3. \A x \in 0..n - 1 : KeyAt(b, x) = EmptyKey /\ ~Filled(b, x)
  <2>1. \A x \in 0..n - 1 : x + 1 \in 1..n
    OBVIOUS
  <2> QED
    BY <2>1, <1>1, <1>2 DEF KeyAt, Filled
<1>4. Stored(b) = {}
  BY <1>1, <1>2 DEF Stored
<1>5. Cardinality(Stored(b)) = 0
  BY <1>4, FS_EmptySet
<1> HIDE DEF b
<1>6. IsDistinct(b)
  BY <1>2, <1>3 DEF IsDistinct
<1>7. IsReached(f, b)
  BY <1>2, <1>3 DEF IsReached
<1>8. IsTable(f, b)
  BY <1>2, <1>3, <1>5, <1>6, <1>7 DEF IsTable
<1>9. \A k \in HashKey : Content(b)[k] = Missing
  BY <1>2, <1>4, <1>6, ContentIs
<1>10. Content(b) = [k \in HashKey |-> Missing]
  BY <1>9 DEF Content
<1> QED
  BY <1>2, <1>4, <1>8, <1>10 DEF b

LEMMA PutKeeps ==
    ASSUME hash_func \in Hashes, NEW b, IsTable(hash_func, b),
           NEW e \in [key : HashKey, value : Value],
           IsIn(b, e.key) \/ Cardinality(Stored(b)) + 1 < Len(b)
    PROVE  /\ IsTable(hash_func, Put(b, e)) /\ Len(Put(b, e)) = Len(b)
           /\ Stored(Put(b, e)) = Stored(b) \cup {e.key}
           /\ Content(Put(b, e)) = [Content(b) EXCEPT ![e.key] = e.value]
           /\ Cardinality(Stored(Put(b, e))) =
                IF IsIn(b, e.key) THEN Cardinality(Stored(b)) ELSE Cardinality(Stored(b)) + 1
<1> DEFINE n == Len(b)
           k == e.key
           p == Probe(b, k)
           c == Put(b, e)
           h(x) == Home(hash_func, n, x)
<1>1. /\ b \in Seq(Entry) /\ n \in Nat \ {0} /\ IsDistinct(b) /\ IsReached(hash_func, b)
      /\ \A x \in 0..n - 1 : Filled(b, x) => b[x + 1].value \in Value
      /\ Cardinality(Stored(b)) < n
  BY DEF IsTable
<1>2. k \in HashKey /\ k # EmptyKey /\ e.value \in Value /\ e \in Entry
  BY MapAssumption DEF Entry
<1>3. /\ p \in 0..n - 1 /\ KeyAt(b, p) \in {k, EmptyKey}
      /\ \A x \in 0..n - 1 : Dist(n, h(k), x) < Dist(n, h(k), p) => Filled(b, x)
      /\ \A x \in 0..n - 1 : KeyAt(b, x) = k => x = p
      /\ IsIn(b, k) <=> k \in Stored(b)
  <2> HIDE DEF k
  <2> QED
    BY <1>2, SearchEnds
<1>4. c = [b EXCEPT ![p + 1] = e]
  BY DEF Put
<1> HIDE DEF p, c
<1>5. c \in Seq(Entry) /\ Len(c) = n
  BY <1>1, <1>2, <1>3, <1>4
<1>6. \A x \in 0..n - 1 : c[x + 1] = IF x = p THEN e ELSE b[x + 1]
  <2>1. \A x \in 0..n - 1 : x + 1 \in 1..n /\ (x + 1 = p + 1 <=> x = p)
    BY <1>1, <1>3
  <2>2. DOMAIN b = 1..n
    BY <1>1
  <2> QED
    BY <2>1, <2>2, <1>4
<1>7. \A x \in 0..n - 1 : /\ KeyAt(c, x) = IF x = p THEN k ELSE KeyAt(b, x)
                          /\ Filled(c, x) <=> x = p \/ Filled(b, x)
  BY <1>2, <1>6 DEF KeyAt, Filled
<1> HIDE DEF k, n
<1>8. IsDistinct(c)
  <2> SUFFICES ASSUME NEW x \in 0..n - 1, NEW y \in 0..n - 1,
                      Filled(c, x), KeyAt(c, x) = KeyAt(c, y)
               PROVE  x = y
    BY <1>5 DEF IsDistinct
  <2>1. CASE x = p \/ y = p
    BY <2>1, <1>3, <1>7
  <2>2. CASE x # p /\ y # p
    BY <2>2, <1>1, <1>7 DEF IsDistinct, n
  <2> QED
    BY <2>1, <2>2
<1>9. IsReached(hash_func, c)
  <2> SUFFICES ASSUME NEW x \in 0..n - 1, NEW y \in 0..n - 1, Filled(c, x),
                      Dist(n, h(KeyAt(c, x)), y) < Dist(n, h(KeyAt(c, x)), x)
               PROVE  Filled(c, y)
    BY <1>5 DEF IsReached
  <2>1. CASE x = p
    BY <2>1, <1>3, <1>7
  <2>2. CASE x # p
    <3>1. Filled(b, x) /\ KeyAt(c, x) = KeyAt(b, x)
      BY <2>2, <1>7
    <3>2. Filled(b, y)
      BY <3>1, <1>1 DEF IsReached, n
    <3> QED
      BY <3>2, <1>7
  <2> QED
    BY <2>1, <2>2
<1>10. /\ Stored(b) = {KeyAt(b, x) : x \in 0..n - 1} \ {EmptyKey}
       /\ IsFiniteSet(Stored(b)) /\ Stored(b) \in SUBSET HashKey
       /\ Stored(c) = {KeyAt(c, x) : x \in 0..n - 1} \ {EmptyKey}
  BY <1>1, <1>5, <1>8, StoredIs DEF n
<1>11. Stored(c) = Stored(b) \cup {k}
  <2>1. ASSUME NEW j \in Stored(c) PROVE j \in Stored(b) \cup {k}
    BY <2>1, <1>7, <1>10
  <2>2. k \in Stored(c)
    BY <1>2, <1>3, <1>7, <1>10
  <2>3. ASSUME NEW j \in Stored(b) PROVE j \in Stored(c)
    <3>1. PICK x \in 0..n - 1 : KeyAt(b, x) = j /\ j # EmptyKey
      BY <1>10
    <3>2. CASE x = p
      BY <3>1, <3>2, <1>3, <2>2
    <3>3. CASE x # p
      BY <3>1, <3>3, <1>7, <1>10
    <3> QED
      BY <3>2, <3>3
  <2> QED
    BY <2>1, <2>2, <2>3
<1>12. /\ Cardinality(Stored(c)) < n
       /\ Cardinality(Stored(c)) =
            IF IsIn(b, k) THEN Cardinality(Stored(b)) ELSE Cardinality(Stored(b)) + 1
  <2>1. CASE IsIn(b, k)
    <3>1. Stored(c) = Stored(b)
      BY <2>1, <1>3, <1>11
    <3> QED
      BY <3>1, <2>1, <1>1
  <2>2. CASE ~IsIn(b, k)
    <3>1. k \notin Stored(b) /\ Cardinality(Stored(b)) + 1 < n
      BY <2>2, <1>3 DEF k, n
    <3>2. Cardinality(Stored(c)) = Cardinality(Stored(b)) + 1
      BY <3>1, <1>10, <1>11, FS_AddElement
    <3> QED
      BY <3>1, <3>2, <2>2
  <2> QED
    BY <2>1, <2>2
<1>13. \A x \in 0..n - 1 : Filled(c, x) => c[x + 1].value \in Value
  BY <1>1, <1>2, <1>6, <1>7
<1>14. IsTable(hash_func, c)
  BY <1>1, <1>5, <1>8, <1>9, <1>12, <1>13 DEF IsTable
<1>15. Content(c) = [Content(b) EXCEPT ![k] = e.value]
  <2>1. /\ \A x \in 0..n - 1 : Filled(b, x) =>
             KeyAt(b, x) \in HashKey /\ Content(b)[KeyAt(b, x)] = b[x + 1].value
        /\ \A j \in HashKey : j \notin Stored(b) => Content(b)[j] = Missing
    BY <1>1, ContentIs DEF n
  <2>2. /\ \A x \in 0..n - 1 : Filled(c, x) =>
             KeyAt(c, x) \in HashKey /\ Content(c)[KeyAt(c, x)] = c[x + 1].value
        /\ \A j \in HashKey : j \notin Stored(c) => Content(c)[j] = Missing
    BY <1>1, <1>5, <1>8, ContentIs DEF n
  <2>3. ASSUME NEW j \in HashKey
        PROVE  Content(c)[j] = IF j = k THEN e.value ELSE Content(b)[j]
    <3>1. CASE j = k
      BY <3>1, <2>2, <1>3, <1>6, <1>7
    <3>2. CASE j # k /\ j \in Stored(b)
      <4>1. PICK x \in 0..n - 1 : KeyAt(b, x) = j /\ Filled(b, x)
        BY <3>2, <1>10 DEF Filled
      <4>2. x # p
        BY <4>1, <3>2, <1>3 DEF Filled
      <4> QED
        BY <4>1, <4>2, <3>2, <2>1, <2>2, <1>6, <1>7
    <3>3. CASE j # k /\ j \notin Stored(b)
      BY <3>3, <2>1, <2>2, <1>11
    <3> QED
      BY <3>1, <3>2, <3>3
  <2>4. /\ Content(c) = [j \in HashKey |-> Content(c)[j]]
        /\ Content(b) = [j \in HashKey |-> Content(b)[j]]
    BY <1>1, <1>5, <1>8, ContentIs DEF n
  <2> QED
    BY <2>3, <2>4, <1>2
<1> QED
  BY <1>5, <1>11, <1>12, <1>14, <1>15 DEF c, k, n

(* The keys in the first i of b's buckets.                                  *)
StoredTo(b, i) == {b[j].key : j \in 1..i} \ {EmptyKey}

(* After the first i of b's buckets have gone to the new ones.              *)
Rehashed(b, i) ==
    {c \in Seq(Entry) : /\ IsTable(hash_func, c) /\ Len(c) = 2 * Len(b)
                        /\ Stored(c) = StoredTo(b, i)
                        /\ \A k \in StoredTo(b, i) : Content(c)[k] = Content(b)[k]}

LEMMA RehashKeeps ==
    ASSUME hash_func \in Hashes, NEW b, IsTable(hash_func, b),
           NEW i \in 1..Len(b), NEW c \in Rehashed(b, i - 1)
    PROVE  Rehash(c, b[i]) \in Rehashed(b, i)
<1> DEFINE n == Len(b)
           e == b[i]
<1>1. /\ b \in Seq(Entry) /\ n \in Nat \ {0} /\ IsDistinct(b)
      /\ \A x \in 0..n - 1 : Filled(b, x) => b[x + 1].value \in Value
      /\ Cardinality(Stored(b)) < n
  BY DEF IsTable
<1>2. /\ c \in Seq(Entry) /\ IsTable(hash_func, c) /\ Len(c) = 2 * n
      /\ Stored(c) = StoredTo(b, i - 1)
      /\ \A k \in StoredTo(b, i - 1) : Content(c)[k] = Content(b)[k]
  BY DEF Rehashed
<1>3. StoredTo(b, i) = (StoredTo(b, i - 1) \cup {e.key}) \ {EmptyKey}
  <2>1. 1..i = (1..i - 1) \cup {i}
    OBVIOUS
  <2> QED
    BY <2>1 DEF StoredTo
<1>4. EmptyKey \notin StoredTo(b, i - 1)
  BY DEF StoredTo
<1>5. CASE e.key = EmptyKey
  <2>1. StoredTo(b, i) = StoredTo(b, i - 1) /\ Rehash(c, e) = c
    BY <1>3, <1>4, <1>5 DEF Rehash
  <2> QED
    BY <2>1, <1>2 DEF Rehashed
<1>6. CASE e.key # EmptyKey
  <2>1. i - 1 \in 0..n - 1 /\ e.key = KeyAt(b, i - 1) /\ (i - 1) + 1 = i /\ e \in Entry
    BY <1>1, TableShape
  <2>2. Filled(b, i - 1) /\ e.value \in Value
    BY <2>1, <1>1, <1>6 DEF Filled
  <2>3. e.key \in HashKey /\ Content(b)[e.key] = e.value
    BY <2>1, <2>2, <1>1, ContentIs
  <2>4. e \in [key : HashKey, value : Value]
    BY <2>1, <2>2, <2>3 DEF Entry
  <2>5. Cardinality(Stored(c)) + 1 < Len(c)
    <3>1. StoredTo(b, i - 1) \subseteq Stored(b)
      BY DEF StoredTo, Stored
    <3>2. IsFiniteSet(Stored(b)) /\ Cardinality(Stored(b)) \in Nat
      BY <1>1, StoredIs, FS_CardinalityType
    <3>3. Cardinality(StoredTo(b, i - 1)) <= Cardinality(Stored(b))
          /\ Cardinality(StoredTo(b, i - 1)) \in Nat
      BY <3>1, <3>2, FS_Subset, FS_CardinalityType
    <3> QED
      BY <3>2, <3>3, <1>1, <1>2
  <2> DEFINE r == Put(c, e)
  <2>6. /\ IsTable(hash_func, r) /\ Len(r) = Len(c) /\ Stored(r) = Stored(c) \cup {e.key}
        /\ Content(r) = [Content(c) EXCEPT ![e.key] = e.value]
    <3> HIDE DEF e
    <3> QED
      BY <2>4, <2>5, <1>2, PutKeeps
  <2>7. Rehash(c, e) = r
    BY <1>6 DEF Rehash
  <2> HIDE DEF r
  <2>8. r \in Seq(Entry) /\ Stored(r) = StoredTo(b, i)
    BY <2>6, <1>2, <1>3, <1>4, <1>6 DEF IsTable
  <2>9. \A k \in StoredTo(b, i) : Content(r)[k] = Content(b)[k]
    <3>1. Content(c) = [k \in HashKey |-> Content(c)[k]]
      BY DEF Content
    <3>2. \A k \in StoredTo(b, i) : k = e.key \/ k \in StoredTo(b, i - 1)
      BY <1>3
    <3>3. StoredTo(b, i - 1) \subseteq HashKey
      BY <1>2, StoredIs DEF IsTable
    <3> QED
      BY <3>1, <3>2, <3>3, <2>3, <2>6, <1>2
  <2> QED
    BY <2>6, <2>7, <2>8, <2>9, <1>2 DEF Rehashed
<1> QED
  BY <1>5, <1>6

LEMMA ExpandedKeeps ==
    ASSUME hash_func \in Hashes, NEW b, IsTable(hash_func, b)
    PROVE  /\ IsTable(hash_func, Expanded(b)) /\ Len(Expanded(b)) = 2 * Len(b)
           /\ Stored(Expanded(b)) = Stored(b)
           /\ Content(Expanded(b)) = Content(b)
<1> DEFINE n == Len(b)
           a == EmptyBuckets(2 * n)
           T == [i \in 0..n |-> Rehashed(b, i)]
           G == [i \in 1..n |-> [c \in Seq(Entry) |-> Rehash(c, b[i])]]
<1>1. /\ b \in Seq(Entry) /\ n \in Nat \ {0} /\ IsDistinct(b)
  BY DEF IsTable
<1>2. a \in Rehashed(b, 0)
  <2>1. 2 * n \in Nat \ {0}
    BY <1>1
  <2>2. IsTable(hash_func, a) /\ Len(a) = 2 * n /\ Stored(a) = {}
    BY <2>1, EmptyTable
  <2>3. StoredTo(b, 0) = {}
    BY DEF StoredTo
  <2>4. a \in Seq(Entry)
    BY <2>2 DEF IsTable
  <2> QED
    BY <2>2, <2>3, <2>4 DEF Rehashed
<1>3. \A i \in 1..n : \A c \in Rehashed(b, i - 1) : Rehash(c, b[i]) \in Rehashed(b, i)
  BY RehashKeeps
<1>4. \A i \in 1..n : i \in 0..n /\ i - 1 \in 0..n
  BY <1>1
<1>5. \A i \in 0..n : \A c \in T[i] : c \in Seq(Entry) /\ c \in Rehashed(b, i)
  BY DEF Rehashed
<1>6. \A i \in 1..n : \A c \in T[i - 1] : G[i][c] \in T[i]
  BY <1>3, <1>4, <1>5
<1>7. a \in T[0] /\ n \in 0..n
  BY <1>1, <1>2
<1> HIDE DEF n, a
<1> DEFINE IsRehash(f) == f = [i \in 0..n |-> IF i = 0 THEN a ELSE Rehash(f[i - 1], b[i])]
<1>8. ASSUME NEW f, IsRehash(f)
      PROVE  f[n] \in Rehashed(b, n)
  <2> DEFINE Bad == {i \in 0..n : f[i] \notin Rehashed(b, i)}
  <2>1. Bad = {}
    <3> SUFFICES ASSUME Bad # {} PROVE FALSE
      OBVIOUS
    <3>1. Bad \in SUBSET Nat
      BY <1>1
    <3> PICK m \in Bad : \A i \in Bad : m <= i
      BY <3>1, LeastNatural
    <3>2. m \in 0..n /\ f[m] \notin Rehashed(b, m)
      OBVIOUS
    <3>3. CASE m = 0
      BY <3>2, <3>3, <1>2, <1>8
    <3>4. CASE m # 0
      <4>1. m \in 1..n /\ m - 1 \in 0..n /\ ~(m <= m - 1)
        BY <3>2, <3>4, <1>1
      <4>2. f[m - 1] \in Rehashed(b, m - 1)
        BY <4>1
      <4>3. f[m] = Rehash(f[m - 1], b[m])
        BY <4>1, <3>4, <1>8
      <4> QED
        BY <4>1, <4>2, <4>3, <3>2, <1>3
    <3> QED
      BY <3>3, <3>4
  <2> QED
    BY <2>1, <1>7
<1>9. \E f : IsRehash(f)
  <2> PICK f : IsRecursive(f, n, a, G) /\ \A i \in 0..n : f[i] \in T[i]
    <3> HIDE DEF T, G
    <3> QED
      BY <1>1, <1>6, <1>7, RecursiveFunctionExists
  <2>1. \A i \in 1..n : G[i][f[i - 1]] = Rehash(f[i - 1], b[i])
    BY <1>4, <1>5
  <2> HIDE DEF T, G
  <2>2. \A i \in 0..n : f[i] = IF i = 0 THEN a ELSE G[i][f[i - 1]]
    BY DEF IsRecursive
  <2>3. f = [i \in 0..n |-> f[i]]
    BY DEF IsRecursive
  <2>4. \A i \in 0..n : i # 0 => i \in 1..n
    BY <1>1
  <2>5. \A i \in 0..n : f[i] = IF i = 0 THEN a ELSE Rehash(f[i - 1], b[i])
    BY <2>1, <2>2, <2>4
  <2> QED
    BY <2>3, <2>5
<1>10. Expanded(b) = (CHOOSE f : IsRehash(f))[n]
  BY DEF Expanded, n, a
<1>11. Expanded(b) \in Rehashed(b, n)
  <2> HIDE DEF IsRehash
  <2> QED
    BY <1>8, <1>9, <1>10
<1> DEFINE r == Expanded(b)
<1>12. /\ r \in Seq(Entry) /\ IsTable(hash_func, r) /\ Len(r) = 2 * n /\ Stored(r) = Stored(b)
       /\ \A k \in Stored(b) : Content(r)[k] = Content(b)[k]
  <2>1. StoredTo(b, n) = Stored(b)
    BY DEF StoredTo, Stored, n
  <2> QED
    BY <2>1, <1>11 DEF Rehashed, n
<1> HIDE DEF r
<1>13. Content(r) = Content(b)
  <2>1. \A k \in HashKey : k \notin Stored(b) => Content(r)[k] = Missing /\ Content(b)[k] = Missing
    BY <1>1, <1>12, ContentIs DEF IsTable, n
  <2>2. \A k \in HashKey : Content(r)[k] = Content(b)[k]
    BY <2>1, <1>12
  <2> QED
    BY <2>2, SameContent
<1> QED
  BY <1>12, <1>13 DEF r, n

-----------------------------------------------------------------------------
(* Buckets seen from e: a line on which x, y and z are at their distances    *)
(* from e.                                                                  *)
LEMMA OnLine ==
    ASSUME NEW n \in Nat \ {0}, NEW e \in 0..n - 1, NEW x \in 0..n - 1,
           NEW y \in 0..n - 1, NEW z \in 0..n - 1
    PROVE  /\ Dist(n, e, x) \in 0..n - 1 /\ (Dist(n, e, x) = 0 <=> x = e)
           /\ Dist(n, e, x) = Dist(n, e, y) => x = y
           /\ Dist(n, e, x) < Dist(n, e, y) /\ Dist(n, e, z) <= Dist(n, e, y) =>
                (MayMoveBack(x, y, z) <=> Dist(n, e, z) <= Dist(n, e, x))
           /\ Dist(n, e, x) <= Dist(n, e, y) =>
                (Dist(n, x, z) < Dist(n, x, y) <=>
                    Dist(n, e, x) <= Dist(n, e, z) /\ Dist(n, e, z) < Dist(n, e, y))
           /\ Dist(n, e, y) < Dist(n, e, x) /\ y # e => Dist(n, x, e) < Dist(n, x, y)
BY DEF Dist, MayMoveBack

(* From the first empty bucket after i, e, the buckets are a line at whose  *)
(* end the items are that erase looks at, and on which each item is at or   *)
(* after its own bucket, with no empty bucket between.                      *)
IsLine(b, i, e, run) ==
    LET n == Len(b)
        U(x) == Dist(n, e, x)
        Own(x) == Home(hash_func, n, KeyAt(b, x))
    IN  /\ run \in 1..n - 1 /\ e \in 0..n - 1
        /\ ~Filled(b, e) /\ U(i) = n - run
        /\ \A d \in 0..run - 1 : Bucket(b, i, d) \in 0..n - 1 /\ U(Bucket(b, i, d)) = U(i) + d
        /\ \A x \in 0..n - 1 : U(i) <= U(x) => Filled(b, x)
        /\ \A x \in 0..n - 1 : Filled(b, x) =>
             /\ Own(x) \in 0..n - 1 /\ U(Own(x)) <= U(x)
             /\ \A y \in 0..n - 1 : U(Own(x)) <= U(y) /\ U(y) <= U(x) => Filled(b, y)

LEMMA LineToHole ==
    ASSUME hash_func \in Hashes, NEW b, IsTable(hash_func, b),
           NEW i \in 0..Len(b) - 1, Filled(b, i)
    PROVE  LET run == Min({d \in 1..Len(b) - 1 : KeyAt(b, Bucket(b, i, d)) = EmptyKey})
           IN  IsLine(b, i, Bucket(b, i, run), run)
<1> DEFINE n == Len(b)
           R == {d \in 1..n - 1 : KeyAt(b, Bucket(b, i, d)) = EmptyKey}
           run == Min(R)
           e == Bucket(b, i, run)
           U(x) == Dist(n, e, x)
           Own(x) == Home(hash_func, n, KeyAt(b, x))
<1>1. /\ b \in Seq(Entry) /\ n \in Nat \ {0} /\ IsReached(hash_func, b)
  BY DEF IsTable
<1>2. \A d \in 0..n - 1 : /\ Bucket(b, i, d) = Ahead(n, i, d) /\ Bucket(b, i, d) \in 0..n - 1
                          /\ Dist(n, i, Bucket(b, i, d)) = d
  BY <1>1, AheadIs DEF Bucket
<1>3. \A x \in 0..n - 1 : Dist(n, i, x) \in 0..n - 1 /\ Bucket(b, i, Dist(n, i, x)) = x
  BY <1>1, <1>2, DistIs
<1> HIDE DEF n
<1>4. R # {} /\ R \in SUBSET Nat
  <2>1. PICK x \in 0..n - 1 : ~Filled(b, x)
    BY SomeEmpty DEF n
  <2>2. Dist(n, i, x) # 0
    <3> SUFFICES ASSUME Dist(n, i, x) = 0 PROVE FALSE
      OBVIOUS
    <3>1. x = i
      BY <1>1, OnLine DEF n
    <3> QED
      BY <3>1, <2>1
  <2>3. Dist(n, i, x) \in 1..n - 1
    BY <2>2, <1>1, <1>3
  <2>4. Dist(n, i, x) \in R
    BY <2>1, <2>3, <1>3 DEF Filled
  <2> QED
    BY <2>4, <1>1
<1>5. run \in R /\ \A d \in R : run <= d
  <2>1. \E d \in R : \A m \in R : d <= m
    BY <1>4, LeastNatural
  <2> QED
    BY <2>1 DEF Min
<1> HIDE DEF run
<1>6. run \in 1..n - 1 /\ e \in 0..n - 1 /\ ~Filled(b, e)
  BY <1>1, <1>2, <1>5 DEF Filled
<1>7. /\ U(i) = n - run
      /\ \A d \in 0..run - 1 : Bucket(b, i, d) \in 0..n - 1 /\ U(Bucket(b, i, d)) = U(i) + d
  <2>1. e = Ahead(n, i, run)
    BY <1>1, <1>2, <1>6
  <2>2. U(i) = n - run
    BY <2>1, <1>1, <1>6 DEF Ahead, Dist, n
  <2>3. ASSUME NEW d \in 0..run - 1
        PROVE  Bucket(b, i, d) \in 0..n - 1 /\ U(Bucket(b, i, d)) = U(i) + d
    <3>1. d \in 0..n - 1
      BY <1>1, <1>6
    <3>2. Bucket(b, i, d) \in 0..n - 1 /\ Bucket(b, i, d) = Ahead(n, i, d)
      BY <3>1, <1>2
    <3>3. n \in Nat /\ i \in 0..n - 1 /\ run \in 1..n - 1 /\ d \in 0..run - 1
      BY <1>1, <1>6 DEF n
    <3>4. Dist(n, Ahead(n, i, run), Ahead(n, i, d)) = n - run + d
      BY ONLY <3>3 DEF Ahead, Dist
    <3> QED
      BY <3>2, <3>4, <2>1, <2>2
  <2> QED
    BY <2>2, <2>3
<1>8. ASSUME NEW x \in 0..n - 1, U(i) <= U(x)
      PROVE  Filled(b, x)
  <2> DEFINE d == Dist(n, i, x)
  <2>1. d \in 0..n - 1 /\ Bucket(b, i, d) = x
    BY <1>3
  <2>2. d < run
    <3>1. i \in 0..n - 1 /\ U(x) \in 0..n - 1
      BY <1>1, <1>6, OnLine DEF n
    <3> SUFFICES ASSUME d >= run PROVE FALSE
      BY <2>1, <1>1, <1>6
    <3>2. Dist(n, i, e) = run
      BY <1>2, <1>6, <1>1
    <3>3. e = Ahead(n, i, run)
      BY <1>2, <1>6, <1>1
    <3>4. Dist(n, Ahead(n, i, run), x) = Dist(n, i, x) - run
      BY <1>1, <1>6, <3>1 DEF Ahead, Dist
    <3> QED
      BY <3>1, <3>3, <3>4, <1>7, <1>8, <2>1, <1>6, <1>1
  <2>3. CASE d = 0
    <3>1. x = i
      BY <2>3, <1>1, OnLine DEF n
    <3> QED
      BY <3>1
  <2>4. CASE d # 0
    <3>1. d \in 1..n - 1 /\ ~(run <= d)
      BY <2>1, <2>2, <2>4, <1>1, <1>6
    <3>2. d \notin R
      BY <3>1, <1>5
    <3> QED
      BY <3>1, <3>2, <2>1 DEF Filled
  <2> QED
    BY <2>3, <2>4
<1> HIDE DEF e
<1>9. ASSUME NEW x \in 0..n - 1, Filled(b, x)
      PROVE  /\ Own(x) \in 0..n - 1 /\ U(Own(x)) <= U(x)
             /\ \A y \in 0..n - 1 : U(Own(x)) <= U(y) /\ U(y) <= U(x) => Filled(b, y)
  <2>1. KeyAt(b, x) \in HashKey
    BY <1>1, <1>9, TableShape DEF n
  <2>2. Own(x) \in 0..n - 1
    BY <2>1, <1>1, HomeIs
  <2>3. x # e
    BY <1>6, <1>9
  <2> DEFINE h == Own(x)
  <2>4. \A y \in 0..n - 1 : Dist(n, h, y) < Dist(n, h, x) => Filled(b, y)
    BY <1>1, <1>9 DEF IsReached, n
  <2> HIDE DEF h
  <2>5. h \in 0..n - 1 /\ U(h) \in Int /\ U(x) \in Int
    BY <2>2, <1>1, <1>6, OnLine DEF h
  <2>6. U(h) <= U(x)
    <3> SUFFICES ASSUME U(x) < U(h) PROVE FALSE
      BY <2>5
    <3>1. Dist(n, h, e) < Dist(n, h, x)
      BY <2>3, <2>5, <1>1, <1>6, OnLine
    <3> QED
      BY <3>1, <2>4, <1>6
  <2>7. ASSUME NEW y \in 0..n - 1, U(h) <= U(y), U(y) <= U(x)
        PROVE  Filled(b, y)
    <3>1. CASE U(y) = U(x)
      <4>1. y = x
        BY <3>1, <1>1, <1>6, OnLine
      <4> QED
        BY <4>1, <1>9
    <3>2. CASE U(y) # U(x)
      <4>1. U(y) \in Int
        BY <1>1, <1>6, OnLine
      <4>2. U(y) < U(x)
        BY <4>1, <3>2, <2>5, <2>7
      <4>3. Dist(n, h, y) < Dist(n, h, x)
        BY <4>2, <2>5, <2>6, <2>7, <1>1, <1>6, OnLine
      <4> QED
        BY <4>3, <2>4
    <3> QED
      BY <3>1, <3>2
  <2> QED
    BY <2>5, <2>6, <2>7 DEF h
<1>10. IsLine(b, i, e, run)
  BY <1>6, <1>7, <1>8, <1>9 DEF IsLine, n
<1> QED
  BY <1>10 DEF e, run, n

(* erase after d of its steps, along the line from e: the hole has moved on *)
(* from i, the items before it are in reach of their own buckets, and the   *)
(* items erase has looked at after it have their own buckets after it.  But *)
(* for the item of bucket i, each item of b is in one bucket other than the *)
(* hole.                                                                    *)
IsShifted(b, i, e, d, hole, c) ==
    LET n == Len(b)
        U(x) == Dist(n, e, x)
        Own(x) == Home(hash_func, n, KeyAt(b, x))
    IN  /\ hole \in 0..n - 1 /\ c \in Seq(Entry) /\ Len(c) = n
        /\ U(i) <= U(hole) /\ U(hole) <= U(i) + d
        /\ \A x \in 0..n - 1 : Filled(c, x) <=> Filled(b, x)
        /\ \A x \in 0..n - 1 : U(hole) <= U(x) => c[x + 1] = b[x + 1]
        /\ \A x \in 0..n - 1 \ {hole} : Filled(b, x) =>
             \E y \in 0..n - 1 \ {i} : /\ Filled(b, y) /\ c[x + 1] = b[y + 1]
                                       /\ U(Own(y)) <= U(x) /\ U(x) <= U(y)
        /\ \A y \in 0..n - 1 \ {i} : Filled(b, y) =>
             \E x \in 0..n - 1 \ {hole} : c[x + 1] = b[y + 1]
        /\ \A x, y \in 0..n - 1 \ {hole} : Filled(b, x) /\ KeyAt(c, x) = KeyAt(c, y) => x = y
        /\ \A y \in 0..n - 1 : U(hole) < U(y) /\ U(y) <= U(i) + d => U(hole) < U(Own(y))

Shifting(n) == [hole : 0..n - 1, b : Seq(Entry)]

LEMMA ShiftStarts ==
    ASSUME NEW b \in Seq(Entry), IsDistinct(b), NEW i \in 0..Len(b) - 1,
           NEW e, NEW run, IsLine(b, i, e, run)
    PROVE  IsShifted(b, i, e, 0, i, b)
<1> DEFINE n == Len(b)
           U(x) == Dist(n, e, x)
           Own(x) == Home(hash_func, n, KeyAt(b, x))
<1>1. /\ n \in Nat /\ i \in 0..n - 1
      /\ \A x \in 0..n - 1 : Filled(b, x) => U(Own(x)) <= U(x)
      /\ e \in 0..n - 1 /\ n # 0
  BY DEF IsLine
<1>2. \A x \in 0..n - 1 : U(x) \in 0..n - 1
  BY <1>1, OnLine
<1>3. \A x, y \in 0..n - 1 : Filled(b, x) /\ KeyAt(b, x) = KeyAt(b, y) => x = y
  BY DEF IsDistinct
<1> HIDE DEF n, U, Own
<1>4. U(i) <= U(i) /\ U(i) <= U(i) + 0
  BY <1>1, <1>2
<1>5. ASSUME NEW x \in 0..n - 1 \ {i}, Filled(b, x)
      PROVE  \E y \in 0..n - 1 \ {i} : /\ Filled(b, y) /\ b[x + 1] = b[y + 1]
                                       /\ U(Own(y)) <= U(x) /\ U(x) <= U(y)
  <2>1. U(x) <= U(x)
    BY <1>1, <1>2
  <2> QED
    BY <2>1, <1>1, <1>5
<1>6. \A y \in 0..n - 1 : ~(U(i) < U(y) /\ U(y) <= U(i) + 0)
  BY <1>1, <1>2
<1>7. /\ i \in 0..n - 1 /\ b \in Seq(Entry) /\ Len(b) = n
      /\ U(i) <= U(i) /\ U(i) <= U(i) + 0
      /\ \A x \in 0..n - 1 : U(i) <= U(x) => b[x + 1] = b[x + 1]
      /\ \A x \in 0..n - 1 \ {i} : Filled(b, x) =>
           \E y \in 0..n - 1 \ {i} : /\ Filled(b, y) /\ b[x + 1] = b[y + 1]
                                     /\ U(Own(y)) <= U(x) /\ U(x) <= U(y)
      /\ \A y \in 0..n - 1 \ {i} : Filled(b, y) =>
           \E x \in 0..n - 1 \ {i} : b[x + 1] = b[y + 1]
      /\ \A x, y \in 0..n - 1 \ {i} : Filled(b, x) /\ KeyAt(b, x) = KeyAt(b, y) => x = y
      /\ \A y \in 0..n - 1 : U(i) < U(y) /\ U(y) <= U(i) + 0 => U(i) < U(Own(y))
  BY <1>1, <1>3, <1>4, <1>5, <1>6 DEF n
<1> QED
  BY <1>7 DEF IsShifted, n, U, Own

LEMMA ShiftGoesOn ==
    ASSUME NEW b \in Seq(Entry), NEW i \in 0..Len(b) - 1,
           NEW e, NEW run, IsLine(b, i, e, run), NEW d \in 1..run - 1,
           NEW s \in Shifting(Len(b)), IsShifted(b, i, e, d - 1, s.hole, s.b)
    PROVE  LET r == MovedBack(s, Bucket(b, i, d))
           IN  IsShifted(b, i, e, d, r.hole, r.b) /\ r \in Shifting(Len(b))
<1> DEFINE n == Len(b)
           U(x) == Dist(n, e, x)
           Own(x) == Home(hash_func, n, KeyAt(b, x))
           H == s.hole
           c == s.b
           j == Bucket(b, i, d)
           r == MovedBack(s, j)
<1>1. /\ n \in Nat \ {0} /\ run \in 1..n - 1 /\ e \in 0..n - 1 /\ i \in 0..n - 1
      /\ \A x \in 0..n - 1 : U(i) <= U(x) => Filled(b, x)
      /\ \A x \in 0..n - 1 : Filled(b, x) => Own(x) \in 0..n - 1 /\ U(Own(x)) <= U(x)
  BY DEF IsLine
<1>2. j \in 0..n - 1 /\ U(j) = U(i) + d
  BY DEF IsLine
<1>3. /\ H \in 0..n - 1 /\ c \in Seq(Entry) /\ Len(c) = n
      /\ U(i) <= U(H) /\ U(H) <= U(i) + (d - 1)
  BY DEF IsShifted
<1>4. \A x \in 0..n - 1 : Filled(c, x) <=> Filled(b, x)
  BY DEF IsShifted
<1>5. \A x \in 0..n - 1 : U(H) <= U(x) => c[x + 1] = b[x + 1]
  BY DEF IsShifted
<1>6. \A x \in 0..n - 1 \ {H} : Filled(b, x) =>
        \E y \in 0..n - 1 \ {i} : /\ Filled(b, y) /\ c[x + 1] = b[y + 1]
                                  /\ U(Own(y)) <= U(x) /\ U(x) <= U(y)
  BY DEF IsShifted
<1>7. \A y \in 0..n - 1 \ {i} : Filled(b, y) => \E x \in 0..n - 1 \ {H} : c[x + 1] = b[y + 1]
  BY DEF IsShifted
<1>8. \A x, y \in 0..n - 1 \ {H} : Filled(b, x) /\ KeyAt(c, x) = KeyAt(c, y) => x = y
  BY DEF IsShifted
<1>9. \A y \in 0..n - 1 : U(H) < U(y) /\ U(y) <= U(i) + (d - 1) => U(H) < U(Own(y))
  BY DEF IsShifted
<1>10. \A x \in 0..n - 1 : U(x) \in 0..n - 1
  BY <1>1, OnLine
<1>11. \A x, y \in 0..n - 1 : U(x) = U(y) => x = y
  BY <1>1, OnLine
<1> HIDE DEF n, U, Own, H, c, j, r
<1>12. U(i) \in Int /\ U(H) \in Int /\ U(j) \in Int /\ d \in Int /\ U(H) < U(j) /\ U(i) < U(j)
  <2>1. U(i) \in Int /\ U(H) \in Int /\ U(j) \in Int /\ d \in Int /\ d > 0
    BY <1>1, <1>2, <1>3, <1>10
  <2> QED
    BY <2>1, <1>2, <1>3
<1>13. j # i /\ j # H /\ Filled(b, j) /\ Filled(b, H) /\ c[j + 1] = b[j + 1]
  <2>1. U(H) <= U(j) /\ U(i) <= U(j) /\ U(i) # U(j) /\ U(H) # U(j)
    BY <1>12
  <2> QED
    BY <2>1, <1>1, <1>2, <1>3, <1>5
<1>14. Own(j) \in 0..n - 1 /\ U(Own(j)) <= U(j) /\ U(Own(j)) \in Int
  BY <1>1, <1>2, <1>10, <1>13
<1>15. hashKey(c, KeyAt(c, j)) = Own(j)
  BY <1>3, <1>13 DEF hashKey, Home, KeyAt, Own
<1>16. MayMoveBack(H, j, Own(j)) <=> U(Own(j)) <= U(H)
  <2> DEFINE o == Own(j)
  <2>1. o \in 0..n - 1 /\ U(o) <= U(j)
    BY <1>14
  <2> HIDE DEF o
  <2>2. Dist(n, e, H) < Dist(n, e, j) /\ Dist(n, e, o) <= Dist(n, e, j) =>
          (MayMoveBack(H, j, o) <=> Dist(n, e, o) <= Dist(n, e, H))
    BY <1>1, <1>2, <1>3, <2>1, OnLine
  <2> QED
    BY <2>1, <2>2, <1>12 DEF U, o
<1>17. CASE U(Own(j)) <= U(H)
  <2> DEFINE t == [c EXCEPT ![H + 1] = b[j + 1]]
  <2>1. r = [hole |-> j, b |-> t]
    BY <1>13, <1>15, <1>16, <1>17 DEF MovedBack, r, H, c
  <2>2. r.hole = j /\ r.b = t
    BY <2>1
  <2>3. t \in Seq(Entry) /\ Len(t) = n
    <3>1. b[j + 1] \in Entry
      BY <1>1, <1>2, TableShape DEF n
    <3> QED
      BY <3>1, <1>3
  <2>4. \A x \in 0..n - 1 : t[x + 1] = IF x = H THEN b[j + 1] ELSE c[x + 1]
    <3>1. \A x \in 0..n - 1 : x + 1 \in 1..n /\ (x + 1 = H + 1 <=> x = H)
      BY <1>1, <1>3
    <3>2. DOMAIN c = 1..n
      BY <1>3
    <3> QED
      BY <3>1, <3>2
  <2> HIDE DEF t
  <2>5. \A x \in 0..n - 1 : /\ KeyAt(t, x) = IF x = H THEN KeyAt(b, j) ELSE KeyAt(c, x)
                            /\ Filled(t, x) <=> Filled(b, x)
    <3>1. \A x \in 0..n - 1 : KeyAt(t, x) = IF x = H THEN KeyAt(b, j) ELSE KeyAt(c, x)
      BY <2>4 DEF KeyAt
    <3> QED
      BY <3>1, <1>4, <1>13 DEF Filled
  <2>6. U(i) <= U(j) /\ U(j) <= U(i) + d
    BY <1>2, <1>12
  <2>7. ASSUME NEW x \in 0..n - 1, U(j) <= U(x)
        PROVE  t[x + 1] = b[x + 1]
    <3>1. U(x) \in Int
      BY <1>10
    <3>2. x # H /\ U(H) <= U(x)
      BY <3>1, <1>12, <2>7
    <3> QED
      BY <3>2, <2>4, <1>5
  <2>8. ASSUME NEW x \in 0..n - 1 \ {j}, Filled(b, x)
        PROVE  \E y \in 0..n - 1 \ {i} : /\ Filled(b, y) /\ t[x + 1] = b[y + 1]
                                         /\ U(Own(y)) <= U(x) /\ U(x) <= U(y)
    <3>1. CASE x = H
      <4>1. U(x) <= U(j)
        BY <3>1, <1>12
      <4> QED
        BY <4>1, <3>1, <2>4, <1>2, <1>13, <1>17
    <3>2. CASE x # H
      BY <3>2, <2>4, <2>8, <1>6
    <3> QED
      BY <3>1, <3>2
  <2>9. ASSUME NEW y \in 0..n - 1 \ {i}, Filled(b, y)
        PROVE  \E x \in 0..n - 1 \ {j} : t[x + 1] = b[y + 1]
    <3>1. PICK x \in 0..n - 1 \ {H} : c[x + 1] = b[y + 1]
      BY <1>7, <2>9
    <3>2. CASE x = j
      BY <3>1, <3>2, <1>3, <1>13, <2>4
    <3>3. CASE x # j
      BY <3>1, <3>3, <2>4
    <3> QED
      BY <3>2, <3>3
  <2>10. ASSUME NEW x \in 0..n - 1 \ {j}, NEW y \in 0..n - 1 \ {j},
                Filled(b, x), KeyAt(t, x) = KeyAt(t, y)
         PROVE  x = y
    <3>1. KeyAt(c, j) = KeyAt(b, j)
      BY <1>13 DEF KeyAt
    <3>2. CASE x = H /\ y # H
      BY <3>1, <3>2, <2>5, <2>10, <1>2, <1>8, <1>13
    <3>3. CASE x # H /\ y = H
      BY <3>1, <3>3, <2>5, <2>10, <1>2, <1>8, <1>13
    <3>4. CASE x # H /\ y # H
      BY <3>4, <2>5, <2>10, <1>8
    <3> QED
      BY <3>2, <3>3, <3>4
  <2>11. \A y \in 0..n - 1 : ~(U(j) < U(y) /\ U(y) <= U(i) + d)
    BY <1>2, <1>10, <1>12
  <2>12. IsShifted(b, i, e, d, j, t)
    BY <1>2, <2>3, <2>5, <2>6, <2>7, <2>8, <2>9, <2>10, <2>11 DEF IsShifted, n, U, Own
  <2>13. r \in Shifting(n)
    BY <1>2, <2>1, <2>3 DEF Shifting
  <2> QED
    BY <2>2, <2>12, <2>13 DEF n, r, j
<1>18. CASE ~(U(Own(j)) <= U(H))
  <2>1. r = s
    BY <1>15, <1>16, <1>18 DEF MovedBack, r, H, c
  <2>2. U(H) <= U(i) + d
    BY <1>3, <1>12
  <2>3. ASSUME NEW y \in 0..n - 1, U(H) < U(y), U(y) <= U(i) + d
        PROVE  U(H) < U(Own(y))
    <3>1. CASE U(y) = U(i) + d
      <4>1. y = j
        BY <3>1, <1>2, <1>11
      <4> QED
        BY <4>1, <1>2, <1>12, <1>14, <1>18
    <3>2. CASE U(y) # U(i) + d
      <4>1. U(y) <= U(i) + (d - 1)
        <5>1. U(y) \in Int
          BY <1>10
        <5> QED
          BY <5>1, <3>2, <2>3, <1>12
      <4> QED
        BY <4>1, <2>3, <1>9
    <3> QED
      BY <3>1, <3>2
  <2>4. IsShifted(b, i, e, d, H, c)
    BY <1>3, <1>4, <1>5, <1>6, <1>7, <1>8, <2>2, <2>3 DEF IsShifted, n, U, Own
  <2> QED
    BY <2>1, <2>4 DEF n, r, j, H, c
<1> QED
  BY <1>12, <1>14, <1>17, <1>18

LEMMA ShiftEnds ==
    ASSUME hash_func \in Hashes, NEW b, IsTable(hash_func, b),
           NEW i \in 0..Len(b) - 1, Filled(b, i), NEW e, NEW run, IsLine(b, i, e, run),
           NEW hole, NEW c, IsShifted(b, i, e, run - 1, hole, c),
           NEW r, r = [c EXCEPT ![hole + 1] = EmptyBucket]
    PROVE  /\ IsTable(hash_func, r) /\ Len(r) = Len(b)
           /\ Stored(r) = Stored(b) \ {KeyAt(b, i)}
           /\ Content(r) = [Content(b) EXCEPT ![KeyAt(b, i)] = Missing]
           /\ Cardinality(Stored(r)) = Cardinality(Stored(b)) - 1
<1> DEFINE n == Len(b)
           U(x) == Dist(n, e, x)
           Own(x) == Home(hash_func, n, KeyAt(b, x))
           k == KeyAt(b, i)
<1>1. /\ b \in Seq(Entry) /\ n \in Nat \ {0} /\ IsDistinct(b) /\ i \in 0..n - 1
      /\ \A x \in 0..n - 1 : Filled(b, x) => b[x + 1].value \in Value
      /\ Cardinality(Stored(b)) < n
  BY DEF IsTable
<1>2. /\ run \in 1..n - 1 /\ e \in 0..n - 1 /\ U(i) = n - run
      /\ \A x \in 0..n - 1 : Filled(b, x) =>
           /\ Own(x) \in 0..n - 1 /\ U(Own(x)) <= U(x)
           /\ \A y \in 0..n - 1 : U(Own(x)) <= U(y) /\ U(y) <= U(x) => Filled(b, y)
  BY DEF IsLine
<1>3. hole \in 0..n - 1 /\ c \in Seq(Entry) /\ Len(c) = n
  BY DEF IsShifted
<1>4. \A x \in 0..n - 1 : Filled(c, x) <=> Filled(b, x)
  BY DEF IsShifted
<1>5. \A x \in 0..n - 1 : U(hole) <= U(x) => c[x + 1] = b[x + 1]
  BY DEF IsShifted
<1>6. \A x \in 0..n - 1 \ {hole} : Filled(b, x) =>
        \E y \in 0..n - 1 \ {i} : /\ Filled(b, y) /\ c[x + 1] = b[y + 1]
                                  /\ U(Own(y)) <= U(x) /\ U(x) <= U(y)
  BY DEF IsShifted
<1>7. \A y \in 0..n - 1 \ {i} : Filled(b, y) => \E x \in 0..n - 1 \ {hole} : c[x + 1] = b[y + 1]
  BY DEF IsShifted
<1>8. \A x, y \in 0..n - 1 \ {hole} : Filled(b, x) /\ KeyAt(c, x) = KeyAt(c, y) => x = y
  BY DEF IsShifted
<1>9. \A y \in 0..n - 1 : U(hole) < U(y) /\ U(y) <= U(i) + (run - 1) => U(hole) < U(Own(y))
  BY DEF IsShifted
<1>10. \A x \in 0..n - 1 : U(x) \in 0..n - 1
  BY <1>1, <1>2, OnLine
<1>11. k \in HashKey
  BY <1>1, TableShape
<1>12. EmptyBucket \in Entry /\ EmptyBucket.key = EmptyKey
  BY DEF EmptyBucket, Entry
<1>13. r \in Seq(Entry) /\ Len(r) = n
  BY <1>3, <1>12
<1>14. \A x \in 0..n - 1 : r[x + 1] = IF x = hole THEN EmptyBucket ELSE c[x + 1]
  <2>1. \A x \in 0..n - 1 : x + 1 \in 1..n /\ (x + 1 = hole + 1 <=> x = hole)
    BY <1>1, <1>3
  <2>2. DOMAIN c = 1..n
    BY <1>3
  <2> QED
    BY <2>1, <2>2
<1> HIDE DEF n, U, Own, k
<1>15. \A x \in 0..n - 1 : /\ KeyAt(r, x) = IF x = hole THEN EmptyKey ELSE KeyAt(c, x)
                           /\ Filled(r, x) <=> x # hole /\ Filled(b, x)
  <2>1. \A x \in 0..n - 1 : KeyAt(r, x) = IF x = hole THEN EmptyKey ELSE KeyAt(c, x)
    BY <1>12, <1>14 DEF KeyAt
  <2> QED
    BY <2>1, <1>4 DEF Filled
<1>16. IsDistinct(r)
  <2> SUFFICES ASSUME NEW x \in 0..n - 1, NEW y \in 0..n - 1,
                      Filled(r, x), KeyAt(r, x) = KeyAt(r, y)
               PROVE  x = y
    BY <1>13 DEF IsDistinct
  <2>1. x # hole /\ Filled(b, x) /\ y # hole
    BY <1>15 DEF Filled
  <2>2. KeyAt(c, x) = KeyAt(c, y)
    BY <2>1, <1>15
  <2> QED
    BY <2>1, <2>2, <1>8
<1>17. ASSUME NEW x \in 0..n - 1, Filled(r, x)
       PROVE  \E y \in 0..n - 1 \ {i} : /\ Filled(b, y) /\ r[x + 1] = b[y + 1]
                                        /\ KeyAt(r, x) = KeyAt(b, y)
                                        /\ U(Own(y)) <= U(x) /\ U(x) <= U(y)
  <2>1. x # hole /\ Filled(b, x) /\ r[x + 1] = c[x + 1]
    BY <1>14, <1>15, <1>17
  <2> QED
    BY <2>1, <1>6 DEF KeyAt
<1>18. ASSUME NEW y \in 0..n - 1 \ {i}, Filled(b, y)
       PROVE  \E x \in 0..n - 1 : /\ Filled(r, x) /\ r[x + 1] = b[y + 1]
                                  /\ KeyAt(r, x) = KeyAt(b, y)
  <2>1. PICK x \in 0..n - 1 \ {hole} : c[x + 1] = b[y + 1]
    BY <1>7, <1>18
  <2>2. r[x + 1] = b[y + 1]
    BY <2>1, <1>14
  <2>3. KeyAt(r, x) = KeyAt(b, y)
    BY <2>2 DEF KeyAt
  <2> QED
    BY <2>2, <2>3, <1>18 DEF Filled
<1>19. IsReached(hash_func, r)
  <2> SUFFICES ASSUME NEW x \in 0..n - 1, NEW y \in 0..n - 1, Filled(r, x),
                      Dist(n, Home(hash_func, n, KeyAt(r, x)), y)
                        < Dist(n, Home(hash_func, n, KeyAt(r, x)), x)
               PROVE  Filled(r, y)
    BY <1>13 DEF IsReached
  <2>1. PICK z \in 0..n - 1 \ {i} : /\ Filled(b, z) /\ KeyAt(r, x) = KeyAt(b, z)
                                    /\ U(Own(z)) <= U(x) /\ U(x) <= U(z)
    BY <1>17
  <2> DEFINE h == Own(z)
  <2>2. h \in 0..n - 1 /\ h = Home(hash_func, n, KeyAt(r, x)) /\ U(h) <= U(x) /\ U(x) <= U(z)
        /\ \A q \in 0..n - 1 : U(h) <= U(q) /\ U(q) <= U(z) => Filled(b, q)
    BY <2>1, <1>2 DEF Own
  <2> HIDE DEF h
  <2>3. U(h) <= U(y) /\ U(y) < U(x)
    <3>1. Dist(n, e, h) <= Dist(n, e, x) =>
            (Dist(n, h, y) < Dist(n, h, x) <=>
                Dist(n, e, h) <= Dist(n, e, y) /\ Dist(n, e, y) < Dist(n, e, x))
      BY <2>2, <1>1, <1>2, OnLine
    <3>2. Dist(n, h, y) < Dist(n, h, x)
      BY <2>2
    <3> QED
      BY <3>1, <3>2, <2>2 DEF U
  <2>4. U(h) \in Int /\ U(x) \in Int /\ U(y) \in Int /\ U(z) \in Int
    BY <2>2, <1>10
  <2>5. Filled(b, y)
    <3>1. U(y) <= U(z)
      BY <2>2, <2>3, <2>4
    <3> QED
      BY <3>1, <2>2, <2>3
  <2>6. y # hole
    <3> SUFFICES ASSUME y = hole PROVE FALSE
      OBVIOUS
    <3>1. U(hole) <= U(x) /\ x # hole
      BY <2>3, <2>4
    <3>2. c[x + 1] = b[x + 1] /\ r[x + 1] = c[x + 1]
      BY <3>1, <1>5, <1>14
    <3>3. KeyAt(r, x) = KeyAt(b, x)
      BY <3>2 DEF KeyAt
    <3>4. Own(x) = h
      BY <3>3, <2>2 DEF Own
    <3>5. U(x) <= U(i) + (run - 1)
      <4>1. U(x) <= n - 1
        BY <1>1, <1>10
      <4> QED
        BY <4>1, <2>4, <1>1, <1>2
    <3>6. U(hole) < U(h)
      BY <3>4, <3>5, <2>3, <1>9
    <3> QED
      BY <3>6, <2>3, <2>4
  <2> QED
    BY <2>5, <2>6, <1>15
<1>20. /\ Stored(b) = {KeyAt(b, x) : x \in 0..n - 1} \ {EmptyKey}
       /\ IsFiniteSet(Stored(b)) /\ Stored(b) \in SUBSET HashKey
       /\ Stored(r) = {KeyAt(r, x) : x \in 0..n - 1} \ {EmptyKey}
  BY <1>1, <1>13, <1>16, StoredIs DEF n
<1>21. \A y \in 0..n - 1 : Filled(b, y) => (KeyAt(b, y) = k <=> y = i)
  BY <1>1 DEF IsDistinct, k, n
<1>22. Stored(r) = Stored(b) \ {k}
  <2>1. ASSUME NEW j \in Stored(r) PROVE j \in Stored(b) /\ j # k
    <3>1. PICK x \in 0..n - 1 : KeyAt(r, x) = j /\ Filled(r, x)
      BY <1>20 DEF Filled
    <3>2. PICK y \in 0..n - 1 \ {i} : Filled(b, y) /\ KeyAt(b, y) = j
      BY <3>1, <1>17
    <3> QED
      BY <3>2, <1>20, <1>21 DEF Filled
  <2>2. ASSUME NEW j \in Stored(b), j # k PROVE j \in Stored(r)
    <3>1. PICK y \in 0..n - 1 : KeyAt(b, y) = j /\ Filled(b, y)
      BY <1>20 DEF Filled
    <3>2. y # i
      BY <3>1, <2>2, <1>21
    <3>3. PICK x \in 0..n - 1 : Filled(r, x) /\ KeyAt(r, x) = j
      BY <3>1, <3>2, <1>18
    <3> QED
      BY <3>3, <1>20 DEF Filled
  <2> QED
    BY <2>1, <2>2
<1>23. Cardinality(Stored(r)) = Cardinality(Stored(b)) - 1 /\ Cardinality(Stored(r)) < n
  <2>1. k \in Stored(b)
    BY <1>1, <1>20 DEF Filled, k
  <2>2. Cardinality(Stored(r)) = Cardinality(Stored(b)) - 1
    BY <2>1, <1>20, <1>22, FS_RemoveElement
  <2>3. Cardinality(Stored(b)) \in Nat
    BY <1>20, FS_CardinalityType
  <2> QED
    BY <2>2, <2>3, <1>1
<1>24. ASSUME NEW x \in 0..n - 1, Filled(r, x)
       PROVE  r[x + 1].value \in Value
  <2>1. PICK y \in 0..n - 1 \ {i} : Filled(b, y) /\ r[x + 1] = b[y + 1]
    BY <1>17, <1>24
  <2> QED
    BY <2>1, <1>1
<1>25. IsTable(hash_func, r)
  BY <1>1, <1>13, <1>16, <1>19, <1>23, <1>24 DEF IsTable
<1>26. Content(r) = [Content(b) EXCEPT ![k] = Missing]
  <2>1. /\ \A x \in 0..n - 1 : Filled(b, x) =>
             KeyAt(b, x) \in HashKey /\ Content(b)[KeyAt(b, x)] = b[x + 1].value
        /\ \A j \in HashKey : j \notin Stored(b) => Content(b)[j] = Missing
    BY <1>1, ContentIs DEF n
  <2>2. /\ \A x \in 0..n - 1 : Filled(r, x) =>
             KeyAt(r, x) \in HashKey /\ Content(r)[KeyAt(r, x)] = r[x + 1].value
        /\ \A j \in HashKey : j \notin Stored(r) => Content(r)[j] = Missing
    BY <1>1, <1>13, <1>16, ContentIs DEF n
  <2>3. ASSUME NEW j \in HashKey
        PROVE  Content(r)[j] = IF j = k THEN Missing ELSE Content(b)[j]
    <3>1. CASE j \notin Stored(r)
      BY <3>1, <2>1, <2>2, <1>22
    <3>2. CASE j \in Stored(r)
      <4>1. PICK x \in 0..n - 1 : KeyAt(r, x) = j /\ Filled(r, x)
        BY <3>2, <1>20 DEF Filled
      <4>2. PICK y \in 0..n - 1 \ {i} : Filled(b, y) /\ r[x + 1] = b[y + 1] /\ KeyAt(b, y) = j
        BY <4>1, <1>17
      <4> QED
        BY <4>1, <4>2, <3>2, <2>1, <2>2, <1>22
    <3> QED
      BY <3>1, <3>2
  <2>4. /\ Content(r) = [j \in HashKey |-> Content(r)[j]]
        /\ Content(b) = [j \in HashKey |-> Content(b)[j]]
    BY DEF Content
  <2> QED
    BY <2>3, <2>4, <1>11
<1> QED
  BY <1>13, <1>22, <1>23, <1>25, <1>26 DEF k, n

(* erase takes out its key, and nothing else is lost or out of reach.       *)
LEMMA ErasedKeeps ==
    ASSUME hash_func \in Hashes, NEW b, IsTable(hash_func, b), NEW k \in HashKey, IsIn(b, k)
    PROVE  LET r == Erased(b, Probe(b, k))
           IN  /\ IsTable(hash_func, r) /\ Len(r) = Len(b)
               /\ Stored(r) = Stored(b) \ {k}
               /\ Content(r) = [Content(b) EXCEPT ![k] = Missing]
               /\ Cardinality(Stored(r)) = Cardinality(Stored(b)) - 1
<1> DEFINE n == Len(b)
           i == Probe(b, k)
           run == Min({d \in 1..Len(b) - 1 : KeyAt(b, Bucket(b, i, d)) = EmptyKey})
           e == Bucket(b, i, run)
           m == run - 1
           a == [hole |-> i, b |-> b]
           Sh(d) == {s \in Shifting(n) : IsShifted(b, i, e, d, s.hole, s.b)}
           T == [d \in 0..m |-> Sh(d)]
           G == [d \in 1..m |-> [s \in Shifting(n) |-> MovedBack(s, Bucket(b, i, d))]]
<1>1. /\ b \in Seq(Entry) /\ n \in Nat \ {0} /\ IsDistinct(b)
  BY DEF IsTable
<1>2. i \in 0..n - 1 /\ KeyAt(b, i) = k /\ Filled(b, i)
  <2>1. i \in 0..n - 1
    BY SearchEnds
  <2> QED
    BY <2>1, MapAssumption DEF IsIn, Filled
<1> HIDE DEF i
<1>3. IsLine(b, i, e, run)
  BY <1>1, <1>2, LineToHole
<1> HIDE DEF run, e
<1>4. run \in 1..n - 1 /\ m \in Nat /\ 1..m = 1..run - 1
  BY <1>1, <1>3 DEF IsLine
<1>5. a \in Sh(0)
  <2>1. IsShifted(b, i, e, 0, i, b)
    BY <1>1, <1>2, <1>3, ShiftStarts
  <2> QED
    BY <2>1, <1>1, <1>2 DEF Shifting
<1>6. ASSUME NEW d \in 1..m, NEW s \in Sh(d - 1)
      PROVE  MovedBack(s, Bucket(b, i, d)) \in Sh(d)
  BY <1>1, <1>2, <1>3, <1>4, ShiftGoesOn
<1>7. \A d \in 1..m : d \in 0..m /\ d - 1 \in 0..m
  BY <1>4
<1> HIDE DEF m, n, a
<1>8. \A d \in 0..m : \A s \in T[d] : s \in Shifting(n) /\ s \in Sh(d)
  OBVIOUS
<1>9. \A d \in 1..m : \A s \in T[d - 1] : G[d][s] \in T[d]
  <2> HIDE DEF Sh
  <2> QED
    BY <1>6, <1>7, <1>8
<1>10. a \in T[0] /\ m \in 0..m
  BY <1>4, <1>5
<1> HIDE DEF Sh
<1> DEFINE IsErasing(f) ==
               f = [d \in 0..m |-> IF d = 0 THEN a ELSE MovedBack(f[d - 1], Bucket(b, i, d))]
<1>11. ASSUME NEW f, IsErasing(f)
       PROVE  f[m] \in Sh(m)
  <2> DEFINE Bad == {d \in 0..m : f[d] \notin Sh(d)}
  <2>1. Bad = {}
    <3> SUFFICES ASSUME Bad # {} PROVE FALSE
      OBVIOUS
    <3>1. Bad \in SUBSET Nat
      BY <1>4
    <3> PICK l \in Bad : \A d \in Bad : l <= d
      BY <3>1, LeastNatural
    <3>2. l \in 0..m /\ f[l] \notin Sh(l)
      OBVIOUS
    <3>3. CASE l = 0
      BY <3>2, <3>3, <1>5, <1>11
    <3>4. CASE l # 0
      <4>1. l \in 1..m /\ l - 1 \in 0..m /\ ~(l <= l - 1)
        BY <3>2, <3>4, <1>4
      <4>2. f[l - 1] \in Sh(l - 1)
        BY <4>1
      <4>3. f[l] = MovedBack(f[l - 1], Bucket(b, i, l))
        BY <4>1, <3>4, <1>11
      <4> QED
        BY <4>1, <4>2, <4>3, <3>2, <1>6
    <3> QED
      BY <3>3, <3>4
  <2> QED
    BY <2>1, <1>10
<1>12. \E f : IsErasing(f)
  <2> PICK f : IsRecursive(f, m, a, G) /\ \A d \in 0..m : f[d] \in T[d]
    <3> HIDE DEF T, G
    <3> QED
      BY <1>4, <1>9, <1>10, RecursiveFunctionExists
  <2>1. \A d \in 1..m : G[d][f[d - 1]] = MovedBack(f[d - 1], Bucket(b, i, d))
    BY <1>7, <1>8
  <2> HIDE DEF T, G
  <2>2. \A d \in 0..m : f[d] = IF d = 0 THEN a ELSE G[d][f[d - 1]]
    BY DEF IsRecursive
  <2>3. f = [d \in 0..m |-> f[d]]
    BY DEF IsRecursive
  <2>4. \A d \in 0..m : d # 0 => d \in 1..m
    BY <1>4
  <2>5. \A d \in 0..m : f[d] = IF d = 0 THEN a ELSE MovedBack(f[d - 1], Bucket(b, i, d))
    BY <2>1, <2>2, <2>4
  <2> QED
    BY <2>3, <2>5
<1> DEFINE s == (CHOOSE f : IsErasing(f))[m]
<1>13. Erased(b, i) = [s.b EXCEPT ![s.hole + 1] = EmptyBucket]
  BY DEF Erased, m, a, run
<1>14. s \in Sh(m)
  <2> HIDE DEF IsErasing
  <2> QED
    BY <1>11, <1>12
<1> HIDE DEF s
<1>15. IsShifted(b, i, e, run - 1, s.hole, s.b)
  BY <1>14 DEF Sh, m
<1> DEFINE r == Erased(b, i)
<1>16. /\ IsTable(hash_func, r) /\ Len(r) = Len(b)
       /\ Stored(r) = Stored(b) \ {KeyAt(b, i)}
       /\ Content(r) = [Content(b) EXCEPT ![KeyAt(b, i)] = Missing]
       /\ Cardinality(Stored(r)) = Cardinality(Stored(b)) - 1
  <2>1. r = [s.b EXCEPT ![s.hole + 1] = EmptyBucket]
    BY <1>13
  <2>2. i \in 0..Len(b) - 1
    BY <1>2 DEF n
  <2> HIDE DEF r
  <2> QED
    BY <2>1, <2>2, <1>2, <1>3, <1>15, ShiftEnds
<1> QED
  BY <1>2, <1>16 DEF i

-----------------------------------------------------------------------------
(* The buckets are a table, of as many items as are counted.                *)
HashInv ==
    /\ hash_func \in Hashes
    /\ IsTable(hash_func, buckets)
    /\ num_items = Cardinality(Stored(buckets))

LEMMA FindsContent == HashInv => Found = Content(buckets)
<1> SUFFICES ASSUME HashInv PROVE Found = Content(buckets)
  OBVIOUS
<1>1. \A k \in HashKey :
        (IF IsIn(buckets, k) THEN buckets[Probe(buckets, k) + 1].value ELSE Missing)
          = Content(buckets)[k]
  BY SearchFinds DEF HashInv
<1>2. Content(buckets) = [k \in HashKey |-> Content(buckets)[k]]
  BY DEF Content
<1> QED
  BY <1>1, <1>2 DEF Found

LEMMA FindsContentNext == HashInv' => Found' = Content(buckets')
<1>1. (HashInv => Found = Content(buckets))'
  BY FindsContent, PTL
<1> QED
  BY <1>1

LEMMA MapStart == InitMap => HashInv /\ Map!Init
<1> SUFFICES ASSUME InitMap PROVE HashInv /\ Map!Init
  OBVIOUS
<1>1. buckets = EmptyBuckets(InitSize) /\ num_items = 0 /\ hash_func \in Hashes
      /\ InitSize \in Nat \ {0}
  BY MapAssumption DEF InitMap
<1>2. /\ IsTable(hash_func, buckets) /\ Stored(buckets) = {}
      /\ Content(buckets) = [k \in HashKey |-> Missing]
  BY <1>1, EmptyTable
<1>3. HashInv
  BY <1>1, <1>2, FS_EmptySet DEF HashInv
<1>4. Found = [k \in HashKey |-> Missing]
  BY <1>2, <1>3, FindsContent
<1> QED
  BY <1>3, <1>4 DEF Map!Init, Map!Empty

(* What a step that leaves a table c, of m items, does to the map.          *)
LEMMA TableNext ==
    ASSUME HashInv, UNCHANGED hash_func, NEW c, NEW m, buckets' = c, num_items' = m,
           IsTable(hash_func, c), m = Cardinality(Stored(c))
    PROVE  HashInv' /\ Found' = Content(c) /\ Found = Content(buckets)
<1>1. HashInv'
  BY DEF HashInv
<1> QED
  BY <1>1, FindsContent, FindsContentNext

LEMMA ItemsAre ==
    ASSUME HashInv
    PROVE  /\ num_items \in Nat /\ Len(buckets) \in Nat \ {0} /\ num_items < Len(buckets)
           /\ Stored(buckets) \in SUBSET HashKey
           /\ num_items = Cardinality({i \in DOMAIN buckets : buckets[i].key # EmptyKey})
           /\ \A x \in 0..Len(buckets) - 1 : Filled(buckets, x) => buckets[x + 1].value \in Value
<1>1. /\ buckets \in Seq(Entry) /\ Len(buckets) # 0 /\ IsDistinct(buckets)
      /\ Cardinality(Stored(buckets)) < Len(buckets)
      /\ \A x \in 0..Len(buckets) - 1 : Filled(buckets, x) => buckets[x + 1].value \in Value
      /\ num_items = Cardinality(Stored(buckets))
  BY DEF HashInv, IsTable
<1>2. IsFiniteSet(Stored(buckets)) /\ Stored(buckets) \in SUBSET HashKey
      /\ Cardinality({i \in DOMAIN buckets : buckets[i].key # EmptyKey})
           = Cardinality(Stored(buckets))
  BY <1>1, StoredIs
<1>3. Cardinality(Stored(buckets)) \in Nat
  BY <1>2, FS_CardinalityType
<1>4. Len(buckets) \in Nat
  BY <1>1
<1> QED
  BY <1>1, <1>2, <1>3, <1>4

(* With at most 3/4 of the buckets full, or all items in twice as many, one *)
(* more item leaves a bucket empty.                                         *)
LEMMA RoomyKeeps ==
    ASSUME HashInv
    PROVE  LET c == Roomy(buckets)
           IN  /\ IsTable(hash_func, c)
               /\ Stored(c) = Stored(buckets) /\ Content(c) = Content(buckets)
               /\ Cardinality(Stored(c)) + 1 < Len(c)
<1>1. /\ num_items \in Nat /\ Len(buckets) \in Nat \ {0} /\ num_items < Len(buckets)
      /\ num_items = Cardinality(Stored(buckets))
      /\ hash_func \in Hashes /\ IsTable(hash_func, buckets)
  BY ItemsAre DEF HashInv
<1>2. CASE num_items >= (Len(buckets) * 3) \div 4
  <2>1. Roomy(buckets) = Expanded(buckets)
    BY <1>2 DEF Roomy
  <2>2. LET c == Expanded(buckets)
        IN  /\ IsTable(hash_func, c) /\ Len(c) = 2 * Len(buckets)
            /\ Stored(c) = Stored(buckets) /\ Content(c) = Content(buckets)
    BY <1>1, ExpandedKeeps
  <2>3. num_items + 1 < 2 * Len(buckets)
    BY <1>1
  <2> QED
    BY <2>1, <2>2, <2>3, <1>1
<1>3. CASE ~(num_items >= (Len(buckets) * 3) \div 4)
  <2>1. Roomy(buckets) = buckets
    BY <1>3 DEF Roomy
  <2>2. num_items + 1 < Len(buckets)
    <3> DEFINE n == Len(buckets)
    <3>1. n \in Nat \ {0} /\ num_items \in Nat /\ num_items < (n * 3) \div 4
      BY <1>1, <1>3
    <3> HIDE DEF n
    <3>2. (n * 3) \div 4 < n
      BY <3>1
    <3>3. (n * 3) \div 4 \in Int
      BY <3>1
    <3> QED
      BY <3>1, <3>2, <3>3 DEF n
  <2> QED
    BY <2>1, <2>2, <1>1
<1> QED
  BY <1>2, <1>3

LEMMA StoredIsFound ==
    ASSUME HashInv, NEW k \in HashKey
    PROVE  /\ Found[k] = Missing <=> k \notin Stored(buckets)
           /\ IsIn(buckets, k) <=> k \in Stored(buckets)
           /\ Found = [j \in HashKey |-> Found[j]]
<1>1. /\ buckets \in Seq(Entry) /\ Len(buckets) # 0 /\ IsDistinct(buckets)
      /\ \A x \in 0..Len(buckets) - 1 : Filled(buckets, x) => buckets[x + 1].value \in Value
  BY DEF HashInv, IsTable
<1>2. Found = Content(buckets)
  BY FindsContent
<1>3. k \notin Stored(buckets) => Found[k] = Missing
  BY <1>1, <1>2, ContentIs
<1>4. k \in Stored(buckets) => Found[k] # Missing
  <2> SUFFICES ASSUME k \in Stored(buckets) PROVE Found[k] # Missing
    OBVIOUS
  <2>1. PICK x \in 0..Len(buckets) - 1 : KeyAt(buckets, x) = k /\ Filled(buckets, x)
    BY <1>1, StoredIs DEF Filled
  <2>2. Found[k] = buckets[x + 1].value
    BY <2>1, <1>1, <1>2, ContentIs
  <2> QED
    BY <2>1, <2>2, <1>1, MapAssumption
<1>5. IsIn(buckets, k) <=> k \in Stored(buckets)
  BY SearchEnds DEF HashInv
<1>6. Found = [j \in HashKey |-> Found[j]]
  BY DEF Found
<1> QED
  BY <1>3, <1>4, <1>5, <1>6

MapStep == HashInv' /\ [Map!Next]_Found

LEMMA InsertStep ==
    ASSUME HashInv, NEW k \in HashKey, NEW v \in Value, Insert(k, v)
    PROVE  MapStep
<1> DEFINE b == Roomy(buckets)
           e == [key |-> k, value |-> v]
<1>1. /\ IsTable(hash_func, b) /\ Stored(b) = Stored(buckets) /\ Content(b) = Content(buckets)
      /\ Cardinality(Stored(b)) + 1 < Len(b)
      /\ hash_func \in Hashes /\ num_items = Cardinality(Stored(buckets))
  BY RoomyKeeps DEF HashInv
<1>2. /\ IF IsIn(b, k) THEN buckets' = b /\ num_items' = num_items
         ELSE buckets' = Put(b, e) /\ num_items' = num_items + 1
      /\ UNCHANGED hash_func
  BY DEF Insert
<1>3. e \in [key : HashKey, value : Value] /\ e.key = k /\ e.value = v
  OBVIOUS
<1> HIDE DEF b, e
<1>4. IsIn(b, k) <=> k \in Stored(buckets)
  BY <1>1, SearchEnds
<1>5. /\ Found[k] = Missing <=> k \notin Stored(buckets)
      /\ Found = [j \in HashKey |-> Found[j]]
  BY StoredIsFound
<1>6. CASE IsIn(b, k)
  <2>1. HashInv' /\ Found' = Content(b) /\ Found = Content(buckets)
    BY <1>1, <1>2, <1>6, TableNext
  <2> QED
    BY <2>1, <1>1 DEF MapStep
<1>7. CASE ~IsIn(b, k)
  <2>1. /\ IsTable(hash_func, Put(b, e))
        /\ Cardinality(Stored(Put(b, e))) = Cardinality(Stored(b)) + 1
        /\ Content(Put(b, e)) = [Content(b) EXCEPT ![k] = v]
    BY <1>1, <1>3, <1>7, PutKeeps
  <2>2. HashInv' /\ Found' = Content(Put(b, e)) /\ Found = Content(buckets)
    BY <2>1, <1>1, <1>2, <1>7, TableNext
  <2>3. Found' = [Found EXCEPT ![k] = IF @ = Missing THEN v ELSE @]
    BY <2>1, <2>2, <1>1, <1>4, <1>5, <1>7
  <2> QED
    BY <2>2, <2>3 DEF MapStep, Map!Next, Map!Insert
<1> QED
  BY <1>6, <1>7

LEMMA AssignStep ==
    ASSUME HashInv, NEW k \in HashKey, NEW v \in Value, Assign(k, v)
    PROVE  MapStep
<1> DEFINE b == Roomy(buckets)
           e == [key |-> k, value |-> v]
<1>1. /\ IsTable(hash_func, b) /\ Stored(b) = Stored(buckets) /\ Content(b) = Content(buckets)
      /\ Cardinality(Stored(b)) + 1 < Len(b)
      /\ hash_func \in Hashes /\ num_items = Cardinality(Stored(buckets))
      /\ IsTable(hash_func, buckets)
  BY RoomyKeeps DEF HashInv
<1>2. /\ IF IsIn(buckets, k) THEN buckets' = Put(buckets, e) /\ num_items' = num_items
         ELSE buckets' = Put(b, e) /\ num_items' = num_items + 1
      /\ UNCHANGED hash_func
  BY DEF Assign
<1>3. e \in [key : HashKey, value : Value] /\ e.key = k /\ e.value = v
  OBVIOUS
<1> HIDE DEF b, e
<1>4. (IsIn(b, k) <=> k \in Stored(buckets)) /\ (IsIn(buckets, k) <=> k \in Stored(buckets))
  BY <1>1, SearchEnds
<1>5. PICK c : /\ buckets' = Put(c, e) /\ IsTable(hash_func, c) /\ Content(c) = Content(buckets)
               /\ IsIn(c, k) \/ Cardinality(Stored(c)) + 1 < Len(c)
               /\ num_items' = IF IsIn(c, k) THEN Cardinality(Stored(c))
                               ELSE Cardinality(Stored(c)) + 1
  <2>1. CASE IsIn(buckets, k)
    BY <2>1, <1>1, <1>2
  <2>2. CASE ~IsIn(buckets, k)
    BY <2>2, <1>1, <1>2, <1>4
  <2> QED
    BY <2>1, <2>2
<1>6. /\ IsTable(hash_func, Put(c, e))
      /\ Cardinality(Stored(Put(c, e))) = num_items'
      /\ Content(Put(c, e)) = [Content(c) EXCEPT ![k] = v]
  BY <1>1, <1>3, <1>5, PutKeeps
<1>7. HashInv' /\ Found' = Content(Put(c, e)) /\ Found = Content(buckets)
  BY <1>2, <1>5, <1>6, TableNext
<1>8. Found' = [Found EXCEPT ![k] = v]
  BY <1>5, <1>6, <1>7
<1> QED
  BY <1>7, <1>8 DEF MapStep, Map!Next, Map!Assign

LEMMA EraseStep ==
    ASSUME HashInv, NEW k \in HashKey, Erase(k)
    PROVE  MapStep
<1> DEFINE r == Erased(buckets, Probe(buckets, k))
<1>1. /\ hash_func \in Hashes /\ num_items = Cardinality(Stored(buckets))
      /\ IsTable(hash_func, buckets)
  BY DEF HashInv
<1>2. IsIn(buckets, k) /\ buckets' = r /\ num_items' = num_items - 1 /\ UNCHANGED hash_func
  BY DEF Erase
<1>3. /\ IsTable(hash_func, r) /\ Content(r) = [Content(buckets) EXCEPT ![k] = Missing]
      /\ Cardinality(Stored(r)) = Cardinality(Stored(buckets)) - 1
  BY <1>1, <1>2, ErasedKeeps
<1> HIDE DEF r
<1>4. HashInv' /\ Found' = Content(r) /\ Found = Content(buckets)
  BY <1>1, <1>2, <1>3, TableNext
<1>5. Found' = [Found EXCEPT ![k] = Missing]
  BY <1>3, <1>4
<1> QED
  BY <1>4, <1>5 DEF MapStep, Map!Next, Map!Erase

LEMMA ClearStep == ASSUME HashInv, Clear PROVE MapStep
<1> DEFINE r == EmptyBuckets(Len(buckets))
<1>1. buckets' = r /\ num_items' = 0 /\ UNCHANGED hash_func /\ Len(buckets) \in Nat \ {0}
  BY ItemsAre DEF Clear
<1>2. /\ IsTable(hash_func, r) /\ Stored(r) = {} /\ Content(r) = [k \in HashKey |-> Missing]
  BY <1>1, EmptyTable
<1> HIDE DEF r
<1>3. HashInv' /\ Found' = Content(r) /\ Found = Content(buckets)
  BY <1>1, <1>2, FS_EmptySet, TableNext
<1> QED
  BY <1>2, <1>3 DEF MapStep, Map!Next, Map!Clear, Map!Empty

LEMMA MapNext == HashInv /\ [NextMap]_hashVars => HashInv' /\ [Map!Next]_Found
<1> SUFFICES ASSUME HashInv, [NextMap]_hashVars PROVE MapStep
  BY DEF MapStep
<1>1. CASE UNCHANGED hashVars
  <2>1. buckets' = buckets /\ num_items' = num_items /\ UNCHANGED hash_func
        /\ IsTable(hash_func, buckets) /\ num_items = Cardinality(Stored(buckets))
    BY <1>1 DEF hashVars, HashInv
  <2>2. HashInv' /\ Found' = Content(buckets) /\ Found = Content(buckets)
    BY <2>1, TableNext
  <2> QED
    BY <2>2 DEF MapStep
<1>2. CASE NextMap
  BY <1>2, InsertStep, AssignStep, EraseStep, ClearStep DEF NextMap
<1> QED
  BY <1>1, <1>2

(* For any keys, values and hash functions: HashMap is a map, whatever      *)
(* collides; in particular erase, which moves items back, puts none out of  *)
(* find's reach.                                                            *)
THEOREM HashMapIsMap == SpecMap => ImplementsMap
<1>1. SpecMap => []HashInv
  BY MapStart, MapNext, PTL DEF SpecMap
<1> QED
  BY <1>1, MapStart, MapNext, PTL DEF SpecMap, ImplementsMap, Map!Spec

(* num_items counts the keys, and some bucket is empty: find, insert and    *)
(* erase all end.                                                           *)
THEOREM SearchesEnd == SpecMap => []HashTypeOK
<1>1. SpecMap => []HashInv
  BY MapStart, MapNext, PTL DEF SpecMap
<1>2. HashInv => HashTypeOK
  <2> SUFFICES ASSUME HashInv PROVE HashTypeOK
    OBVIOUS
  <2>1. buckets \in Seq(Entry)
    BY DEF HashInv, IsTable
  <2> QED
    BY <2>1, ItemsAre DEF HashTypeOK, Entry
<1> QED
  BY <1>1, <1>2, PTL
=============================================================================
