------------------------------- MODULE Deque --------------------------------
(***************************************************************************)
(* What CircularBuffer (utils/CircularBuffer.h: "The interface should be   *)
(* similar to std::list") promises: a sequence that grows and shrinks at   *)
(* both ends, and hands back what it loses at the front.                   *)
(***************************************************************************)
EXTENDS Integers, Sequences

CONSTANTS Item, MaxItems

VARIABLES queue,    \* the items, front first
          call      \* the last call: the items it was given or copied out, or how
                    \* many it was to drop

Called(op, items, n) == call' = [op |-> op, items |-> items, n |-> n]

Init == queue = <<>> /\ call = [op |-> "none", items |-> <<>>, n |-> 0]

PushBack(s) == Called("pushBack", s, 0) /\ queue' = queue \o s

PushFront(x) == Called("pushFront", <<x>>, 0) /\ queue' = <<x>> \o queue

TakeFront(n) ==
    /\ queue' = SubSeq(queue, n + 1, Len(queue))
    /\ Called("popFront", SubSeq(queue, 1, n), 0)

DropFront(n) == Called("dropFront", <<>>, n) /\ queue' = SubSeq(queue, n + 1, Len(queue))

DropBack(n) == Called("dropBack", <<>>, n) /\ queue' = SubSeq(queue, 1, Len(queue) - n)

Next ==
    \/ \E n \in 0..MaxItems : \E s \in [1..n -> Item] : PushBack(s)
    \/ \E x \in Item : PushFront(x)
    \/ \E n \in 0..Len(queue) : TakeFront(n) \/ DropFront(n) \/ DropBack(n)

Spec == Init /\ [][Next]_<<queue, call>>
=============================================================================
