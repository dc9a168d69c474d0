----------------------------- MODULE FiniteMap ------------------------------
(***************************************************************************)
(* What HashMap (utils/HashMap.h) promises: a map in which an insertion    *)
(* does not replace the value of a key that is there.                      *)
(***************************************************************************)
CONSTANTS Key, Value, Missing

VARIABLE map

Empty == [k \in Key |-> Missing]

Init == map = Empty

Insert(k, v) == map' = [map EXCEPT ![k] = IF @ = Missing THEN v ELSE @]
Assign(k, v) == map' = [map EXCEPT ![k] = v]
Erase(k)     == map' = [map EXCEPT ![k] = Missing]
Clear        == map' = Empty

Next == Clear \/ \E k \in Key : Erase(k) \/ \E v \in Value : Insert(k, v) \/ Assign(k, v)

Spec == Init /\ [][Next]_map
=============================================================================
