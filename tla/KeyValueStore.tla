--------------------------- MODULE KeyValueStore ----------------------------
(***************************************************************************)
(* What Database (utils/Database.h) promises: a map from keys to data.  An *)
(* update may stay in a buffer until the next update or flush, so when the *)
(* process dies or a write fails the map falls back to "safe", in which at *)
(* most the last update is missing.                                        *)
(***************************************************************************)
CONSTANTS Key, Data, Missing

VARIABLES store, safe

Empty == [k \in Key |-> Missing]

Init == store = Empty /\ safe = Empty

(* Key k gets the data d, or is deleted.  All earlier updates are safe.     *)
Set(k, d) ==
    /\ store' = [store EXCEPT ![k] = d]
    /\ safe' \in {store, store'}

Flush == UNCHANGED store /\ safe' = store

(* The process dies, or a write fails.                                      *)
Lose == store' = safe /\ UNCHANGED safe

Clear == store' = Empty /\ safe' = Empty

Next ==
    \/ \E k \in Key, d \in Data \cup {Missing} : Set(k, d)
    \/ Flush \/ Lose \/ Clear

Spec == Init /\ [][Next]_<<store, safe>>
=============================================================================
