----------------------------- MODULE MCDatabase -----------------------------
(***************************************************************************)
(* Instances of Database for TLC.  The capacities given to the three       *)
(* contents are 68, 164 and 264: each is too large for the record of the   *)
(* one before.                                                             *)
(***************************************************************************)
EXTENDS Database, TLC

CONSTANTS small, medium, large

Sizes == [d \in Data |-> CASE d = small -> 1 [] d = medium -> 100 [] d = large -> 200]
=============================================================================
