------------------------------ MODULE MCHolds ------------------------------
(* Instances of Holds for TLC: b1 and b2 ask for the two halves of a window *)
(* and b3 for the whole of it, so that overlapping is not transitive.       *)
EXTENDS Holds

CONSTANTS b1, b2, b3

MCFrom == [b \in Booking |-> IF b = b2 THEN 2 ELSE 1]
MCTo   == [b \in Booking |-> IF b = b1 THEN 2 ELSE 3]
=============================================================================
