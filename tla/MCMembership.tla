---------------------------- MODULE MCMembership ----------------------------
(* Instances of Membership for TLC. *)
EXTENDS Membership, TLC

CONSTANTS a, b, o1, o2, t1, t2

Slots == Permutations(Slot)
=============================================================================
