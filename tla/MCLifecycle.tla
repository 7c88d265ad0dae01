---------------------------- MODULE MCLifecycle ----------------------------
(* Instances of Lifecycle for TLC. *)
EXTENDS Lifecycle, TLC

CONSTANTS f1, f2, o1, p1, p2, p3

Owners == [f \in Facility |-> o1]
=============================================================================
