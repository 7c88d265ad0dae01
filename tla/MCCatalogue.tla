---------------------------- MODULE MCCatalogue ----------------------------
(* Instances of Catalogue for TLC. *)
EXTENDS Catalogue, TLC

CONSTANTS p1, p2, p3, f1, f2, b1

\* An ordinary default, a plan that is no default, one put to sleep, one for others.
Tried == {[active |-> TRUE, default |-> TRUE, prices |-> "ALL"],
          [active |-> TRUE, default |-> FALSE, prices |-> "ALL"],
          [active |-> FALSE, default |-> FALSE, prices |-> "SLOT"],
          [active |-> FALSE, default |-> TRUE, prices |-> "ALL"]}
Alike == Permutations({p1, p2, p3}) \cup Permutations({f1, f2})
=============================================================================
