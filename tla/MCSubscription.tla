--------------------------- MODULE MCSubscription ---------------------------
(* Instances of Subscription for TLC: two agreements, each for its own plan. *)
EXTENDS Subscription, TLC

CONSTANTS s1, s2, p1, p2

TwoPlans == s1 :> p1 @@ s2 :> p2
=============================================================================
