----------------------------- MODULE MCCheckout -----------------------------
(* Instances of Checkout for TLC: three requests racing on one key, and two *)
(* keys that may draw the same access code.                                 *)
EXTENDS Checkout

CONSTANTS r1, r2, r3, k1, k2

MCKeyOf == [r \in Request |-> IF r = r3 /\ k2 \in Key THEN k2 ELSE k1]
=============================================================================
