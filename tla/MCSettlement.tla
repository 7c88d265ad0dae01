---------------------------- MODULE MCSettlement ----------------------------
(* Instances of Settlement for TLC: two confirming and two cancelling calls *)
(* at most, and providers that behave like Stripe or like the mock.         *)
EXTENDS Settlement

CONSTANTS c1, c2, x1, x2
=============================================================================
