----------------------------- MODULE MoneyTrail -----------------------------
(***************************************************************************)
(* What the settlement of one booking promises about its money, whichever  *)
(* of confirm, cancel and the payment webhooks does the work: the books    *)
(* may lag behind the provider, and may even fall back, but they never     *)
(* claim a movement that has not happened, and this system only asks the   *)
(* provider for a return it has already written down.                      *)
(***************************************************************************)

VARIABLES money,   \* where the money is, the provider's truth
          intent,  \* a refund request is on record
          booked   \* the furthest movement the books show

trail == <<money, intent, booked>>

\* What the books may say given where the money is.
Honest(b, m) == /\ b = "paid" => m # "customer"
                /\ b = "returned" => m \in {"returned", "returned_outside"}

Init == money = "customer" /\ intent = FALSE /\ booked = "open"

Taken == /\ money = "customer" /\ money' = "merchant"
         /\ UNCHANGED <<intent, booked>>

\* Only money that was taken is ever promised back, and then shows as taken.
Promised == /\ ~intent /\ money # "customer"
            /\ intent' = TRUE /\ booked' \in {booked, "paid"}
            /\ UNCHANGED money

Returned == /\ intent /\ money = "merchant"
            /\ money' = "returned"
            /\ UNCHANGED <<intent, booked>>

ReturnedOutside == /\ money = "merchant"
                   /\ money' = "returned_outside"
                   /\ UNCHANGED <<intent, booked>>

Booked == /\ booked' \in {"open", "paid", "returned"}
          /\ Honest(booked', money)
          /\ UNCHANGED <<money, intent>>

Next == Taken \/ Promised \/ Returned \/ ReturnedOutside \/ Booked

Spec == Init /\ [][Next]_trail
=============================================================================
