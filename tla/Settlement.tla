----------------------------- MODULE Settlement -----------------------------
(***************************************************************************)
(* The money of one booking that Checkout left pending with its payment    *)
(* row: confirm, cancel with its two-phase refund, the payment webhooks,   *)
(* the gate and the payment provider (src/booking, vendor/payments).       *)
(*                                                                         *)
(* Postgres runs these transactions at Read Committed and none locks the   *)
(* booking row before reading it, so what a handler read and what it later *)
(* writes are two steps; the writes of one transaction are one step.       *)
(***************************************************************************)
EXTENDS Naturals, FiniteSets

CONSTANTS Confirmer,       \* confirmBooking calls
          Canceller,       \* cancelBooking calls
          Copy,            \* event ids the provider files one fact under
          AutoCapture,     \* paying captures; otherwise it only authorises
          StatusOnRefunds, \* refund events carry a status; Stripe's adapter drops it
          MaxFaults        \* bound on crashes, lost answers, rolled back webhooks

ASSUME ProviderAssumption == AutoCapture \in BOOLEAN /\ StatusOnRefunds \in BOOLEAN
ASSUME FaultAssumption == MaxFaults \in Nat

VARIABLES status,  \* Booking.status
          pay,     \* Payment.status
          refund,  \* Refund.status, "none" without a row
          lapsed,  \* Booking.expiresAt has passed
          ledger,  \* WebhookEvent rows
          funds,   \* provider: what became of the payment intent
          reply,   \* provider: the answer stored under ref_<bookingId>
          back,    \* provider: who had the money returned
          events,  \* provider: the events it will deliver, and redeliver
          conf, canc, hook, gate,  \* what each handler is about to do
          flagged, \* history: an operator was asked to reconcile
          faults

books    == <<status, pay, refund>>
provider == <<funds, reply, back, events>>
handlers == <<conf, canc, hook, gate>>
vars == <<books, lapsed, ledger, provider, handlers, flagged, faults>>

Kind == {"authorised", "succeeded", "failed", "refund_ok", "refund_bad"}
Event == Kind \X Copy
Status == {"PENDING_PAYMENT", "CONFIRMED", "CHECKED_IN", "CHECKED_OUT",
           "CANCELLED", "EXPIRED", "REFUND_PENDING", "REFUNDED"}
Plan == {"none", "ignore", "reconcile", "expire", "confirm", "decline",
         "decline_only", "external", "settle", "settle_only", "refund_failed"}

TypeOK ==
  /\ status \in Status
  /\ pay \in {"PENDING", "SUCCEEDED", "FAILED", "REFUNDED"}
  /\ refund \in {"none", "PENDING", "SUCCEEDED", "FAILED"}
  /\ lapsed \in BOOLEAN
  /\ ledger \subseteq Event
  /\ funds \in {"unpaid", "authorised", "captured"}
  /\ reply \in {"none", "pending", "succeeded", "failed"}
  /\ back \in {"nobody", "us", "dashboard"}
  /\ events \subseteq Event
  /\ conf \in [Confirmer -> {"idle", "expire", "capture", "declined",
                             "recheck", "commit", "refused"}]
  /\ canc \in [Canceller -> {"idle", "void", "mark", "marking", "call",
                             "failed", "pending", "succeeded", "settle",
                             "settle_only"}]
  /\ hook \in [Event -> Plan]
  /\ gate \in {"idle", "admit", "leave"}
  /\ flagged \in BOOLEAN
  /\ faults \in 0..MaxFaults

-----------------------------------------------------------------------------
(* The provider and the customer.                                           *)

Emit(kind) == events' = events \cup ({kind} \X Copy)

CustomerPays ==
  /\ funds = "unpaid"
  /\ IF AutoCapture
     THEN funds' = "captured" /\ Emit("succeeded")
     ELSE funds' = "authorised" /\ Emit("authorised")
  /\ UNCHANGED <<books, lapsed, ledger, reply, back, handlers, flagged, faults>>

\* A declined card; the same intent may still be paid afterwards.
CustomerFails ==
  /\ funds = "unpaid"
  /\ Emit("failed")
  /\ UNCHANGED <<books, lapsed, ledger, funds, reply, back, handlers, flagged,
                 faults>>

\* A refund the provider accepted as pending ends one way or the other.
ProviderSettles ==
  /\ reply = "pending" /\ back = "nobody"
  /\ events \cap ({"refund_bad"} \X Copy) = {}
  /\ \/ back' = "us" /\ Emit("refund_ok")
     \/ back' = back /\ Emit("refund_bad")
  /\ UNCHANGED <<books, lapsed, ledger, funds, reply, handlers, flagged, faults>>

\* A refund made on the provider's dashboard.
DashboardRefund ==
  /\ funds = "captured" /\ back = "nobody" /\ reply = "none"
  /\ back' = "dashboard"
  /\ Emit("refund_ok")
  /\ UNCHANGED <<books, lapsed, ledger, funds, reply, handlers, flagged, faults>>

HoldLapses == /\ ~lapsed
              /\ lapsed' = TRUE
              /\ UNCHANGED <<books, ledger, provider, handlers, flagged, faults>>

ReleaseExpiredHold ==
  /\ lapsed /\ status = "PENDING_PAYMENT"
  /\ status' = "EXPIRED"
  /\ UNCHANGED <<pay, refund, lapsed, ledger, provider, handlers, flagged,
                 faults>>

-----------------------------------------------------------------------------
(* captureAndConfirm.                                                       *)

ConfirmGoes(c, s) == conf' = [conf EXCEPT ![c] = s]

ConfirmReads(c) ==
  /\ conf[c] = "idle"
  /\ status = "PENDING_PAYMENT"
  /\ ConfirmGoes(c, IF lapsed THEN "expire" ELSE "capture")
  /\ UNCHANGED <<books, lapsed, ledger, provider, canc, hook, gate, flagged,
                 faults>>

ConfirmWritesExpired(c) ==
  /\ conf[c] = "expire"
  /\ status' = "EXPIRED"
  /\ ConfirmGoes(c, "idle")
  /\ UNCHANGED <<pay, refund, lapsed, ledger, provider, canc, hook, gate,
                 flagged, faults>>

\* The capture of an unpaid intent throws or answers another status.
CaptureFails(c) ==
  /\ conf[c] = "capture"
  /\ funds = "unpaid"
  /\ ConfirmGoes(c, "idle") \/ ConfirmGoes(c, "declined")
  /\ UNCHANGED <<books, lapsed, ledger, provider, canc, hook, gate, flagged,
                 faults>>

ConfirmWritesFailed(c) ==
  /\ conf[c] = "declined"
  /\ pay' = "FAILED"
  /\ ConfirmGoes(c, "idle")
  /\ UNCHANGED <<status, refund, lapsed, ledger, provider, canc, hook, gate,
                 flagged, faults>>

\* cap_<bookingId> makes a second capture answer like the first.
Capture(c) ==
  /\ conf[c] = "capture"
  /\ funds # "unpaid"
  /\ funds' = "captured"
  /\ Emit("succeeded")
  /\ ConfirmGoes(c, "recheck")
  /\ UNCHANGED <<books, lapsed, ledger, reply, back, canc, hook, gate, flagged,
                 faults>>

\* The fresh read of the confirming transaction; "refused" is the transition
\* error the caller gets when it is no longer PENDING_PAYMENT.
ConfirmRechecks(c) ==
  /\ conf[c] = "recheck"
  /\ ConfirmGoes(c, IF status = "PENDING_PAYMENT" THEN "commit" ELSE "refused")
  /\ UNCHANGED <<books, lapsed, ledger, provider, canc, hook, gate, flagged,
                 faults>>

ConfirmCommits(c) ==
  /\ conf[c] = "commit"
  /\ pay' = "SUCCEEDED"
  /\ status' = "CONFIRMED"
  /\ ConfirmGoes(c, "idle")
  /\ UNCHANGED <<refund, lapsed, ledger, provider, canc, hook, gate, flagged,
                 faults>>

ConfirmAnswers(c) ==
  /\ conf[c] = "refused"
  /\ ConfirmGoes(c, "idle")
  /\ UNCHANGED <<books, lapsed, ledger, provider, canc, hook, gate, flagged,
                 faults>>

ConfirmDies(c) ==
  /\ conf[c] # "idle"
  /\ faults < MaxFaults /\ faults' = faults + 1
  /\ ConfirmGoes(c, "idle")
  /\ UNCHANGED <<books, lapsed, ledger, provider, canc, hook, gate, flagged>>

-----------------------------------------------------------------------------
(* cancelBooking and refundAndCancel.                                       *)

CancelGoes(x, s) == canc' = [canc EXCEPT ![x] = s]

\* The snapshot decides: void an unpaid booking, refund a paid one, or resume
\* a refund already under way.
CancelReads(x) ==
  /\ canc[x] = "idle"
  /\ \/ status = "PENDING_PAYMENT" /\ CancelGoes(x, "void")
     \/ status = "CONFIRMED" /\ pay = "SUCCEEDED" /\ CancelGoes(x, "mark")
     \/ status = "CONFIRMED" /\ pay # "SUCCEEDED" /\ CancelGoes(x, "void")
     \/ status = "REFUND_PENDING" /\ CancelGoes(x, "call")
  /\ UNCHANGED <<books, lapsed, ledger, provider, conf, hook, gate, flagged,
                 faults>>

WriteCancelled(x) ==
  /\ canc[x] = "void"
  /\ status' = "CANCELLED"
  /\ CancelGoes(x, "idle")
  /\ UNCHANGED <<pay, refund, lapsed, ledger, provider, conf, hook, gate,
                 flagged, faults>>

\* Phase 1: the fresh read, then REFUND_PENDING and the refund row together,
\* unless a concurrent cancel created the row first.
MarkReads(x) ==
  /\ canc[x] = "mark"
  /\ CancelGoes(x, IF status = "CONFIRMED" THEN "marking" ELSE "idle")
  /\ UNCHANGED <<books, lapsed, ledger, provider, conf, hook, gate, flagged,
                 faults>>

\* Mutant of MarkRefund: the provider is called without phase 1.
CallBeforeMarking(x) ==
  /\ canc[x] = "marking"
  /\ CancelGoes(x, "call")
  /\ UNCHANGED <<books, lapsed, ledger, provider, conf, hook, gate, flagged,
                 faults>>

MarkRefund(x) ==
  /\ canc[x] = "marking"
  /\ IF refund = "none"
     THEN status' = "REFUND_PENDING" /\ refund' = "PENDING"
     ELSE UNCHANGED <<status, refund>>
  /\ CancelGoes(x, "call")
  /\ UNCHANGED <<pay, lapsed, ledger, provider, conf, hook, gate, flagged,
                 faults>>

\* Phase 2: the provider answers ref_<bookingId> once and replays the answer;
\* it throws when there is nothing left to refund.
CallRefund(x) ==
  /\ canc[x] = "call"
  /\ \/ /\ reply # "none"
        /\ CancelGoes(x, reply)
        /\ UNCHANGED provider
     \/ /\ reply = "none" /\ back # "nobody"
        /\ CancelGoes(x, "failed")
        /\ UNCHANGED provider
     \/ /\ reply = "none" /\ back = "nobody"
        /\ \E s \in {"pending", "succeeded", "failed"} :
             /\ reply' = s
             /\ CancelGoes(x, s)
             /\ IF s = "succeeded"
                THEN back' = "us" /\ Emit("refund_ok")
                ELSE UNCHANGED <<back, events>>
        /\ UNCHANGED funds
  /\ UNCHANGED <<books, lapsed, ledger, conf, hook, gate, flagged, faults>>

\* The call never arrives, or its answer is lost: both look like a throw.
RefundCallLost(x) ==
  /\ \/ canc[x] = "call"
     \/ canc[x] = "succeeded"
     \/ canc[x] = "pending"
  /\ faults < MaxFaults /\ faults' = faults + 1
  /\ CancelGoes(x, "failed")
  /\ UNCHANGED <<books, lapsed, ledger, provider, conf, hook, gate, flagged>>

\* recordRefundFailure, unconditionally.
RecordRefundFailure(x) ==
  /\ canc[x] = "failed"
  /\ refund' = "FAILED"
  /\ CancelGoes(x, "idle")
  /\ UNCHANGED <<status, pay, lapsed, ledger, provider, conf, hook, gate,
                 flagged, faults>>

\* Phase 3: a pending refund only gets its provider id; a succeeded one is
\* recorded, and the booking follows if a fresh read finds REFUND_PENDING.
RecordPending(x) ==
  /\ canc[x] = "pending"
  /\ CancelGoes(x, "idle")
  /\ UNCHANGED <<books, lapsed, ledger, provider, conf, hook, gate, flagged,
                 faults>>

SettleReads(x) ==
  /\ canc[x] = "succeeded"
  /\ CancelGoes(x, IF status = "REFUND_PENDING" THEN "settle" ELSE "settle_only")
  /\ UNCHANGED <<books, lapsed, ledger, provider, conf, hook, gate, flagged,
                 faults>>

SettleCommits(x) ==
  /\ canc[x] \in {"settle", "settle_only"}
  /\ refund' = "SUCCEEDED"
  /\ pay' = "REFUNDED"
  /\ status' = IF canc[x] = "settle" THEN "REFUNDED" ELSE status
  /\ CancelGoes(x, "idle")
  /\ UNCHANGED <<lapsed, ledger, provider, conf, hook, gate, flagged, faults>>

CancelDies(x) ==
  /\ canc[x] # "idle"
  /\ faults < MaxFaults /\ faults' = faults + 1
  /\ CancelGoes(x, "idle")
  /\ UNCHANGED <<books, lapsed, ledger, provider, conf, hook, gate, flagged>>

-----------------------------------------------------------------------------
(* PaymentEventsService: one transaction per delivery.                      *)

\* classify, then the reads of each handler decide what it will write.
PlanSucceeded ==
  CASE pay \notin {"PENDING", "FAILED"} -> "ignore"
    [] pay \in {"PENDING", "FAILED"} /\ status # "PENDING_PAYMENT" -> "reconcile"
    [] pay \in {"PENDING", "FAILED"} /\ status = "PENDING_PAYMENT" ->
         IF lapsed THEN "expire" ELSE "confirm"

PlanFailed == IF pay # "PENDING" THEN "ignore"
              ELSE IF status = "PENDING_PAYMENT" THEN "decline"
              ELSE "decline_only"

PlanRefunded == IF refund = "none" THEN "external"
                ELSE IF refund = "SUCCEEDED" THEN "ignore"
                ELSE IF status \in {"REFUND_PENDING", "CONFIRMED"} THEN "settle"
                ELSE "settle_only"

PlanRefundFailed == IF refund = "PENDING" THEN "refund_failed" ELSE "ignore"

PlanOf(kind) ==
  CASE kind = "succeeded" -> PlanSucceeded
    [] kind = "failed" -> PlanFailed
    [] kind = "refund_ok" /\ StatusOnRefunds -> PlanRefunded
    [] kind = "refund_bad" /\ StatusOnRefunds -> PlanRefundFailed
    [] OTHER -> "ignore"

\* The ledger insert comes first: a second delivery of the same event waits
\* for the first and is then a duplicate.
WebhookReads(e) ==
  /\ e \in events \ ledger
  /\ hook[e] = "none"
  /\ hook' = [hook EXCEPT ![e] = PlanOf(e[1])]
  /\ UNCHANGED <<books, lapsed, ledger, provider, conf, canc, gate, flagged,
                 faults>>

\* What each plan writes to the three rows.
Written(plan) ==
  CASE plan = "reconcile" -> <<status, "SUCCEEDED", refund>>
    [] plan = "expire" -> <<"EXPIRED", "SUCCEEDED", refund>>
    [] plan = "confirm" -> <<"CONFIRMED", "SUCCEEDED", refund>>
    [] plan = "decline" -> <<"CANCELLED", "FAILED", refund>>
    [] plan = "decline_only" -> <<status, "FAILED", refund>>
    [] plan = "external" -> <<status, "REFUNDED", refund>>
    [] plan = "settle" -> <<"REFUNDED", "REFUNDED", "SUCCEEDED">>
    [] plan = "settle_only" -> <<status, "REFUNDED", "SUCCEEDED">>
    [] plan = "refund_failed" -> <<status, pay, "FAILED">>
    [] plan = "ignore" -> <<status, pay, refund>>

WebhookCommits(e) ==
  /\ hook[e] # "none"
  /\ status' = Written(hook[e])[1]
  /\ pay' = Written(hook[e])[2]
  /\ refund' = Written(hook[e])[3]
  /\ flagged' = (flagged \/ hook[e] \in {"reconcile", "expire", "external"})
  /\ ledger' = ledger \cup {e}
  /\ hook' = [hook EXCEPT ![e] = "none"]
  /\ UNCHANGED <<lapsed, provider, conf, canc, gate, faults>>

\* The transaction rolls back, ledger row included; the provider retries.
WebhookFails(e) ==
  /\ hook[e] # "none"
  /\ faults < MaxFaults /\ faults' = faults + 1
  /\ hook' = [hook EXCEPT ![e] = "none"]
  /\ UNCHANGED <<books, lapsed, ledger, provider, conf, canc, gate, flagged>>

-----------------------------------------------------------------------------
(* The gate: operator check-in and check-out, and the ticket scan.          *)

GateReads ==
  /\ gate = "idle"
  /\ \/ status = "CONFIRMED" /\ gate' = "admit"
     \/ status = "CHECKED_IN" /\ gate' = "leave"
  /\ UNCHANGED <<books, lapsed, ledger, provider, conf, canc, hook, flagged,
                 faults>>

GateWrites ==
  /\ gate # "idle"
  /\ status' = IF gate = "admit" THEN "CHECKED_IN" ELSE "CHECKED_OUT"
  /\ gate' = "idle"
  /\ UNCHANGED <<pay, refund, lapsed, ledger, provider, conf, canc, hook,
                 flagged, faults>>

\* The scan re-evaluates its condition on the locked row.
ScanCheckIn ==
  /\ status = "CONFIRMED"
  /\ status' = "CHECKED_IN"
  /\ UNCHANGED <<pay, refund, lapsed, ledger, provider, handlers, flagged,
                 faults>>

-----------------------------------------------------------------------------
Init == /\ status = "PENDING_PAYMENT" /\ pay = "PENDING" /\ refund = "none"
        /\ lapsed = FALSE /\ ledger = {}
        /\ funds = "unpaid" /\ reply = "none" /\ back = "nobody" /\ events = {}
        /\ conf = [c \in Confirmer |-> "idle"]
        /\ canc = [x \in Canceller |-> "idle"]
        /\ hook = [e \in Event |-> "none"]
        /\ gate = "idle" /\ flagged = FALSE /\ faults = 0

ConfirmStep(c) == \/ ConfirmReads(c) \/ ConfirmWritesExpired(c) \/ CaptureFails(c)
                  \/ ConfirmWritesFailed(c) \/ Capture(c) \/ ConfirmRechecks(c)
                  \/ ConfirmCommits(c) \/ ConfirmAnswers(c) \/ ConfirmDies(c)

CancelStep(x) == \/ CancelReads(x) \/ WriteCancelled(x) \/ MarkReads(x)
                 \/ MarkRefund(x) \/ CallRefund(x) \/ RefundCallLost(x)
                 \/ RecordRefundFailure(x) \/ RecordPending(x) \/ SettleReads(x)
                 \/ SettleCommits(x) \/ CancelDies(x)

WebhookStep(e) == WebhookReads(e) \/ WebhookCommits(e) \/ WebhookFails(e)

Outside == \/ CustomerPays \/ CustomerFails \/ ProviderSettles
           \/ DashboardRefund \/ HoldLapses \/ ReleaseExpiredHold

Next == \/ \E c \in Confirmer : ConfirmStep(c)
        \/ \E x \in Canceller : CancelStep(x)
        \/ \E e \in Event : WebhookStep(e)
        \/ GateReads \/ GateWrites \/ ScanCheckIn
        \/ Outside

Spec == Init /\ [][Next]_vars

\* The provider delivers what it emitted until it is acknowledged and settles
\* what it accepted; nobody has to confirm, cancel or pay.
FairSpec == /\ Spec
            /\ \A e \in Event : /\ WF_vars(WebhookReads(e))
                                /\ WF_vars(WebhookCommits(e))
            /\ WF_vars(ProviderSettles)

-----------------------------------------------------------------------------
(* Properties.                                                              *)

\* The refund intent is recorded before the provider is called: money this
\* system returned is never money it knows nothing about, whatever crashes
\* between the phases and however many cancels run at once.
RefundIntentFirst == back = "us" => refund # "none"

\* The books never run ahead of the money: a payment recorded as succeeded was
\* captured, one recorded as refunded was returned, whichever of the confirm
\* path, the cancel path and the webhooks recorded it, in whatever order.
BooksFollowMoney ==
  /\ pay \in {"SUCCEEDED", "REFUNDED"} => funds = "captured"
  /\ refund = "SUCCEEDED" \/ pay = "REFUNDED" => back # "nobody"

\* Nobody parks, is let in or is being refunded on money never captured.
Entitled ==
  {"CONFIRMED", "CHECKED_IN", "CHECKED_OUT", "REFUND_PENDING", "REFUNDED"}
ConfirmedIsPaid == status \in Entitled => funds = "captured"

\* The in-flight marker always has a refund row for a retry to resume.
MarkerHasRow == status \in {"REFUND_PENDING", "REFUNDED"} => refund # "none"

\* Claim of booking.service.ts (refundAndCancel, recordRefundFailure): a refund whose
\* outcome is still open here when the provider has returned the money is settled by the
\* provider's event.  It is not where the adapter gives refund events no status, as
\* StripeProvider does: the event is acknowledged as unknown and the refund stays open.
PendingRefundSettles ==
  back = "us" /\ refund = "PENDING" ~> refund = "SUCCEEDED"

-----------------------------------------------------------------------------
(* Refinement: the abstract trail of the money.                             *)

money == CASE back = "us" -> "returned"
           [] back = "dashboard" -> "returned_outside"
           [] back = "nobody" -> IF funds = "captured" THEN "merchant"
                                 ELSE "customer"
booked == IF refund = "SUCCEEDED" \/ pay = "REFUNDED" THEN "returned"
          ELSE IF pay = "SUCCEEDED" \/ status \in Entitled THEN "paid"
          ELSE "open"

Trail == INSTANCE MoneyTrail WITH intent <- refund # "none"

\* The settlement implements MoneyTrail: no sequence of confirms, cancels,
\* webhooks, redeliveries, lost calls and crashes makes the payment, the refund
\* or the booking itself claim a capture or a return that did not happen (so
\* nobody is confirmed, parks or is refunded unpaid), promise back money that was
\* not taken, or make us return money without the promise on record.
KeepsTheTrail == Trail!Spec
=============================================================================
