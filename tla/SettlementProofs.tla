-------------------------- MODULE SettlementProofs --------------------------
(*************************************************************************)
(* Proofs about Settlement, for any number of confirming and cancelling  *)
(* calls, any number of event ids per fact, every number of faults and   *)
(* both kinds of provider: type correctness, the refund intent, the      *)
(* capture behind every confirmed booking, and the refinement of         *)
(* MoneyTrail; and, in the second half, about Lifecycle, for any         *)
(* resources, approvals and requests at work.  The two components share  *)
(* no state and no name.                                                 *)
(*                                                                       *)
(* Nothing takes a capture, a return or a refund row back, so it is enough *)
(* to know of every pending step of a settlement which of the three it was *)
(* started from.                                                         *)
(*************************************************************************)
EXTENDS Settlement, Lifecycle, SequenceTheorems, TLAPS

Captured == funds = "captured"
Returned == back # "nobody"
RowExists == refund # "none"

\* What was started from a refund row, or leaves traces of one.
Recorded ==
  /\ status \in {"REFUND_PENDING", "REFUNDED"} => RowExists
  /\ reply # "none" => RowExists
  /\ back = "us" => RowExists
  /\ \A x \in Canceller :
       canc[x] \in {"call", "failed", "pending", "succeeded", "settle",
                    "settle_only"} => RowExists
  /\ \A e \in Event :
       hook[e] \in {"settle", "settle_only", "refund_failed"} => RowExists

\* What was started from a capture, or leaves traces of one.
Paid ==
  /\ status \in {"CONFIRMED", "CHECKED_IN", "CHECKED_OUT", "REFUND_PENDING",
                 "REFUNDED"} => Captured
  /\ pay \in {"SUCCEEDED", "REFUNDED"} => Captured
  /\ RowExists => Captured
  /\ Returned => Captured
  /\ gate # "idle" => Captured
  /\ \A e \in events : e[1] = "succeeded" => Captured
  /\ \A c \in Confirmer : conf[c] \in {"recheck", "commit"} => Captured
  /\ \A x \in Canceller : canc[x] = "marking" => Captured
  /\ \A e \in Event :
       hook[e] \in {"reconcile", "expire", "confirm"} => Captured

\* What was started from a return, or leaves traces of one.
Repaid ==
  /\ refund = "SUCCEEDED" \/ pay = "REFUNDED" => Returned
  /\ reply = "succeeded" => Returned
  /\ \A e \in events : e[1] = "refund_ok" => Returned
  /\ \A x \in Canceller :
       canc[x] \in {"succeeded", "settle", "settle_only"} => Returned
  /\ \A e \in Event :
       hook[e] \in {"external", "settle", "settle_only"} => Returned

Inv == TypeOK /\ Recorded /\ Paid /\ Repaid

-----------------------------------------------------------------------------
\* The initial state satisfies the invariant.
LEMMA InitInv == Init => Inv
<1> SUFFICES ASSUME Init PROVE Inv
  OBVIOUS
<1>1. lapsed \in BOOLEAN /\ flagged \in BOOLEAN
  BY DEF Init
<1>2. TypeOK
  BY <1>1, FaultAssumption DEF Init, TypeOK, Status, Plan
<1>3. Recorded
  BY DEF Init, Recorded, RowExists
<1>4. Paid
  BY DEF Init, Paid, RowExists, Returned, Captured
<1>5. Repaid
  BY DEF Init, Repaid, Returned
<1> QED
  BY <1>2, <1>3, <1>4, <1>5 DEF Inv

\* The plan of an event is one of the plans.
LEMMA PlansAreTyped == ASSUME NEW kind \in Kind PROVE PlanOf(kind) \in Plan
<1>1. PlanSucceeded \in Plan
  BY DEF PlanSucceeded, Plan
<1>2. PlanFailed \in Plan /\ PlanRefunded \in Plan /\ PlanRefundFailed \in Plan
  BY DEF PlanFailed, PlanRefunded, PlanRefundFailed, Plan
<1> QED
  BY <1>1, <1>2 DEF PlanOf, Plan, Kind

\* What a webhook writes, plan by plan: a row it does not mention is kept.
LEMMA RowsWritten ==
  ASSUME NEW p \in Plan \ {"none"}
  PROVE  /\ \/ Written(p)[1] = status
            \/ p = "expire" /\ Written(p)[1] = "EXPIRED"
            \/ p = "confirm" /\ Written(p)[1] = "CONFIRMED"
            \/ p = "decline" /\ Written(p)[1] = "CANCELLED"
            \/ p = "settle" /\ Written(p)[1] = "REFUNDED"
         /\ \/ Written(p)[2] = pay
            \/ p \in {"reconcile", "expire", "confirm"}
               /\ Written(p)[2] = "SUCCEEDED"
            \/ p \in {"decline", "decline_only"} /\ Written(p)[2] = "FAILED"
            \/ p \in {"external", "settle", "settle_only"}
               /\ Written(p)[2] = "REFUNDED"
         /\ \/ Written(p)[3] = refund
            \/ p \in {"settle", "settle_only"} /\ Written(p)[3] = "SUCCEEDED"
            \/ p = "refund_failed" /\ Written(p)[3] = "FAILED"
<1>1. CASE p = "reconcile"
  BY <1>1 DEF Written
<1>2. CASE p = "expire"
  BY <1>2 DEF Written
<1>3. CASE p = "confirm"
  BY <1>3 DEF Written
<1>4. CASE p = "decline"
  BY <1>4 DEF Written
<1>5. CASE p = "decline_only"
  BY <1>5 DEF Written
<1>6. CASE p = "external"
  BY <1>6 DEF Written
<1>7. CASE p = "settle"
  BY <1>7 DEF Written
<1>8. CASE p = "settle_only"
  BY <1>8 DEF Written
<1>9. CASE p = "refund_failed"
  BY <1>9 DEF Written
<1>10. CASE p = "ignore"
  BY <1>10 DEF Written
<1> QED
  BY <1>1, <1>2, <1>3, <1>4, <1>5, <1>6, <1>7, <1>8, <1>9, <1>10 DEF Plan

\* Every step keeps the types.
LEMMA TypeStep == Inv /\ [Next]_vars => TypeOK'
<1> SUFFICES ASSUME Inv, [Next]_vars PROVE TypeOK'
  OBVIOUS
<1> USE DEF Inv, books, provider, handlers
<1>1. ASSUME NEW c \in Confirmer, ConfirmReads(c) PROVE TypeOK'
  BY <1>1 DEF ConfirmReads, ConfirmGoes, TypeOK, Status, Plan, Event, Kind
<1>2. ASSUME NEW c \in Confirmer, ConfirmWritesExpired(c) PROVE TypeOK'
  BY <1>2 DEF ConfirmWritesExpired, ConfirmGoes, TypeOK, Status, Plan, Event,
     Kind
<1>3. ASSUME NEW c \in Confirmer, CaptureFails(c) PROVE TypeOK'
  BY <1>3 DEF CaptureFails, ConfirmGoes, TypeOK, Status, Plan, Event, Kind
<1>4. ASSUME NEW c \in Confirmer, ConfirmWritesFailed(c) PROVE TypeOK'
  BY <1>4 DEF ConfirmWritesFailed, ConfirmGoes, TypeOK, Status, Plan, Event,
     Kind
<1>5. ASSUME NEW c \in Confirmer, Capture(c) PROVE TypeOK'
  BY <1>5 DEF Capture, ConfirmGoes, Emit, TypeOK, Status, Plan, Event, Kind
<1>6. ASSUME NEW c \in Confirmer, ConfirmRechecks(c) PROVE TypeOK'
  BY <1>6 DEF ConfirmRechecks, ConfirmGoes, TypeOK, Status, Plan, Event, Kind
<1>7. ASSUME NEW c \in Confirmer, ConfirmCommits(c) PROVE TypeOK'
  BY <1>7 DEF ConfirmCommits, ConfirmGoes, TypeOK, Status, Plan, Event, Kind
<1>8. ASSUME NEW c \in Confirmer, ConfirmAnswers(c) PROVE TypeOK'
  BY <1>8 DEF ConfirmAnswers, ConfirmGoes, TypeOK, Status, Plan, Event, Kind
<1>9. ASSUME NEW c \in Confirmer, ConfirmDies(c) PROVE TypeOK'
  BY <1>9, FaultAssumption DEF ConfirmDies, ConfirmGoes, TypeOK, Status, Plan, Event, Kind
<1>10. ASSUME NEW x \in Canceller, CancelReads(x) PROVE TypeOK'
  BY <1>10 DEF CancelReads, CancelGoes, TypeOK, Status, Plan, Event, Kind
<1>11. ASSUME NEW x \in Canceller, WriteCancelled(x) PROVE TypeOK'
  BY <1>11 DEF WriteCancelled, CancelGoes, TypeOK, Status, Plan, Event, Kind
<1>12. ASSUME NEW x \in Canceller, MarkReads(x) PROVE TypeOK'
  BY <1>12 DEF MarkReads, CancelGoes, TypeOK, Status, Plan, Event, Kind
<1>13. ASSUME NEW x \in Canceller, MarkRefund(x) PROVE TypeOK'
  BY <1>13 DEF MarkRefund, CancelGoes, TypeOK, Status, Plan, Event, Kind
<1>14. ASSUME NEW x \in Canceller, CallRefund(x) PROVE TypeOK'
  BY <1>14 DEF CallRefund, CancelGoes, Emit, TypeOK, Status, Plan, Event, Kind
<1>15. ASSUME NEW x \in Canceller, RefundCallLost(x) PROVE TypeOK'
  BY <1>15, FaultAssumption DEF RefundCallLost, CancelGoes, TypeOK, Status, Plan, Event, Kind
<1>16. ASSUME NEW x \in Canceller, RecordRefundFailure(x) PROVE TypeOK'
  BY <1>16 DEF RecordRefundFailure, CancelGoes, TypeOK, Status, Plan, Event,
     Kind
<1>17. ASSUME NEW x \in Canceller, RecordPending(x) PROVE TypeOK'
  BY <1>17 DEF RecordPending, CancelGoes, TypeOK, Status, Plan, Event, Kind
<1>18. ASSUME NEW x \in Canceller, SettleReads(x) PROVE TypeOK'
  BY <1>18 DEF SettleReads, CancelGoes, TypeOK, Status, Plan, Event, Kind
<1>19. ASSUME NEW x \in Canceller, SettleCommits(x) PROVE TypeOK'
  BY <1>19 DEF SettleCommits, CancelGoes, TypeOK, Status, Plan, Event, Kind
<1>20. ASSUME NEW x \in Canceller, CancelDies(x) PROVE TypeOK'
  BY <1>20, FaultAssumption DEF CancelDies, CancelGoes, TypeOK, Status, Plan, Event, Kind
<1>21. ASSUME NEW e \in Event, WebhookReads(e) PROVE TypeOK'
  BY <1>21, PlansAreTyped DEF WebhookReads, TypeOK, Status, Plan, Event, Kind,
     Kind
<1>22. ASSUME NEW e \in Event, WebhookCommits(e) PROVE TypeOK'
  <2>1. hook[e] \in Plan \ {"none"}
    BY <1>22 DEF WebhookCommits, TypeOK
  <2>2. /\ status' = Written(hook[e])[1]
        /\ pay' = Written(hook[e])[2]
        /\ refund' = Written(hook[e])[3]
    BY <1>22 DEF WebhookCommits
  <2>3. hook' = [hook EXCEPT ![e] = "none"]
    BY <1>22 DEF WebhookCommits
  <2>4. status' \in Status /\ pay' \in {"PENDING", "SUCCEEDED", "FAILED", "REFUNDED"}
    BY <2>1, <2>2, RowsWritten DEF TypeOK, Status
  <2>5. refund' \in {"none", "PENDING", "SUCCEEDED", "FAILED"}
    BY <2>1, <2>2, RowsWritten DEF TypeOK
  <2>6. hook' \in [Event -> Plan]
    BY <2>3 DEF TypeOK, Plan
  <2>7. flagged' \in BOOLEAN
    BY <1>22 DEF WebhookCommits
  <2>8. ledger' \subseteq Event
    BY <1>22 DEF WebhookCommits, TypeOK
  <2> QED
    BY <1>22, <2>4, <2>5, <2>6, <2>7, <2>8 DEF WebhookCommits, TypeOK
<1>23. ASSUME NEW e \in Event, WebhookFails(e) PROVE TypeOK'
  BY <1>23, FaultAssumption DEF WebhookFails, TypeOK, Status, Plan, Event, Kind
<1>24. CASE GateReads
  BY <1>24 DEF GateReads, TypeOK, Status, Plan, Event, Kind
<1>25. CASE GateWrites
  BY <1>25 DEF GateWrites, TypeOK, Status, Plan, Event, Kind
<1>26. CASE ScanCheckIn
  BY <1>26 DEF ScanCheckIn, TypeOK, Status, Plan, Event, Kind
<1>27. CASE CustomerPays
  BY <1>27 DEF CustomerPays, Emit, TypeOK, Status, Plan, Event, Kind
<1>28. CASE CustomerFails
  BY <1>28 DEF CustomerFails, Emit, TypeOK, Status, Plan, Event, Kind
<1>29. CASE ProviderSettles
  BY <1>29 DEF ProviderSettles, Emit, TypeOK, Status, Plan, Event, Kind
<1>30. CASE DashboardRefund
  BY <1>30 DEF DashboardRefund, Emit, TypeOK, Status, Plan, Event, Kind
<1>31. CASE HoldLapses
  BY <1>31 DEF HoldLapses, TypeOK, Status, Plan, Event, Kind
<1>32. CASE ReleaseExpiredHold
  BY <1>32 DEF ReleaseExpiredHold, TypeOK, Status, Plan, Event, Kind
<1>33. CASE UNCHANGED vars
  BY <1>33 DEF vars, TypeOK, Status, Plan, Event, Kind
<1> QED
  BY <1>1, <1>2, <1>3, <1>4, <1>5, <1>6, <1>7, <1>8, <1>9, <1>10, <1>11,
     <1>12, <1>13, <1>14, <1>15, <1>16, <1>17, <1>18, <1>19, <1>20, <1>21,
     <1>22, <1>23, <1>24, <1>25, <1>26, <1>27, <1>28, <1>29, <1>30, <1>31,
     <1>32, <1>33
     DEF Next, ConfirmStep, CancelStep, WebhookStep, Outside

\* No step uses a refund row that is not there, and none removes the row.
LEMMA RecordedStep == Inv /\ [Next]_vars => Recorded'
<1> SUFFICES ASSUME Inv, [Next]_vars PROVE Recorded'
  OBVIOUS
<1> USE DEF Inv, books, provider, handlers
<1>1. ASSUME NEW c \in Confirmer, ConfirmReads(c) PROVE Recorded'
  BY <1>1 DEF ConfirmReads, ConfirmGoes, Recorded, RowExists, TypeOK
<1>2. ASSUME NEW c \in Confirmer, ConfirmWritesExpired(c) PROVE Recorded'
  BY <1>2 DEF ConfirmWritesExpired, ConfirmGoes, Recorded, RowExists, TypeOK
<1>3. ASSUME NEW c \in Confirmer, CaptureFails(c) PROVE Recorded'
  BY <1>3 DEF CaptureFails, ConfirmGoes, Recorded, RowExists, TypeOK
<1>4. ASSUME NEW c \in Confirmer, ConfirmWritesFailed(c) PROVE Recorded'
  BY <1>4 DEF ConfirmWritesFailed, ConfirmGoes, Recorded, RowExists, TypeOK
<1>5. ASSUME NEW c \in Confirmer, Capture(c) PROVE Recorded'
  BY <1>5 DEF Capture, ConfirmGoes, Emit, Recorded, RowExists, TypeOK
<1>6. ASSUME NEW c \in Confirmer, ConfirmRechecks(c) PROVE Recorded'
  BY <1>6 DEF ConfirmRechecks, ConfirmGoes, Recorded, RowExists, TypeOK
<1>7. ASSUME NEW c \in Confirmer, ConfirmCommits(c) PROVE Recorded'
  BY <1>7 DEF ConfirmCommits, ConfirmGoes, Recorded, RowExists, TypeOK
<1>8. ASSUME NEW c \in Confirmer, ConfirmAnswers(c) PROVE Recorded'
  BY <1>8 DEF ConfirmAnswers, ConfirmGoes, Recorded, RowExists, TypeOK
<1>9. ASSUME NEW c \in Confirmer, ConfirmDies(c) PROVE Recorded'
  BY <1>9 DEF ConfirmDies, ConfirmGoes, Recorded, RowExists, TypeOK
<1>10. ASSUME NEW x \in Canceller, CancelReads(x) PROVE Recorded'
  BY <1>10 DEF CancelReads, CancelGoes, Recorded, RowExists, TypeOK
<1>11. ASSUME NEW x \in Canceller, WriteCancelled(x) PROVE Recorded'
  BY <1>11 DEF WriteCancelled, CancelGoes, Recorded, RowExists, TypeOK
<1>12. ASSUME NEW x \in Canceller, MarkReads(x) PROVE Recorded'
  BY <1>12 DEF MarkReads, CancelGoes, Recorded, RowExists, TypeOK
<1>13. ASSUME NEW x \in Canceller, MarkRefund(x) PROVE Recorded'
  BY <1>13 DEF MarkRefund, CancelGoes, Recorded, RowExists, TypeOK
<1>14. ASSUME NEW x \in Canceller, CallRefund(x) PROVE Recorded'
  BY <1>14 DEF CallRefund, CancelGoes, Emit, Recorded, RowExists, TypeOK
<1>15. ASSUME NEW x \in Canceller, RefundCallLost(x) PROVE Recorded'
  BY <1>15 DEF RefundCallLost, CancelGoes, Recorded, RowExists, TypeOK
<1>16. ASSUME NEW x \in Canceller, RecordRefundFailure(x) PROVE Recorded'
  BY <1>16 DEF RecordRefundFailure, CancelGoes, Recorded, RowExists, TypeOK
<1>17. ASSUME NEW x \in Canceller, RecordPending(x) PROVE Recorded'
  BY <1>17 DEF RecordPending, CancelGoes, Recorded, RowExists, TypeOK
<1>18. ASSUME NEW x \in Canceller, SettleReads(x) PROVE Recorded'
  BY <1>18 DEF SettleReads, CancelGoes, Recorded, RowExists, TypeOK
<1>19. ASSUME NEW x \in Canceller, SettleCommits(x) PROVE Recorded'
  BY <1>19 DEF SettleCommits, CancelGoes, Recorded, RowExists, TypeOK
<1>20. ASSUME NEW x \in Canceller, CancelDies(x) PROVE Recorded'
  BY <1>20 DEF CancelDies, CancelGoes, Recorded, RowExists, TypeOK
<1>21. ASSUME NEW e \in Event, WebhookReads(e) PROVE Recorded'
  BY <1>21 DEF WebhookReads, Recorded, RowExists, TypeOK, PlanOf,
     PlanSucceeded, PlanFailed, PlanRefunded, PlanRefundFailed
<1>22. ASSUME NEW e \in Event, WebhookCommits(e) PROVE Recorded'
  <2>1. hook[e] \in Plan \ {"none"}
    BY <1>22 DEF WebhookCommits, TypeOK
  <2>2. /\ status' = Written(hook[e])[1]
        /\ pay' = Written(hook[e])[2]
        /\ refund' = Written(hook[e])[3]
    BY <1>22 DEF WebhookCommits
  <2>3. hook' = [hook EXCEPT ![e] = "none"]
    BY <1>22 DEF WebhookCommits
  <2>4. RowExists => RowExists'
    BY <2>1, <2>2, RowsWritten DEF RowExists
  <2>5. status' \in {"REFUND_PENDING", "REFUNDED"} => RowExists
    BY <2>1, <2>2, RowsWritten DEF Recorded
  <2>6. \A f \in Event : hook'[f] = hook[f] \/ hook'[f] = "none"
    BY <2>3 DEF TypeOK
  <2> QED
    BY <1>22, <2>4, <2>5, <2>6 DEF WebhookCommits, Recorded
<1>23. ASSUME NEW e \in Event, WebhookFails(e) PROVE Recorded'
  BY <1>23 DEF WebhookFails, Recorded, RowExists, TypeOK
<1>24. CASE GateReads
  BY <1>24 DEF GateReads, Recorded, RowExists, TypeOK
<1>25. CASE GateWrites
  BY <1>25 DEF GateWrites, Recorded, RowExists, TypeOK
<1>26. CASE ScanCheckIn
  BY <1>26 DEF ScanCheckIn, Recorded, RowExists, TypeOK
<1>27. CASE CustomerPays
  BY <1>27 DEF CustomerPays, Emit, Recorded, RowExists, TypeOK
<1>28. CASE CustomerFails
  BY <1>28 DEF CustomerFails, Emit, Recorded, RowExists, TypeOK
<1>29. CASE ProviderSettles
  BY <1>29 DEF ProviderSettles, Emit, Recorded, RowExists, TypeOK
<1>30. CASE DashboardRefund
  BY <1>30 DEF DashboardRefund, Emit, Recorded, RowExists, TypeOK
<1>31. CASE HoldLapses
  BY <1>31 DEF HoldLapses, Recorded, RowExists, TypeOK
<1>32. CASE ReleaseExpiredHold
  BY <1>32 DEF ReleaseExpiredHold, Recorded, RowExists, TypeOK
<1>33. CASE UNCHANGED vars
  BY <1>33 DEF vars, Recorded, RowExists, TypeOK
<1> QED
  BY <1>1, <1>2, <1>3, <1>4, <1>5, <1>6, <1>7, <1>8, <1>9, <1>10, <1>11,
     <1>12, <1>13, <1>14, <1>15, <1>16, <1>17, <1>18, <1>19, <1>20, <1>21,
     <1>22, <1>23, <1>24, <1>25, <1>26, <1>27, <1>28, <1>29, <1>30, <1>31,
     <1>32, <1>33
     DEF Next, ConfirmStep, CancelStep, WebhookStep, Outside

\* No step confirms, honours or refunds a booking without a capture.
LEMMA PaidStep == Inv /\ [Next]_vars => Paid'
<1> SUFFICES ASSUME Inv, [Next]_vars PROVE Paid'
  OBVIOUS
<1> USE DEF Inv, books, provider, handlers
<1>1. ASSUME NEW c \in Confirmer, ConfirmReads(c) PROVE Paid'
  BY <1>1 DEF ConfirmReads, ConfirmGoes, Paid, Recorded, Repaid, RowExists,
     Returned, Captured, TypeOK
<1>2. ASSUME NEW c \in Confirmer, ConfirmWritesExpired(c) PROVE Paid'
  BY <1>2 DEF ConfirmWritesExpired, ConfirmGoes, Paid, Recorded, Repaid,
     RowExists, Returned, Captured, TypeOK
<1>3. ASSUME NEW c \in Confirmer, CaptureFails(c) PROVE Paid'
  BY <1>3 DEF CaptureFails, ConfirmGoes, Paid, Recorded, Repaid, RowExists,
     Returned, Captured, TypeOK
<1>4. ASSUME NEW c \in Confirmer, ConfirmWritesFailed(c) PROVE Paid'
  BY <1>4 DEF ConfirmWritesFailed, ConfirmGoes, Paid, Recorded, Repaid,
     RowExists, Returned, Captured, TypeOK
<1>5. ASSUME NEW c \in Confirmer, Capture(c) PROVE Paid'
  BY <1>5 DEF Capture, ConfirmGoes, Emit, Paid, Recorded, Repaid, RowExists,
     Returned, Captured, TypeOK
<1>6. ASSUME NEW c \in Confirmer, ConfirmRechecks(c) PROVE Paid'
  BY <1>6 DEF ConfirmRechecks, ConfirmGoes, Paid, Recorded, Repaid, RowExists,
     Returned, Captured, TypeOK
<1>7. ASSUME NEW c \in Confirmer, ConfirmCommits(c) PROVE Paid'
  BY <1>7 DEF ConfirmCommits, ConfirmGoes, Paid, Recorded, Repaid, RowExists,
     Returned, Captured, TypeOK
<1>8. ASSUME NEW c \in Confirmer, ConfirmAnswers(c) PROVE Paid'
  BY <1>8 DEF ConfirmAnswers, ConfirmGoes, Paid, Recorded, Repaid, RowExists,
     Returned, Captured, TypeOK
<1>9. ASSUME NEW c \in Confirmer, ConfirmDies(c) PROVE Paid'
  BY <1>9 DEF ConfirmDies, ConfirmGoes, Paid, Recorded, Repaid, RowExists,
     Returned, Captured, TypeOK
<1>10. ASSUME NEW x \in Canceller, CancelReads(x) PROVE Paid'
  BY <1>10 DEF CancelReads, CancelGoes, Paid, Recorded, Repaid, RowExists,
     Returned, Captured, TypeOK
<1>11. ASSUME NEW x \in Canceller, WriteCancelled(x) PROVE Paid'
  BY <1>11 DEF WriteCancelled, CancelGoes, Paid, Recorded, Repaid, RowExists,
     Returned, Captured, TypeOK
<1>12. ASSUME NEW x \in Canceller, MarkReads(x) PROVE Paid'
  BY <1>12 DEF MarkReads, CancelGoes, Paid, Recorded, Repaid, RowExists,
     Returned, Captured, TypeOK
<1>13. ASSUME NEW x \in Canceller, MarkRefund(x) PROVE Paid'
  BY <1>13 DEF MarkRefund, CancelGoes, Paid, Recorded, Repaid, RowExists,
     Returned, Captured, TypeOK
<1>14. ASSUME NEW x \in Canceller, CallRefund(x) PROVE Paid'
  BY <1>14 DEF CallRefund, CancelGoes, Emit, Paid, Recorded, Repaid,
     RowExists, Returned, Captured, TypeOK
<1>15. ASSUME NEW x \in Canceller, RefundCallLost(x) PROVE Paid'
  BY <1>15 DEF RefundCallLost, CancelGoes, Paid, Recorded, Repaid, RowExists,
     Returned, Captured, TypeOK
<1>16. ASSUME NEW x \in Canceller, RecordRefundFailure(x) PROVE Paid'
  BY <1>16 DEF RecordRefundFailure, CancelGoes, Paid, Recorded, Repaid,
     RowExists, Returned, Captured, TypeOK
<1>17. ASSUME NEW x \in Canceller, RecordPending(x) PROVE Paid'
  BY <1>17 DEF RecordPending, CancelGoes, Paid, Recorded, Repaid, RowExists,
     Returned, Captured, TypeOK
<1>18. ASSUME NEW x \in Canceller, SettleReads(x) PROVE Paid'
  BY <1>18 DEF SettleReads, CancelGoes, Paid, Recorded, Repaid, RowExists,
     Returned, Captured, TypeOK
<1>19. ASSUME NEW x \in Canceller, SettleCommits(x) PROVE Paid'
  BY <1>19 DEF SettleCommits, CancelGoes, Paid, Recorded, Repaid, RowExists,
     Returned, Captured, TypeOK
<1>20. ASSUME NEW x \in Canceller, CancelDies(x) PROVE Paid'
  BY <1>20 DEF CancelDies, CancelGoes, Paid, Recorded, Repaid, RowExists,
     Returned, Captured, TypeOK
<1>21. ASSUME NEW e \in Event, WebhookReads(e) PROVE Paid'
  BY <1>21 DEF WebhookReads, Paid, Recorded, Repaid, RowExists, Returned,
     Captured, TypeOK, PlanOf, PlanSucceeded, PlanFailed, PlanRefunded,
     PlanRefundFailed, Event
<1>22. ASSUME NEW e \in Event, WebhookCommits(e) PROVE Paid'
  <2>1. hook[e] \in Plan \ {"none"}
    BY <1>22 DEF WebhookCommits, TypeOK
  <2>2. /\ status' = Written(hook[e])[1]
        /\ pay' = Written(hook[e])[2]
        /\ refund' = Written(hook[e])[3]
    BY <1>22 DEF WebhookCommits
  <2>3. hook' = [hook EXCEPT ![e] = "none"]
    BY <1>22 DEF WebhookCommits
  <2>4. RowExists' => RowExists
    BY <2>1, <2>2, RowsWritten DEF Recorded, RowExists
  <2>5. status' \in {"CONFIRMED", "CHECKED_IN", "CHECKED_OUT", "REFUND_PENDING",
                     "REFUNDED"} => Captured
    BY <2>1, <2>2, RowsWritten DEF Paid, Recorded
  <2>6. pay' \in {"SUCCEEDED", "REFUNDED"} => Captured
    BY <2>1, <2>2, RowsWritten DEF Paid, Repaid
  <2>7. \A f \in Event : hook'[f] = hook[f] \/ hook'[f] = "none"
    BY <2>3 DEF TypeOK
  <2>8. Captured' = Captured /\ Returned' = Returned
    BY <1>22 DEF WebhookCommits, Captured, Returned
  <2> QED
    BY <1>22, <2>4, <2>5, <2>6, <2>7, <2>8 DEF WebhookCommits, Paid
<1>23. ASSUME NEW e \in Event, WebhookFails(e) PROVE Paid'
  BY <1>23 DEF WebhookFails, Paid, Recorded, Repaid, RowExists, Returned,
     Captured, TypeOK
<1>24. CASE GateReads
  BY <1>24 DEF GateReads, Paid, Recorded, Repaid, RowExists, Returned,
     Captured, TypeOK
<1>25. CASE GateWrites
  BY <1>25 DEF GateWrites, Paid, Recorded, Repaid, RowExists, Returned,
     Captured, TypeOK
<1>26. CASE ScanCheckIn
  BY <1>26 DEF ScanCheckIn, Paid, Recorded, Repaid, RowExists, Returned,
     Captured, TypeOK
<1>27. CASE CustomerPays
  BY <1>27 DEF CustomerPays, Emit, Paid, Recorded, Repaid, RowExists,
     Returned, Captured, TypeOK
<1>28. CASE CustomerFails
  BY <1>28 DEF CustomerFails, Emit, Paid, Recorded, Repaid, RowExists,
     Returned, Captured, TypeOK
<1>29. CASE ProviderSettles
  BY <1>29 DEF ProviderSettles, Emit, Paid, Recorded, Repaid, RowExists,
     Returned, Captured, TypeOK
<1>30. CASE DashboardRefund
  BY <1>30 DEF DashboardRefund, Emit, Paid, Recorded, Repaid, RowExists,
     Returned, Captured, TypeOK
<1>31. CASE HoldLapses
  BY <1>31 DEF HoldLapses, Paid, Recorded, Repaid, RowExists, Returned,
     Captured, TypeOK
<1>32. CASE ReleaseExpiredHold
  BY <1>32 DEF ReleaseExpiredHold, Paid, Recorded, Repaid, RowExists,
     Returned, Captured, TypeOK
<1>33. CASE UNCHANGED vars
  BY <1>33 DEF vars, Paid, Recorded, Repaid, RowExists, Returned, Captured,
     TypeOK
<1> QED
  BY <1>1, <1>2, <1>3, <1>4, <1>5, <1>6, <1>7, <1>8, <1>9, <1>10, <1>11,
     <1>12, <1>13, <1>14, <1>15, <1>16, <1>17, <1>18, <1>19, <1>20, <1>21,
     <1>22, <1>23, <1>24, <1>25, <1>26, <1>27, <1>28, <1>29, <1>30, <1>31,
     <1>32, <1>33
     DEF Next, ConfirmStep, CancelStep, WebhookStep, Outside

\* No step records a return the provider has not made.
LEMMA RepaidStep == Inv /\ [Next]_vars => Repaid'
<1> SUFFICES ASSUME Inv, [Next]_vars PROVE Repaid'
  OBVIOUS
<1> USE DEF Inv, books, provider, handlers
<1>1. ASSUME NEW c \in Confirmer, ConfirmReads(c) PROVE Repaid'
  BY <1>1 DEF ConfirmReads, ConfirmGoes, Repaid, Returned, TypeOK
<1>2. ASSUME NEW c \in Confirmer, ConfirmWritesExpired(c) PROVE Repaid'
  BY <1>2 DEF ConfirmWritesExpired, ConfirmGoes, Repaid, Returned, TypeOK
<1>3. ASSUME NEW c \in Confirmer, CaptureFails(c) PROVE Repaid'
  BY <1>3 DEF CaptureFails, ConfirmGoes, Repaid, Returned, TypeOK
<1>4. ASSUME NEW c \in Confirmer, ConfirmWritesFailed(c) PROVE Repaid'
  BY <1>4 DEF ConfirmWritesFailed, ConfirmGoes, Repaid, Returned, TypeOK
<1>5. ASSUME NEW c \in Confirmer, Capture(c) PROVE Repaid'
  BY <1>5 DEF Capture, ConfirmGoes, Emit, Repaid, Returned, TypeOK
<1>6. ASSUME NEW c \in Confirmer, ConfirmRechecks(c) PROVE Repaid'
  BY <1>6 DEF ConfirmRechecks, ConfirmGoes, Repaid, Returned, TypeOK
<1>7. ASSUME NEW c \in Confirmer, ConfirmCommits(c) PROVE Repaid'
  BY <1>7 DEF ConfirmCommits, ConfirmGoes, Repaid, Returned, TypeOK
<1>8. ASSUME NEW c \in Confirmer, ConfirmAnswers(c) PROVE Repaid'
  BY <1>8 DEF ConfirmAnswers, ConfirmGoes, Repaid, Returned, TypeOK
<1>9. ASSUME NEW c \in Confirmer, ConfirmDies(c) PROVE Repaid'
  BY <1>9 DEF ConfirmDies, ConfirmGoes, Repaid, Returned, TypeOK
<1>10. ASSUME NEW x \in Canceller, CancelReads(x) PROVE Repaid'
  BY <1>10 DEF CancelReads, CancelGoes, Repaid, Returned, TypeOK
<1>11. ASSUME NEW x \in Canceller, WriteCancelled(x) PROVE Repaid'
  BY <1>11 DEF WriteCancelled, CancelGoes, Repaid, Returned, TypeOK
<1>12. ASSUME NEW x \in Canceller, MarkReads(x) PROVE Repaid'
  BY <1>12 DEF MarkReads, CancelGoes, Repaid, Returned, TypeOK
<1>13. ASSUME NEW x \in Canceller, MarkRefund(x) PROVE Repaid'
  BY <1>13 DEF MarkRefund, CancelGoes, Repaid, Returned, TypeOK
<1>14. ASSUME NEW x \in Canceller, CallRefund(x) PROVE Repaid'
  BY <1>14 DEF CallRefund, CancelGoes, Emit, Repaid, Returned, TypeOK
<1>15. ASSUME NEW x \in Canceller, RefundCallLost(x) PROVE Repaid'
  BY <1>15 DEF RefundCallLost, CancelGoes, Repaid, Returned, TypeOK
<1>16. ASSUME NEW x \in Canceller, RecordRefundFailure(x) PROVE Repaid'
  BY <1>16 DEF RecordRefundFailure, CancelGoes, Repaid, Returned, TypeOK
<1>17. ASSUME NEW x \in Canceller, RecordPending(x) PROVE Repaid'
  BY <1>17 DEF RecordPending, CancelGoes, Repaid, Returned, TypeOK
<1>18. ASSUME NEW x \in Canceller, SettleReads(x) PROVE Repaid'
  BY <1>18 DEF SettleReads, CancelGoes, Repaid, Returned, TypeOK
<1>19. ASSUME NEW x \in Canceller, SettleCommits(x) PROVE Repaid'
  BY <1>19 DEF SettleCommits, CancelGoes, Repaid, Returned, TypeOK
<1>20. ASSUME NEW x \in Canceller, CancelDies(x) PROVE Repaid'
  BY <1>20 DEF CancelDies, CancelGoes, Repaid, Returned, TypeOK
<1>21. ASSUME NEW e \in Event, WebhookReads(e) PROVE Repaid'
  BY <1>21 DEF WebhookReads, Repaid, Returned, TypeOK, PlanOf, PlanSucceeded,
     PlanFailed, PlanRefunded, PlanRefundFailed, Event
<1>22. ASSUME NEW e \in Event, WebhookCommits(e) PROVE Repaid'
  <2>1. hook[e] \in Plan \ {"none"}
    BY <1>22 DEF WebhookCommits, TypeOK
  <2>2. /\ status' = Written(hook[e])[1]
        /\ pay' = Written(hook[e])[2]
        /\ refund' = Written(hook[e])[3]
    BY <1>22 DEF WebhookCommits
  <2>3. hook' = [hook EXCEPT ![e] = "none"]
    BY <1>22 DEF WebhookCommits
  <2>4. refund' = "SUCCEEDED" \/ pay' = "REFUNDED" => Returned
    BY <2>1, <2>2, RowsWritten DEF Repaid
  <2>5. \A f \in Event : hook'[f] = hook[f] \/ hook'[f] = "none"
    BY <2>3 DEF TypeOK
  <2>6. Returned' = Returned
    BY <1>22 DEF WebhookCommits, Returned
  <2> QED
    BY <1>22, <2>4, <2>5, <2>6 DEF WebhookCommits, Repaid
<1>23. ASSUME NEW e \in Event, WebhookFails(e) PROVE Repaid'
  BY <1>23 DEF WebhookFails, Repaid, Returned, TypeOK
<1>24. CASE GateReads
  BY <1>24 DEF GateReads, Repaid, Returned, TypeOK
<1>25. CASE GateWrites
  BY <1>25 DEF GateWrites, Repaid, Returned, TypeOK
<1>26. CASE ScanCheckIn
  BY <1>26 DEF ScanCheckIn, Repaid, Returned, TypeOK
<1>27. CASE CustomerPays
  BY <1>27 DEF CustomerPays, Emit, Repaid, Returned, TypeOK
<1>28. CASE CustomerFails
  BY <1>28 DEF CustomerFails, Emit, Repaid, Returned, TypeOK
<1>29. CASE ProviderSettles
  BY <1>29 DEF ProviderSettles, Emit, Repaid, Returned, TypeOK
<1>30. CASE DashboardRefund
  BY <1>30 DEF DashboardRefund, Emit, Repaid, Returned, TypeOK
<1>31. CASE HoldLapses
  BY <1>31 DEF HoldLapses, Repaid, Returned, TypeOK
<1>32. CASE ReleaseExpiredHold
  BY <1>32 DEF ReleaseExpiredHold, Repaid, Returned, TypeOK
<1>33. CASE UNCHANGED vars
  BY <1>33 DEF vars, Repaid, Returned, TypeOK
<1> QED
  BY <1>1, <1>2, <1>3, <1>4, <1>5, <1>6, <1>7, <1>8, <1>9, <1>10, <1>11,
     <1>12, <1>13, <1>14, <1>15, <1>16, <1>17, <1>18, <1>19, <1>20, <1>21,
     <1>22, <1>23, <1>24, <1>25, <1>26, <1>27, <1>28, <1>29, <1>30, <1>31,
     <1>32, <1>33
     DEF Next, ConfirmStep, CancelStep, WebhookStep, Outside

-----------------------------------------------------------------------------
(* Results.                                                                 *)

\* The invariant is inductive.
LEMMA Inductive == Inv /\ [Next]_vars => Inv'
BY TypeStep, RecordedStep, PaidStep, RepaidStep DEF Inv

\* The settlement is well typed, whatever the constants.
THEOREM TypeCorrect == Spec => []TypeOK
<1>1. Inv => TypeOK
  BY DEF Inv
<1> QED
  BY <1>1, InitInv, Inductive, PTL DEF Spec

\* Money we returned always has a refund row, and so has every booking marked
\* as refunding, however many cancels race and wherever they crash.
THEOREM RefundIntentAlwaysFirst == Spec => [](RefundIntentFirst /\ MarkerHasRow)
<1>1. Inv => RefundIntentFirst /\ MarkerHasRow
  BY DEF Inv, Recorded, RowExists, RefundIntentFirst, MarkerHasRow
<1> QED
  BY <1>1, InitInv, Inductive, PTL DEF Spec

\* Nobody is confirmed, parked or refunded on money that was not captured.
THEOREM ConfirmedIsAlwaysPaid == Spec => []ConfirmedIsPaid
<1>1. Inv => ConfirmedIsPaid
  BY DEF Inv, Paid, Captured, Entitled, ConfirmedIsPaid
<1> QED
  BY <1>1, InitInv, Inductive, PTL DEF Spec

\* The books never claim a capture or a return that did not happen.
THEOREM BooksAlwaysFollowMoney == Spec => []BooksFollowMoney
<1>1. Inv => BooksFollowMoney
  BY DEF Inv, Paid, Repaid, Captured, Returned, BooksFollowMoney
<1> QED
  BY <1>1, InitInv, Inductive, PTL DEF Spec

-----------------------------------------------------------------------------
(* Refinement of MoneyTrail.                                                *)

TrailStep == [Trail!Next]_(Trail!trail)

\* A step that moves neither the money nor the intent is one of bookkeeping.
LEMMA BookkeepingStep ==
  ASSUME Inv', money' = money, RowExists' = RowExists
  PROVE  TrailStep
<1>1. Trail!Honest(booked', money)
  <2>1. back' \in {"nobody", "us", "dashboard"}
    BY DEF Inv, TypeOK
  <2>2. booked' = "returned" => Returned'
    BY DEF Inv, Repaid, booked
  <2>3. booked' = "paid" => Captured'
    BY DEF Inv, Paid, booked, Entitled
  <2>4. Trail!Honest(booked', money')
    BY <2>1, <2>2, <2>3 DEF Trail!Honest, money, Returned, Captured
  <2> QED
    BY <2>4 DEF Trail!Honest
<1>2. booked' \in {"open", "paid", "returned"}
  BY DEF booked
<1>3. Trail!Booked
  BY <1>1, <1>2 DEF Trail!Booked, RowExists
<1> QED
  BY <1>3 DEF TrailStep, Trail!Next

\* A step that leaves the provider's truth alone moves no money.
LEMMA MoneyStays ==
  ASSUME UNCHANGED <<funds, back>> PROVE money' = money
BY DEF money

\* A first capture takes the money; a repeated one changes nothing.
LEMMA CaptureStep ==
  ASSUME Inv, UNCHANGED <<books, back>>, funds' = "captured" \/ funds' = funds
  PROVE  TrailStep
<1>1. booked' = booked /\ (refund # "none")' = (refund # "none")
  BY DEF books, booked, Entitled
<1>2. CASE funds' = funds
  BY <1>1, <1>2 DEF TrailStep, Trail!trail, money
<1>3. CASE funds # "captured" /\ funds' = "captured"
  <2>1. back = "nobody"
    BY <1>3 DEF Inv, TypeOK, Paid, Returned, Captured
  <2>2. money = "customer" /\ money' = "merchant"
    BY <1>3, <2>1 DEF money
  <2>3. Trail!Taken
    BY <1>1, <2>2 DEF Trail!Taken
  <2> QED
    BY <2>3 DEF TrailStep, Trail!Next
<1> QED
  BY <1>2, <1>3

\* The provider returns captured money on our request, or without us.
LEMMA ReturnStep ==
  ASSUME Inv, Inv', UNCHANGED <<books, funds>>, back = "nobody",
         back' \in {"us", "dashboard"}
  PROVE  TrailStep
<1>1. booked' = booked /\ (refund # "none")' = (refund # "none")
  BY DEF books, booked, Entitled
<1>2. money = "merchant"
  BY DEF money, Inv, Paid, Returned, Captured
<1>3. CASE back' = "us"
  <2>1. money' = "returned" /\ refund # "none"
    BY <1>1, <1>3 DEF money, Inv, Recorded, RowExists
  <2>2. Trail!Returned
    BY <1>1, <1>2, <2>1 DEF Trail!Returned
  <2> QED
    BY <2>2 DEF TrailStep, Trail!Next
<1>4. CASE back' = "dashboard"
  <2>1. Trail!ReturnedOutside
    BY <1>1, <1>2, <1>4 DEF Trail!ReturnedOutside, money
  <2> QED
    BY <2>1 DEF TrailStep, Trail!Next
<1> QED
  BY <1>3, <1>4

\* Marking a refund promises the money back, or finds it already promised.
LEMMA MarkStep ==
  ASSUME Inv, Inv', NEW x \in Canceller, MarkRefund(x)
  PROVE  TrailStep
<1>1. money' = money
  BY MoneyStays DEF MarkRefund, provider
<1>2. CASE refund # "none"
  BY <1>1, <1>2, BookkeepingStep DEF MarkRefund, RowExists
<1>3. CASE refund = "none"
  <2>1. refund' = "PENDING" /\ pay' = pay /\ status' = "REFUND_PENDING"
    BY <1>3 DEF MarkRefund
  <2>2. booked' \in {booked, "paid"}
    BY <1>3, <2>1 DEF booked, Entitled
  <2>3. Captured
    BY DEF MarkRefund, Inv, Paid
  <2>4. money # "customer"
    BY <2>3 DEF Inv, TypeOK, money, Captured
  <2>5. Trail!Promised
    BY <1>1, <1>3, <2>1, <2>2, <2>4 DEF Trail!Promised
  <2> QED
    BY <2>5 DEF TrailStep, Trail!Next
<1> QED
  BY <1>2, <1>3

\* What every step does to the money, the row and the books.
LEMMA StepKinds ==
  ASSUME Inv, [Next]_vars
  PROVE  \/ UNCHANGED <<funds, back>> /\ RowExists' = RowExists
         \/ UNCHANGED <<books, back>> /\ funds' \in {"captured", funds}
         \/ UNCHANGED <<books, back>> /\ funds = "unpaid" /\ funds' = "authorised"
         \/ /\ UNCHANGED <<books, funds>>
            /\ back = "nobody" /\ back' \in {"us", "dashboard"}
         \/ \E x \in Canceller : MarkRefund(x)
<1> USE DEF Inv, books, provider, handlers
<1>1. ASSUME NEW c \in Confirmer, ConfirmStep(c)
      PROVE  \/ UNCHANGED <<funds, back>> /\ RowExists' = RowExists
             \/ UNCHANGED <<books, back>> /\ funds' \in {"captured", funds}
  BY <1>1 DEF RowExists, ConfirmStep, ConfirmReads, ConfirmWritesExpired,
     CaptureFails, ConfirmWritesFailed, Capture, ConfirmRechecks,
     ConfirmCommits, ConfirmAnswers, ConfirmDies
<1>2. ASSUME NEW x \in Canceller, CancelStep(x), ~MarkRefund(x)
      PROVE  \/ UNCHANGED <<funds, back>> /\ RowExists' = RowExists
             \/ /\ UNCHANGED <<books, funds>>
                /\ back = "nobody" /\ back' \in {"us", "dashboard"}
  <2>1. CASE CallRefund(x)
    BY <2>1 DEF RowExists, CallRefund
  <2>2. CASE RecordRefundFailure(x)
    BY <2>2 DEF RowExists, RecordRefundFailure, Recorded
  <2>3. CASE SettleCommits(x)
    BY <2>3 DEF RowExists, SettleCommits, Recorded
  <2> QED
    BY <1>2, <2>1, <2>2, <2>3 DEF RowExists, CancelStep, CancelReads,
       WriteCancelled, MarkReads, RefundCallLost, RecordPending, SettleReads,
       CancelDies
<1>3. ASSUME NEW e \in Event, WebhookStep(e)
      PROVE  UNCHANGED <<funds, back>> /\ RowExists' = RowExists
  <2>1. CASE WebhookCommits(e)
    <3>1. hook[e] \in Plan \ {"none"} /\ refund' = Written(hook[e])[3]
      BY <2>1 DEF WebhookCommits, TypeOK
    <3>2. RowExists' = RowExists
      BY <3>1, RowsWritten DEF RowExists, Recorded
    <3> QED
      BY <2>1, <3>2 DEF WebhookCommits
  <2> QED
    BY <1>3, <2>1 DEF WebhookStep, WebhookReads, WebhookFails, RowExists
<1>4. CASE GateReads \/ GateWrites \/ ScanCheckIn \/ HoldLapses
           \/ ReleaseExpiredHold \/ CustomerFails
  BY <1>4 DEF GateReads, GateWrites, ScanCheckIn, HoldLapses,
     ReleaseExpiredHold, CustomerFails, RowExists
<1>5. CASE CustomerPays \/ ProviderSettles \/ DashboardRefund
  BY <1>5 DEF CustomerPays, ProviderSettles, DashboardRefund, RowExists
<1>6. CASE UNCHANGED vars
  BY <1>6 DEF vars, RowExists
<1> QED
  BY <1>1, <1>2, <1>3, <1>4, <1>5, <1>6 DEF Next, Outside, CancelStep

\* An authorisation holds the money but does not take it.
LEMMA AuthoriseStep ==
  ASSUME UNCHANGED <<books, back>>, funds = "unpaid", funds' = "authorised"
  PROVE  TrailStep
<1>1. booked' = booked /\ money' = money /\ (refund # "none")' = (refund # "none")
  BY DEF books, booked, money, Entitled
<1> QED
  BY <1>1 DEF TrailStep, Trail!trail

\* The settlement implements the trail of the money: every step is a step of
\* MoneyTrail, whatever races, is lost, is redelivered or crashes.
THEOREM SettlementKeepsTheTrail == Spec => KeepsTheTrail
<1>1. Init => Trail!Init
  BY DEF Init, Trail!Init, money, booked, Entitled
<1>2. Inv /\ Inv' /\ [Next]_vars => TrailStep
  BY StepKinds, MoneyStays, BookkeepingStep, CaptureStep, AuthoriseStep,
     ReturnStep, MarkStep
<1> QED
  BY <1>1, <1>2, InitInv, Inductive, PTL DEF Spec, KeepsTheTrail, Trail!Spec,
     TrailStep
-----------------------------------------------------------------------------
(* Lifecycle: who administers the platform.                                 *)

\* The types that the argument needs.
PeopleTyped == /\ life \in [Resource -> Life] /\ super \subseteq Person
               /\ approval \in [Approval -> Request \cup {Unused}]
               /\ flight \in [Slot -> Task \cup {Idle}]

\* A request at work that may take an administrator away when it writes.
Changing(s) == flight[s].do \in {"move", "demote", "delete"} /\ flight[s].of \in Person

\* Until two changes of administrators overlap there is one of them at most, and an
\* administrator besides the one it is about.
OneChange == \A s, x \in Slot : Changing(s) /\ Changing(x) => s = x
Another == \A s \in Slot : Changing(s) => Admins \ {flight[s].of} # {}
AdminsStand == ~crossed => Admins # {} /\ OneChange /\ Another

\* A demotion at work redeems an approval that was requested.
Issued == \A s \in Slot : flight[s].do = "demote" => approval[flight[s].id] # Unused

LifecycleInv == PeopleTyped /\ Issued /\ AdminsStand

\* How a step disturbs that: not at all, by starting a change, or by ending it.
Claimed(x) == flight'[x].do = "demote" =>
                flight'[x] = flight[x] \/ approval[flight'[x].id] # Unused
Same(x) == Claimed(x) /\ (Changing(x)' => Changing(x) /\ flight'[x].of = flight[x].of)
Spares == /\ Admins \subseteq Admins' /\ crossed' = crossed
          /\ \A x \in Slot : Same(x)
Opens == \E s \in Slot :
           /\ Admins' = Admins /\ Claimed(s) /\ \A x \in Slot \ {s} : Same(x)
           /\ crossed => crossed'
           /\ Changing(s)' /\ ~crossed' =>
                ~Crossing(s) /\ (Admins # {} => Admins \ {flight'[s].of} # {})
Closes == \E s \in Slot :
            /\ Changing(s) /\ ~Changing(s)' /\ \A x \in Slot : Same(x)
            /\ Admins \ {flight[s].of} \subseteq Admins' /\ crossed' = crossed

LEMMA AdminsMove ==
  ASSUME AdminsStand, Spares \/ Opens \/ Closes
  PROVE  AdminsStand'
<1> SUFFICES ASSUME ~crossed' PROVE (Admins # {} /\ OneChange /\ Another)'
  BY DEF AdminsStand
<1>1. CASE Spares
  BY <1>1 DEF Spares, Same, AdminsStand, OneChange, Another
<1>2. CASE Opens
  <2>1. PICK s \in Slot :
           /\ Admins' = Admins /\ Claimed(s) /\ \A x \in Slot \ {s} : Same(x)
           /\ crossed => crossed'
           /\ Changing(s)' /\ ~crossed' =>
                ~Crossing(s) /\ (Admins # {} => Admins \ {flight'[s].of} # {})
    BY <1>2 DEF Opens
  <2>2. Changing(s)' => \A x \in Slot \ {s} : ~Changing(x)
    BY <2>1 DEF Crossing, Changing
  <2> QED BY <2>1, <2>2 DEF Same, AdminsStand, OneChange, Another
<1>3. CASE Closes
  BY <1>3 DEF Closes, Same, AdminsStand, OneChange, Another
<1> QED BY <1>1, <1>2, <1>3

(* An approval that is pending is one that was requested.                   *)
LEMMA PendingTypes ==
  ASSUME PeopleTyped, NEW a \in Approval, approval[a].state = "PENDING"
  PROVE  approval[a] \in Request
  BY DEF PeopleTyped, Unused

(* What the kinds of request are about.                                     *)
LEMMA TaskTypes ==
  ASSUME PeopleTyped, NEW s \in Slot
  PROVE  LET t == flight[s]
         IN /\ t.do = "move" => t \in [do : {"move"}, of : Resource, to : Life, saw : Life]
            /\ t.do \in {"purge", "remove", "demote"} =>
                 t \in [do : {"purge", "remove", "demote"}, of : Resource,
                        id : Approval, by : Person]
            /\ t.do = "delete" => t \in [do : {"delete"}, of : Person]
            /\ t.do \in {"refund", "close"} =>
                 t \in [do : {"refund", "close"}, of : Facility] /\ t.of \notin Person
  BY KindAssumption DEF PeopleTyped, Task, Idle

LEMMA TypedIds ==
  ASSUME NEW t \in Task \cup {Idle}, t.do = "demote"
  PROVE  t.id \in Approval
  BY DEF Task, Idle

(* The administrators are some of the people.                               *)
LEMMA AdminsSame ==
  ASSUME life' = life, super' = super, deleted' = deleted
  PROVE  Admins' = Admins
  BY DEF Admins

(* A request that ends leaves the others as they were.                      *)
LEMMA Ends ==
  ASSUME PeopleTyped, NEW s \in Slot, Done(s)
  PROVE  /\ flight' \in [Slot -> Task \cup {Idle}] /\ ~Changing(s)'
         /\ \A x \in Slot : Same(x) /\ (x # s => flight'[x] = flight[x])
  BY DEF PeopleTyped, Done, Idle, Changing, Same, Claimed

LEMMA Starts ==
  ASSUME PeopleTyped, NEW s \in Slot, NEW t \in Task, Start(s, t)
  PROVE  /\ flight' \in [Slot -> Task \cup {Idle}] /\ ~Changing(s) /\ flight'[s] = t
         /\ \A x \in Slot \ {s} : Same(x) /\ flight'[x] = flight[x]
  BY DEF PeopleTyped, Start, FirstFree, Idle, Changing, Same, Claimed

(* Removing a tombstone takes no administrator.                             *)
LEMMA ErasesNone ==
  ASSUME PeopleTyped, super' = super, NEW r, Buried(r), Erase(r)
  PROVE  life' \in [Resource -> Life] /\ Admins \subseteq Admins'
<1>1. life' \in [Resource -> Life] /\ \A p \in Resource : p # r => life'[p] = life[p]
  BY DEF PeopleTyped, Erase, Life
<1>2. ASSUME NEW p \in Admins PROVE p \in Admins'
  <2>1. p \in Resource /\ p # r /\ p \in super \ deleted /\ life[p] = "ACTIVE"
    BY <1>2 DEF Admins, Buried, PeopleTyped, Resource
  <2> QED BY <1>1, <2>1 DEF Admins, Erase
<1> QED BY <1>1, <1>2

LEMMA MovesStep ==
  ASSUME PeopleTyped, NEW s \in Slot,
         \/ \E r \in Resource, to \in Life \ {"GONE"} : MoveReads(s, r, to)
         \/ MoveWrites(s)
  PROVE  PeopleTyped' /\ (Spares \/ Opens \/ Closes)
<1>1. ASSUME NEW r \in Resource, NEW to \in Life \ {"GONE"}, MoveReads(s, r, to)
      PROVE  PeopleTyped' /\ Opens
  <2> DEFINE t == [do |-> "move", of |-> r, to |-> to, saw |-> life[r]]
  <2>1. t \in Task
    BY DEF Task, PeopleTyped
  <2>2. Start(s, t) /\ Admins' = Admins
    BY <1>1, AdminsSame DEF MoveReads, rows, people
  <2> HIDE DEF t
  <2>3. PeopleTyped' /\ flight'[s] = t /\ \A x \in Slot \ {s} : Same(x)
    BY <1>1, <2>1, <2>2, Starts DEF PeopleTyped, MoveReads, rows, people
  <2>4. Changing(s)' => r \in Person
    BY <2>3 DEF t, Changing
  <2>5. r \notin Admins /\ t.of = r
    BY <1>1 DEF MoveReads, Loaded, From, MayClose, Protected, Admins, Life, t
  <2>6. crossed' = (crossed \/ (r \in Person /\ Crossing(s)))
    BY <1>1 DEF MoveReads
  <2>7. Admins # {} => Admins \ {flight'[s].of} # {}
    BY <2>3, <2>5
  <2>8. Claimed(s)
    BY <2>3 DEF t, Claimed
  <2> QED BY <2>2, <2>3, <2>4, <2>6, <2>7, <2>8 DEF Opens
<1>2. ASSUME MoveWrites(s) PROVE PeopleTyped' /\ (Spares \/ Closes)
  <2> DEFINE t == flight[s]
  <2>1. /\ Done(s) /\ super' = super /\ deleted' = deleted /\ approval' = approval
        /\ crossed' = crossed /\ t.do = "move"
    BY <1>2 DEF MoveWrites, people
  <2>2. t.of \in Resource /\ t.to \in Life
    BY <2>1, TaskTypes
  <2>3. life' = life \/ life' = [life EXCEPT ![t.of] = t.to]
    BY <1>2 DEF MoveWrites, rows, Placed
  <2>4. PeopleTyped'
    BY <2>1, <2>2, <2>3, Ends DEF PeopleTyped
  <2>5. Admins \ {t.of} \subseteq Admins'
    <3>1. \A p \in Resource : p # t.of => life'[p] = life[p]
      BY <2>3 DEF PeopleTyped
    <3> QED BY <2>1, <3>1 DEF Admins, PeopleTyped, Resource
  <2>6. CASE t.of \in Person
    BY <2>1, <2>4, <2>5, <2>6, Ends DEF Closes, Changing
  <2>7. CASE t.of \notin Person
    <3>1. Admins \subseteq Admins'
      BY <2>5, <2>7 DEF Admins, PeopleTyped
    <3> QED BY <2>1, <2>4, <3>1, Ends DEF Spares
  <2> QED BY <2>6, <2>7
<1> QED BY <1>1, <1>2

(* A purge, a forced closing and a deletion.                                *)
LEMMA CloseStep ==
  ASSUME PeopleTyped, NEW s \in Slot,
         \/ \E f \in Facility : ForceReads(s, f)
         \/ CancelAndRefund(s) \/ ForceArchives(s)
         \/ PurgeChecks(s) \/ PurgeRemoves(s)
  PROVE  PeopleTyped' /\ Spares
<1>1. ASSUME NEW f \in Facility, ForceReads(s, f) PROVE PeopleTyped' /\ Spares
  <2> DEFINE t == [do |-> "refund", of |-> f]
  <2>1. t \in Task /\ Start(s, t)
    BY <1>1 DEF Task, ForceReads
  <2> HIDE DEF t
  <2>2. flight' \in [Slot -> Task \cup {Idle}] /\ \A x \in Slot : Same(x)
    BY <2>1, Starts DEF t, Same, Claimed, Changing
  <2> QED BY <1>1, <2>2, AdminsSame
        DEF PeopleTyped, Spares, ForceReads, rows, people, history
<1>2. ASSUME CancelAndRefund(s) PROVE PeopleTyped' /\ Spares
  <2>1. flight' \in [Slot -> Task \cup {Idle}] /\ \A x \in Slot : Same(x)
    <3>1. CASE Done(s)
      BY <3>1, Ends
    <3>2. CASE flight' = [flight EXCEPT ![s].do = "close"]
      <4>1. flight[s] \in [do : {"refund", "close"}, of : Facility]
        BY <1>2, TaskTypes DEF CancelAndRefund
      <4>2. [flight[s] EXCEPT !.do = "close"] \in Task
        BY <4>1 DEF Task
      <4>3. flight' = [flight EXCEPT ![s] = [flight[s] EXCEPT !.do = "close"]]
        BY <3>2 DEF PeopleTyped
      <4>4. flight'[s].do = "close" /\ \A x \in Slot \ {s} : flight'[x] = flight[x]
        BY <4>1, <4>3 DEF PeopleTyped
      <4> QED BY <4>2, <4>3, <4>4 DEF PeopleTyped, Same, Claimed, Changing
    <3> QED BY <1>2, <3>1, <3>2 DEF CancelAndRefund
  <2> QED BY <1>2, <2>1, AdminsSame
        DEF PeopleTyped, Spares, CancelAndRefund, rows, people, history
<1>3. ASSUME ForceArchives(s) PROVE PeopleTyped' /\ Spares
  <2>1. flight' \in [Slot -> Task \cup {Idle}] /\ \A x \in Slot : Same(x)
    <3>1. CASE Done(s)
      BY <3>1, Ends
    <3>2. CASE ~Done(s)
      <4> DEFINE t == [do |-> "move", of |-> flight[s].of, to |-> "ARCHIVED",
                       saw |-> life[flight[s].of]]
      <4>1. flight[s].of \in Facility /\ flight[s].of \notin Person
        BY <1>3, TaskTypes DEF ForceArchives
      <4>2. t \in Task
        BY <4>1 DEF Task, PeopleTyped, Life, Resource
      <4>3. flight' = [flight EXCEPT ![s] = t]
        BY <1>3, <3>2 DEF ForceArchives
      <4> HIDE DEF t
      <4>4. flight'[s] = t /\ \A x \in Slot \ {s} : flight'[x] = flight[x]
        BY <4>3 DEF PeopleTyped
      <4>5. ~Changing(s)' /\ flight'[s].do # "demote"
        BY <4>1, <4>4 DEF t, Changing
      <4>6. \A x \in Slot : Same(x)
        BY <4>4, <4>5 DEF Same, Claimed, Changing
      <4> QED BY <4>2, <4>3, <4>6 DEF PeopleTyped
    <3> QED BY <3>1, <3>2
  <2> QED BY <1>3, <2>1, AdminsSame
        DEF PeopleTyped, Spares, ForceArchives, rows, people, history
<1>4. ASSUME PurgeChecks(s) PROVE PeopleTyped' /\ Spares
  <2>1. flight' \in [Slot -> Task \cup {Idle}] /\ \A x \in Slot : Same(x)
    <3>1. CASE Done(s)
      BY <3>1, Ends
    <3>2. CASE flight' = [flight EXCEPT ![s].do = "remove"]
      <4>1. flight[s] \in [do : {"purge", "remove", "demote"}, of : Resource,
                         id : Approval, by : Person]
        BY <1>4, TaskTypes DEF PurgeChecks
      <4>2. [flight[s] EXCEPT !.do = "remove"] \in Task
        BY <4>1 DEF Task
      <4>3. flight' = [flight EXCEPT ![s] = [flight[s] EXCEPT !.do = "remove"]]
        BY <3>2 DEF PeopleTyped
      <4>4. flight'[s].do = "remove" /\ \A x \in Slot \ {s} : flight'[x] = flight[x]
        BY <4>1, <4>3 DEF PeopleTyped
      <4> QED BY <4>2, <4>3, <4>4 DEF PeopleTyped, Same, Claimed, Changing
    <3> QED BY <1>4, <3>1, <3>2 DEF PurgeChecks
  <2> QED BY <1>4, <2>1, AdminsSame
        DEF PeopleTyped, Spares, PurgeChecks, rows, people, history
<1>5. ASSUME PurgeRemoves(s) PROVE PeopleTyped' /\ Spares
  <2>1. /\ Done(s) /\ super' = super /\ approval' = approval /\ crossed' = crossed
        /\ \/ Buried(flight[s].of) /\ Erase(flight[s].of)
           \/ life' = life /\ deleted' = deleted
    BY <1>5 DEF PurgeRemoves, Removable, rows, history
  <2>2. life' \in [Resource -> Life] /\ Admins \subseteq Admins'
    BY <2>1, ErasesNone, AdminsSame DEF PeopleTyped
  <2> QED BY <2>1, <2>2, Ends DEF PeopleTyped, Spares
<1> QED BY <1>1, <1>2, <1>3, <1>4, <1>5

(* A decision leaves an approval that was requested one that was.           *)
LEMMA DecidedTypes ==
  ASSUME PeopleTyped, NEW a \in Approval, approval[a] # Unused, NEW p \in Person
  PROVE  /\ approval[a].of \in Resource
         /\ Approved(a, p) \in [Approval -> Request \cup {Unused}]
         /\ \A b \in Approval : approval[b] # Unused => Approved(a, p)[b] # Unused
<1>1. approval[a] \in Request
  BY DEF PeopleTyped
<1> DEFINE r == [[approval[a] EXCEPT !.state = "APPROVED"] EXCEPT !.decider = p]
<1>2. r \in Request /\ r # Unused
  BY <1>1 DEF Request, Unused
<1>3. Approved(a, p) = [approval EXCEPT ![a] = r]
  BY <1>1 DEF Approved, PeopleTyped, Request
<1>4. approval[a].of \in Resource
  BY <1>1 DEF Request
<1> HIDE DEF r
<1> QED BY <1>2, <1>3, <1>4 DEF PeopleTyped

(* The claim of an approval, and the demotion.                              *)
LEMMA DecisionStep ==
  ASSUME PeopleTyped, Issued, NEW s \in Slot,
         \/ \E a \in Approval, p \in Person : Claim(s, a, p) \/ DemoteReads(s, a, p)
         \/ DemoteWrites(s)
  PROVE  PeopleTyped' /\ (Spares \/ Opens \/ Closes)
<1>1. ASSUME NEW a \in Approval, NEW p \in Person, MayApprove(a, p)
      PROVE  /\ approval[a] # Unused /\ approval[a].of \in Resource
             /\ Approved(a, p) \in [Approval -> Request \cup {Unused}]
  BY <1>1, DecidedTypes DEF MayApprove, Live, Open, Unused
<1>2. ASSUME NEW a \in Approval, NEW p \in Person, Claim(s, a, p)
      PROVE  PeopleTyped' /\ Spares
  <2> DEFINE t == [do |-> "purge", of |-> approval[a].of, id |-> a, by |-> p]
  <2>1. t \in Task /\ Start(s, t)
    BY <1>1, <1>2 DEF Task, Claim
  <2> HIDE DEF t
  <2>2. flight' \in [Slot -> Task \cup {Idle}] /\ \A x \in Slot : Same(x)
    BY <2>1, Starts DEF t, Same, Claimed, Changing
  <2> QED BY <1>1, <1>2, <2>2, AdminsSame
        DEF PeopleTyped, Spares, Claim, rows, people, history
<1>3. ASSUME NEW a \in Approval, NEW p \in Person, DemoteReads(s, a, p)
      PROVE  PeopleTyped' /\ Opens
  <2> DEFINE t == [do |-> "demote", of |-> approval[a].of, id |-> a, by |-> p]
  <2>1. t \in Task /\ Start(s, t) /\ Admins' = Admins
    BY <1>1, <1>3, AdminsSame DEF Task, DemoteReads, rows, people
  <2>2. t.of = approval[a].of /\ Admins \ {t.of} # {}
    BY <1>3 DEF DemoteReads, NotTheLast
  <2> HIDE DEF t
  <2>3. /\ flight' \in [Slot -> Task \cup {Idle}] /\ flight'[s] = t
        /\ \A x \in Slot \ {s} : Same(x)
    BY <2>1, Starts
  <2>4. crossed' = (crossed \/ Crossing(s))
    BY <1>3 DEF DemoteReads
  <2>5. Claimed(s)
    BY <1>1, <1>3, <2>3 DEF t, Claimed, DemoteReads
  <2> QED BY <1>3, <2>1, <2>2, <2>3, <2>4, <2>5
        DEF PeopleTyped, Opens, DemoteReads, rows, people
<1>4. ASSUME DemoteWrites(s) PROVE PeopleTyped' /\ (Spares \/ Closes)
  <2> DEFINE t == flight[s]
  <2>1. /\ Done(s) /\ life' = life /\ deleted' = deleted /\ crossed' = crossed
        /\ t.do = "demote"
    BY <1>4 DEF DemoteWrites, rows, history
  <2>2. t.id \in Approval /\ t.by \in Person
    BY <2>1, TaskTypes
  <2>3. super' \subseteq super /\ super \ {t.of} \subseteq super'
    BY <1>4 DEF DemoteWrites
  <2>4. approval' \in [Approval -> Request \cup {Unused}]
    <3>1. approval' = approval \/ approval' = Approved(t.id, t.by)
      BY <1>4 DEF DemoteWrites
    <3>2. approval[t.id] # Unused
      BY <2>1 DEF Issued
    <3> QED BY <3>1, <3>2, <2>2, DecidedTypes DEF PeopleTyped
  <2>5. PeopleTyped'
    BY <2>1, <2>3, <2>4, Ends DEF PeopleTyped
  <2>6. Admins \ {t.of} \subseteq Admins'
    BY <2>1, <2>3 DEF Admins
  <2>7. CASE t.of \in Person
    BY <2>1, <2>5, <2>6, <2>7, Ends DEF Closes, Changing
  <2>8. CASE t.of \notin Person
    <3>1. Admins \subseteq Admins'
      BY <2>6, <2>8 DEF Admins, PeopleTyped
    <3> QED BY <2>1, <2>5, <3>1, Ends DEF Spares
  <2> QED BY <2>7, <2>8
<1> QED BY <1>2, <1>3, <1>4

(* The deletion of one's own account.                                       *)
LEMMA DeletionStep ==
  ASSUME PeopleTyped, NEW s \in Slot,
         (\E u \in Person : DeleteReads(s, u)) \/ DeleteWrites(s)
  PROVE  PeopleTyped' /\ (Opens \/ Closes)
<1>1. ASSUME NEW u \in Person, DeleteReads(s, u) PROVE PeopleTyped' /\ Opens
  <2> DEFINE t == [do |-> "delete", of |-> u]
  <2>1. t \in Task /\ Start(s, t) /\ Admins' = Admins
    BY <1>1, AdminsSame DEF Task, DeleteReads, rows, people
  <2>2. t.of \notin Admins
    BY <1>1 DEF DeleteReads, Admins
  <2>3. t.do # "demote"
    OBVIOUS
  <2> HIDE DEF t
  <2>4. /\ flight' \in [Slot -> Task \cup {Idle}] /\ flight'[s] = t
        /\ \A x \in Slot \ {s} : Same(x)
    BY <2>1, Starts
  <2>5. crossed' = (crossed \/ Crossing(s))
    BY <1>1 DEF DeleteReads
  <2>6. PeopleTyped'
    BY <1>1, <2>4 DEF PeopleTyped, DeleteReads, rows, people
  <2>7. Claimed(s) /\ (Admins # {} => Admins \ {flight'[s].of} # {})
    BY <2>2, <2>3, <2>4 DEF Claimed
  <2> QED BY <2>1, <2>4, <2>5, <2>6, <2>7 DEF Opens
<1>2. ASSUME DeleteWrites(s) PROVE PeopleTyped' /\ Closes
  <2> DEFINE u == flight[s].of
  <2>1. /\ Done(s) /\ life' = life /\ super' = super /\ approval' = approval
        /\ crossed' = crossed /\ flight[s].do = "delete" /\ deleted' \subseteq deleted \cup {u}
    BY <1>2 DEF DeleteWrites, rows, history
  <2>2. Changing(s)
    BY <2>1, TaskTypes DEF Changing
  <2>3. Admins \ {u} \subseteq Admins'
    BY <2>1 DEF Admins
  <2> QED BY <2>1, <2>2, <2>3, Ends DEF PeopleTyped, Closes
<1> QED BY <1>1, <1>2

(* What becomes of an approval when it is filed, expires or is turned down.  *)
LEMMA Filed ==
  ASSUME PeopleTyped,
         \/ \E r \in Resource, p \in Person : RequestPurge(r, p)
         \/ \E u, p \in Person : RequestDemotion(u, p)
         \/ \E a \in Approval : Expire(a) \/ Burn(a) \/ Reject(a) \/ RejectDemotion(a)
  PROVE  /\ approval' \in [Approval -> Request \cup {Unused}]
         /\ \A b \in Approval : approval[b] # Unused => approval'[b] # Unused
<1>1. ASSUME NEW act \in {"purge", "demote"}, NEW r \in Resource, NEW p \in Person,
             File(act, r, p)
      PROVE  /\ approval' \in [Approval -> Request \cup {Unused}]
             /\ \A b \in Approval : approval[b] # Unused => approval'[b] # Unused
  <2> DEFINE new == [act |-> act, of |-> r, by |-> p, state |-> "PENDING", live |-> TRUE,
                     decider |-> None]
             old(a) == [approval[a] EXCEPT !.state = "EXPIRED"]
  <2>1. new \in Request /\ new # Unused
    BY DEF Request, Unused
  <2>2. \A a \in Lapsed(act, r) : /\ approval[a] \in Request
                                    /\ old(a) \in Request /\ old(a) # Unused
    BY PendingTypes DEF Lapsed, Waiting, Request, Unused
  <2>3. PICK n \in NewApproval :
          approval' = [a \in Approval |-> IF a = n THEN new
                                          ELSE IF a \in Lapsed(act, r) THEN old(a)
                                          ELSE approval[a]]
    BY <1>1 DEF File
  <2> HIDE DEF new, old
  <2> QED BY <2>1, <2>2, <2>3 DEF PeopleTyped
<1>2. ASSUME NEW a \in Approval, approval[a].state = "PENDING",
             NEW e \in Request, approval' = [approval EXCEPT ![a] = e]
      PROVE  /\ approval' \in [Approval -> Request \cup {Unused}]
             /\ \A b \in Approval : approval[b] # Unused => approval'[b] # Unused
  BY <1>2 DEF PeopleTyped, Request, Unused
<1>3. ASSUME NEW a \in Approval, Expire(a) \/ Burn(a) \/ Reject(a)
      PROVE  /\ approval' \in [Approval -> Request \cup {Unused}]
             /\ \A b \in Approval : approval[b] # Unused => approval'[b] # Unused
  <2>1. approval[a].state = "PENDING" /\ approval[a] \in Request
    BY <1>3, PendingTypes DEF Expire, Burn, Reject, Live, Open
  <2>2. CASE Expire(a)
    <3>1. [approval[a] EXCEPT !.live = FALSE] \in Request
      BY <2>1 DEF Request
    <3> QED BY <1>2, <2>1, <2>2, <3>1 DEF Expire, PeopleTyped
  <2>3. CASE Burn(a)
    <3>1. [approval[a] EXCEPT !.state = "EXPIRED"] \in Request
      BY <2>1 DEF Request
    <3> QED BY <1>2, <2>1, <2>3, <3>1 DEF Burn, PeopleTyped
  <2>4. CASE Reject(a)
    <3>1. [approval[a] EXCEPT !.state = "REJECTED"] \in Request
      BY <2>1 DEF Request
    <3> QED BY <1>2, <2>1, <2>4, <3>1 DEF Reject, PeopleTyped
  <2> QED BY <1>3, <2>2, <2>3, <2>4
<1>4. Person \subseteq Resource
  BY DEF Resource
<1> QED BY <1>1, <1>3, <1>4 DEF RequestPurge, RequestDemotion, RejectDemotion

(* What is filed, promoted, booked or swept takes no administrator.         *)
LEMMA RestStep ==
  ASSUME PeopleTyped,
         \/ \E r \in Resource : Lapse(r)
         \/ \E r \in Resource, p \in Person : RequestPurge(r, p)
         \/ \E u, p \in Person : RequestDemotion(u, p)
         \/ \E a \in Approval : Expire(a) \/ Burn(a) \/ Reject(a) \/ RejectDemotion(a)
         \/ \E u \in Person : Promote(u)
         \/ \E f \in Facility : Book(f) \/ Advance(f) \/ Pay(f) \/ Confirm(f)
         \/ Sweeps \/ SweepStops \/ UNCHANGED lifecycleVars
  PROVE  /\ PeopleTyped' /\ Spares
<1>1. ASSUME flight' = flight PROVE \A x \in Slot : Same(x)
  BY <1>1 DEF Same, Claimed, Changing
<1>2. ASSUME approval' \in [Approval -> Request \cup {Unused}],
             life' = life, super' = super, deleted' = deleted, flight' = flight, crossed' = crossed
      PROVE  PeopleTyped' /\ Spares
  BY <1>1, <1>2, AdminsSame DEF PeopleTyped, Spares
<1>3. CASE \/ \E r \in Resource : Lapse(r)
           \/ \E f \in Facility : Book(f) \/ Advance(f) \/ Pay(f) \/ Confirm(f)
           \/ SweepReads \/ SweepChecks \/ SweepStops \/ UNCHANGED lifecycleVars
  BY <1>2, <1>3 DEF PeopleTyped, Lapse, Book, Advance, Pay, Confirm, SweepReads, SweepChecks,
                    SweepStops, lifecycleVars, rows, people, history
<1>4. CASE \E u \in Person : Promote(u)
  <2>1. PICK u \in Person : Promote(u)
    BY <1>4
  <2>2. Admins \subseteq Admins'
    BY <2>1 DEF Promote, Admins, rows
  <2> QED BY <1>1, <2>1, <2>2 DEF PeopleTyped, Spares, Promote, rows, history
<1>5. CASE SweepRemoves
  <2>1. /\ super' = super /\ approval' = approval /\ crossed' = crossed /\ flight' = flight
        /\ \/ Buried(sweep.item) /\ Erase(sweep.item)
           \/ life' = life /\ deleted' = deleted
    BY <1>5 DEF SweepRemoves, Removable, rows, history
  <2>2. life' \in [Resource -> Life] /\ Admins \subseteq Admins'
    BY <2>1, ErasesNone, AdminsSame DEF PeopleTyped
  <2> QED BY <1>1, <2>1, <2>2 DEF PeopleTyped, Spares
<1>6. CASE \/ \E r \in Resource, p \in Person : RequestPurge(r, p)
           \/ \E u, p \in Person : RequestDemotion(u, p)
           \/ \E a \in Approval : Expire(a) \/ Burn(a) \/ Reject(a) \/ RejectDemotion(a)
  <2>1. /\ life' = life /\ super' = super /\ deleted' = deleted
        /\ flight' = flight /\ crossed' = crossed
    BY <1>6 DEF RequestPurge, RequestDemotion, Expire, Burn, Reject,
                RejectDemotion, rows, people, history
  <2>2. approval' \in [Approval -> Request \cup {Unused}]
    BY <1>6, Filed
  <2> QED BY <1>2, <2>1, <2>2
<1> QED BY <1>3, <1>4, <1>5, <1>6 DEF Sweeps

(* An approval that was requested never becomes unused again.               *)
LEMMA ApprovalsKept ==
  ASSUME PeopleTyped, Issued, [LifecycleNext]_lifecycleVars
  PROVE  \A b \in Approval : approval[b] # Unused => approval'[b] # Unused
<1>1. ASSUME NEW s \in Slot, NEW a \in Approval, NEW p \in Person, Claim(s, a, p)
      PROVE  \A b \in Approval : approval[b] # Unused => approval'[b] # Unused
  <2>1. approval[a] # Unused
    BY <1>1 DEF Claim, MayApprove, Live, Open, Unused
  <2> QED BY <1>1, <2>1, DecidedTypes DEF Claim
<1>2. ASSUME NEW s \in Slot, DemoteWrites(s)
      PROVE  \A b \in Approval : approval[b] # Unused => approval'[b] # Unused
  <2>1. flight[s].id \in Approval /\ flight[s].by \in Person /\ approval[flight[s].id] # Unused
    BY <1>2, TaskTypes DEF DemoteWrites, Issued
  <2> QED BY <1>2, <2>1, DecidedTypes DEF DemoteWrites
<1>3. ASSUME NEW s \in Slot,
             \/ \E r \in Resource, to \in Life \ {"GONE"} : MoveReads(s, r, to)
             \/ \E a \in Approval, p \in Person : DemoteReads(s, a, p)
             \/ \E u \in Person : DeleteReads(s, u)
             \/ \E f \in Facility : ForceReads(s, f)
             \/ CancelAndRefund(s) \/ ForceArchives(s) \/ MoveWrites(s)
             \/ PurgeChecks(s) \/ PurgeRemoves(s) \/ DeleteWrites(s)
      PROVE  approval' = approval
  BY <1>3 DEF MoveReads, DemoteReads, DeleteReads, ForceReads, CancelAndRefund,
              ForceArchives, MoveWrites, PurgeChecks, PurgeRemoves, DeleteWrites
<1>4. ASSUME \/ \E r \in Resource : Lapse(r)
             \/ \E u \in Person : Promote(u)
             \/ \E f \in Facility : Book(f) \/ Advance(f) \/ Pay(f) \/ Confirm(f)
             \/ Sweeps \/ SweepStops \/ UNCHANGED lifecycleVars
      PROVE  approval' = approval
  BY <1>4 DEF Lapse, Promote, Book, Advance, Pay, Confirm, Sweeps, SweepReads, SweepChecks,
              SweepRemoves, SweepStops, lifecycleVars
<1> QED BY <1>1, <1>2, <1>3, <1>4, Filed DEF LifecycleNext

(* The invariant, for any number of people and requests at work.            *)
LEMMA AdminsInit ==
  ASSUME LifecycleInit
  PROVE  LifecycleInv
<1>1. PeopleTyped
  BY PersonAssumption DEF LifecycleInit, PeopleTyped, Life
<1>2. Admins = Founder
  BY PersonAssumption DEF LifecycleInit, Admins, Resource
<1>3. \A s \in Slot : flight[s].do = "idle"
  BY DEF LifecycleInit, Idle
<1> QED BY <1>1, <1>2, <1>3, FounderAssumption DEF LifecycleInv, Issued, AdminsStand, OneChange,
           Another, Changing

LEMMA AdminsNext ==
  ASSUME LifecycleInv, [LifecycleNext]_lifecycleVars
  PROVE  LifecycleInv'
<1>1. PeopleTyped' /\ (Spares \/ Opens \/ Closes)
  BY MovesStep, CloseStep, DecisionStep, DeletionStep, RestStep DEF LifecycleInv, LifecycleNext
<1>2. \A x \in Slot : Claimed(x)
  BY <1>1 DEF Spares, Opens, Closes, Same
<1>3. Issued'
  <2> SUFFICES ASSUME NEW s \in Slot, flight'[s].do = "demote"
               PROVE  approval'[flight'[s].id] # Unused
    BY DEF Issued
  <2>1. flight'[s].id \in Approval
    BY <1>1, TypedIds DEF PeopleTyped
  <2>2. approval[flight'[s].id] # Unused
    BY <1>2 DEF Claimed, LifecycleInv, Issued
  <2> QED BY <2>1, <2>2, ApprovalsKept DEF LifecycleInv
<1> QED BY <1>1, <1>3, AdminsMove DEF LifecycleInv

LEMMA LifecycleHolds == LifecycleSpec => []LifecycleInv
  BY AdminsInit, AdminsNext, PTL DEF LifecycleSpec

\* A super administrator survives every demotion, archiving and deletion, however many
\* people and approvals there are, unless two changes of administrators overlap: looking
\* for another one again when the approval is redeemed suffices.
THEOREM SuperAdminAlwaysSurvives == LifecycleSpec => []SuperAdminSurvives
<1>1. LifecycleInv => SuperAdminSurvives
  BY DEF LifecycleInv, AdminsStand, SuperAdminSurvives
<1> QED BY <1>1, LifecycleHolds, PTL
-----------------------------------------------------------------------------
(* Lifecycle: what is removed, and on whose word.                           *)

\* What a request at work rests on: a move on a status its target may be left for, a
\* removal on the word of two administrators, a demotion on an approval still pending.
SoundTask(t) ==
  /\ t.do = "move" => t.to # "GONE" /\ t.saw \in From(t.to)
  /\ t.do \in {"purge", "remove"} =>
       /\ approval[t.id].state = "APPROVED" /\ approval[t.id].of = t.of
       /\ approval[t.id].by # approval[t.id].decider
  /\ t.do = "demote" => approval[t.id].state = "PENDING"
Sound == \A s \in Slot : SoundTask(flight[s])

\* An approval is redeemed by one request at a time.
OneRedeemer ==
  \A s, x \in Slot : flight[s].do = "demote" /\ flight[x].do = "demote" /\ flight[s].id = flight[x].id
                       => s = x

InSweep == ToSet(sweep.todo) \cup ({sweep.item} \ {None})
DueBuried == due \subseteq {r \in Resource : life[r] = "TOMBSTONED"}
SweepKnown == \A r \in InSweep : r \in due \cup recycled \/ life[r] = "GONE"

\* A customer whom the sweep or an approver has looked at, and who was not restored in
\* their hands, has no booking to lose but one confirmed after it had lapsed.
Checked == sweep.item = Customer
           \/ \E s \in Slot : flight[s].do = "remove" /\ flight[s].of = Customer
CustomerSettled ==
  Customer \notin recycled /\ (Checked \/ life[Customer] = "GONE") =>
    /\ life[Customer] \in {"TOMBSTONED", "GONE"}
    /\ \A f \in Facility : booking[f] \in {"PENDING", "PAID"} => f \in late

RemovalInv == /\ LifecycleInv /\ Sound /\ OneRedeemer
              /\ booking \in [Facility -> Stage] /\ sweep \in Run
              /\ DueBuried /\ SweepKnown /\ CustomerSettled

(* An approval that was given is final, and one that is being redeemed waits. *)
LEMMA ApprovalMoves ==
  ASSUME RemovalInv, [LifecycleNext]_lifecycleVars, NEW a \in Approval
  PROVE  /\ approval[a].state = "APPROVED" => approval'[a] = approval[a]
         /\ approval[a].state = "PENDING" /\ Locked(a) =>
              \/ approval'[a].state = "PENDING"
              \/ \E s \in Slot : DemoteWrites(s) /\ flight[s].id = a
<1> DEFINE Goal == /\ approval[a].state = "APPROVED" => approval'[a] = approval[a]
                   /\ approval[a].state = "PENDING" /\ Locked(a) =>
                        \/ approval'[a].state = "PENDING"
                        \/ \E s \in Slot : DemoteWrites(s) /\ flight[s].id = a
<1>1. PeopleTyped /\ Issued /\ Sound
  BY DEF RemovalInv, LifecycleInv
<1>2. ASSUME NEW s \in Slot, NEW b \in Approval, NEW p \in Person, Claim(s, b, p) PROVE Goal
  <2>1. approval' = Approved(b, p) /\ approval[b].state = "PENDING" /\ ~Locked(b)
    BY <1>2 DEF Claim, MayApprove, Live, Open
  <2>2. a # b => Approved(b, p)[a] = approval[a]
    BY <1>1 DEF Approved, PeopleTyped
  <2> QED BY <2>1, <2>2
<1>3. ASSUME NEW s \in Slot, DemoteWrites(s) PROVE Goal
  <2>1. /\ flight[s].do = "demote" /\ approval[flight[s].id].state = "PENDING"
        /\ approval' = approval \/ approval' = Approved(flight[s].id, flight[s].by)
    BY <1>1, <1>3 DEF DemoteWrites, Sound, SoundTask
  <2>2. a # flight[s].id => Approved(flight[s].id, flight[s].by)[a] = approval[a]
    BY <1>1 DEF Approved, PeopleTyped
  <2> QED BY <1>3, <2>1, <2>2
<1>4. ASSUME NEW act, NEW r, NEW p, File(act, r, p) PROVE Goal
  <2>1. approval[a].state # "UNUSED" => a \notin NewApproval
    BY DEF NewApproval, Unused
  <2>2. a \in Lapsed(act, r) => approval[a].state = "PENDING" /\ ~Locked(a)
    BY <1>4 DEF File, Lapsed, Waiting
  <2> QED BY <1>4, <2>1, <2>2 DEF File
<1>5. ASSUME NEW b \in Approval, Expire(b) \/ Burn(b) \/ Reject(b) PROVE Goal
  <2>1. approval[b].state = "PENDING" /\ approval[b] \in Request
    BY <1>1, <1>5, PendingTypes DEF Expire, Burn, Reject, Live, Open
  <2>2. CASE Expire(b)
    BY <1>1, <2>1, <2>2 DEF Expire, PeopleTyped, Request
  <2>3. CASE Burn(b) \/ Reject(b)
    <3>1. ~Locked(b) /\ \A c \in Approval : c # b => approval'[c] = approval[c]
      BY <1>1, <2>3 DEF Burn, Reject, Live, Open, PeopleTyped
    <3> QED BY <2>1, <3>1
  <2> QED BY <1>5, <2>2, <2>3
<1>6. ASSUME approval' = approval PROVE Goal
  BY <1>6
<1> HIDE DEF Goal
<1>7. ASSUME \E s \in Slot : \/ \E b \in Approval, p \in Person : Claim(s, b, p)
                             \/ DemoteWrites(s)
      PROVE  Goal
  BY <1>2, <1>3, <1>7
<1>8. ASSUME \/ \E r \in Resource, p \in Person : RequestPurge(r, p)
             \/ \E u, p \in Person : RequestDemotion(u, p)
             \/ \E b \in Approval : Expire(b) \/ Burn(b) \/ Reject(b)
                                    \/ RejectDemotion(b)
      PROVE  Goal
  BY <1>4, <1>5, <1>8 DEF RequestPurge, RequestDemotion, RejectDemotion
<1>9. ASSUME \E s \in Slot :
             \/ \E r \in Resource, to \in Life \ {"GONE"} : MoveReads(s, r, to)
             \/ \E b \in Approval, p \in Person : DemoteReads(s, b, p)
             \/ \E u \in Person : DeleteReads(s, u)
             \/ \E f \in Facility : ForceReads(s, f)
             \/ CancelAndRefund(s) \/ ForceArchives(s) \/ MoveWrites(s)
             \/ PurgeChecks(s) \/ PurgeRemoves(s) \/ DeleteWrites(s)
      PROVE  Goal
  BY <1>6, <1>9 DEF MoveReads, DemoteReads, DeleteReads, ForceReads,
    CancelAndRefund, ForceArchives, MoveWrites, PurgeChecks, PurgeRemoves,
    DeleteWrites
<1>10. ASSUME \/ \E r \in Resource : Lapse(r)
              \/ \E u \in Person : Promote(u)
              \/ \E f \in Facility : Book(f) \/ Advance(f) \/ Pay(f) \/ Confirm(f)
              \/ Sweeps \/ SweepStops \/ UNCHANGED lifecycleVars
       PROVE  Goal
  BY <1>6, <1>10 DEF Lapse, Promote, Book, Advance, Pay, Confirm, Sweeps, SweepReads,
    SweepChecks, SweepRemoves, SweepStops, lifecycleVars
<1>11. Goal
  <2>1. CASE UNCHANGED lifecycleVars
    BY <1>10, <2>1
  <2>2. CASE LifecycleNext
    BY <1>7, <1>8, <1>9, <1>10, <2>2 DEF LifecycleNext
  <2> QED BY <2>1, <2>2
<1> QED BY <1>11 DEF Goal

(* One slot moves at a time, and rests on what it has read.                 *)
LEMMA Fresh ==
  ASSUME RemovalInv, [LifecycleNext]_lifecycleVars
  PROVE  \/ flight' = flight
         \/ \E s \in Slot : /\ \A x \in Slot \ {s} : flight'[x] = flight[x]
                            /\ SoundTask(flight[s])' /\ flight'[s] # flight[s]
                            /\ flight'[s].do = "demote" => ~Locked(flight'[s].id)
<1> DEFINE OneMoved(s) == /\ \A x \in Slot \ {s} : flight'[x] = flight[x]
                          /\ SoundTask(flight[s])' /\ flight'[s] # flight[s]
                          /\ flight'[s].do = "demote" => ~Locked(flight'[s].id)
<1>1. PeopleTyped /\ Issued /\ Sound
  BY DEF RemovalInv, LifecycleInv
<1>2. ASSUME NEW s \in Slot, Done(s), flight[s].do # "idle" PROVE OneMoved(s)
  BY <1>1, <1>2 DEF Done, Idle, PeopleTyped, SoundTask
<1>3. ASSUME NEW s \in Slot, NEW t \in Task, flight' = [flight EXCEPT ![s] = t],
             flight[s].do # t.do
      PROVE  flight'[s] = t /\ flight'[s] # flight[s] /\ \A x \in Slot \ {s} : flight'[x] = flight[x]
  BY <1>1, <1>3 DEF PeopleTyped
<1>4. ASSUME NEW s \in Slot, NEW t \in Task, Start(s, t)
      PROVE  flight'[s] = t /\ flight'[s] # flight[s] /\ \A x \in Slot \ {s} : flight'[x] = flight[x]
  <2>1. flight' = [flight EXCEPT ![s] = t] /\ flight[s] = Idle
    BY <1>4 DEF Start, FirstFree
  <2>2. flight[s].do # t.do
    BY <2>1 DEF Idle, Task
  <2> QED BY <1>3, <2>1, <2>2
<1>5. ASSUME NEW s \in Slot, NEW r \in Resource, NEW to \in Life \ {"GONE"},
             MoveReads(s, r, to)
      PROVE  OneMoved(s)
  <2> DEFINE t == [do |-> "move", of |-> r, to |-> to, saw |-> life[r]]
  <2>1. t \in Task /\ Start(s, t) /\ t.saw \in From(t.to) /\ t.to # "GONE"
    BY <1>1, <1>5 DEF Task, PeopleTyped, MoveReads, Loaded
  <2>2. t.do = "move"
    OBVIOUS
  <2> HIDE DEF t
  <2> QED BY <1>4, <2>1, <2>2 DEF SoundTask, From
<1>6. ASSUME NEW s \in Slot, NEW f \in Facility, ForceReads(s, f) PROVE OneMoved(s)
  <2> DEFINE t == [do |-> "refund", of |-> f]
  <2>1. t \in Task /\ Start(s, t) /\ t.do = "refund"
    BY <1>6 DEF Task, ForceReads
  <2> HIDE DEF t
  <2> QED BY <1>4, <2>1 DEF SoundTask
<1>7. ASSUME NEW s \in Slot, NEW u \in Person, DeleteReads(s, u) PROVE OneMoved(s)
  <2> DEFINE t == [do |-> "delete", of |-> u]
  <2>1. t \in Task /\ Start(s, t) /\ t.do = "delete"
    BY <1>7 DEF Task, DeleteReads
  <2> HIDE DEF t
  <2> QED BY <1>4, <2>1 DEF SoundTask
<1>8. ASSUME NEW s \in Slot, NEW a \in Approval, NEW p \in Person, Claim(s, a, p)
      PROVE  OneMoved(s)
  <2> DEFINE t == [do |-> "purge", of |-> approval[a].of, id |-> a, by |-> p]
  <2>1. approval[a] \in Request /\ approval[a].by # p /\ approval' = Approved(a, p)
    BY <1>1, <1>8, PendingTypes DEF Claim, MayApprove, Live, Open
  <2>2. t \in Task /\ Start(s, t)
    BY <1>8, <2>1 DEF Task, Claim, Request
  <2>3. t.do = "purge" /\ t.id = a /\ t.of = approval[a].of
    OBVIOUS
  <2>4. /\ approval'[a].state = "APPROVED" /\ approval'[a].of = approval[a].of
        /\ approval'[a].by = approval[a].by /\ approval'[a].decider = p
    BY <1>1, <2>1 DEF Approved, PeopleTyped, Request
  <2> HIDE DEF t
  <2> QED BY <1>4, <2>1, <2>2, <2>3, <2>4 DEF SoundTask
<1>9. ASSUME NEW s \in Slot, NEW a \in Approval, NEW p \in Person, DemoteReads(s, a, p)
      PROVE  OneMoved(s)
  <2> DEFINE t == [do |-> "demote", of |-> approval[a].of, id |-> a, by |-> p]
  <2>1. approval[a] \in Request /\ approval[a].state = "PENDING" /\ ~Locked(a)
        /\ approval' = approval
    BY <1>1, <1>9, PendingTypes DEF DemoteReads, MayApprove, Live, Open
  <2>2. t \in Task /\ Start(s, t)
    BY <1>9, <2>1 DEF Task, DemoteReads, Request
  <2>3. t.do = "demote" /\ t.id = a
    OBVIOUS
  <2> HIDE DEF t
  <2> QED BY <1>4, <2>1, <2>2, <2>3 DEF SoundTask
<1>10. ASSUME NEW s \in Slot, CancelAndRefund(s) PROVE OneMoved(s)
  <2>1. flight[s] \in [do : {"refund", "close"}, of : Facility] /\ flight[s].do = "refund"
    BY <1>1, <1>10, TaskTypes DEF CancelAndRefund
  <2>2. CASE Done(s)
    BY <1>2, <2>1, <2>2
  <2>3. CASE flight' = [flight EXCEPT ![s].do = "close"]
    <3>1. flight'[s].do = "close" /\ \A x \in Slot \ {s} : flight'[x] = flight[x]
      BY <1>1, <2>1, <2>3 DEF PeopleTyped
    <3> QED BY <2>1, <3>1 DEF SoundTask
  <2> QED BY <1>10, <2>2, <2>3 DEF CancelAndRefund
<1>11. ASSUME NEW s \in Slot, ForceArchives(s) PROVE OneMoved(s)
  <2>1. flight[s].of \in Facility /\ flight[s].do = "close"
    BY <1>1, <1>11, TaskTypes DEF ForceArchives
  <2>2. CASE Done(s)
    BY <1>2, <2>1, <2>2
  <2>3. CASE ~Done(s)
    <3> DEFINE t == [do |-> "move", of |-> flight[s].of, to |-> "ARCHIVED",
                     saw |-> life[flight[s].of]]
    <3>1. t \in Task
      BY <1>1, <2>1 DEF Task, PeopleTyped, Life, Resource
    <3>2. flight' = [flight EXCEPT ![s] = t] /\ Loaded(flight[s].of, "ARCHIVED")
      BY <1>11, <2>3 DEF ForceArchives
    <3>3. t.do = "move" /\ t.to = "ARCHIVED" /\ t.saw \in From(t.to)
      BY <3>2 DEF Loaded
    <3> HIDE DEF t
    <3> QED BY <1>3, <2>1, <3>1, <3>2, <3>3 DEF SoundTask, From
  <2> QED BY <2>2, <2>3
<1>12. ASSUME NEW s \in Slot, PurgeChecks(s) PROVE OneMoved(s)
  <2>1. /\ flight[s].do = "purge" /\ SoundTask(flight[s]) /\ approval' = approval
        /\ flight[s] \in [do : {"purge", "remove", "demote"}, of : Resource,
                        id : Approval, by : Person]
    BY <1>1, <1>12, TaskTypes DEF PurgeChecks, Sound
  <2>2. CASE Done(s)
    BY <1>2, <2>1, <2>2
  <2>3. CASE flight' = [flight EXCEPT ![s].do = "remove"]
    <3>1. /\ flight'[s].do = "remove" /\ flight'[s].of = flight[s].of /\ flight'[s].id = flight[s].id
          /\ \A x \in Slot \ {s} : flight'[x] = flight[x]
      BY <1>1, <2>1, <2>3 DEF PeopleTyped
    <3> QED BY <2>1, <3>1 DEF SoundTask
  <2> QED BY <1>12, <2>2, <2>3 DEF PurgeChecks
<1>13. ASSUME NEW s \in Slot,
              MoveWrites(s) \/ PurgeRemoves(s) \/ DemoteWrites(s) \/ DeleteWrites(s)
       PROVE  OneMoved(s)
  BY <1>2, <1>13 DEF MoveWrites, PurgeRemoves, DemoteWrites, DeleteWrites
<1> HIDE DEF OneMoved
<1>14. ASSUME \/ \E r \in Resource : Lapse(r)
              \/ \E r \in Resource, p \in Person : RequestPurge(r, p)
              \/ \E u, p \in Person : RequestDemotion(u, p)
              \/ \E a \in Approval : Expire(a) \/ Burn(a) \/ Reject(a) \/ RejectDemotion(a)
              \/ \E u \in Person : Promote(u)
              \/ \E f \in Facility : Book(f) \/ Advance(f) \/ Pay(f) \/ Confirm(f)
              \/ Sweeps \/ SweepStops \/ UNCHANGED lifecycleVars
       PROVE  flight' = flight
  BY <1>14 DEF Lapse, RequestPurge, RequestDemotion, Expire, Burn, Reject,
    RejectDemotion, Promote, Book, Advance, Pay, Confirm, Sweeps, SweepReads, SweepChecks,
    SweepRemoves, SweepStops, lifecycleVars
<1>15. (\E s \in Slot : OneMoved(s)) \/ flight' = flight
  <2>1. CASE UNCHANGED lifecycleVars
    BY <1>14, <2>1
  <2>2. CASE LifecycleNext
    BY <1>5, <1>6, <1>7, <1>8, <1>9, <1>10, <1>11, <1>12, <1>13, <1>14, <2>2 DEF LifecycleNext
  <2> QED BY <2>1, <2>2
<1> QED BY <1>15 DEF OneMoved

LEMMA SoundStep ==
  ASSUME RemovalInv, [LifecycleNext]_lifecycleVars
  PROVE  Sound' /\ OneRedeemer'
<1>1. PeopleTyped /\ Sound /\ OneRedeemer
  BY DEF RemovalInv, LifecycleInv
<1>2. ASSUME NEW x \in Slot, flight'[x] = flight[x] PROVE SoundTask(flight[x])'
  <2>1. flight[x].do \in {"purge", "remove", "demote"} => flight[x].id \in Approval
    BY <1>1, TaskTypes
  <2>2. CASE flight[x].do \in {"purge", "remove"}
    BY <1>1, <1>2, <2>1, <2>2, ApprovalMoves DEF Sound, SoundTask
  <2>3. CASE flight[x].do = "demote"
    <3>1. approval[flight[x].id].state = "PENDING" /\ Locked(flight[x].id)
      BY <1>1, <2>3 DEF Sound, SoundTask, Locked
    <3>2. ASSUME NEW s \in Slot, DemoteWrites(s), flight[s].id = flight[x].id PROVE FALSE
      <4>1. s = x /\ Done(x)
        BY <1>1, <2>3, <3>2 DEF OneRedeemer, DemoteWrites
      <4>2. flight'[x] = Idle
        BY <1>1, <4>1 DEF Done, PeopleTyped
      <4> QED BY <1>2, <2>3, <4>2 DEF Idle
    <3>3. approval'[flight[x].id].state = "PENDING"
      BY <2>1, <2>3, <3>1, <3>2, ApprovalMoves
    <3> QED BY <1>2, <2>3, <3>3 DEF SoundTask
  <2>4. CASE flight[x].do \notin {"purge", "remove", "demote"}
    BY <1>1, <1>2, <2>4 DEF Sound, SoundTask
  <2> QED BY <2>2, <2>3, <2>4
<1>3. CASE flight' = flight
  BY <1>1, <1>2, <1>3 DEF Sound, OneRedeemer
<1>4. CASE flight' # flight
  <2>1. PICK s \in Slot : /\ \A x \in Slot \ {s} : flight'[x] = flight[x]
                          /\ SoundTask(flight[s])' /\ flight'[s] # flight[s]
                          /\ flight'[s].do = "demote" => ~Locked(flight'[s].id)
    BY <1>4, Fresh
  <2>2. Sound'
    BY <1>2, <2>1 DEF Sound
  <2>3. OneRedeemer'
    BY <1>1, <2>1 DEF OneRedeemer, Locked
  <2> QED BY <2>2, <2>3
<1> QED BY <1>3, <1>4

\* What the steps below keep of the rows.
RowsStand == /\ booking \in [Facility -> Stage] /\ sweep \in Run
        /\ DueBuried /\ SweepKnown /\ CustomerSettled
NoNewRemoval == \A x \in Slot : flight'[x].do = "remove" => flight'[x] = flight[x]

(* What begins or ends no removal, and moves no row, keeps them.            *)
LEMMA Undisturbed ==
  ASSUME RemovalInv, life' = life, due' = due, recycled' = recycled, sweep' = sweep,
         booking' \in [Facility -> Stage], NoNewRemoval, late \subseteq late',
         \A f \in Facility : booking'[f] \in {"PENDING", "PAID"} =>
                               \/ booking[f] \in {"PENDING", "PAID"}
                               \/ life[Customer] = "ACTIVE" \/ ~PastCheck(Customer)
                               \/ f \in late'
  PROVE  RowsStand'
<1>1. Checked' => Checked
  BY DEF Checked, NoNewRemoval
<1>2. CustomerSettled'
  BY <1>1 DEF RemovalInv, CustomerSettled, Checked, PastCheck
<1>3. DueBuried' /\ SweepKnown' /\ sweep' \in Run
  BY DEF RemovalInv, DueBuried, SweepKnown, InSweep
<1> QED BY <1>2, <1>3 DEF RowsStand

LEMMA RequestsKeep ==
  ASSUME RemovalInv, NEW s \in Slot,
         DemoteWrites(s) \/ DeleteWrites(s) \/ CancelAndRefund(s) \/ ForceArchives(s)
  PROVE  RowsStand'
<1>1. PeopleTyped /\ booking \in [Facility -> Stage]
  BY DEF RemovalInv, LifecycleInv
<1>2. /\ life' = life /\ due' = due /\ recycled' = recycled /\ sweep' = sweep /\ late' = late
      /\ booking' = booking \/ \E f \in {flight[s].of} : booking' = [booking EXCEPT ![f] = "REFUND"]
  BY DEF DemoteWrites, DeleteWrites, CancelAndRefund, ForceArchives, rows, bookings, history
<1>3. /\ booking' \in [Facility -> Stage]
      /\ \A f \in Facility : booking'[f] \in {"PENDING", "PAID"} => booking'[f] = booking[f]
  BY <1>1, <1>2 DEF Stage
<1>4. NoNewRemoval
  <2>1. Done(s) => NoNewRemoval
    BY <1>1 DEF Done, Idle, PeopleTyped, NoNewRemoval
  <2>2. flight' = [flight EXCEPT ![s].do = "close"] /\ flight[s].do = "refund" => NoNewRemoval
    <3>1. flight[s].do = "refund" => flight[s] \in [do : {"refund", "close"}, of : Facility]
      BY <1>1 DEF PeopleTyped, Task, Idle
    <3> QED BY <1>1, <3>1 DEF PeopleTyped, NoNewRemoval
  <2>3. \A u, v : flight' = [flight EXCEPT ![s] = [do |-> "move", of |-> u, to |-> "ARCHIVED",
                                               saw |-> v]] => NoNewRemoval
    BY <1>1 DEF PeopleTyped, NoNewRemoval
  <2> QED BY <2>1, <2>2, <2>3 DEF DemoteWrites, DeleteWrites, CancelAndRefund,
                                  ForceArchives
<1> QED BY <1>2, <1>3, <1>4, Undisturbed

LEMMA StartsKeep ==
  ASSUME RemovalInv, NEW s \in Slot,
         \/ \E r \in Resource, to \in Life \ {"GONE"} : MoveReads(s, r, to)
         \/ \E a \in Approval, p \in Person : Claim(s, a, p) \/ DemoteReads(s, a, p)
         \/ \E u \in Person : DeleteReads(s, u)
         \/ \E f \in Facility : ForceReads(s, f)
  PROVE  RowsStand'
<1>1. PeopleTyped /\ booking \in [Facility -> Stage]
  BY DEF RemovalInv, LifecycleInv
<1>2. /\ life' = life /\ due' = due /\ recycled' = recycled /\ sweep' = sweep
      /\ booking' = booking /\ late' = late
  BY DEF MoveReads, Claim, DemoteReads, DeleteReads, ForceReads, rows, bookings, history
<1>3. NoNewRemoval
  <2>1. ASSUME NEW t, Start(s, t), t.do # "remove" PROVE NoNewRemoval
    BY <1>1, <2>1 DEF Start, PeopleTyped, NoNewRemoval
  <2> QED BY <2>1 DEF MoveReads, Claim, DemoteReads, DeleteReads, ForceReads
<1> QED BY <1>1, <1>2, <1>3, Undisturbed

LEMMA PapersKeep ==
  ASSUME RemovalInv,
         \/ \E r \in Resource, p \in Person : RequestPurge(r, p)
         \/ \E u, p \in Person : RequestDemotion(u, p)
         \/ \E a \in Approval : Expire(a) \/ Burn(a) \/ Reject(a) \/ RejectDemotion(a)
         \/ \E u \in Person : Promote(u)
         \/ \E f \in Facility : Book(f) \/ Advance(f) \/ Pay(f) \/ Confirm(f)
         \/ UNCHANGED lifecycleVars
  PROVE  RowsStand'
<1>1. booking \in [Facility -> Stage]
  BY DEF RemovalInv
<1>2. /\ life' = life /\ due' = due /\ recycled' = recycled /\ sweep' = sweep /\ flight' = flight
  BY DEF RequestPurge, RequestDemotion, Expire, Burn, Reject, RejectDemotion,
    Promote, Book, Advance, Pay, Confirm, lifecycleVars, rows, history
<1>3. NoNewRemoval
  BY <1>2 DEF NoNewRemoval
<1>4. CASE booking' = booking /\ late' = late
  BY <1>1, <1>2, <1>3, <1>4, Undisturbed
<1>5. CASE \E f \in Facility : Book(f)
  <2>1. PICK f \in Facility : Book(f)
    BY <1>5
  <2>2. booking' \in [Facility -> Stage] /\ life[Customer] = "ACTIVE" /\ late' = late
    BY <1>1, <2>1 DEF Book, Stage
  <2> QED BY <1>2, <1>3, <2>2, Undisturbed
<1>6. CASE \E f \in Facility : Advance(f)
  <2>1. PICK f \in Facility : Advance(f)
    BY <1>6
  <2>2. booking[f] \in Stage
    BY <1>1
  <2>3. PICK b \in Later[booking[f]] : booking' = [booking EXCEPT ![f] = b] /\ late' = late
    BY <2>1 DEF Advance
  <2>4. b \in Stage /\ b \notin {"PENDING", "PAID"}
    BY <2>2, <2>3 DEF Later, Stage
  <2>5. /\ booking' \in [Facility -> Stage]
        /\ \A g \in Facility : booking'[g] \in {"PENDING", "PAID"} =>
                                 booking[g] \in {"PENDING", "PAID"}
    BY <1>1, <2>3, <2>4
  <2> QED BY <1>2, <1>3, <2>3, <2>5, Undisturbed
<1>7. CASE \E f \in Facility : Confirm(f)
  <2>1. PICK f \in Facility : Confirm(f)
    BY <1>7
  <2>2. CASE booking' = booking /\ late' = late
    BY <1>4, <2>2
  <2>3. CASE /\ booking' = [booking EXCEPT ![f] = "PAID"]
             /\ late' = IF booking[f] # "PENDING" /\ PastCheck(Customer) THEN late \cup {f} ELSE late
    <3>1. booking' \in [Facility -> Stage] /\ \A g \in Facility \ {f} : booking'[g] = booking[g]
      BY <1>1, <2>3 DEF Stage
    <3>2. late \subseteq late' /\ (booking[f] = "PENDING" \/ ~PastCheck(Customer) \/ f \in late')
      BY <2>3
    <3> QED BY <1>2, <1>3, <3>1, <3>2, Undisturbed
  <2> QED BY <2>1, <2>2, <2>3 DEF Confirm
<1> QED BY <1>4, <1>5, <1>6, <1>7
     DEF RequestPurge, RequestDemotion, Expire, Burn, Reject, RejectDemotion,
         Promote, Pay, lifecycleVars, bookings

(* A retention window passes.                                               *)
LEMMA LapseKeeps ==
  ASSUME RemovalInv, NEW r \in Resource, Lapse(r)
  PROVE  RowsStand'
<1>1. /\ life' = life /\ recycled' = recycled /\ sweep' = sweep /\ flight' = flight
      /\ booking' = booking /\ due' = due \cup {r} /\ life[r] = "TOMBSTONED" /\ late' = late
  BY DEF Lapse, Retained, Buried, people, bookings, history
<1>2. CustomerSettled'
  BY <1>1 DEF RemovalInv, CustomerSettled, Checked
<1> QED BY <1>1, <1>2 DEF RemovalInv, RowsStand, DueBuried, SweepKnown, InSweep

(* A restored tombstone that was in somebody's hands is marked; nothing else returns  *)
(* from where the sweep or an approver may remove it.                       *)
LEMMA MoveKeeps ==
  ASSUME RemovalInv, NEW s \in Slot, MoveWrites(s)
  PROVE  RowsStand'
<1> DEFINE t == flight[s]
<1>1. /\ PeopleTyped /\ SoundTask(t) /\ booking \in [Facility -> Stage] /\ sweep \in Run
      /\ DueBuried /\ SweepKnown /\ CustomerSettled
  BY DEF RemovalInv, LifecycleInv, Sound
<1>2. t.do = "move" /\ sweep' = sweep /\ booking' = booking /\ late' = late
  BY DEF MoveWrites, bookings
<1>3. /\ t.of \in Resource /\ t.to \in Life \ {"GONE"} /\ t.saw # "GONE" /\ t.saw # t.to
      /\ t.to = "TOMBSTONED" => t.saw # "TOMBSTONED"
  <2>1. t.of \in Resource /\ t.to \in Life /\ t.to # "GONE" /\ t.saw \in From(t.to)
    BY <1>1, <1>2, TaskTypes DEF SoundTask
  <2> QED BY <2>1 DEF From, Life
<1>4. NoNewRemoval
  BY <1>1 DEF MoveWrites, Done, Idle, PeopleTyped, NoNewRemoval
<1>5. Checked' => Checked
  BY <1>2, <1>4 DEF Checked, NoNewRemoval
<1>6. CASE life[t.of] # t.saw
  <2>1. life' = life /\ due' = due /\ recycled' = recycled
    BY <1>6 DEF MoveWrites, rows
  <2> QED BY <1>1, <1>2, <1>4, <2>1, Undisturbed
<1>7. CASE life[t.of] = t.saw
  <2>1. /\ life' = [life EXCEPT ![t.of] = t.to]
        /\ due' = due \/ due' = due \ {t.of}
        /\ t.to # "TOMBSTONED" => due' = due \ {t.of}
        /\ recycled' = IF t.saw = "TOMBSTONED" /\ InHand(t.of)
                       THEN recycled \cup {t.of} ELSE recycled
    BY <1>7 DEF MoveWrites, Placed, Cleared
  <2>2. /\ life'[t.of] = t.to /\ \A r \in Resource \ {t.of} : life'[r] = life[r]
        /\ due' \subseteq due /\ due \subseteq due' \cup {t.of}
        /\ recycled \subseteq recycled'
    BY <1>1, <1>3, <2>1 DEF PeopleTyped
  <2>3. t.of \notin due'
    <3>1. t.to = "TOMBSTONED" => life[t.of] # "TOMBSTONED"
      BY <1>3, <1>7
    <3> QED BY <1>1, <2>1, <3>1 DEF DueBuried
  <2>4. DueBuried'
    BY <1>1, <2>2, <2>3 DEF DueBuried
  <2>5. t.of \in InSweep => t.of \in recycled'
    <3>1. t.of \in InSweep => InHand(t.of)
      BY DEF InSweep, InHand
    <3>2. t.of \in InSweep /\ t.of \notin recycled => t.saw = "TOMBSTONED"
      BY <1>1, <1>3, <1>7 DEF SweepKnown, DueBuried
    <3> QED BY <2>1, <3>1, <3>2
  <2>6. InSweep \subseteq Resource
    BY <1>1 DEF InSweep, Run, ToSet
  <2>7. SweepKnown'
    <3> SUFFICES ASSUME NEW r \in InSweep, r \notin recycled'
                 PROVE  r \in due' \/ life'[r] = "GONE"
      BY <1>2 DEF SweepKnown, InSweep
    <3>1. r # t.of /\ r \in Resource
      BY <2>5, <2>6
    <3> QED BY <1>1, <2>2, <3>1 DEF SweepKnown
  <2>8. CustomerSettled'
    <3> SUFFICES ASSUME Customer \notin recycled', Checked' \/ life'[Customer] = "GONE"
                 PROVE  /\ life'[Customer] \in {"TOMBSTONED", "GONE"}
                        /\ \A f \in Facility : booking'[f] \in {"PENDING", "PAID"} => f \in late'
      BY DEF CustomerSettled
    <3>1. Customer \in Resource /\ Customer # None
      BY PersonAssumption, KindAssumption DEF Resource
    <3>2. CASE t.of # Customer
      <4>1. life'[Customer] = life[Customer]
        BY <2>2, <3>1, <3>2
      <4> QED BY <1>1, <1>2, <1>5, <2>2, <4>1 DEF CustomerSettled
    <3>3. CASE t.of = Customer
      <4>1. Checked
        BY <1>3, <1>5, <2>2, <3>3
      <4>2. life[Customer] = "TOMBSTONED" /\ InHand(Customer)
        BY <1>1, <1>3, <1>7, <2>2, <3>3, <4>1 DEF CustomerSettled, Checked, InHand
      <4> QED BY <1>7, <2>1, <3>3, <4>2
    <3> QED BY <3>2, <3>3
  <2> QED BY <1>1, <1>2, <2>4, <2>7, <2>8 DEF RowsStand
<1> QED BY <1>6, <1>7

(* What is removed was buried, and is gone for good.                        *)
LEMMA ErasureKeeps ==
  ASSUME RemovalInv, NEW r, Erase(r), Buried(r), recycled' = recycled,
         booking' = booking, late' = late, sweep' \in Run, InSweep' \subseteq InSweep, Checked' => Checked,
         r = Customer => Checked
  PROVE  RowsStand'
<1>1. /\ PeopleTyped /\ booking \in [Facility -> Stage] /\ sweep \in Run
      /\ DueBuried /\ SweepKnown /\ CustomerSettled
  BY DEF RemovalInv, LifecycleInv
<1>2. life' = [life EXCEPT ![r] = "GONE"] /\ due' = due \ {r}
  BY DEF Erase, Cleared
<1>3. /\ \A x \in Resource \ {r} : life'[x] = life[x]
      /\ r \in Resource => life'[r] = "GONE"
  BY <1>1, <1>2 DEF PeopleTyped
<1>4. DueBuried'
  BY <1>1, <1>2, <1>3 DEF DueBuried
<1>5. InSweep \subseteq Resource
  BY <1>1 DEF InSweep, Run, ToSet
<1>6. SweepKnown'
  BY <1>1, <1>2, <1>3, <1>5 DEF SweepKnown
<1>7. Customer \in Resource
  BY PersonAssumption DEF Resource
<1>8. CustomerSettled'
  BY <1>1, <1>3, <1>7 DEF CustomerSettled
<1> QED BY <1>1, <1>4, <1>6, <1>8 DEF RowsStand

LEMMA PurgesKeep ==
  ASSUME RemovalInv, NEW s \in Slot, PurgeChecks(s) \/ PurgeRemoves(s)
  PROVE  RowsStand'
<1>1. /\ PeopleTyped /\ booking \in [Facility -> Stage] /\ sweep \in Run
      /\ DueBuried /\ SweepKnown /\ CustomerSettled
  BY DEF RemovalInv, LifecycleInv
<1>2. /\ booking' = booking /\ sweep' = sweep /\ recycled' = recycled /\ late' = late
  BY DEF PurgeChecks, PurgeRemoves, bookings, history
<1>3. Done(s) => NoNewRemoval
  BY <1>1 DEF Done, Idle, PeopleTyped, NoNewRemoval
<1>4. NoNewRemoval => (Checked' => Checked)
  BY <1>2 DEF NoNewRemoval, Checked
<1>5. CASE PurgeRemoves(s) /\ Removable(flight[s].of)
  <2>1. /\ Erase(flight[s].of) /\ Buried(flight[s].of) /\ Done(s)
        /\ flight[s].of = Customer => Checked
    BY <1>5 DEF PurgeRemoves, Removable, Checked
  <2>2. InSweep' = InSweep
    BY <1>2 DEF InSweep
  <2> QED BY <1>1, <1>2, <1>3, <1>4, <2>1, <2>2, ErasureKeeps
<1>6. CASE \/ PurgeRemoves(s) /\ ~Removable(flight[s].of)
           \/ PurgeChecks(s) /\ ~Purgeable(flight[s].of)
  <2>1. life' = life /\ due' = due /\ Done(s)
    BY <1>6 DEF PurgeRemoves, PurgeChecks, rows
  <2> QED BY <1>1, <1>2, <1>3, <2>1, Undisturbed
<1>7. CASE PurgeChecks(s) /\ Purgeable(flight[s].of)
  <2>1. life' = life /\ due' = due /\ flight' = [flight EXCEPT ![s].do = "remove"]
    BY <1>7 DEF PurgeChecks, rows
  <2>2. flight[s] \in [do : {"purge", "remove", "demote"}, of : Resource,
                     id : Approval, by : Person]
    BY <1>1, <1>7, TaskTypes DEF PurgeChecks
  <2>3. flight'[s].of = flight[s].of /\ \A x \in Slot \ {s} : flight'[x] = flight[x]
    BY <1>1, <2>1, <2>2 DEF PeopleTyped
  <2>4. CASE flight[s].of = Customer
    <3>1. life[Customer] = "TOMBSTONED" /\ ~Unsettled(Customer)
      BY <1>7, <2>4 DEF Purgeable, Buried, Blocked
    <3>2. CustomerSettled'
      BY <1>2, <2>1, <3>1 DEF CustomerSettled, Unsettled
    <3> QED BY <1>1, <1>2, <2>1, <3>2 DEF RowsStand, DueBuried, SweepKnown, InSweep
  <2>5. CASE flight[s].of # Customer
    <3>1. Checked' => Checked
      BY <1>2, <2>3, <2>5 DEF Checked
    <3>2. CustomerSettled'
      BY <1>1, <1>2, <2>1, <3>1 DEF CustomerSettled
    <3> QED BY <1>1, <1>2, <2>1, <3>2 DEF RowsStand, DueBuried, SweepKnown, InSweep
  <2> QED BY <2>4, <2>5
<1> QED BY <1>5, <1>6, <1>7

(* A batch is taken from what is due.                                       *)
LEMMA BatchSize ==
  ASSUME NEW k \in 1..3, NEW b \in BatchOf(k)
  PROVE  \E n \in Nat : b \in [1..n -> due]
  BY BoundAssumption DEF BatchOf, DueOf

LEMMA SweepsKeep ==
  ASSUME RemovalInv, Sweeps \/ SweepStops
  PROVE  RowsStand'
<1>1. /\ PeopleTyped /\ booking \in [Facility -> Stage] /\ sweep \in Run
      /\ DueBuried /\ SweepKnown /\ CustomerSettled
  BY DEF RemovalInv, LifecycleInv
<1>2. booking' = booking /\ recycled' = recycled /\ flight' = flight /\ late' = late
  BY DEF Sweeps, SweepReads, SweepChecks, SweepRemoves, SweepStops, bookings, history
<1>3. Customer \in Resource /\ Customer # None
  BY PersonAssumption, KindAssumption DEF Resource
<1>4. CASE SweepReads
  <2>1. /\ life' = life /\ due' = due
        /\ \E k \in 1..3 : \E b \in BatchOf(k) :
             sweep' = [kind |-> k, todo |-> b, item |-> None]
    <3>1. PICK turn \in 1..3 :
            \E b \in BatchOf(((sweep.kind + turn - 1) % 3) + 1) :
              sweep' = [kind |-> ((sweep.kind + turn - 1) % 3) + 1, todo |-> b, item |-> None]
      BY <1>4 DEF SweepReads
    <3>2. ((sweep.kind + turn - 1) % 3) + 1 \in 1..3
      BY <1>1 DEF Run
    <3> QED BY <1>4, <3>1, <3>2 DEF SweepReads, rows
  <2>2. PICK k \in 1..3 :
          \E b \in BatchOf(k) : sweep' = [kind |-> k, todo |-> b, item |-> None]
    BY <2>1
  <2>3. PICK b \in BatchOf(k) : sweep' = [kind |-> k, todo |-> b, item |-> None]
    BY <2>2
  <2>4. PICK n : b \in [1..n -> due] /\ n \in Nat
    BY <1>1, BatchSize
  <2>5. b \in Seq(Resource) /\ ToSet(b) \subseteq due
    BY <1>1, <2>4 DEF DueBuried, ToSet
  <2>6. sweep' \in Run /\ InSweep' \subseteq due /\ sweep'.item = None
    BY <2>3, <2>5 DEF Run, InSweep
  <2>7. CustomerSettled'
    BY <1>1, <1>2, <1>3, <2>1, <2>6 DEF CustomerSettled, Checked
  <2> QED BY <1>1, <1>2, <2>1, <2>6, <2>7 DEF RowsStand, DueBuried, SweepKnown
<1>5. CASE SweepChecks
  <2> DEFINE h == Head(sweep.todo)
  <2>1. /\ life' = life /\ due' = due /\ sweep.todo # <<>>
        /\ sweep' = [sweep EXCEPT !.todo = Tail(@), !.item = IF Blocked(h) THEN None ELSE h]
    BY <1>5 DEF SweepChecks, rows
  <2>2. /\ h \in Resource /\ h \in ToSet(sweep.todo)
        /\ Tail(sweep.todo) \in Seq(Resource)
        /\ ToSet(Tail(sweep.todo)) \subseteq ToSet(sweep.todo)
    <3>1. sweep.todo \in Seq(Resource)
      BY <1>1 DEF Run
    <3> QED BY <2>1, <3>1 DEF ToSet
  <2> HIDE DEF h
  <2>3. /\ sweep' \in Run /\ sweep'.todo = Tail(sweep.todo)
        /\ sweep'.item = IF Blocked(h) THEN None ELSE h
    BY <1>1, <2>1, <2>2 DEF Run
  <2>4. InSweep' \subseteq InSweep
    <3>1. h \in InSweep /\ ToSet(Tail(sweep.todo)) \subseteq InSweep
      BY <2>2 DEF InSweep
    <3> QED BY <2>3, <3>1 DEF InSweep
  <2>5. CASE h = Customer /\ ~Blocked(h) /\ Customer \notin recycled
    <3>1. life[Customer] \in {"TOMBSTONED", "GONE"}
      BY <1>1, <2>2, <2>5 DEF SweepKnown, InSweep, DueBuried
    <3>2. CustomerSettled'
      BY <1>2, <2>1, <2>5, <3>1 DEF CustomerSettled, Blocked, Unsettled
    <3> QED BY <1>1, <1>2, <2>1, <2>3, <2>4, <3>2 DEF RowsStand, DueBuried, SweepKnown
  <2>6. CASE ~(h = Customer /\ ~Blocked(h) /\ Customer \notin recycled)
    <3>1. CustomerSettled'
      BY <1>1, <1>2, <1>3, <2>1, <2>3, <2>6 DEF CustomerSettled, Checked
    <3> QED BY <1>1, <1>2, <2>1, <2>3, <2>4, <3>1 DEF RowsStand, DueBuried, SweepKnown
  <2> QED BY <2>5, <2>6
<1>6. CASE SweepRemoves
  <2>1. sweep' = [sweep EXCEPT !.item = None] /\ sweep.item # None
    BY <1>6 DEF SweepRemoves
  <2>2. sweep' \in Run /\ sweep'.todo = sweep.todo /\ sweep'.item = None
    BY <1>1, <2>1 DEF Run
  <2>3. InSweep' \subseteq InSweep /\ (Checked' => Checked)
    BY <1>2, <1>3, <2>2 DEF InSweep, Checked
  <2>4. CASE Removable(sweep.item)
    <3>1. Erase(sweep.item) /\ Buried(sweep.item)
      BY <1>6, <2>4 DEF SweepRemoves, Removable
    <3> QED BY <1>2, <2>2, <2>3, <3>1, ErasureKeeps DEF Checked
  <2>5. CASE ~Removable(sweep.item)
    <3>1. life' = life /\ due' = due
      BY <1>6, <2>5 DEF SweepRemoves, rows
    <3>2. CustomerSettled'
      BY <1>1, <1>2, <2>3, <3>1 DEF CustomerSettled
    <3> QED BY <1>1, <1>2, <2>2, <2>3, <3>1, <3>2 DEF RowsStand, DueBuried, SweepKnown
  <2> QED BY <2>4, <2>5
<1>7. CASE SweepStops
  <2>1. life' = life /\ due' = due /\ sweep' = [kind |-> 3, todo |-> <<>>, item |-> None]
    BY <1>7 DEF SweepStops, rows
  <2>2. sweep' \in Run /\ InSweep' = {} /\ (Checked' => Checked)
    BY <1>2, <1>3, <2>1 DEF Run, InSweep, ToSet, Checked
  <2>3. CustomerSettled'
    BY <1>1, <1>2, <2>1, <2>2 DEF CustomerSettled
  <2> QED BY <1>1, <1>2, <2>1, <2>2, <2>3 DEF RowsStand, DueBuried, SweepKnown
<1> QED BY <1>4, <1>5, <1>6, <1>7 DEF Sweeps

(* The invariant, for any number of resources, approvals and requests.      *)
LEMMA RemovalInit ==
  ASSUME LifecycleInit
  PROVE  RemovalInv
<1>1. \A s \in Slot : flight[s].do = "idle"
  BY DEF LifecycleInit, Idle
<1>2. sweep \in Run /\ InSweep = {} /\ sweep.item = None
  BY DEF LifecycleInit, Run, InSweep, ToSet
<1>3. Customer \in Resource /\ Customer # None
  BY PersonAssumption, KindAssumption DEF Resource
<1>4. CustomerSettled
  BY <1>1, <1>2, <1>3 DEF CustomerSettled, Checked, LifecycleInit
<1>5. booking \in [Facility -> Stage] /\ DueBuried /\ SweepKnown
  BY <1>2 DEF LifecycleInit, Stage, DueBuried, SweepKnown
<1>6. Sound /\ OneRedeemer
  BY <1>1 DEF Sound, SoundTask, OneRedeemer
<1> QED BY <1>2, <1>4, <1>5, <1>6, AdminsInit DEF RemovalInv

LEMMA RemovalNext ==
  ASSUME RemovalInv, [LifecycleNext]_lifecycleVars
  PROVE  RemovalInv'
<1>1. LifecycleInv'
  BY AdminsNext DEF RemovalInv
<1>2. RowsStand'
  <2>1. CASE UNCHANGED lifecycleVars
    BY <2>1, PapersKeep
  <2>2. CASE LifecycleNext
    BY <2>2, RequestsKeep, StartsKeep, PapersKeep, LapseKeeps, MoveKeeps, PurgesKeep, SweepsKeep
       DEF LifecycleNext
  <2> QED BY <2>1, <2>2
<1> QED BY <1>1, <1>2, SoundStep DEF RemovalInv, RowsStand

LEMMA RemovalHolds == LifecycleSpec => []RemovalInv
  BY RemovalInit, RemovalNext, PTL DEF LifecycleSpec

(* What leaves without being due leaves by the word of two, or was swept.   *)
LEMMA GoneByRemoval ==
  ASSUME RemovalInv, [LifecycleNext]_lifecycleVars, NEW r \in Resource \ recycled,
         life[r] # "GONE", life'[r] = "GONE", r \notin due
  PROVE  \E s \in Slot : PurgeRemoves(s) /\ flight[s].of = r
<1>1. PeopleTyped /\ Sound /\ SweepKnown
  BY DEF RemovalInv, LifecycleInv
<1>2. ASSUME NEW x, Erase(x) PROVE x = r
  BY <1>1, <1>2 DEF Erase, PeopleTyped
<1>3. ASSUME NEW s \in Slot, MoveWrites(s) PROVE FALSE
  <2>1. flight[s].of \in Resource /\ flight[s].to # "GONE"
    BY <1>1, <1>3, TaskTypes DEF Sound, SoundTask, MoveWrites
  <2> QED BY <1>1, <1>3, <2>1 DEF MoveWrites, Placed, rows, PeopleTyped
<1>4. ASSUME SweepRemoves PROVE FALSE
  <2>1. sweep.item = r /\ sweep.item # None
    BY <1>2, <1>4 DEF SweepRemoves, rows
  <2> QED BY <1>1, <2>1 DEF SweepKnown, InSweep
<1>5. ASSUME NEW s \in Slot, PurgeRemoves(s) PROVE flight[s].of = r
  BY <1>2, <1>5 DEF PurgeRemoves, rows
<1>6. \/ \E s \in Slot : MoveWrites(s) \/ PurgeRemoves(s)
      \/ SweepRemoves
      \/ life' = life
  <2>1. CASE UNCHANGED lifecycleVars
    BY <2>1 DEF lifecycleVars
  <2>2. CASE LifecycleNext
    BY <2>2 DEF LifecycleNext, MoveReads, Claim, DemoteReads, DeleteReads, ForceReads,
      CancelAndRefund, ForceArchives, PurgeChecks, DemoteWrites, DeleteWrites,
      Lapse, RequestPurge, RequestDemotion, Expire, Burn, Reject,
      RejectDemotion, Promote, Book, Advance, Pay, Confirm, Sweeps, SweepReads, SweepChecks,
      SweepStops, rows
  <2> QED BY <2>1, <2>2
<1> QED BY <1>3, <1>4, <1>5, <1>6

\* Nothing is ever removed before its retention window has passed on one person's word,
\* however many resources, approvals and requests there are and wherever the sweep is;
\* apart from what was restored in somebody's hands.
THEOREM RetentionOrTwoAlways == LifecycleSpec => RetentionOrTwo
<1>1. RemovalInv /\ [LifecycleNext]_lifecycleVars =>
        [\A r \in Resource \ recycled :
           life[r] # "GONE" /\ life'[r] = "GONE" =>
             \/ r \in due
             \/ \E a \in Approval : /\ approval[a].state = "APPROVED" /\ approval[a].of = r
                                    /\ approval[a].by # approval[a].decider]_lifecycleVars
  <2> SUFFICES ASSUME RemovalInv, [LifecycleNext]_lifecycleVars, NEW r \in Resource \ recycled,
                      life[r] # "GONE", life'[r] = "GONE", r \notin due
               PROVE  \E a \in Approval :
                        /\ approval[a].state = "APPROVED" /\ approval[a].of = r
                        /\ approval[a].by # approval[a].decider
    OBVIOUS
  <2>1. PeopleTyped /\ Sound /\ SweepKnown
    BY DEF RemovalInv, LifecycleInv
  <2>2. PICK s \in Slot : PurgeRemoves(s) /\ flight[s].of = r
    BY <2>1, GoneByRemoval
  <2>3. flight[s].id \in Approval /\ SoundTask(flight[s]) /\ flight[s].do = "remove"
    BY <2>1, <2>2, TaskTypes DEF Sound, PurgeRemoves
  <2> QED BY <2>2, <2>3 DEF SoundTask
<1> QED BY <1>1, RemovalHolds, PTL DEF LifecycleSpec, RetentionOrTwo

\* A customer whose account was purged never has a booking left to pay for or to honour,
\* for any number of facilities, requests, captures and sweeps; but for one that had lapsed,
\* or been cancelled, and was confirmed after the purge had counted, and for a customer
\* restored, and buried again, in the hands of the sweep or of an approver.
THEOREM NobodyIsEverStranded == LifecycleSpec => []NobodyIsStranded
<1>1. RemovalInv => NobodyIsStranded
  BY DEF RemovalInv, CustomerSettled, NobodyIsStranded
<1> QED BY <1>1, RemovalHolds, PTL
-----------------------------------------------------------------------------
(* Lifecycle: the tombstones, and the type of the state.                    *)

(* A new element at the end of a sequence without repetition.               *)
LEMMA AppendKeepsInjective ==
  ASSUME NEW S, NEW q \in Seq(S), IsInjective(q), NEW e \in S, e \notin ToSet(q)
  PROVE  /\ Append(q, e) \in Seq(S) /\ IsInjective(Append(q, e))
         /\ ToSet(Append(q, e)) = ToSet(q) \cup {e}
<1> DEFINE a == Append(q, e)
           n == Len(q)
<1>1. /\ a \in Seq(S) /\ n \in Nat /\ DOMAIN q = 1..n /\ DOMAIN a = 1..(n + 1)
      /\ a[n + 1] = e /\ \A i \in 1..n : a[i] = q[i]
  OBVIOUS
<1>2. \A i \in 1..n : q[i] # e
  BY <1>1 DEF ToSet
<1> HIDE DEF a, n
<1>3. IsInjective(a)
  BY <1>1, <1>2 DEF IsInjective
<1>4. ToSet(a) = ToSet(q) \cup {e}
  <2>1. ToSet(a) \subseteq ToSet(q) \cup {e}
    BY <1>1 DEF ToSet
  <2>2. ToSet(q) \subseteq ToSet(a)
    BY <1>1 DEF ToSet
  <2>3. e \in ToSet(a)
    BY <1>1 DEF ToSet
  <2> QED BY <2>1, <2>2, <2>3
<1> QED BY <1>1, <1>3, <1>4 DEF a

(* One element out of a sequence without repetition.                        *)
LEMMA RemoveAtKeepsInjective ==
  ASSUME NEW S, NEW q \in Seq(S), IsInjective(q), NEW i \in 1..Len(q)
  PROVE  /\ RemoveAt(q, i) \in Seq(S) /\ IsInjective(RemoveAt(q, i))
         /\ ToSet(RemoveAt(q, i)) = ToSet(q) \ {q[i]}
<1> DEFINE b == RemoveAt(q, i)
           n == Len(q)
           front == SubSeq(q, 1, i - 1)
           rear == SubSeq(q, i + 1, n)
<1>1. /\ n \in Nat /\ i \in 1..n /\ DOMAIN q = 1..n /\ \A j \in 1..n : q[j] \in S
  OBVIOUS
<1>2. b = front \o rear
  BY DEF RemoveAt
<1> HIDE DEF b, n
<1>3. /\ front \in Seq(S) /\ Len(front) = i - 1
      /\ \A j \in 1..(i - 1) : front[j] = q[j]
  <2>1. i - 1 \in Int /\ 1 \in Int /\ \A j \in 1..(i - 1) : q[j] \in S
    BY <1>1
  <2> QED BY <1>1, <2>1, SubSeqProperties
<1>4. /\ rear \in Seq(S) /\ Len(rear) = n - i
      /\ \A j \in 1..(n - i) : rear[j] = q[i + j]
  <2>1. n \in Int /\ i + 1 \in Int /\ \A j \in (i + 1)..n : q[j] \in S
    BY <1>1
  <2>2. /\ rear \in Seq(S) /\ Len(rear) = IF i + 1 <= n THEN n - (i + 1) + 1 ELSE 0
        /\ \A j \in 1..(n - (i + 1) + 1) : rear[j] = q[i + 1 + j - 1]
    BY <2>1, SubSeqProperties
  <2>3. Len(rear) = n - i
    <3>1. (IF i + 1 <= n THEN n - (i + 1) + 1 ELSE 0) = n - i
      BY <1>1
    <3> QED BY <2>2, <3>1
  <2>4. ASSUME NEW j \in 1..(n - i) PROVE rear[j] = q[i + j]
    <3>1. j \in 1..(n - (i + 1) + 1) /\ i + 1 + j - 1 = i + j
      BY <1>1
    <3> QED BY <2>2, <3>1
  <2> QED BY <2>2, <2>3, <2>4
<1> HIDE DEF front, rear
<1>5. /\ b \in Seq(S) /\ DOMAIN b = 1..(n - 1)
      /\ \A j \in 1..(n - 1) : b[j] = IF j < i THEN front[j] ELSE rear[j - (i - 1)]
  <2>1. /\ b \in Seq(S) /\ Len(b) = Len(front) + Len(rear)
        /\ \A j \in 1..(Len(front) + Len(rear)) :
             b[j] = IF j <= Len(front) THEN front[j] ELSE rear[j - Len(front)]
    BY <1>3, <1>4, <1>2, ConcatProperties
  <2>2. Len(front) + Len(rear) = n - 1
    BY <1>1, <1>3, <1>4
  <2>3. Len(b) = n - 1
    BY <2>1, <2>2
  <2>4. ASSUME NEW j \in 1..(n - 1)
        PROVE  b[j] = IF j < i THEN front[j] ELSE rear[j - (i - 1)]
    <3>1. j <= i - 1 <=> j < i
      BY <1>1
    <3> QED BY <1>3, <2>1, <2>2, <3>1
  <2> QED BY <2>1, <2>3, <2>4
<1>6. \A j \in 1..(n - 1) : b[j] = IF j < i THEN q[j] ELSE q[j + 1]
  <2> SUFFICES ASSUME NEW j \in 1..(n - 1) PROVE b[j] = IF j < i THEN q[j] ELSE q[j + 1]
    OBVIOUS
  <2>1. CASE j < i
    BY <1>1, <1>3, <1>5, <2>1
  <2>2. CASE ~(j < i)
    <3>1. j - (i - 1) \in 1..(n - i) /\ i + (j - (i - 1)) = j + 1
      BY <1>1, <2>2
    <3> QED BY <1>4, <1>5, <2>2, <3>1
  <2> QED BY <2>1, <2>2
<1>7. IsInjective(b)
  <2> SUFFICES ASSUME NEW j \in 1..(n - 1), NEW k \in 1..(n - 1), j < k, b[j] = b[k]
               PROVE  FALSE
    BY <1>1, <1>5 DEF IsInjective
  <2>1. PICK x \in 1..n, y \in 1..n : b[j] = q[x] /\ b[k] = q[y] /\ x < y
    <3> DEFINE x == IF j < i THEN j ELSE j + 1
               y == IF k < i THEN k ELSE k + 1
    <3>1. x \in 1..n /\ y \in 1..n /\ x < y
      BY <1>1
    <3>2. b[j] = q[x] /\ b[k] = q[y]
      BY <1>6
    <3> QED BY <3>1, <3>2
  <2>2. x = y
    BY <1>1, <2>1 DEF IsInjective
  <2> QED BY <2>1, <2>2
<1>8. ToSet(b) \subseteq ToSet(q) \ {q[i]}
  <2> SUFFICES ASSUME NEW j \in 1..(n - 1) PROVE b[j] \in ToSet(q) \ {q[i]}
    BY <1>5 DEF ToSet
  <2>1. PICK k \in 1..n : b[j] = q[k] /\ k # i
    <3>1. CASE j < i
      BY <1>1, <1>6, <3>1
    <3>2. CASE ~(j < i)
      <4>1. j + 1 \in 1..n /\ j + 1 # i
        BY <1>1, <3>2
      <4> QED BY <1>6, <3>2, <4>1
    <3> QED BY <3>1, <3>2
  <2> QED BY <1>1, <2>1 DEF IsInjective, ToSet
<1>9. ToSet(q) \ {q[i]} \subseteq ToSet(b)
  <2> SUFFICES ASSUME NEW k \in 1..n, k # i PROVE q[k] \in ToSet(b)
    BY <1>1 DEF ToSet
  <2>1. CASE k < i
    <3>1. k \in 1..(n - 1)
      BY <1>1, <2>1
    <3>2. b[k] = q[k]
      BY <1>6, <2>1, <3>1
    <3> QED BY <1>5, <3>1, <3>2 DEF ToSet
  <2>2. CASE ~(k < i)
    <3>1. k - 1 \in 1..(n - 1) /\ ~(k - 1 < i) /\ (k - 1) + 1 = k
      BY <1>1, <2>2
    <3>2. b[k - 1] = q[k]
      BY <1>6, <3>1
    <3> QED BY <1>5, <3>1, <3>2 DEF ToSet
  <2> QED BY <2>1, <2>2
<1> QED BY <1>5, <1>7, <1>8, <1>9 DEF b

\* Every tombstone is listed, and listed once.
TrashSound == /\ trash \in Seq(Resource) /\ IsInjective(trash)
              /\ ToSet(trash) = {r \in Resource : life[r] = "TOMBSTONED"}

\* What the steps keep besides: who was anonymised, what was marked, and the bound.
Accounted == /\ deleted \subseteq Person /\ recycled \subseteq Resource
             /\ moves \in 0..MaxMove /\ crossed \in BOOLEAN
             /\ paying \subseteq Facility /\ late \subseteq Facility

(* A tombstone has its place in the list.                                   *)
LEMMA PlaceOf ==
  ASSUME TrashSound, NEW r \in Resource, Buried(r)
  PROVE  Place(r) \in 1..Len(trash) /\ trash[Place(r)] = r
<1>1. \E i \in DOMAIN trash : trash[i] = r
  BY DEF TrashSound, Buried, ToSet
<1>2. Place(r) \in DOMAIN trash /\ trash[Place(r)] = r
  BY <1>1 DEF Place
<1> QED BY <1>2 DEF TrashSound

(* A row that is restored or removed leaves the list, one that is buried joins it.  *)
LEMMA TrashLoses ==
  ASSUME TrashSound, life \in [Resource -> Life], NEW r \in Resource,
         NEW to \in Life \ {"TOMBSTONED"}, life' = [life EXCEPT ![r] = to], Cleared(r)
  PROVE  TrashSound'
<1>1. {x \in Resource : life'[x] = "TOMBSTONED"}
        = {x \in Resource : life[x] = "TOMBSTONED"} \ {r}
  OBVIOUS
<1>2. CASE Buried(r)
  <2>1. trash' = RemoveAt(trash, Place(r))
    BY <1>2 DEF Cleared
  <2>2. Place(r) \in 1..Len(trash) /\ trash[Place(r)] = r
    BY <1>2, PlaceOf
  <2>3. trash \in Seq(Resource) /\ IsInjective(trash)
    BY DEF TrashSound
  <2>4. /\ trash' \in Seq(Resource) /\ IsInjective(trash')
        /\ ToSet(trash') = ToSet(trash) \ {r}
    BY <2>1, <2>2, <2>3, RemoveAtKeepsInjective
  <2> QED BY <1>1, <2>4 DEF TrashSound
<1>3. CASE ~Buried(r)
  BY <1>1, <1>3 DEF Cleared, Buried, TrashSound
<1> QED BY <1>2, <1>3

LEMMA TrashGains ==
  ASSUME TrashSound, life \in [Resource -> Life], NEW r \in Resource, ~Buried(r),
         life' = [life EXCEPT ![r] = "TOMBSTONED"], trash' = Append(trash, r)
  PROVE  TrashSound'
<1>1. {x \in Resource : life'[x] = "TOMBSTONED"}
        = {x \in Resource : life[x] = "TOMBSTONED"} \cup {r}
  OBVIOUS
<1>2. trash \in Seq(Resource) /\ IsInjective(trash) /\ r \notin ToSet(trash)
  BY DEF TrashSound, Buried
<1>3. /\ trash' \in Seq(Resource) /\ IsInjective(trash')
      /\ ToSet(trash') = ToSet(trash) \cup {r}
  BY <1>2, AppendKeepsInjective
<1> QED BY <1>1, <1>3 DEF TrashSound

(* Rows, and the marks on them, change in a write of a move, in a removal and in the  *)
(* deletion of an account.                                                  *)
LEMMA RowsRest ==
  ASSUME [LifecycleNext]_lifecycleVars
  PROVE  \/ \E s \in Slot : MoveWrites(s) \/ PurgeRemoves(s) \/ DeleteWrites(s)
         \/ SweepRemoves
         \/ life' = life /\ trash' = trash /\ deleted' = deleted /\ recycled' = recycled
<1> DEFINE RowsSame == life' = life /\ trash' = trash /\ deleted' = deleted /\ recycled' = recycled
<1>1. ASSUME NEW s \in Slot,
             \/ \E r \in Resource, to \in Life \ {"GONE"} : MoveReads(s, r, to)
             \/ \E a \in Approval, p \in Person : Claim(s, a, p) \/ DemoteReads(s, a, p)
             \/ \E u \in Person : DeleteReads(s, u)
             \/ \E f \in Facility : ForceReads(s, f)
             \/ CancelAndRefund(s) \/ ForceArchives(s)
             \/ PurgeChecks(s) \/ DemoteWrites(s)
      PROVE  RowsSame
  BY <1>1 DEF MoveReads, Claim, DemoteReads, DeleteReads, ForceReads, CancelAndRefund,
    ForceArchives, PurgeChecks, DemoteWrites, rows, people, history
<1>2. ASSUME \/ \E r \in Resource : Lapse(r)
             \/ \E r \in Resource, p \in Person : RequestPurge(r, p)
             \/ \E u, p \in Person : RequestDemotion(u, p)
             \/ \E a \in Approval : Expire(a) \/ Burn(a) \/ Reject(a) \/ RejectDemotion(a)
             \/ \E u \in Person : Promote(u)
             \/ \E f \in Facility : Book(f) \/ Advance(f) \/ Pay(f) \/ Confirm(f)
      PROVE  RowsSame
  BY <1>2 DEF Lapse, RequestPurge, RequestDemotion, Expire, Burn, Reject, RejectDemotion,
    Promote, Book, Advance, Pay, Confirm, rows, people, history
<1>3. ASSUME SweepReads \/ SweepChecks \/ SweepStops \/ UNCHANGED lifecycleVars PROVE RowsSame
  BY <1>3 DEF SweepReads, SweepChecks, SweepStops, lifecycleVars, rows, people, history
<1> HIDE DEF RowsSame
<1>4. \/ \E s \in Slot : MoveWrites(s) \/ PurgeRemoves(s) \/ DeleteWrites(s)
      \/ SweepRemoves \/ RowsSame
  <2>1. CASE UNCHANGED lifecycleVars
    BY <1>3, <2>1
  <2>2. CASE LifecycleNext
    BY <1>1, <1>2, <1>3, <2>2 DEF LifecycleNext, Sweeps
  <2> QED BY <2>1, <2>2
<1> QED BY <1>4 DEF RowsSame

(* Whether two changes of administrators have overlapped is told at every read.       *)
LEMMA CrossedFlag ==
  ASSUME crossed \in BOOLEAN, [LifecycleNext]_lifecycleVars
  PROVE  crossed' \in BOOLEAN
<1>1. ASSUME NEW s \in Slot,
             \/ \E r \in Resource, to \in Life \ {"GONE"} : MoveReads(s, r, to)
             \/ \E a \in Approval, p \in Person : DemoteReads(s, a, p)
             \/ \E u \in Person : DeleteReads(s, u)
      PROVE  crossed' \in BOOLEAN
  BY <1>1, Zenon DEF MoveReads, DemoteReads, DeleteReads
<1>2. ASSUME NEW s \in Slot,
             \/ \E a \in Approval, p \in Person : Claim(s, a, p)
             \/ \E f \in Facility : ForceReads(s, f)
             \/ CancelAndRefund(s) \/ ForceArchives(s) \/ MoveWrites(s)
             \/ PurgeChecks(s) \/ PurgeRemoves(s) \/ DemoteWrites(s) \/ DeleteWrites(s)
      PROVE  crossed' = crossed
  BY <1>2 DEF Claim, ForceReads, CancelAndRefund, ForceArchives, MoveWrites, PurgeChecks,
    PurgeRemoves, DemoteWrites, DeleteWrites, history
<1>3. ASSUME \/ \E r \in Resource : Lapse(r)
             \/ \E r \in Resource, p \in Person : RequestPurge(r, p)
             \/ \E u, p \in Person : RequestDemotion(u, p)
             \/ \E a \in Approval : Expire(a) \/ Burn(a) \/ Reject(a) \/ RejectDemotion(a)
             \/ \E u \in Person : Promote(u)
             \/ \E f \in Facility : Book(f) \/ Advance(f) \/ Pay(f) \/ Confirm(f)
             \/ Sweeps \/ SweepStops \/ UNCHANGED lifecycleVars
      PROVE  crossed' = crossed
  BY <1>3 DEF Lapse, RequestPurge, RequestDemotion, Expire, Burn, Reject, RejectDemotion,
    Promote, Book, Advance, Pay, Confirm, Sweeps, SweepReads, SweepChecks, SweepRemoves, SweepStops,
    lifecycleVars, history
<1>4. crossed' \in BOOLEAN \/ crossed' = crossed
  <2>1. CASE UNCHANGED lifecycleVars
    BY <1>3, <2>1
  <2>2. CASE LifecycleNext
    BY <1>1, <1>2, <1>3, <2>2 DEF LifecycleNext
  <2> QED BY <2>1, <2>2
<1> QED BY <1>4

(* Only a payment begins or ends a capture, and only of a booking there is.           *)
LEMMA CapturesKnown ==
  ASSUME paying \subseteq Facility, late \subseteq Facility, [LifecycleNext]_lifecycleVars
  PROVE  paying' \subseteq Facility /\ late' \subseteq Facility
<1> DEFINE Kept == paying' = paying /\ late' = late
<1>1. ASSUME NEW s \in Slot,
             \/ \E r \in Resource, to \in Life \ {"GONE"} : MoveReads(s, r, to)
             \/ \E a \in Approval, p \in Person : Claim(s, a, p) \/ DemoteReads(s, a, p)
             \/ \E u \in Person : DeleteReads(s, u)
             \/ \E f \in Facility : ForceReads(s, f)
             \/ CancelAndRefund(s) \/ ForceArchives(s) \/ MoveWrites(s)
             \/ PurgeChecks(s) \/ PurgeRemoves(s) \/ DemoteWrites(s) \/ DeleteWrites(s)
      PROVE  Kept
  BY <1>1 DEF MoveReads, Claim, DemoteReads, DeleteReads, ForceReads, CancelAndRefund,
    ForceArchives, MoveWrites, PurgeChecks, PurgeRemoves, DemoteWrites, DeleteWrites, bookings
<1>2. ASSUME \/ \E r \in Resource : Lapse(r)
             \/ \E r \in Resource, p \in Person : RequestPurge(r, p)
             \/ \E u, p \in Person : RequestDemotion(u, p)
             \/ \E a \in Approval : Expire(a) \/ Burn(a) \/ Reject(a) \/ RejectDemotion(a)
             \/ \E u \in Person : Promote(u)
             \/ \E f \in Facility : Book(f) \/ Advance(f)
             \/ Sweeps \/ SweepStops \/ UNCHANGED lifecycleVars
      PROVE  Kept
  BY <1>2 DEF Lapse, RequestPurge, RequestDemotion, Expire, Burn, Reject, RejectDemotion,
    Promote, Book, Advance, Sweeps, SweepReads, SweepChecks, SweepRemoves, SweepStops,
    lifecycleVars, bookings
<1>3. ASSUME NEW f \in Facility, Pay(f) \/ Confirm(f)
      PROVE  paying' \subseteq paying \cup {f} /\ late' \subseteq late \cup {f}
  BY <1>3 DEF Pay, Confirm
<1> HIDE DEF Kept
<1>4. Kept \/ \E f \in Facility : Pay(f) \/ Confirm(f)
  <2>1. CASE UNCHANGED lifecycleVars
    BY <1>2, <2>1
  <2>2. CASE LifecycleNext
    BY <1>1, <1>2, <2>2 DEF LifecycleNext
  <2> QED BY <2>1, <2>2
<1> QED BY <1>3, <1>4 DEF Kept

LEMMA TrashStep ==
  ASSUME RemovalInv, TrashSound, [LifecycleNext]_lifecycleVars
  PROVE  TrashSound'
<1>1. PeopleTyped /\ Sound /\ sweep \in Run /\ life \in [Resource -> Life]
  BY DEF RemovalInv, LifecycleInv, PeopleTyped
<1>2. ASSUME life' = life, trash' = trash PROVE TrashSound'
  BY <1>2 DEF TrashSound
<1>3. ASSUME NEW r \in Resource, Erase(r) PROVE TrashSound'
  <2>1. life' = [life EXCEPT ![r] = "GONE"] /\ Cleared(r) /\ "GONE" \in Life \ {"TOMBSTONED"}
    BY <1>3 DEF Erase, Life
  <2> QED BY <1>1, <2>1, TrashLoses
<1>4. ASSUME NEW s \in Slot, MoveWrites(s) PROVE TrashSound'
  <2> DEFINE t == flight[s]
  <2>1. /\ t.of \in Resource /\ t.to \in Life \ {"GONE"}
        /\ t.to = "TOMBSTONED" => t.saw # "TOMBSTONED"
    <3>1. t.of \in Resource /\ t.to \in Life /\ t.to # "GONE" /\ t.saw \in From(t.to)
      BY <1>1, <1>4, TaskTypes DEF MoveWrites, Sound, SoundTask
    <3> QED BY <3>1 DEF From, Life
  <2>2. CASE life[t.of] # t.saw
    BY <1>2, <1>4, <2>2 DEF MoveWrites, rows
  <2>3. CASE life[t.of] = t.saw /\ t.to = "TOMBSTONED"
    <3>1. life' = [life EXCEPT ![t.of] = "TOMBSTONED"] /\ trash' = Append(trash, t.of)
      BY <1>4, <2>3 DEF MoveWrites, Placed
    <3>2. ~Buried(t.of)
      BY <2>1, <2>3 DEF Buried
    <3> QED BY <1>1, <2>1, <3>1, <3>2, TrashGains
  <2>4. CASE life[t.of] = t.saw /\ t.to # "TOMBSTONED"
    <3>1. life' = [life EXCEPT ![t.of] = t.to] /\ Cleared(t.of)
      BY <1>4, <2>4 DEF MoveWrites, Placed
    <3> QED BY <1>1, <2>1, <2>4, <3>1, TrashLoses
  <2> QED BY <2>2, <2>3, <2>4
<1>5. ASSUME NEW s \in Slot, PurgeRemoves(s) PROVE TrashSound'
  <2>1. flight[s].of \in Resource
    BY <1>1, <1>5, TaskTypes DEF PurgeRemoves
  <2> QED BY <1>2, <1>3, <1>5, <2>1 DEF PurgeRemoves, rows
<1>6. ASSUME SweepRemoves PROVE TrashSound'
  <2>1. sweep.item \in Resource
    BY <1>1, <1>6 DEF SweepRemoves, Run
  <2> QED BY <1>2, <1>3, <1>6, <2>1 DEF SweepRemoves, rows
<1>7. ASSUME NEW s \in Slot, DeleteWrites(s) PROVE TrashSound'
  BY <1>2, <1>7 DEF DeleteWrites, rows
<1> QED BY <1>2, <1>4, <1>5, <1>6, <1>7, RowsRest

(* Steps start one of the bounded moves, or none.                           *)
LEMMA MovesBounded ==
  ASSUME moves \in 0..MaxMove, [LifecycleNext]_lifecycleVars
  PROVE  moves' \in 0..MaxMove
<1>1. ASSUME NEW s \in Slot, NEW t, Start(s, t) PROVE Move
  BY <1>1 DEF Start
<1>2. ASSUME NEW s \in Slot, Done(s) PROVE moves' = moves
  BY <1>2 DEF Done
<1>3. ASSUME NEW s \in Slot,
             \/ \E r \in Resource, to \in Life \ {"GONE"} : MoveReads(s, r, to)
             \/ \E a \in Approval, p \in Person : Claim(s, a, p) \/ DemoteReads(s, a, p)
             \/ \E u \in Person : DeleteReads(s, u)
             \/ \E f \in Facility : ForceReads(s, f)
      PROVE  Move
  BY <1>1, <1>3 DEF MoveReads, Claim, DemoteReads, DeleteReads, ForceReads
<1>4. ASSUME NEW s \in Slot,
             \/ CancelAndRefund(s) \/ ForceArchives(s) \/ MoveWrites(s)
             \/ PurgeChecks(s) \/ PurgeRemoves(s) \/ DemoteWrites(s) \/ DeleteWrites(s)
      PROVE  moves' = moves
  BY <1>2, <1>4 DEF CancelAndRefund, ForceArchives, MoveWrites, PurgeChecks,
                    PurgeRemoves, DemoteWrites, DeleteWrites
<1>5. ASSUME \/ \E r \in Resource, p \in Person : RequestPurge(r, p)
             \/ \E u, p \in Person : RequestDemotion(u, p)
             \/ \E a \in Approval : Burn(a) \/ Reject(a) \/ RejectDemotion(a)
             \/ \E u \in Person : Promote(u)
             \/ SweepStops
      PROVE  Move
  BY <1>5 DEF RequestPurge, RequestDemotion, Burn, Reject, RejectDemotion, Promote, SweepStops
<1>6. ASSUME \/ \E r \in Resource : Lapse(r)
             \/ \E a \in Approval : Expire(a)
             \/ \E f \in Facility : Book(f) \/ Advance(f) \/ Pay(f) \/ Confirm(f)
             \/ Sweeps \/ UNCHANGED lifecycleVars
      PROVE  moves' = moves
  BY <1>6 DEF Lapse, Expire, Book, Advance, Pay, Confirm, Sweeps, SweepReads, SweepChecks, SweepRemoves,
              lifecycleVars
<1>7. Move \/ moves' = moves
  <2>1. CASE UNCHANGED lifecycleVars
    BY <1>6, <2>1
  <2>2. CASE LifecycleNext
    BY <1>3, <1>4, <1>5, <1>6, <2>2 DEF LifecycleNext
  <2> QED BY <2>1, <2>2
<1> QED BY <1>7, BoundAssumption DEF Move

LEMMA AccountedStep ==
  ASSUME RemovalInv, Accounted, [LifecycleNext]_lifecycleVars
  PROVE  Accounted'
<1>1. PeopleTyped /\ sweep \in Run /\ deleted \subseteq Person /\ recycled \subseteq Resource
  BY DEF RemovalInv, LifecycleInv, Accounted
<1>2. ASSUME NEW r, Erase(r) PROVE deleted' \subseteq Person
  BY <1>1, <1>2 DEF Erase
<1>3. ASSUME NEW s \in Slot, MoveWrites(s)
      PROVE  deleted' = deleted /\ recycled' \subseteq Resource
  <2>1. flight[s].of \in Resource
    BY <1>1, <1>3, TaskTypes DEF MoveWrites
  <2> QED BY <1>1, <1>3, <2>1 DEF MoveWrites, people
<1>4. ASSUME NEW s \in Slot, PurgeRemoves(s) PROVE deleted' \subseteq Person /\ recycled' = recycled
  BY <1>1, <1>2, <1>4 DEF PurgeRemoves, history
<1>5. ASSUME NEW s \in Slot, DeleteWrites(s) PROVE deleted' \subseteq Person /\ recycled' = recycled
  <2>1. flight[s].of \in Person
    BY <1>1, <1>5, TaskTypes DEF DeleteWrites
  <2> QED BY <1>1, <1>5, <2>1 DEF DeleteWrites, history
<1>6. ASSUME SweepRemoves PROVE deleted' \subseteq Person /\ recycled' = recycled
  BY <1>1, <1>2, <1>6 DEF SweepRemoves, history
<1>7. deleted' \subseteq Person /\ recycled' \subseteq Resource
  BY <1>1, <1>3, <1>4, <1>5, <1>6, RowsRest
<1>8. crossed' \in BOOLEAN
  BY CrossedFlag DEF Accounted
<1>9. paying' \subseteq Facility /\ late' \subseteq Facility
  BY CapturesKnown DEF Accounted
<1> QED BY <1>7, <1>8, <1>9, MovesBounded DEF Accounted

\* Every account, booking, approval, request and sweep stays within its type, the list
\* the sweep works from holds every tombstone, each once, and only a tombstone is ever
\* due; however many resources there are and however large a batch is.
THEOREM LifecycleTypes == LifecycleSpec => []LifecycleTypeOK
<1>1. LifecycleInit => TrashSound /\ Accounted
  <2> SUFFICES ASSUME LifecycleInit PROVE TrashSound /\ Accounted
    OBVIOUS
  <2>1. trash = <<>> /\ {r \in Resource : life[r] = "TOMBSTONED"} = {}
    BY DEF LifecycleInit
  <2>2. TrashSound
    BY <2>1 DEF TrashSound, ToSet, IsInjective
  <2>3. Accounted
    <3>1. crossed \in BOOLEAN
      BY DEF LifecycleInit
    <3>2. moves \in 0..MaxMove
      BY BoundAssumption DEF LifecycleInit
    <3> QED BY <3>1, <3>2 DEF LifecycleInit, Accounted
  <2> QED BY <2>2, <2>3
<1>2. RemovalInv /\ TrashSound /\ Accounted /\ [LifecycleNext]_lifecycleVars
        => (TrashSound /\ Accounted)'
  BY TrashStep, AccountedStep
<1>3. RemovalInv /\ TrashSound /\ Accounted => LifecycleTypeOK
  BY DEF RemovalInv, LifecycleInv, PeopleTyped, TrashSound, Accounted, DueBuried, LifecycleTypeOK
<1> QED BY <1>1, <1>2, <1>3, RemovalHolds, PTL DEF LifecycleSpec
=============================================================================
