------------------------------- MODULE Holds -------------------------------
(***************************************************************************)
(* The online inventory of one facility: how a slot is held, kept, lost    *)
(* and given back (src/inventory, the occupancy side of src/booking, and   *)
(* the facility switch of src/facilities and src/lifecycle).               *)
(*                                                                         *)
(* A hold is one transaction that locks the facility row, reads its flags  *)
(* and quota, counts the overlapping bookings and inserts its own.  Every  *)
(* other handler reads the booking row without a lock and writes it later, *)
(* so reads and writes are separate steps here.                            *)
(***************************************************************************)
EXTENDS Integers, FiniteSets

CONSTANTS Booking,      \* booking attempts, one row each at most
          From, To,     \* the stay each attempt asks for: [From, To)
          Quotas,       \* values an administrator may set onlineQuota to
          HoldTime,     \* BOOKING_HOLD_MINUTES
          NoBooking,    \* no transaction holds the facility row
          MaxTime,      \* bound on the clock
          MaxInFlight   \* bound on handlers between their read and their write

ASSUME BookingAssumption == IsFiniteSet(Booking) /\ NoBooking \notin Booking
ASSUME StayAssumption == /\ From \in [Booking -> Int]
                         /\ To \in [Booking -> Int]
                         /\ \A b \in Booking : From[b] < To[b]
ASSUME QuotaAssumption == Quotas \subseteq Nat /\ Quotas # {}
ASSUME TimeAssumption == HoldTime \in Nat \ {0} /\ MaxTime \in Nat
ASSUME BoundAssumption == MaxInFlight \in Nat

VARIABLES now,       \* the database clock
          open,      \* isActive, isPublished, BUSINESS and lifecycle ACTIVE
          quota,     \* onlineQuota
          lock,      \* the attempt holding the facility row FOR UPDATE
          hold,      \* progress of each attempt's hold transaction
          status,    \* Booking.status, "none" before the insert
          deadline,  \* Booking.expiresAt, 0 when null
          handler,   \* what each in-flight handler will do to each booking
          closing,   \* a shutdown passed its unhonoured-bookings check
          peak,      \* history: the largest quota so far
          revived    \* history: bookings confirmed after losing their slot

facilityVars == <<open, quota, closing, peak>>
bookingVars  == <<status, deadline, revived>>
vars == <<now, open, quota, lock, hold, status, deadline, handler, closing,
          peak, revived>>

Actor == {"confirm", "webhook", "cancel", "gate"}
Stage == {"idle", "capture", "confirm", "expire", "cancel", "refund", "admit",
          "leave"}
HoldStage == {"idle", "locked", "counted", "refused", "held"}
Status == {"none", "PENDING_PAYMENT", "CONFIRMED", "CHECKED_IN", "CHECKED_OUT",
           "CANCELLED", "EXPIRED", "REFUND_PENDING"}

TypeOK == /\ now \in 0..MaxTime
          /\ open \in BOOLEAN
          /\ quota \in Quotas
          /\ lock \in Booking \cup {NoBooking}
          /\ hold \in [Booking -> HoldStage]
          /\ status \in [Booking -> Status]
          /\ deadline \in [Booking -> Nat]
          /\ handler \in [Booking -> [Actor -> Stage]]
          /\ closing \in BOOLEAN
          /\ peak \in Nat
          /\ revived \subseteq Booking

-----------------------------------------------------------------------------
(* What the overlap counter sees.                                           *)

\* Mutant of Expired: the comparison reversed.
ExpiredSwapped(b) == status[b] = "PENDING_PAYMENT" /\ deadline[b] > now

Expired(b) == status[b] = "PENDING_PAYMENT" /\ deadline[b] < now

Counted(b) == /\ status[b] \in {"CONFIRMED", "PENDING_PAYMENT", "CHECKED_IN"}
              /\ ~Expired(b)

Overlapping(b) ==
  {o \in Booking : Counted(o) /\ From[o] < To[b] /\ To[o] > From[b]}

\* The bookings entitled to a place at instant t.
Occupants(t) == {b \in Booking : Counted(b) /\ From[b] <= t /\ t < To[b]}

\* A stay still owed to a customer (unhonouredBookingsWhere).
Unhonoured(b) == status[b] \in {"CONFIRMED", "CHECKED_IN"} /\ To[b] > now

-----------------------------------------------------------------------------
(* InventoryService.holdSlot, one transaction per attempt.                  *)

\* Mutant of LockFacility: no FOR UPDATE.
LockFacilityWithoutWaiting(b) ==
  /\ hold[b] = "idle"
  /\ lock' = b
  /\ hold' = [hold EXCEPT ![b] = "locked"]
  /\ UNCHANGED <<now, facilityVars, bookingVars, handler>>

LockFacility(b) ==
  /\ hold[b] = "idle"
  /\ lock = NoBooking
  /\ lock' = b
  /\ hold' = [hold EXCEPT ![b] = "locked"]
  /\ UNCHANGED <<now, facilityVars, bookingVars, handler>>

\* Mutant of Available: off by one.
AvailableWhenEqual(b) == Cardinality(Overlapping(b)) <= quota

Available(b) == Cardinality(Overlapping(b)) < quota

CountFree(b) ==
  /\ hold[b] = "locked"
  /\ open
  /\ Available(b)
  /\ hold' = [hold EXCEPT ![b] = "counted"]
  /\ UNCHANGED <<now, facilityVars, bookingVars, handler, lock>>

\* FacilityNotBookableError or NoAvailabilityError: the transaction rolls back.
Refuse(b) ==
  /\ hold[b] = "locked"
  /\ ~(open /\ Available(b))
  /\ hold' = [hold EXCEPT ![b] = "refused"]
  /\ lock' = NoBooking
  /\ UNCHANGED <<now, facilityVars, bookingVars, handler>>

HoldDeadline == now + HoldTime

InsertHold(b) ==
  /\ hold[b] = "counted"
  /\ status' = [status EXCEPT ![b] = "PENDING_PAYMENT"]
  /\ deadline' = [deadline EXCEPT ![b] = HoldDeadline]
  /\ hold' = [hold EXCEPT ![b] = "held"]
  /\ lock' = NoBooking
  /\ UNCHANGED <<now, facilityVars, revived, handler>>

\* A crash, or a unique violation that makes the caller try again.
RollBackHold(b) ==
  /\ hold[b] \in {"locked", "counted"}
  /\ hold' = [hold EXCEPT ![b] = "idle"]
  /\ lock' = NoBooking
  /\ UNCHANGED <<now, facilityVars, bookingVars, handler>>

-----------------------------------------------------------------------------
(* The cleanup job and the clock.                                           *)

ReleaseExpiredHolds ==
  /\ \E b \in Booking : Expired(b)
  /\ status' = [b \in Booking |-> IF Expired(b) THEN "EXPIRED" ELSE status[b]]
  /\ UNCHANGED <<now, facilityVars, deadline, revived, handler, hold, lock>>

Tick == /\ now < MaxTime
        /\ now' = now + 1
        /\ UNCHANGED <<facilityVars, bookingVars, handler, hold, lock>>

-----------------------------------------------------------------------------
(* Handlers on one booking: an unlocked read decides, a later write acts.   *)

InFlight == {p \in Booking \X Actor : handler[p[1]][p[2]] # "idle"}

Begin(b, a, next) ==
  /\ handler[b][a] = "idle"
  /\ Cardinality(InFlight) < MaxInFlight
  /\ handler' = [handler EXCEPT ![b][a] = next]
  /\ UNCHANGED <<now, facilityVars, bookingVars, hold, lock>>

Finish(b, a) == /\ handler' = [handler EXCEPT ![b][a] = "idle"]
                /\ UNCHANGED <<now, facilityVars, hold, lock>>

\* The write gives b a place; history notes when b no longer had one.
Occupy(b, s) ==
  /\ status' = [status EXCEPT ![b] = s]
  /\ revived' = IF Counted(b) THEN revived ELSE revived \cup {b}

Leave(b, s) == /\ status' = [status EXCEPT ![b] = s]
               /\ revived' = revived \ {b}

\* captureAndConfirm: the read, the capture, the fresh read, the write.
ConfirmReads(b) ==
  /\ status[b] = "PENDING_PAYMENT"
  /\ Begin(b, "confirm", IF Expired(b) THEN "expire" ELSE "capture")

ConfirmRechecks(b) ==
  /\ handler[b]["confirm"] = "capture"
  /\ handler' = [handler EXCEPT ![b]["confirm"] =
                   IF status[b] = "PENDING_PAYMENT" THEN "confirm" ELSE "idle"]
  /\ UNCHANGED <<now, facilityVars, bookingVars, hold, lock>>

\* The provider refuses the capture, or the process dies: the booking is left.
ConfirmGivesUp(b) ==
  /\ handler[b]["confirm"] \in {"capture", "confirm"}
  /\ Finish(b, "confirm")
  /\ UNCHANGED bookingVars

\* applyPaymentSucceeded and applyPaymentFailed read inside their transaction.
WebhookReads(b) ==
  /\ status[b] = "PENDING_PAYMENT"
  /\ \/ Begin(b, "webhook", IF Expired(b) THEN "expire" ELSE "confirm")
     \/ Begin(b, "webhook", "cancel")

WriteConfirmed(b, a) ==
  /\ handler[b][a] = "confirm"
  /\ Occupy(b, "CONFIRMED")
  /\ deadline' = [deadline EXCEPT ![b] = 0]
  /\ Finish(b, a)

WriteExpired(b, a) ==
  /\ handler[b][a] = "expire"
  /\ Leave(b, "EXPIRED")
  /\ Finish(b, a)
  /\ UNCHANGED deadline

\* cancelBooking: an unpaid booking is cancelled outright, a paid one moves to
\* REFUND_PENDING if a fresh read still finds it confirmed.
CancelReads(b) ==
  \/ status[b] \in {"PENDING_PAYMENT", "CONFIRMED"} /\ Begin(b, "cancel", "cancel")
  \/ status[b] = "CONFIRMED" /\ Begin(b, "cancel", "refund")

WriteCancelled(b, a) ==
  /\ handler[b][a] = "cancel"
  /\ Leave(b, "CANCELLED")
  /\ Finish(b, a)
  /\ UNCHANGED deadline

WriteRefundPending(b) ==
  /\ handler[b]["cancel"] = "refund"
  /\ IF status[b] = "CONFIRMED"
     THEN Leave(b, "REFUND_PENDING")
     ELSE UNCHANGED <<status, revived>>
  /\ Finish(b, "cancel")
  /\ UNCHANGED deadline

\* transitionByOperator and checkOut: the read, then a write by id alone.
GateReads(b) ==
  \/ status[b] = "CONFIRMED" /\ Begin(b, "gate", "admit")
  \/ status[b] = "CHECKED_IN" /\ Begin(b, "gate", "leave")

WriteCheckedIn(b) ==
  /\ handler[b]["gate"] = "admit"
  /\ Occupy(b, "CHECKED_IN")
  /\ Finish(b, "gate")
  /\ UNCHANGED deadline

WriteCheckedOut(b) ==
  /\ handler[b]["gate"] = "leave"
  /\ Leave(b, "CHECKED_OUT")
  /\ Finish(b, "gate")
  /\ UNCHANGED deadline

\* The scan's compare-and-set.
ScanCheckIn(b) ==
  /\ status[b] = "CONFIRMED"
  /\ Occupy(b, "CHECKED_IN")
  /\ UNCHANGED <<now, facilityVars, deadline, handler, hold, lock>>

-----------------------------------------------------------------------------
(* The administrator: quota, shutdown (update with isActive = false, or     *)
(* archive) and reopening.  Writing the facility row waits for its lock.    *)

SetQuota(q) ==
  /\ lock = NoBooking
  /\ q # quota
  /\ quota' = q
  /\ peak' = IF q > peak THEN q ELSE peak
  /\ UNCHANGED <<now, open, closing, bookingVars, handler, hold, lock>>

ShutdownChecks ==
  /\ open /\ ~closing
  /\ \A b \in Booking : ~Unhonoured(b)
  /\ closing' = TRUE
  /\ UNCHANGED <<now, open, quota, peak, bookingVars, handler, hold, lock>>

ShutdownWrites ==
  /\ closing
  /\ lock = NoBooking
  /\ open' = FALSE
  /\ closing' = FALSE
  /\ UNCHANGED <<now, quota, peak, bookingVars, handler, hold, lock>>

Reopen == /\ ~open
          /\ lock = NoBooking
          /\ open' = TRUE
          /\ UNCHANGED <<now, quota, closing, peak, bookingVars, handler, hold,
                         lock>>

-----------------------------------------------------------------------------
Init == /\ now = 0
        /\ open = TRUE
        /\ quota \in Quotas
        /\ peak = quota
        /\ lock = NoBooking
        /\ hold = [b \in Booking |-> "idle"]
        /\ status = [b \in Booking |-> "none"]
        /\ deadline = [b \in Booking |-> 0]
        /\ handler = [b \in Booking |-> [a \in Actor |-> "idle"]]
        /\ closing = FALSE
        /\ revived = {}

HoldStep(b) == \/ LockFacility(b) \/ CountFree(b) \/ Refuse(b)
               \/ InsertHold(b)   \/ RollBackHold(b)

BookingStep(b) ==
  \/ ConfirmReads(b) \/ ConfirmRechecks(b) \/ ConfirmGivesUp(b)
  \/ WebhookReads(b)
  \/ \E a \in {"confirm", "webhook"} : WriteConfirmed(b, a) \/ WriteExpired(b, a)
  \/ CancelReads(b) \/ WriteRefundPending(b)
  \/ \E a \in {"cancel", "webhook"} : WriteCancelled(b, a)
  \/ GateReads(b) \/ WriteCheckedIn(b) \/ WriteCheckedOut(b) \/ ScanCheckIn(b)

FacilityStep == \/ \E q \in Quotas : SetQuota(q)
                \/ ShutdownChecks \/ ShutdownWrites \/ Reopen

Next == \/ \E b \in Booking : HoldStep(b) \/ BookingStep(b)
        \/ FacilityStep
        \/ ReleaseExpiredHolds
        \/ Tick

Spec == Init /\ [][Next]_vars

\* The clock runs and the cleanup job fires every minute (src/jobs).
FairSpec == Spec /\ WF_vars(Tick) /\ WF_vars(ReleaseExpiredHolds)

-----------------------------------------------------------------------------
(* Properties.                                                              *)

\* At every instant, the bookings that kept their slot since they were held
\* never outnumber the largest quota the facility has had: the facility lock,
\* the overlap predicate and the expiry rule together serialise holdSlot,
\* whatever confirms, cancels, expires or checks in meanwhile.
HeldWithinQuota ==
  \A t \in UNION {From[b]..To[b] : b \in Booking} :
    Cardinality(Occupants(t) \ revived) <= peak

\* Granting a hold never overfills any instant of its stay beyond the quota in
\* force at the commit, and is never granted at a facility already closed.  One
\* granted before a shutdown is another matter: it may be confirmed after it.
HoldRespectsFacility ==
  [][\A b \in Booking :
       status[b] = "none" /\ status'[b] = "PENDING_PAYMENT" =>
         /\ open'
         /\ \A t \in From[b]..(To[b] - 1) :
              Cardinality(Occupants(t)' \ revived') <= quota']_vars

\* A checkout its customer abandons does not keep its slot: every hold whose
\* deadline the clock can pass is confirmed, cancelled or swept to EXPIRED,
\* although no customer, webhook or administrator is obliged to act.
AbandonedHoldsEnd ==
  \A b \in Booking :
    status[b] = "PENDING_PAYMENT" /\ deadline[b] < MaxTime
      ~> status[b] # "PENDING_PAYMENT"

=============================================================================
