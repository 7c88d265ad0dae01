---------------------------- MODULE HoldsProofs ----------------------------
(***************************************************************************)
(* Proofs about Holds, for every set of attempts, every stay, every quota; *)
(* and about Ingestion, for any places, lots, regions, tiles and drains:   *)
(* which facilities there are to hold a slot of.                           *)
(*                                                                         *)
(* The facility lock makes the count of holdSlot stay true until the       *)
(* insert: no other attempt can insert, and every other step only removes  *)
(* bookings from the set that kept its slot (KeptShrinks).                 *)
(***************************************************************************)
EXTENDS Holds, Ingestion, Sequences, FiniteSetTheorems, WellFoundedInduction, TLAPS

Kept(b) == Counted(b) /\ b \notin revived

\* No step but an insert adds a booking to those that kept their slot.
KeptShrinks == \A b \in Booking : Kept(b)' => Kept(b)

\* The row lock is held by exactly the attempt inside its transaction.
LockHeld == \A b \in Booking : hold[b] \in {"locked", "counted"} <=> lock = b

\* What an attempt counted still holds until it inserts.
CountStands ==
  \A b \in Booking :
    hold[b] = "counted" => /\ open
                           /\ Cardinality(Overlapping(b) \ revived) < quota

Inv == TypeOK /\ LockHeld /\ CountStands /\ quota <= peak /\ HeldWithinQuota

Instants == UNION {From[b]..To[b] : b \in Booking}

-----------------------------------------------------------------------------
\* The initial state is well typed.
LEMMA TypeInit == Init => TypeOK
<1> USE BookingAssumption, QuotaAssumption, TimeAssumption
<1> SUFFICES ASSUME Init PROVE TypeOK
  OBVIOUS
<1>1. handler \in [Booking -> [Actor -> Stage]]
  <2>1. [a \in Actor |-> "idle"] \in [Actor -> Stage]
    BY DEF Stage
  <2> QED
    BY <2>1 DEF Init
<1>2. peak \in Nat /\ quota \in Quotas
  BY DEF Init
<1>3. open \in BOOLEAN /\ closing \in BOOLEAN
  BY DEF Init
<1>4. now \in 0..MaxTime
  BY DEF Init
<1>5. /\ hold \in [Booking -> HoldStage]
      /\ status \in [Booking -> Status]
      /\ deadline \in [Booking -> Nat]
  BY DEF Init, HoldStage, Status
<1>6. lock \in Booking \cup {NoBooking} /\ revived \subseteq Booking
  BY DEF Init
<1> QED
  BY <1>1, <1>2, <1>3, <1>4, <1>5, <1>6 DEF TypeOK

\* Every step of every handler keeps the types.
LEMMA TypeStep == TypeOK /\ [Next]_vars => TypeOK'
<1> USE BookingAssumption, QuotaAssumption, TimeAssumption
<1> SUFFICES ASSUME TypeOK, [Next]_vars PROVE TypeOK'
  OBVIOUS
<1> USE DEF TypeOK, facilityVars, bookingVars
<1>1. ASSUME NEW b \in Booking, HoldStep(b) PROVE TypeOK'
  <2> USE DEF HoldStage, Status
  <2>1. CASE LockFacility(b)
    BY <2>1 DEF LockFacility
  <2>2. CASE CountFree(b)
    BY <2>2 DEF CountFree
  <2>3. CASE Refuse(b)
    BY <2>3 DEF Refuse
  <2>4. CASE InsertHold(b)
    <3>1. now + HoldTime \in Nat
      OBVIOUS
    <3> QED
      BY <2>4, <3>1 DEF InsertHold, HoldDeadline
  <2>5. CASE RollBackHold(b)
    BY <2>5 DEF RollBackHold
  <2> QED
    BY <1>1, <2>1, <2>2, <2>3, <2>4, <2>5 DEF HoldStep
<1>2. ASSUME NEW b \in Booking, BookingStep(b) PROVE TypeOK'
  <2> USE DEF Begin, Finish, Occupy, Leave, Actor, Stage, Status
  <2>1. CASE ConfirmReads(b)
    BY <2>1 DEF ConfirmReads
  <2>2. CASE ConfirmRechecks(b)
    BY <2>2 DEF ConfirmRechecks
  <2>3. CASE ConfirmGivesUp(b)
    BY <2>3 DEF ConfirmGivesUp
  <2>4. CASE WebhookReads(b)
    BY <2>4 DEF WebhookReads
  <2>5. ASSUME NEW a \in {"confirm", "webhook"}, WriteConfirmed(b, a)
        PROVE TypeOK'
    BY <2>5 DEF WriteConfirmed
  <2>6. ASSUME NEW a \in {"confirm", "webhook"}, WriteExpired(b, a)
        PROVE TypeOK'
    BY <2>6 DEF WriteExpired
  <2>7. CASE CancelReads(b)
    BY <2>7 DEF CancelReads
  <2>8. ASSUME NEW a \in {"cancel", "webhook"}, WriteCancelled(b, a)
        PROVE TypeOK'
    BY <2>8 DEF WriteCancelled
  <2>9. CASE WriteRefundPending(b)
    BY <2>9 DEF WriteRefundPending
  <2>10. CASE GateReads(b)
    BY <2>10 DEF GateReads
  <2>11. CASE WriteCheckedIn(b)
    BY <2>11 DEF WriteCheckedIn
  <2>12. CASE ScanCheckIn(b)
    BY <2>12 DEF ScanCheckIn
  <2>13. CASE WriteCheckedOut(b)
    BY <2>13 DEF WriteCheckedOut
  <2> QED
    BY <1>2, <2>1, <2>2, <2>3, <2>4, <2>5, <2>6, <2>7, <2>8, <2>9, <2>10,
       <2>11, <2>12, <2>13 DEF BookingStep
<1>3. CASE FacilityStep
  BY <1>3 DEF FacilityStep, SetQuota, ShutdownChecks, ShutdownWrites, Reopen
<1>4. CASE ReleaseExpiredHolds
  BY <1>4 DEF ReleaseExpiredHolds, Status
<1>5. CASE Tick
  BY <1>5 DEF Tick
<1>6. CASE UNCHANGED vars
  BY <1>6 DEF vars
<1> QED
  BY <1>1, <1>2, <1>3, <1>4, <1>5, <1>6 DEF Next

\* The variables keep their types through every interleaving of holds,
\* handlers, sweeps and administrator actions.
THEOREM TypeCorrect == Spec => []TypeOK
BY TypeInit, TypeStep, PTL DEF Spec

-----------------------------------------------------------------------------
\* Every step but an insert only removes bookings from those that kept their
\* slot: a confirmation adds to them nobody who was not among them.
LEMMA OthersShrink ==
  ASSUME TypeOK, [Next]_vars, ~\E b \in Booking : InsertHold(b)
  PROVE  KeptShrinks
<1> USE DEF facilityVars, bookingVars
<1> SUFFICES ASSUME NEW o \in Booking, Kept(o)' PROVE Kept(o)
  BY DEF KeptShrinks
<1> USE DEF Kept, Counted, Expired
<1>1. ASSUME NEW b \in Booking, HoldStep(b) PROVE Kept(o)
  BY <1>1 DEF HoldStep, LockFacility, CountFree, Refuse, RollBackHold
<1>2. ASSUME NEW b \in Booking, BookingStep(b) PROVE Kept(o)
  <2>1. CASE UNCHANGED <<now, status, deadline, revived>>
    BY <2>1
  <2>2. ASSUME NEW s \in {"CONFIRMED", "CHECKED_IN"}, Occupy(b, s),
               now' = now, deadline' \in {deadline, [deadline EXCEPT ![b] = 0]}
        PROVE  Kept(o)
    BY <2>2 DEF Occupy, TypeOK
  <2>3. ASSUME NEW s \in {"EXPIRED", "CANCELLED", "REFUND_PENDING",
                          "CHECKED_OUT"},
               Leave(b, s), now' = now, deadline' = deadline
        PROVE  Kept(o)
    BY <2>3 DEF Leave, TypeOK
  <2> QED
    BY <1>2, <2>1, <2>2, <2>3
    DEF BookingStep, ConfirmReads, ConfirmRechecks, ConfirmGivesUp,
        WebhookReads, WriteConfirmed, WriteExpired, CancelReads,
        WriteCancelled, WriteRefundPending, GateReads, WriteCheckedIn,
        ScanCheckIn, WriteCheckedOut, Begin, Finish
<1>3. CASE FacilityStep
  BY <1>3 DEF FacilityStep, SetQuota, ShutdownChecks, ShutdownWrites, Reopen
<1>4. CASE ReleaseExpiredHolds
  BY <1>4 DEF ReleaseExpiredHolds, TypeOK
<1>5. CASE Tick
  BY <1>5, TimeAssumption DEF Tick, TypeOK
<1>6. CASE UNCHANGED vars
  BY <1>6 DEF vars
<1> QED
  BY <1>1, <1>2, <1>3, <1>4, <1>5, <1>6 DEF Next

\* An insert adds its own booking and nothing else.
LEMMA InsertAddsOne ==
  ASSUME TypeOK, NEW b \in Booking, InsertHold(b),
         NEW o \in Booking, Kept(o)'
  PROVE  Kept(o) \/ o = b
BY DEF InsertHold, Kept, Counted, Expired, TypeOK

\* Occupants and overlapping bookings that kept their slot are finite sets, and
\* have no more members after a step that only shrinks them.
LEMMA ShrinkingSets ==
  ASSUME KeptShrinks
  PROVE  /\ \A t \in Int :
              Cardinality(Occupants(t)' \ revived')
                <= Cardinality(Occupants(t) \ revived)
         /\ \A b \in Booking :
              Cardinality(Overlapping(b)' \ revived')
                <= Cardinality(Overlapping(b) \ revived)
<1>1. ASSUME NEW S, S \subseteq Booking, NEW T, T \subseteq S
      PROVE  Cardinality(T) <= Cardinality(S)
  BY <1>1, BookingAssumption, FS_Subset
<1>2. ASSUME NEW t \in Int
      PROVE  Occupants(t)' \ revived' \subseteq Occupants(t) \ revived
  BY DEF KeptShrinks, Kept, Occupants
<1>3. ASSUME NEW b \in Booking
      PROVE  Overlapping(b)' \ revived' \subseteq Overlapping(b) \ revived
  BY DEF KeptShrinks, Kept, Overlapping
<1> QED
  BY <1>1, <1>2, <1>3 DEF Occupants, Overlapping

\* One more element adds at most one to the size of a finite set.
LEMMA AddOne ==
  ASSUME NEW S, NEW x, IsFiniteSet(S)
  PROVE  /\ IsFiniteSet(S \cup {x})
         /\ Cardinality(S \cup {x}) <= Cardinality(S) + 1
<1>1. Cardinality(S) \in Nat
  BY FS_CardinalityType
<1>2. IsFiniteSet(S \cup {x})
  BY FS_AddElement
<1>3. Cardinality(S \cup {x}) \in {Cardinality(S), Cardinality(S) + 1}
  BY FS_AddElement
<1> QED
  BY <1>1, <1>2, <1>3

\* After an insert, no instant of the stay holds more than the quota and no
\* instant outside it has gained anyone.
LEMMA InsertWithinQuota ==
  ASSUME Inv, NEW b \in Booking, InsertHold(b), NEW t \in Int
  PROVE  /\ From[b] <= t /\ t < To[b] =>
              Cardinality(Occupants(t)' \ revived') <= quota
         /\ ~(From[b] <= t /\ t < To[b]) =>
              Cardinality(Occupants(t)' \ revived')
                <= Cardinality(Occupants(t) \ revived)
<1> DEFINE before == Overlapping(b) \ revived
           after  == Occupants(t)' \ revived'
<1>1. IsFiniteSet(before) /\ Cardinality(before) \in Nat
  BY BookingAssumption, FS_Subset, FS_CardinalityType DEF Overlapping
<1>2. Cardinality(before) < quota /\ quota \in Nat
  BY QuotaAssumption DEF Inv, CountStands, InsertHold, TypeOK
<1>3. CASE From[b] <= t /\ t < To[b]
  <2>1. after \subseteq before \cup {b}
    <3> SUFFICES ASSUME NEW o \in after, o # b PROVE o \in before
      OBVIOUS
    <3>1. o \in Booking /\ Kept(o)' /\ From[o] <= t /\ t < To[o]
      BY DEF Occupants, Kept
    <3>2. Kept(o)
      BY <3>1, InsertAddsOne DEF Inv
    <3>3. From[o] < To[b] /\ To[o] > From[b]
      BY <1>3, <3>1, StayAssumption
    <3> QED
      BY <3>1, <3>2, <3>3 DEF Kept, Overlapping
  <2>2. /\ IsFiniteSet(before \cup {b})
        /\ Cardinality(before \cup {b}) <= Cardinality(before) + 1
    BY <1>1, AddOne
  <2>3. Cardinality(after) <= Cardinality(before \cup {b})
    BY <2>1, <2>2, FS_Subset
  <2>4. Cardinality(after) \in Nat /\ Cardinality(before \cup {b}) \in Nat
    BY <2>1, <2>2, FS_Subset, FS_CardinalityType
  <2> QED
    BY <1>1, <1>2, <1>3, <2>2, <2>3, <2>4
<1>4. CASE ~(From[b] <= t /\ t < To[b])
  <2>1. after \subseteq Occupants(t) \ revived
    <3> SUFFICES ASSUME NEW o \in after PROVE o \in Occupants(t) \ revived
      OBVIOUS
    <3>1. o \in Booking /\ Kept(o)' /\ From[o] <= t /\ t < To[o]
      BY DEF Occupants, Kept
    <3>2. Kept(o) /\ o # b
      BY <1>4, <3>1, InsertAddsOne DEF Inv
    <3> QED
      BY <3>1, <3>2 DEF Kept, Occupants
  <2>2. IsFiniteSet(Occupants(t) \ revived)
    BY BookingAssumption, FS_Subset DEF Occupants
  <2> QED
    BY <1>4, <2>1, <2>2, FS_Subset
<1> QED
  BY <1>3, <1>4

-----------------------------------------------------------------------------
\* Only the attempt that locked the facility is inside its transaction.
LEMMA LockStep == ASSUME Inv, [Next]_vars PROVE LockHeld'
<1> USE BookingAssumption DEF Inv, LockHeld, TypeOK
<1>1. ASSUME NEW b \in Booking, HoldStep(b) PROVE LockHeld'
  <2>1. CASE LockFacility(b)
    BY <2>1 DEF LockFacility
  <2>2. CASE CountFree(b)
    BY <2>2 DEF CountFree
  <2>3. CASE Refuse(b)
    BY <2>3 DEF Refuse
  <2>4. CASE InsertHold(b)
    BY <2>4 DEF InsertHold
  <2>5. CASE RollBackHold(b)
    BY <2>5 DEF RollBackHold
  <2> QED
    BY <1>1, <2>1, <2>2, <2>3, <2>4, <2>5 DEF HoldStep
<1>2. CASE UNCHANGED <<hold, lock>>
  BY <1>2
<1>3. ASSUME NEW b \in Booking, BookingStep(b) PROVE UNCHANGED <<hold, lock>>
  BY <1>3
  DEF BookingStep, ConfirmReads, ConfirmRechecks, ConfirmGivesUp,
      WebhookReads, WriteConfirmed, WriteExpired, CancelReads, WriteCancelled,
      WriteRefundPending, GateReads, WriteCheckedIn, ScanCheckIn, WriteCheckedOut,
      Begin, Finish
<1>4. FacilityStep \/ ReleaseExpiredHolds \/ Tick \/ UNCHANGED vars
        => UNCHANGED <<hold, lock>>
  BY DEF FacilityStep, SetQuota, ShutdownChecks, ShutdownWrites, Reopen,
         ReleaseExpiredHolds, Tick, vars
<1> QED
  BY <1>1, <1>2, <1>3, <1>4 DEF Next

\* The count stays true until the insert: while an attempt is between the two,
\* nobody else inserts and the administrator waits for the row.
LEMMA CountStep == ASSUME Inv, [Next]_vars PROVE CountStands'
<1> USE DEF Inv
<1> SUFFICES ASSUME NEW c \in Booking, hold'[c] = "counted"
             PROVE  /\ open'
                    /\ Cardinality(Overlapping(c)' \ revived') < quota'
  BY DEF CountStands
<1> DEFINE card == Cardinality(Overlapping(c) \ revived)
<1>1. quota \in Nat /\ card \in Nat
      /\ Cardinality(Overlapping(c)' \ revived') \in Nat
  BY BookingAssumption, QuotaAssumption, FS_Subset, FS_CardinalityType
  DEF Overlapping, TypeOK
<1>2. CASE hold[c] = "counted"
  <2>1. open /\ card < quota /\ lock = c /\ lock # NoBooking
    BY <1>2, BookingAssumption DEF CountStands, LockHeld
  <2>2. ASSUME NEW b \in Booking PROVE ~InsertHold(b)
    <3> SUFFICES ASSUME InsertHold(b) PROVE FALSE
      OBVIOUS
    <3>1. hold[b] = "counted" /\ b = c
      BY <2>1 DEF InsertHold, LockHeld
    <3> QED
      BY <3>1 DEF InsertHold, TypeOK
  <2>3. Cardinality(Overlapping(c)' \ revived') <= card
    BY <2>2, OthersShrink, ShrinkingSets
  <2>4. open' = open /\ quota' = quota
    <3>1. ASSUME NEW b \in Booking, HoldStep(b)
          PROVE  open' = open /\ quota' = quota
      BY <3>1 DEF HoldStep, LockFacility, CountFree, Refuse, InsertHold,
                  RollBackHold, facilityVars
    <3>2. ASSUME NEW b \in Booking, BookingStep(b)
          PROVE  open' = open /\ quota' = quota
      BY <3>2
      DEF BookingStep, ConfirmReads, ConfirmRechecks, ConfirmGivesUp,
          WebhookReads, WriteConfirmed, WriteExpired, CancelReads,
          WriteCancelled, WriteRefundPending, GateReads, WriteCheckedIn,
          ScanCheckIn, WriteCheckedOut, Begin, Finish, facilityVars
    <3>3. CASE FacilityStep
      BY <2>1, <3>3 DEF FacilityStep, SetQuota, ShutdownChecks,
                        ShutdownWrites, Reopen
    <3>4. CASE ReleaseExpiredHolds \/ Tick \/ UNCHANGED vars
      BY <3>4 DEF ReleaseExpiredHolds, Tick, vars, facilityVars
    <3> QED
      BY <3>1, <3>2, <3>3, <3>4 DEF Next
  <2> QED
    BY <1>1, <2>1, <2>3, <2>4
<1>3. CASE hold[c] # "counted"
  <2>1. CountFree(c)
    <3>1. ASSUME NEW b \in Booking, HoldStep(b) PROVE CountFree(c)
      BY <1>3, <3>1 DEF HoldStep, LockFacility, CountFree, Refuse, InsertHold,
                        RollBackHold, TypeOK
    <3>2. ASSUME NEW b \in Booking, BookingStep(b) PROVE hold' = hold
      BY <3>2
      DEF BookingStep, ConfirmReads, ConfirmRechecks, ConfirmGivesUp,
          WebhookReads, WriteConfirmed, WriteExpired, CancelReads,
          WriteCancelled, WriteRefundPending, GateReads, WriteCheckedIn,
          ScanCheckIn, WriteCheckedOut, Begin, Finish
    <3>3. FacilityStep \/ ReleaseExpiredHolds \/ Tick \/ UNCHANGED vars
            => hold' = hold
      BY DEF FacilityStep, SetQuota, ShutdownChecks, ShutdownWrites, Reopen,
             ReleaseExpiredHolds, Tick, vars
    <3> QED
      BY <1>3, <3>1, <3>2, <3>3 DEF Next
  <2>2. open /\ Cardinality(Overlapping(c)) < quota
    BY <2>1 DEF CountFree, Available
  <2>3. /\ open' = open /\ quota' = quota
        /\ Overlapping(c)' = Overlapping(c) /\ revived' = revived
    BY <2>1 DEF CountFree, facilityVars, bookingVars, Overlapping, Counted,
                Expired
  <2>4. card <= Cardinality(Overlapping(c)) /\ Cardinality(Overlapping(c)) \in Nat
    BY BookingAssumption, FS_Subset, FS_CardinalityType DEF Overlapping
  <2> QED
    BY <1>1, <2>2, <2>3, <2>4
<1> QED
  BY <1>2, <1>3

\* The history of the quota never falls below it.
LEMMA PeakStep == ASSUME Inv, [Next]_vars
                  PROVE  peak <= peak' /\ quota' <= peak'
<1> USE QuotaAssumption DEF Inv, TypeOK
<1>1. ASSUME NEW q \in Quotas, SetQuota(q)
      PROVE  peak <= peak' /\ quota' <= peak'
  BY <1>1 DEF SetQuota
<1>2. CASE UNCHANGED <<quota, peak>>
  BY <1>2
<1>3. ASSUME NEW b \in Booking, HoldStep(b) PROVE UNCHANGED <<quota, peak>>
  BY <1>3 DEF HoldStep, LockFacility, CountFree, Refuse, InsertHold,
              RollBackHold, facilityVars
<1>4. ASSUME NEW b \in Booking, BookingStep(b) PROVE UNCHANGED <<quota, peak>>
  BY <1>4
  DEF BookingStep, ConfirmReads, ConfirmRechecks, ConfirmGivesUp,
      WebhookReads, WriteConfirmed, WriteExpired, CancelReads, WriteCancelled,
      WriteRefundPending, GateReads, WriteCheckedIn, ScanCheckIn, WriteCheckedOut,
      Begin, Finish, facilityVars
<1>5. ShutdownChecks \/ ShutdownWrites \/ Reopen \/ ReleaseExpiredHolds \/ Tick
      \/ UNCHANGED vars => UNCHANGED <<quota, peak>>
  BY DEF ShutdownChecks, ShutdownWrites, Reopen, ReleaseExpiredHolds, Tick,
         vars, facilityVars
<1> QED
  BY <1>1, <1>2, <1>3, <1>4, <1>5 DEF Next, FacilityStep

\* No step lets the bookings that kept their slot outgrow the largest quota: an
\* insert stays within the quota it counted against, and nothing else adds any.
LEMMA QuotaStep == ASSUME Inv, [Next]_vars PROVE HeldWithinQuota'
<1> SUFFICES ASSUME NEW t \in Instants
             PROVE  Cardinality(Occupants(t)' \ revived') <= peak'
  BY DEF HeldWithinQuota, Instants
<1>1. t \in Int
  BY StayAssumption DEF Instants
<1>2. Cardinality(Occupants(t) \ revived) <= peak
  BY DEF Inv, HeldWithinQuota, Instants
<1>3. /\ peak <= peak' /\ quota <= peak
      /\ peak \in Nat /\ peak' \in Nat /\ quota \in Nat
  BY PeakStep, TypeStep, QuotaAssumption DEF Inv, TypeOK
<1>4. /\ Cardinality(Occupants(t) \ revived) \in Nat
      /\ Cardinality(Occupants(t)' \ revived') \in Nat
  BY BookingAssumption, FS_Subset, FS_CardinalityType DEF Occupants
<1>5. CASE \E b \in Booking : InsertHold(b)
  <2> PICK b \in Booking : InsertHold(b)
    BY <1>5
  <2>1. Cardinality(Occupants(t)' \ revived') <= quota
        \/ Cardinality(Occupants(t)' \ revived')
             <= Cardinality(Occupants(t) \ revived)
    BY <1>1, InsertWithinQuota
  <2> QED
    BY <1>2, <1>3, <1>4, <2>1
<1>6. CASE ~\E b \in Booking : InsertHold(b)
  <2>1. Cardinality(Occupants(t)' \ revived')
          <= Cardinality(Occupants(t) \ revived)
    BY <1>1, <1>6, OthersShrink, ShrinkingSets DEF Inv
  <2> QED
    BY <1>2, <1>3, <1>4, <2>1
<1> QED
  BY <1>5, <1>6

\* Inv is inductive.
LEMMA Inductive == Spec => []Inv
<1>1. Init => Inv
  <2> SUFFICES ASSUME Init PROVE Inv
    OBVIOUS
  <2>1. TypeOK
    BY TypeInit
  <2>2. LockHeld /\ CountStands
    BY BookingAssumption DEF Init, LockHeld, CountStands
  <2>3. quota <= peak /\ peak \in Nat
    BY <2>1, QuotaAssumption DEF Init, TypeOK
  <2>4. ASSUME NEW t \in Instants
        PROVE  Cardinality(Occupants(t) \ revived) <= peak
    <3>1. Occupants(t) \ revived = {}
      BY DEF Init, Occupants, Counted
    <3> QED
      BY <2>3, <3>1, FS_EmptySet
  <2> QED
    BY <2>1, <2>2, <2>3, <2>4 DEF Inv, HeldWithinQuota, Instants
<1>2. Inv /\ [Next]_vars => Inv'
  <2> SUFFICES ASSUME Inv, [Next]_vars PROVE Inv'
    OBVIOUS
  <2>1. TypeOK'
    BY TypeStep DEF Inv
  <2>2. LockHeld' /\ CountStands' /\ HeldWithinQuota'
    BY LockStep, CountStep, QuotaStep
  <2>3. quota' <= peak'
    BY PeakStep
  <2> QED
    BY <2>1, <2>2, <2>3 DEF Inv
<1> QED
  BY <1>1, <1>2, PTL DEF Spec

\* At every instant the bookings that kept their slot fit in the largest quota
\* the facility has had, however holds, confirmations, cancellations, sweeps
\* and quota changes interleave: holdSlot does serialise concurrent holds.
THEOREM HeldWithinQuotaAlways == Spec => []HeldWithinQuota
<1>1. Inv => HeldWithinQuota
  BY DEF Inv
<1> QED
  BY <1>1, Inductive, PTL

\* A hold is granted only by an insert under the lock, at a facility still open,
\* and within the quota in force, at every instant of its stay.
THEOREM HoldsRespectFacility == Spec => HoldRespectsFacility
<1> DEFINE Grant(b) == status[b] = "none" /\ status'[b] = "PENDING_PAYMENT"
           Fits(b) == /\ open'
                      /\ \A t \in From[b]..(To[b] - 1) :
                           Cardinality(Occupants(t)' \ revived') <= quota'
<1>1. ASSUME Inv, [Next]_vars, NEW b \in Booking, Grant(b) PROVE Fits(b)
  <2>1. InsertHold(b)
    <3>1. ASSUME NEW c \in Booking, HoldStep(c) PROVE InsertHold(b)
      BY <1>1, <3>1 DEF HoldStep, LockFacility, CountFree, Refuse, InsertHold,
                        RollBackHold, bookingVars, Inv, TypeOK
    <3>2. ASSUME NEW c \in Booking, BookingStep(c) PROVE FALSE
      BY <1>1, <3>2
      DEF BookingStep, ConfirmReads, ConfirmRechecks, ConfirmGivesUp,
          WebhookReads, WriteConfirmed, WriteExpired, CancelReads,
          WriteCancelled, WriteRefundPending, GateReads, WriteCheckedIn,
          ScanCheckIn, WriteCheckedOut, Begin, Occupy, Leave, bookingVars, Inv, TypeOK
    <3>3. FacilityStep \/ Tick \/ UNCHANGED vars => status' = status
      BY DEF FacilityStep, SetQuota, ShutdownChecks, ShutdownWrites, Reopen,
             Tick, vars, bookingVars
    <3>4. ReleaseExpiredHolds => status'[b] \in {"EXPIRED", status[b]}
      BY DEF ReleaseExpiredHolds
    <3> QED
      BY <1>1, <3>1, <3>2, <3>3, <3>4 DEF Next
  <2>2. open' /\ quota' = quota
    BY <1>1, <2>1 DEF InsertHold, facilityVars, Inv, CountStands
  <2>3. ASSUME NEW t \in From[b]..(To[b] - 1)
        PROVE  t \in Int /\ From[b] <= t /\ t < To[b]
    BY StayAssumption
  <2> QED
    BY <1>1, <2>1, <2>2, <2>3, InsertWithinQuota
<1>2. Inv /\ [Next]_vars => [\A b \in Booking : Grant(b) => Fits(b)]_vars
  BY <1>1
<1> QED
  BY <1>2, Inductive, PTL DEF Spec, HoldRespectsFacility

-----------------------------------------------------------------------------
(* Ingestion: what the importer writes of a lot.                            *)

\* The facilities and the drains; a lot is looked up while it is drained.
CatalogueTyped ==
  /\ fac \in [Place -> Facility \cup {None}]
  /\ drain = [d \in Drainer |-> [st |-> drain[d].st, rows |-> drain[d].rows,
                                   at |-> drain[d].at]]

\* What a drain has resolved and not yet written, or reads kinds for.
Resolved(at) ==
  /\ at.row.place \in Place /\ at.to.target \in Place
  /\ at.to.how = "create" =>
       /\ at.to.target = at.row.place
       /\ \/ at.hidden # {}
          \/ at.known \subseteq {at.row.place} /\ LotOf[at.row.place] \notin OwnedLot
  /\ at.to.how \in {"create", "duplicate"} \/ fac[at.to.target] # None
DrainSound(d) ==
  /\ drain[d].st \in {"rows", "write"} => \A row \in drain[d].rows : row.place \in Place
  /\ drain[d].st = "write" => Resolved(drain[d].at)
  /\ drain[d].st = "kinds" => drain[d].rows \subseteq {f \in OsmPlace : fac[f] # None}
RefreshSound ==
  refresh # None => /\ refresh.facility \in Place /\ refresh.google \in GooglePlace
                    /\ fac[refresh.facility] # None

Shows(x, before) ==
  x # None /\ x.google # None => x.display = x.google /\ (x.kind = "BUSINESS" \/ before)
GoogleShown(f) == LotOf[f] \notin raced => Shows(fac[f], f \in inherited)
OneEach(lot) == lot \notin raced \cup doubled =>
                  \A f, g \in FacilitiesOf(lot) : f = g /\ lot \notin OwnedLot

ImportInv == /\ CatalogueTyped /\ RefreshSound
             /\ \A d \in Drainer : DrainSound(d)
             /\ \A f \in Place : GoogleShown(f)
             /\ \A p \in Place : OneEach(LotOf[p])

LEMMA FacilityTypes ==
  ASSUME CatalogueTyped, NEW f \in Place, fac[f] # None
  PROVE  /\ fac[f] \in Facility /\ fac[f].google \in GooglePlace \cup {None}
         /\ fac[f].display \in Place /\ fac[f].synced \in BOOLEAN
         /\ fac[f].kind \in {"UNKNOWN", "RESTRICTED", "BUSINESS", "FREE_PUBLIC"}
BY DEF CatalogueTyped, Facility

\* A step that writes no facility.
DrainMoves ==
  /\ UNCHANGED <<fac, raced, doubled, inherited>>
  /\ drain' = [d \in Drainer |-> [st |-> drain'[d].st, rows |-> drain'[d].rows,
                                    at |-> drain'[d].at]]
  /\ \A d \in Drainer : DrainSound(d)'
  /\ RefreshSound'

FacilitiesStay == \A f \in Place : fac[f] # None => fac'[f] # None
LEMMA DrainMovesKeep ==
  ASSUME ImportInv, DrainMoves
  PROVE  ImportInv' /\ FacilitiesStay
BY DEF ImportInv, DrainMoves, CatalogueTyped, GoogleShown, Shows, OneEach, FacilitiesOf,
       FacilitiesStay

\* A step that writes the facility f.
LEMMA FacilityMoves ==
  ASSUME ImportInv, NEW f \in Place, NEW x \in Facility,
         fac' = [fac EXCEPT ![f] = x],
         fac[f] = None /\ LotOf[f] \notin raced' \cup doubled' =>
           FacilitiesOf(LotOf[f]) = {} /\ LotOf[f] \notin OwnedLot,
         LotOf[f] \in raced' \/ Shows(x, f \in inherited'), raced \subseteq raced',
         doubled \subseteq doubled', inherited \subseteq inherited' \cup {f},
         CatalogueTyped', \A d \in Drainer : DrainSound(d)', RefreshSound'
  PROVE  ImportInv' /\ FacilitiesStay
<1> USE DEF ImportInv
<1>1. x # None /\ fac'[f] = x /\ \A g \in Place \ {f} : fac'[g] = fac[g]
  BY NoneAssumption DEF CatalogueTyped
<1>2. ASSUME NEW g \in Place PROVE GoogleShown(g)'
  BY <1>1 DEF GoogleShown, Shows
<1>3. ASSUME NEW p \in Place PROVE OneEach(LotOf[p])'
  <2>1. CASE fac[f] = None /\ LotOf[f] = LotOf[p]
    BY <1>1, <2>1 DEF OneEach, FacilitiesOf
  <2>2. CASE fac[f] # None \/ LotOf[f] # LotOf[p]
    <3>1. FacilitiesOf(LotOf[p])' = FacilitiesOf(LotOf[p])
      BY <1>1, <2>2 DEF FacilitiesOf
    <3> QED BY <3>1 DEF OneEach
  <2> QED BY <2>1, <2>2
<1>4. FacilitiesStay
  BY <1>1 DEF FacilitiesStay
<1> QED BY <1>2, <1>3, <1>4

\* The rest of a batch is as sound as the batch, whatever is written meanwhile.
LEMMA DrainKept ==
  ASSUME NEW c \in Drainer, DrainSound(c), FacilitiesStay, drain'[c] = drain[c]
  PROVE  DrainSound(c)'
<1>1. (drain[c].st \in {"rows", "write"} => \A row \in drain[c].rows : row.place \in Place)'
  BY DEF DrainSound, Place
<1>2. (drain[c].st = "write" => Resolved(drain[c].at))'
  <2> SUFFICES ASSUME drain[c].st = "write" PROVE Resolved(drain[c].at)'
    OBVIOUS
  <2> DEFINE at == drain[c].at
  <2>1. Resolved(at) /\ at' = at
    BY DEF DrainSound
  <2>2. fac[at.to.target] # None => fac'[at.to.target] # None
    BY <2>1 DEF Resolved, FacilitiesStay
  <2> HIDE DEF at
  <2>3. Resolved(at)'
    BY <2>1, <2>2 DEF Resolved, Place
  <2> QED BY <2>3 DEF at
<1>3. (drain[c].st = "kinds" => drain[c].rows \subseteq {f \in OsmPlace : fac[f] # None})'
  BY DEF DrainSound, FacilitiesStay, Place
<1> QED BY <1>1, <1>2, <1>3 DEF DrainSound

LEMMA RestSound ==
  ASSUME ImportInv, FacilitiesStay, NEW d \in Drainer, NEW rows,
         drain[d].st \in {"rows", "write"}, rows \subseteq drain[d].rows,
         drain' = Rest(d, rows)
  PROVE  /\ \A c \in Drainer : DrainSound(c)'
         /\ drain' = [c \in Drainer |-> [st |-> drain'[c].st, rows |-> drain'[c].rows,
                                           at |-> drain'[c].at]]
<1> USE DEF ImportInv, CatalogueTyped
<1>1. /\ DOMAIN drain = Drainer /\ drain'[d].rows = rows
      /\ drain'[d] = [st |-> IF rows = {} THEN "read" ELSE "rows", rows |-> rows, at |-> None]
      /\ \A c \in Drainer \ {d} : drain'[c] = drain[c]
  BY DEF Rest
<1>2. DrainSound(d)'
  BY <1>1 DEF DrainSound
<1>3. ASSUME NEW c \in Drainer \ {d} PROVE DrainSound(c)'
  BY <1>1, DrainKept
<1> QED BY <1>1, <1>2, <1>3 DEF Rest

LEMMA OthersSound ==
  ASSUME ImportInv, FacilitiesStay, drain' = drain
  PROVE  \A d \in Drainer : DrainSound(d)'
BY DrainKept DEF ImportInv

LEMMA RefreshStays ==
  ASSUME ImportInv, FacilitiesStay, refresh' \in {refresh, None}
  PROVE  RefreshSound'
BY DEF ImportInv, RefreshSound, FacilitiesStay

LEMMA DrainReads ==
  ASSUME CatalogueTyped, NEW d \in Drainer, NEW read,
         drain' = [drain EXCEPT ![d].st = "rows", ![d].rows = read]
  PROVE  /\ drain'[d] = [st |-> "rows", at |-> drain[d].at, rows |-> read]
         /\ \A c \in Drainer \ {d} : drain'[c] = drain[c]
         /\ drain' = [c \in Drainer |-> drain'[c]]
<1>1. DOMAIN drain = Drainer
      /\ drain[d] = [st |-> drain[d].st, rows |-> drain[d].rows, at |-> drain[d].at]
  BY DEF CatalogueTyped
<1>2. drain'[d] = [drain[d] EXCEPT !.st = "rows", !.rows = read]
  BY <1>1
<1>3. drain'[d] = [[st |-> drain[d].st, rows |-> drain[d].rows, at |-> drain[d].at]
                     EXCEPT !.st = "rows", !.rows = read]
  BY <1>1, <1>2
<1> QED BY <1>1, <1>3

LEMMA ResolveStep ==
  ASSUME ImportInv, NEW d \in Drainer, DrainPending(d) \/ PromoteRow(d)
  PROVE  ImportInv' /\ FacilitiesStay
<1> USE DEF ImportInv, pipeline, catalogue
<1>1. /\ CatalogueTyped /\ refresh' = refresh /\ FacilitiesStay
      /\ UNCHANGED <<fac, raced, doubled, inherited>>
  BY DEF DrainPending, PromoteRow, FacilitiesStay, catalogue
<1>2. CASE DrainPending(d)
  <2>1. \/ drain' = [drain EXCEPT ![d] = NoDrain]
        \/ \E s \in SUBSET PendingPlaces :
             drain' = [drain EXCEPT ![d].st = "rows",
                         ![d].rows = {[place |-> p, content |-> raw[p].content] : p \in s}]
    BY <1>2 DEF DrainPending, Batches
  <2>2. CASE drain' = [drain EXCEPT ![d] = NoDrain]
    BY <1>1, <2>2, DrainMovesKeep, RefreshStays
    DEF CatalogueTyped, DrainMoves, DrainSound, Resolved, NoDrain
  <2>3. ASSUME NEW s \in SUBSET PendingPlaces,
               drain' = [drain EXCEPT ![d].st = "rows",
                           ![d].rows = {[place |-> p, content |-> raw[p].content] : p \in s}]
        PROVE  ImportInv' /\ FacilitiesStay
    <3> DEFINE read == {[place |-> p, content |-> raw[p].content] : p \in s}
    <3> HIDE DEF read
    <3>0. drain' = [drain EXCEPT ![d].st = "rows", ![d].rows = read]
      BY <2>3 DEF read
    <3>1. /\ drain'[d] = [st |-> "rows", at |-> drain[d].at, rows |-> read]
          /\ \A c \in Drainer \ {d} : drain'[c] = drain[c]
          /\ drain' = [c \in Drainer |-> drain'[c]]
      BY <1>1, <3>0, DrainReads
    <3>2. \A row \in drain'[d].rows : row.place \in Place
      BY <3>1 DEF PendingPlaces, read
    <3>3. \A c \in Drainer : DrainSound(c)'
      BY <1>1, <3>1, <3>2 DEF DrainSound, Resolved
    <3>4. \A c \in Drainer : drain'[c] = [st |-> drain'[c].st, rows |-> drain'[c].rows,
                                            at |-> drain'[c].at]
      BY <1>1, <3>1 DEF CatalogueTyped
    <3> QED BY <1>1, <3>1, <3>3, <3>4, DrainMovesKeep, RefreshStays DEF DrainMoves
  <2> QED BY <2>1, <2>2, <2>3
<1>3. CASE PromoteRow(d)
  <2>1. PICK row \in drain[d].rows :
          IF ~Accepted(Normalize(row.place, row.content))
            THEN drain' = Rest(d, drain[d].rows \ {row})
            ELSE \E to \in Resolutions(row.place) :
                   drain' = [drain EXCEPT ![d] =
                     [st |-> "write", rows |-> drain[d].rows \ {row},
                      at |-> [row |-> row, to |-> to, seen |-> fac[to.target],
                              known |-> FacilitiesOf(LotOf[row.place]),
                              hidden |-> FacilitiesOf(LotOf[row.place]) \cap archived]]]
    BY <1>3 DEF PromoteRow
  <2>2. drain[d].st = "rows" /\ row.place \in Place
    BY <1>3, <2>1 DEF PromoteRow, DrainSound
  <2>3. CASE drain' = Rest(d, drain[d].rows \ {row})
    <3> DEFINE rows == drain[d].rows \ {row}
    <3>0. rows \subseteq drain[d].rows /\ drain' = Rest(d, rows)
      BY <2>3
    <3> HIDE DEF rows
    <3>1. /\ \A c \in Drainer : DrainSound(c)'
          /\ drain' = [c \in Drainer |-> [st |-> drain'[c].st, rows |-> drain'[c].rows,
                                            at |-> drain'[c].at]]
      BY <1>1, <2>2, <3>0, RestSound
    <3> QED BY <1>1, <3>1, RefreshStays, DrainMovesKeep DEF DrainMoves
  <2>4. ASSUME NEW to \in Resolutions(row.place),
               drain' = [drain EXCEPT ![d] =
                     [st |-> "write", rows |-> drain[d].rows \ {row},
                      at |-> [row |-> row, to |-> to, seen |-> fac[to.target],
                              known |-> FacilitiesOf(LotOf[row.place]),
                              hidden |-> FacilitiesOf(LotOf[row.place]) \cap archived]]]
        PROVE  ImportInv' /\ FacilitiesStay
    <3>1. /\ to.target \in Place
          /\ to.how = "create" =>
               /\ to.target = row.place
               /\ \/ FacilitiesOf(LotOf[row.place]) \cap archived # {}
                  \/ /\ FacilitiesOf(LotOf[row.place]) \subseteq {row.place}
                     /\ LotOf[row.place] \notin OwnedLot
          /\ to.how \in {"create", "duplicate"} \/ fac[to.target] # None
      BY <2>2 DEF Resolutions, Land, FindSelf, FindDuplicate, FacilitiesOf
    <3>2. /\ drain'[d] = [st |-> "write", rows |-> drain[d].rows \ {row},
                          at |-> [row |-> row, to |-> to, seen |-> fac[to.target],
                                  known |-> FacilitiesOf(LotOf[row.place]),
                                  hidden |-> FacilitiesOf(LotOf[row.place]) \cap archived]]
          /\ \A c \in Drainer \ {d} : drain'[c] = drain[c]
          /\ DOMAIN drain' = Drainer
      BY <1>1, <2>4 DEF CatalogueTyped
    <3>3. DrainSound(d)'
      BY <1>1, <2>2, <3>1, <3>2 DEF DrainSound, Resolved
    <3>4. \A c \in Drainer \ {d} : DrainSound(c)'
      BY <1>1, <3>2 DEF DrainSound, Resolved
    <3>5. drain' = [c \in Drainer |-> drain'[c]]
      BY <1>1, <2>4 DEF CatalogueTyped
    <3>6. \A c \in Drainer : drain'[c] = [st |-> drain'[c].st, rows |-> drain'[c].rows,
                                            at |-> drain'[c].at]
      BY <1>1, <3>2 DEF CatalogueTyped
    <3> QED BY <1>1, <3>3, <3>4, <3>5, <3>6, DrainMovesKeep, RefreshStays DEF DrainMoves
  <2> QED BY <2>1, <2>3, <2>4
<1> QED BY <1>2, <1>3

LEMMA CreatedFacility ==
  ASSUME NEW p \in Place, NEW canonical,
         canonical.kind \in {"UNKNOWN", "RESTRICTED", "BUSINESS", "FREE_PUBLIC"},
         p \in GooglePlace => canonical.kind = "BUSINESS"
  PROVE  /\ CreateFacility(p, canonical) \in Facility
         /\ Shows(CreateFacility(p, canonical), FALSE)
<1> DEFINE id == IF p \in GooglePlace THEN p ELSE None
<1> DEFINE synced == p \in GooglePlace
<1>1. id \in GooglePlace \cup {None} /\ (id # None => id = p /\ p \in GooglePlace)
  OBVIOUS
<1>2. synced \in BOOLEAN
  OBVIOUS
<1>3. CreateFacility(p, canonical) =
        [google |-> id, display |-> p, kind |-> canonical.kind, synced |-> synced]
  BY DEF CreateFacility
<1> HIDE DEF id, synced
<1> QED BY <1>1, <1>2, <1>3 DEF Facility, Shows

Merged(x, was, at) ==
  /\ x \in Facility /\ (at.row.place \in GooglePlace => Shows(x, FALSE))
  /\ at.row.place \notin GooglePlace =>
       /\ x.google = was.google
       /\ at.seen.google # None => x.display = was.display /\ x.kind = was.kind
LEMMA MergedFacility ==
  ASSUME NEW was \in Facility, NEW at, at.row.place \in Place, NEW canonical,
         canonical.kind \in {"UNKNOWN", "RESTRICTED", "BUSINESS", "FREE_PUBLIC"}
  PROVE  Merged(MergeFacility(was, at, canonical), was, at)
<1> DEFINE x == MergeFacility(was, at, canonical)
<1>1. CASE at.row.place \in GooglePlace
  BY <1>1 DEF MergeFacility, Facility, Shows, Merged
<1>2. CASE at.row.place \notin GooglePlace
  <2> DEFINE shown == IF OsmMayDisplay(at) THEN at.row.place ELSE was.display
  <2> DEFINE kind == IF /\ OsmMayDisplay(at) /\ at.seen.kind = "UNKNOWN"
                        /\ canonical.kind # "UNKNOWN"
                     THEN canonical.kind ELSE was.kind
  <2>1. x = [was EXCEPT !.display = shown, !.kind = kind]
    BY <1>2 DEF MergeFacility
  <2>2. shown \in Place /\ kind \in {"UNKNOWN", "RESTRICTED", "BUSINESS", "FREE_PUBLIC"}
    BY DEF Facility
  <2>3. at.seen.google # None => shown = was.display /\ kind = was.kind
    BY DEF OsmMayDisplay
  <2> HIDE DEF shown, kind, x
  <2>4. x \in Facility /\ x.google = was.google /\ x.display = shown /\ x.kind = kind
    BY <2>1, <2>2 DEF Facility
  <2> QED BY <1>2, <2>3, <2>4 DEF x, Merged
<1> QED BY <1>1, <1>2

\* A row is written: into a new facility, into the one it was resolved to, or nowhere.
LEMMA WriteStep ==
  ASSUME ImportInv, NEW d \in Drainer, WriteRow(d) \/ PromotionFails(d)
  PROVE  ImportInv' /\ FacilitiesStay
<1> USE DEF ImportInv, pipeline, catalogue
<1> DEFINE at == drain[d].at
<1>1. /\ drain[d].st = "write" /\ Resolved(at) /\ drain' = Rest(d, drain[d].rows)
      /\ refresh' = refresh
  BY DEF WriteRow, PromotionFails, DrainSound
<1>2. ASSUME FacilitiesStay
      PROVE  /\ \A c \in Drainer : DrainSound(c)'
             /\ drain' = [c \in Drainer |-> [st |-> drain'[c].st, rows |-> drain'[c].rows,
                                               at |-> drain'[c].at]]
             /\ RefreshSound'
  BY <1>1, <1>2, RestSound, RefreshStays
<1>3. CASE UNCHANGED <<fac, raced, doubled, inherited>>
  <2>1. FacilitiesStay
    BY <1>3 DEF FacilitiesStay
  <2> QED BY <1>2, <1>3, <2>1, DrainMovesKeep DEF DrainMoves
<1>4. CASE /\ at.to.how # "duplicate" /\ ~Refused(at)
           /\ fac' = Writes(at) /\ raced' = Races(at)
           /\ doubled' = Doubles(at) /\ inherited' = Heals(at)
  <2> DEFINE p == at.row.place
  <2> DEFINE f == at.to.target
  <2> DEFINE canonical == Normalize(p, at.row.content)
  <2>1. p \in Place /\ f \in Place /\ None \notin Facility /\ None \notin Place
    BY <1>1, PlacesAssumption, NoneAssumption DEF Resolved
  <2>2. /\ canonical.kind \in {"UNKNOWN", "RESTRICTED", "BUSINESS", "FREE_PUBLIC"}
        /\ p \in GooglePlace => canonical.kind = "BUSINESS"
    BY DEF Normalize, NormalizeGoogle, NormalizeOsm, ClassifyOsm
  <2>3. /\ raced \subseteq raced' /\ (LotOf[f] \notin raced' => ~Overtaken(at))
        /\ doubled \subseteq doubled' /\ inherited \subseteq inherited' \cup {f}
        /\ p \notin GooglePlace => inherited' = inherited
        /\ at.to.how = "create" /\ at.hidden # {} => LotOf[f] \in doubled'
    BY <1>4 DEF Races, Doubles, Heals
  <2>4. CASE at.to.how = "create"
    <3> DEFINE x == CreateFacility(p, canonical)
    <3>1. fac' = [fac EXCEPT ![f] = x] /\ f = p
      BY <1>1, <1>4, <2>4 DEF Writes, Resolved
    <3>2. x \in Facility /\ Shows(x, f \in inherited')
      BY <2>1, <2>2, CreatedFacility DEF Shows
    <3>3. LotOf[f] \notin raced' \cup doubled' => FacilitiesOf(LotOf[f]) = {} /\ LotOf[f] \notin OwnedLot
      <4>1. fac[f] = None
        BY <1>4, <2>4 DEF Refused
      <4>2. LotOf[f] \notin raced' => FacilitiesOf(LotOf[p]) = at.known
        BY <2>3 DEF Overtaken
      <4> QED BY <1>1, <2>3, <2>4, <3>1, <4>1, <4>2 DEF Resolved, FacilitiesOf
    <3> HIDE DEF x
    <3>4. CatalogueTyped' /\ FacilitiesStay
      <4>1. FacilitiesStay /\ fac' \in [Place -> Facility \cup {None}]
        BY <2>1, <3>1, <3>2 DEF CatalogueTyped, FacilitiesStay
      <4> QED BY <1>2, <4>1 DEF CatalogueTyped
    <3> QED BY <1>2, <2>1, <2>3, <3>1, <3>2, <3>3, <3>4, FacilityMoves
  <2>5. CASE at.to.how # "create"
    <3> DEFINE x == MergeFacility(fac[f], at, canonical)
    <3>1. fac' = [fac EXCEPT ![f] = x] /\ fac[f] # None
      BY <1>1, <1>4, <2>5 DEF Writes, Resolved
    <3>2. fac[f] \in Facility
      BY <2>1, <3>1, FacilityTypes
    <3>3. Merged(x, fac[f], at)
      <4> HIDE DEF at, canonical
      <4> QED BY <2>1, <2>2, <3>2, MergedFacility
    <3>4. p \notin GooglePlace /\ LotOf[f] \notin raced' => Shows(x, f \in inherited')
      <4>1. LotOf[f] \notin raced' => fac[f] = at.seen
        BY <2>3 DEF Overtaken
      <4> HIDE DEF x
      <4> QED BY <2>1, <2>3, <3>1, <3>3, <4>1 DEF GoogleShown, Shows, Merged
    <3>5. x \in Facility /\ (LotOf[f] \notin raced' => Shows(x, f \in inherited'))
      BY <3>3, <3>4 DEF Shows, Merged
    <3> HIDE DEF x
    <3>6. CatalogueTyped' /\ FacilitiesStay
      <4>1. FacilitiesStay /\ fac' \in [Place -> Facility \cup {None}]
        BY <2>1, <3>1, <3>5 DEF CatalogueTyped, FacilitiesStay
      <4> QED BY <1>2, <4>1 DEF CatalogueTyped
    <3> QED BY <1>2, <2>1, <2>3, <3>1, <3>5, <3>6, FacilityMoves
  <2> QED BY <2>4, <2>5
<1>5. UNCHANGED <<fac, raced, doubled, inherited>>
      \/ /\ at.to.how # "duplicate" /\ ~Refused(at)
         /\ fac' = Writes(at) /\ raced' = Races(at)
         /\ doubled' = Doubles(at) /\ inherited' = Heals(at)
  BY DEF WriteRow, PromotionFails, catalogue
<1> QED BY <1>3, <1>4, <1>5

LEMMA ReclassifyingDrain ==
  ASSUME NEW fs
  PROVE  Reclassifying(fs) = [drain EXCEPT !["promote"] =
                [st |-> IF fs = {} THEN "off" ELSE "kinds", rows |-> fs, at |-> None]]
<1> DEFINE stage == IF fs = {} THEN "off" ELSE "kinds"
<1>1. Reclassifying(fs) = [drain EXCEPT !["promote"] = [NoDrain EXCEPT !.st = stage, !.rows = fs]]
  BY DEF Reclassifying
<1> HIDE DEF stage
<1>2. [NoDrain EXCEPT !.st = stage] = [st |-> stage, rows |-> {}, at |-> None]
  BY DEF NoDrain
<1>3. [[st |-> stage, rows |-> {}, at |-> None] EXCEPT !.rows = fs] =
        [st |-> stage, rows |-> fs, at |-> None]
  OBVIOUS
<1>4. [NoDrain EXCEPT !.st = stage, !.rows = fs] = [st |-> stage, rows |-> fs, at |-> None]
  BY <1>2, <1>3
<1> QED BY <1>1, <1>4 DEF stage

LEMMA KindsStep ==
  ASSUME ImportInv, EnqueuePromotion \/ EnqueueReclassify \/ Reclassify
  PROVE  ImportInv' /\ FacilitiesStay
<1> USE DEF ImportInv, pipeline, catalogue
<1>1. CatalogueTyped /\ refresh' = refresh
  BY DEF EnqueuePromotion, EnqueueReclassify, Reclassify
<1>2. CASE EnqueuePromotion
  <2>1. /\ drain' = [drain EXCEPT !["promote"].st = "read"]
        /\ UNCHANGED <<fac, raced, doubled, inherited>>
    BY <1>2 DEF EnqueuePromotion, catalogue
  <2>2. /\ drain'["promote"] = [st |-> "read", rows |-> drain["promote"].rows,
                                at |-> drain["promote"].at]
        /\ drain'["sweep"] = drain["sweep"] /\ drain' = [d \in Drainer |-> drain'[d]]
    <3>1. /\ drain["promote"] = [st |-> drain["promote"].st, rows |-> drain["promote"].rows,
                                 at |-> drain["promote"].at]
          /\ DOMAIN drain = {"sweep", "promote"}
      BY <1>1 DEF CatalogueTyped, Drainer
    <3>2. drain'["promote"] = [drain["promote"] EXCEPT !.st = "read"]
      BY <2>1, <3>1
    <3>3. drain'["promote"] =
            [[st |-> drain["promote"].st, rows |-> drain["promote"].rows,
              at |-> drain["promote"].at] EXCEPT !.st = "read"]
      BY <3>1, <3>2
    <3>4. drain'["sweep"] = drain["sweep"] /\ drain' = [d \in Drainer |-> drain'[d]]
      BY <2>1, <3>1 DEF Drainer
    <3> QED BY <3>3, <3>4
  <2>3. \A d \in Drainer : DrainSound(d)'
    BY <2>1, <2>2 DEF DrainSound, Resolved, Drainer
  <2>4. drain' = [d \in Drainer |-> [st |-> drain'[d].st, rows |-> drain'[d].rows,
                                       at |-> drain'[d].at]]
    <3>1. \A d \in Drainer : drain'[d] = [st |-> drain'[d].st, rows |-> drain'[d].rows,
                                            at |-> drain'[d].at]
      BY <1>1, <2>2 DEF CatalogueTyped, Drainer
    <3> QED BY <2>2, <3>1
  <2> QED BY <1>1, <2>1, <2>3, <2>4, DrainMovesKeep DEF DrainMoves, RefreshSound
<1>3. ASSUME FacilitiesStay, NEW fs, fs \subseteq {f \in OsmPlace : fac'[f] # None},
             drain' = Reclassifying(fs)
      PROVE  /\ \A d \in Drainer : DrainSound(d)'
             /\ drain' = [d \in Drainer |-> [st |-> drain'[d].st, rows |-> drain'[d].rows,
                                               at |-> drain'[d].at]]
  <2>1. drain' = [drain EXCEPT !["promote"] =
                    [st |-> IF fs = {} THEN "off" ELSE "kinds", rows |-> fs, at |-> None]]
    BY <1>3, ReclassifyingDrain
  <2>2. /\ drain'["promote"].st \in {"off", "kinds"} /\ drain'["promote"].rows = fs
        /\ drain'["sweep"] = drain["sweep"]
    BY <1>1, <2>1 DEF CatalogueTyped, Drainer
  <2>3. DrainSound("promote")'
    BY <1>3, <2>2 DEF DrainSound
  <2>4. DrainSound("sweep")'
    BY <1>3, <2>2, DrainKept DEF Drainer
  <2> QED BY <1>1, <2>1, <2>3, <2>4 DEF CatalogueTyped, Drainer
<1>4. CASE EnqueueReclassify
  <2>1. UNCHANGED <<fac, raced, doubled, inherited>> /\ drain' = Reclassifying(UnknownOsm)
    BY <1>4 DEF EnqueueReclassify, catalogue
  <2>2. FacilitiesStay /\ UnknownOsm \subseteq {f \in OsmPlace : fac'[f] # None}
    BY <2>1 DEF FacilitiesStay, UnknownOsm
  <2> QED BY <1>1, <1>3, <2>1, <2>2, RefreshStays, DrainMovesKeep DEF DrainMoves
<1>5. CASE Reclassify
  <2>1. PICK f \in drain["promote"].rows :
          /\ \E gone \in SUBSET drain["promote"].rows :
               drain' = Reclassifying(drain["promote"].rows \ gone)
          /\ \/ UNCHANGED <<fac, raced, doubled, inherited>>
             \/ /\ fac' = [fac EXCEPT ![f].kind = ClassifyOsm(raw[f].content)]
                /\ raced' = IF fac[f].kind = "UNKNOWN" THEN raced ELSE raced \cup {LotOf[f]}
                /\ doubled' = doubled /\ inherited' = inherited
    <3>1. PICK f \in drain["promote"].rows :
            LET kind == ClassifyOsm(raw[f].content)
                fails == kind # "UNKNOWN" /\ f \in archived
            IN  /\ drain' = Reclassifying(IF fails THEN {} ELSE drain["promote"].rows \ {f})
                /\ IF kind = "UNKNOWN" \/ fails
                   THEN UNCHANGED catalogue
                   ELSE /\ fac' = [fac EXCEPT ![f].kind = kind]
                        /\ raced' = IF fac[f].kind = "UNKNOWN" THEN raced ELSE raced \cup {LotOf[f]}
                        /\ UNCHANGED <<archived, doubled, inherited>>
      BY <1>5 DEF Reclassify
    <3>2. {} = drain["promote"].rows \ drain["promote"].rows
      OBVIOUS
    <3>3. \E gone \in SUBSET drain["promote"].rows :
            drain' = Reclassifying(drain["promote"].rows \ gone)
      BY <3>1, <3>2
    <3> QED BY <3>1, <3>3 DEF catalogue
  <2>2. drain["promote"].rows \subseteq {g \in OsmPlace : fac[g] # None}
    BY <1>5 DEF Reclassify, DrainSound, Drainer
  <2> PICK gone \in SUBSET drain["promote"].rows :
         drain' = Reclassifying(drain["promote"].rows \ gone)
    BY <2>1
  <2>3. f \in Place /\ f \in OsmPlace /\ fac[f] # None
    BY <2>1, <2>2 DEF Place
  <2>4. CASE UNCHANGED <<fac, raced, doubled, inherited>>
    <3> DEFINE fs == drain["promote"].rows \ gone
    <3>1. FacilitiesStay /\ fs \subseteq {g \in OsmPlace : fac'[g] # None}
          /\ drain' = Reclassifying(fs)
      BY <2>1, <2>2, <2>4 DEF FacilitiesStay
    <3> HIDE DEF fs
    <3> QED BY <1>1, <1>3, <2>4, <3>1, RefreshStays, DrainMovesKeep DEF DrainMoves
  <2>5. CASE /\ fac' = [fac EXCEPT ![f].kind = ClassifyOsm(raw[f].content)]
             /\ raced' = IF fac[f].kind = "UNKNOWN" THEN raced ELSE raced \cup {LotOf[f]}
             /\ doubled' = doubled /\ inherited' = inherited
    <3> DEFINE kind == ClassifyOsm(raw[f].content)
    <3> DEFINE x == [fac[f] EXCEPT !.kind = kind]
    <3>1. kind \in {"UNKNOWN", "RESTRICTED", "BUSINESS", "FREE_PUBLIC"}
      BY DEF ClassifyOsm
    <3>2. fac' = [fac EXCEPT ![f] = x]
      BY <2>5
    <3>3. fac[f] \in Facility
      BY <2>3, FacilityTypes
    <3> HIDE DEF kind
    <3>4. x \in Facility /\ x.google = fac[f].google
      BY <3>1, <3>3 DEF Facility
    <3>5. LotOf[f] \notin raced' => fac[f].kind = "UNKNOWN" /\ LotOf[f] \notin raced
      BY <2>5
    <3>6. LotOf[f] \notin raced' => Shows(x, f \in inherited')
      BY <2>3, <2>5, <3>4, <3>5 DEF GoogleShown, Shows
    <3> HIDE DEF x
    <3>7. FacilitiesStay /\ fac' \in [Place -> Facility \cup {None}]
      BY <1>1, <2>3, <3>2, <3>4, NoneAssumption DEF CatalogueTyped, FacilitiesStay
    <3> DEFINE fs == drain["promote"].rows \ gone
    <3>8. drain' = Reclassifying(fs) /\ fs \subseteq {g \in OsmPlace : fac'[g] # None}
      BY <2>1, <2>2, <3>7 DEF FacilitiesStay, Place
    <3> HIDE DEF fs
    <3>9. /\ \A d \in Drainer : DrainSound(d)'
          /\ CatalogueTyped' /\ RefreshSound'
      BY <1>1, <1>3, <3>7, <3>8, RefreshStays DEF CatalogueTyped
    <3> QED BY <2>3, <2>5, <3>2, <3>4, <3>6, <3>9, FacilityMoves
  <2> QED BY <2>1, <2>4, <2>5
<1> QED BY <1>2, <1>4, <1>5

LEMMA RefreshStep ==
  ASSUME ImportInv,
         \/ RefreshReads \/ RefreshFindsNothing \/ RefreshOne \/ RefreshFails \/ Ages
         \/ \E f \in Place : Archive(f) \/ Restore(f)
  PROVE  ImportInv' /\ FacilitiesStay
<1> USE DEF ImportInv, pipeline, catalogue
<1>1. CatalogueTyped /\ drain' = drain
  BY DEF RefreshReads, RefreshFindsNothing, RefreshOne, RefreshFails, Ages, Archive, Restore
<1>2. CASE RefreshReads
  <2>1. PICK f \in Stale : refresh' = [facility |-> f, google |-> fac[f].google]
    BY <1>2 DEF RefreshReads
  <2>2. UNCHANGED <<fac, raced, doubled, inherited>>
    BY <1>2 DEF RefreshReads, catalogue
  <2>3. f \in Place /\ fac[f] # None /\ fac[f].google \in GooglePlace
    BY <2>1, FacilityTypes DEF Stale
  <2>4. RefreshSound' /\ FacilitiesStay
    BY <2>1, <2>2, <2>3 DEF RefreshSound, FacilitiesStay
  <2> QED BY <1>1, <2>2, <2>4, OthersSound, DrainMovesKeep DEF DrainMoves, CatalogueTyped
<1>3. ASSUME NEW f \in Place, fac[f] # None, NEW x \in Facility, raced \subseteq raced',
             fac' = [fac EXCEPT ![f] = x], LotOf[f] \in raced' \/ Shows(x, f \in inherited'),
             doubled' = doubled, inherited \subseteq inherited' \cup {f},
             refresh' \in {refresh, None}
      PROVE  ImportInv' /\ FacilitiesStay
  <2>1. FacilitiesStay /\ CatalogueTyped'
    BY <1>1, <1>3, NoneAssumption DEF CatalogueTyped, FacilitiesStay
  <2> QED BY <1>1, <1>3, <2>1, OthersSound, RefreshStays, FacilityMoves
<1>4. ASSUME NEW f \in Place, fac[f] # None, NEW synced \in BOOLEAN,
             fac' = [fac EXCEPT ![f].synced = synced], raced' = raced,
             doubled' = doubled, inherited' = inherited,
             refresh' \in {refresh, None}
      PROVE  ImportInv' /\ FacilitiesStay
  <2> DEFINE x == [fac[f] EXCEPT !.synced = synced]
  <2>1. fac[f] \in Facility
    BY <1>1, <1>4, FacilityTypes
  <2>2. /\ x \in Facility /\ x.google = fac[f].google /\ x.display = fac[f].display
        /\ x.kind = fac[f].kind
    BY <2>1 DEF Facility
  <2>3. fac' = [fac EXCEPT ![f] = x]
    BY <1>4
  <2> HIDE DEF x
  <2>4. LotOf[f] \in raced' \/ Shows(x, f \in inherited')
    BY <1>4, <2>2 DEF GoogleShown, Shows
  <2> QED BY <1>3, <1>4, <2>2, <2>3, <2>4
<1>5. CASE RefreshFindsNothing
  BY <1>4, <1>5 DEF RefreshFindsNothing, RefreshSound
<1>6. CASE Ages
  BY <1>4, <1>6 DEF Ages
<1>7. CASE RefreshOne
  <2> DEFINE f == refresh.facility
  <2> DEFINE x == [fac[f] EXCEPT !.display = refresh.google, !.kind = "BUSINESS", !.synced = TRUE]
  <2>1. /\ f \in Place /\ fac[f] # None /\ refresh.google \in GooglePlace
        /\ fac[f] \in Facility /\ f \in DOMAIN fac /\ refresh' = None
        /\ raced' = IF fac[f].google = refresh.google THEN raced ELSE raced \cup {LotOf[f]}
        /\ doubled' = doubled /\ inherited' = inherited \ {f}
    BY <1>1, <1>7, FacilityTypes DEF RefreshOne, RefreshSound, CatalogueTyped
  <2>2. /\ x \in Facility /\ x.google = fac[f].google /\ x.display = refresh.google
        /\ x.kind = "BUSINESS"
    BY <2>1 DEF Facility, Place
  <2>3. fac' = [fac EXCEPT ![f].display = refresh.google, ![f].kind = "BUSINESS",
                           ![f].synced = TRUE]
    BY <1>7 DEF RefreshOne
  <2>4. fac' = [fac EXCEPT ![f] = x]
    BY <2>1, <2>3
  <2> HIDE DEF x, f
  <2>5. LotOf[f] \in raced' \/ Shows(x, f \in inherited')
    BY <2>1, <2>2 DEF Shows
  <2> QED BY <1>3, <2>1, <2>2, <2>4, <2>5
<1>8. CASE RefreshFails \/ \E f \in Place : Archive(f) \/ Restore(f)
  <2>1. UNCHANGED <<fac, raced, doubled, inherited>> /\ refresh' \in {refresh, None}
    BY <1>8 DEF RefreshFails, Archive, Restore, catalogue
  <2>2. FacilitiesStay
    BY <2>1 DEF FacilitiesStay
  <2> QED BY <1>1, <2>1, <2>2, OthersSound, RefreshStays, DrainMovesKeep
         DEF DrainMoves, CatalogueTyped
<1> QED BY <1>2, <1>5, <1>6, <1>7, <1>8

\* A sweep's drain starts, or a crash takes every drain back to its start.
LEMMA SweepDrainStep ==
  ASSUME ImportInv, (\E late \in BOOLEAN : SweepDrains(late)) \/ Crash
  PROVE  ImportInv' /\ FacilitiesStay
<1>1. /\ CatalogueTyped /\ refresh' \in {refresh, None}
      /\ UNCHANGED <<fac, raced, doubled, inherited>>
  <2>1. ASSUME NEW late \in BOOLEAN, SweepDrains(late)
        PROVE  UNCHANGED <<catalogue, refresh>>
    BY Zenon, <2>1 DEF SweepDrains
  <2>2. ASSUME Crash PROVE UNCHANGED catalogue /\ refresh' = None
    BY Zenon, <2>2 DEF Crash
  <2> QED BY <2>1, <2>2 DEF ImportInv, catalogue
<1>2. FacilitiesStay
  BY <1>1 DEF FacilitiesStay
<1>3. CASE \E late \in BOOLEAN : SweepDrains(late)
  <2>1. drain' = [drain EXCEPT !["sweep"].st = "read"]
    BY Zenon, <1>3 DEF SweepDrains
  <2>2. /\ drain["sweep"] = [st |-> drain["sweep"].st, rows |-> drain["sweep"].rows,
                             at |-> drain["sweep"].at]
        /\ drain["promote"] = [st |-> drain["promote"].st, rows |-> drain["promote"].rows,
                               at |-> drain["promote"].at]
        /\ DOMAIN drain = {"sweep", "promote"}
    BY <1>1 DEF CatalogueTyped, Drainer
  <2>3. drain'["sweep"] = [drain["sweep"] EXCEPT !.st = "read"]
    BY <2>1, <2>2
  <2>4. drain'["sweep"] =
          [[st |-> drain["sweep"].st, rows |-> drain["sweep"].rows, at |-> drain["sweep"].at]
             EXCEPT !.st = "read"]
    BY <2>2, <2>3
  <2>5. /\ drain'["sweep"] = [st |-> "read", rows |-> drain["sweep"].rows,
                              at |-> drain["sweep"].at]
        /\ drain'["promote"] = drain["promote"] /\ drain' = [d \in Drainer |-> drain'[d]]
    BY <2>1, <2>2, <2>4 DEF Drainer
  <2>6. \A d \in Drainer : DrainSound(d)'
    BY <1>1, <2>5 DEF ImportInv, DrainSound, Resolved, Drainer
  <2>7. \A d \in Drainer : drain'[d] = [st |-> drain'[d].st, rows |-> drain'[d].rows,
                                          at |-> drain'[d].at]
    BY <2>2, <2>5 DEF Drainer
  <2> QED BY <1>1, <1>2, <2>5, <2>6, <2>7, RefreshStays, DrainMovesKeep DEF DrainMoves
<1>4. CASE Crash
  <2>1. drain' = [d \in Drainer |->
                    IF d = "promote" /\ drain[d].st # "off"
                    THEN [NoDrain EXCEPT !.st = "read"] ELSE NoDrain]
    BY Zenon, <1>4 DEF Crash
  <2>2. [NoDrain EXCEPT !.st = "read"] = [st |-> "read", rows |-> {}, at |-> None]
    BY DEF NoDrain
  <2>3. \A d \in Drainer :
          /\ drain'[d].st \in {"read", "off"}
          /\ drain'[d] = [st |-> drain'[d].st, rows |-> drain'[d].rows, at |-> drain'[d].at]
    BY <2>1, <2>2 DEF NoDrain
  <2>4. drain' = [d \in Drainer |-> drain'[d]]
    BY <2>1
  <2>5. \A d \in Drainer : DrainSound(d)'
    BY <2>3 DEF DrainSound
  <2> QED BY <1>1, <1>2, <2>3, <2>4, <2>5, RefreshStays, DrainMovesKeep DEF DrainMoves
<1> QED BY <1>3, <1>4

LEMMA PipelineStep ==
  ASSUME ImportInv,
         \/ IngestRegion \/ EnqueueSweep \/ SweepEnqueues \/ SweepFails \/ Changes
         \/ \E t \in Tile : Worker(t) \/ FetchFails(t)
         \/ UNCHANGED ingestionVars
  PROVE  ImportInv' /\ FacilitiesStay
<1>1. UNCHANGED <<fac, raced, doubled, inherited, drain, refresh>>
  <2>1. ASSUME NEW t \in Tile, Worker(t) \/ FetchFails(t)
        PROVE  UNCHANGED <<catalogue, drain, refresh>>
    BY ZenonT(60), <2>1 DEF Worker, FetchFails, OverpassFetch, GoogleFetch, StoreElement,
                StorePlace, EnqueueGoogleSubtiles, Fetched, Acknowledge
  <2>2. ASSUME IngestRegion \/ EnqueueSweep \/ SweepEnqueues \/ SweepFails \/ Changes
        PROVE  UNCHANGED <<catalogue, drain, refresh>>
    BY Zenon, <2>2 DEF IngestRegion, EnqueueSweep, SweepEnqueues, SweepFails, Changes
  <2>3. ASSUME UNCHANGED ingestionVars PROVE UNCHANGED <<catalogue, drain, refresh>>
    BY <2>3 DEF ingestionVars, catalogue
  <2> QED BY <2>1, <2>2, <2>3 DEF catalogue
<1>2. FacilitiesStay
  BY <1>1 DEF FacilitiesStay
<1> QED BY <1>1, <1>2, OthersSound, RefreshStays, DrainMovesKeep DEF ImportInv, DrainMoves, CatalogueTyped

LEMMA ImportInit == ASSUME IngestionInit PROVE ImportInv
<1>1. /\ fac \in [Place -> UNION {Importable(p) : p \in Place}] /\ Imported(fac)
      /\ inherited = {f \in Place : fac[f] # None /\ fac[f].google # None}
  BY DEF IngestionInit
<1>2. None \notin Facility /\ None \notin Place
  BY NoneAssumption, PlacesAssumption
<1>3. ASSUME NEW p \in Place, fac[p] # None
      PROVE  /\ fac[p] \in Facility
             /\ fac[p].google # None => fac[p].display = fac[p].google
  <2>1. fac[p] \in Importable(p)
    BY <1>1 DEF Imported
  <2>2. PICK g \in GooglePlace \cup {None} : fac[p] = Unclassified(p, g)
    BY <1>3, <2>1 DEF Importable, Place
  <2>3. CASE g = None
    BY <1>2, <2>2, <2>3 DEF Unclassified, Facility
  <2>4. CASE g # None
    BY <1>2, <2>2, <2>4 DEF Unclassified, Facility, Place
  <2> QED BY <2>3, <2>4
<1>4. CatalogueTyped /\ RefreshSound /\ \A d \in Drainer : DrainSound(d)
  <2>1. drain = [d \in Drainer |-> NoDrain] /\ refresh = None
    BY DEF IngestionInit
  <2>2. fac \in [Place -> Facility \cup {None}]
    BY <1>1, <1>3
  <2> QED BY <2>1, <2>2 DEF CatalogueTyped, RefreshSound, DrainSound, NoDrain
<1>5. \A f \in Place : GoogleShown(f)
  BY <1>1, <1>3 DEF GoogleShown, Shows
<1>6. \A p \in Place : OneEach(LotOf[p])
  BY <1>1 DEF Imported, OneEach, FacilitiesOf
<1> QED BY <1>4, <1>5, <1>6 DEF ImportInv

LEMMA ImportStep == ASSUME ImportInv, [IngestionNext]_ingestionVars PROVE ImportInv' /\ FacilitiesStay
<1>1. "sweep" \in Drainer /\ "promote" \in Drainer
  BY DEF Drainer
<1>2. ASSUME NEW d \in Drainer, Promotion(d) \/ PromotionFails(d) PROVE ImportInv' /\ FacilitiesStay
  BY <1>2, ResolveStep, WriteStep DEF Promotion
<1>3. CASE EnqueuePromotion \/ EnqueueReclassify \/ Reclassify
  BY <1>3, KindsStep
<1>4. CASE \/ RefreshReads \/ RefreshFindsNothing \/ RefreshOne \/ RefreshFails \/ Ages
           \/ \E f \in Place : Archive(f) \/ Restore(f)
  BY <1>4, RefreshStep
<1>5. CASE (\E late \in BOOLEAN : SweepDrains(late)) \/ Crash
  BY <1>5, SweepDrainStep
<1>6. CASE \/ IngestRegion \/ EnqueueSweep \/ SweepEnqueues \/ SweepFails \/ Changes
           \/ \E t \in Tile : Worker(t) \/ FetchFails(t)
           \/ UNCHANGED ingestionVars
  BY <1>6, PipelineStep
<1> QED BY <1>1, <1>2, <1>3, <1>4, <1>5, <1>6 DEF IngestionNext, SweepStep

LEMMA ImportHolds == IngestionSpec => []ImportInv
<1>1. IngestionInit => ImportInv
  BY ImportInit
<1>2. ImportInv /\ [IngestionNext]_ingestionVars => ImportInv'
  BY ImportStep
<1> QED BY <1>1, <1>2, PTL DEF IngestionSpec

\* A facility with a Google id shows Google's fields and is a business, whatever order its
\* sources are drained in, refreshed, reclassified, archived and restored; unless a writer's
\* reading of its lot was overtaken, and but for the kind of one synced before the
\* classification, which stays unknown or takes OSM's until Google is asked again.
THEOREM GoogleAlwaysWins ==
  IngestionSpec => []GoogleWins
<1>1. ImportInv => GoogleWins
  BY DEF ImportInv, GoogleShown, Shows, GoogleWins
<1> QED BY <1>1, ImportHolds, PTL

\* One lot is one facility, archived or not, and none beside an operator's own, unless two
\* drains created it at once or the duplicate that was found was an archived one.
THEOREM OneFacilityAlways ==
  IngestionSpec => []OneFacilityPerLot
<1>1. ImportInv => OneFacilityPerLot
  BY DEF ImportInv, OneEach, OneFacilityPerLot
<1> QED BY <1>1, ImportHolds, PTL
-----------------------------------------------------------------------------
(* The tree of tiles.                                                       *)

\* A set of naturals has a least element.
LEMMA LeastElement ==
  ASSUME NEW T \in SUBSET Nat, T # {}
  PROVE  \E x \in T : \A y \in T : x <= y
<1> DEFINE R == OpToRel(<, Nat)
<1>1. IsWellFoundedOn(R, Nat)
  BY NatLessThanWellFounded
<1>2. ASSUME NEW x \in Nat, NEW y \in Nat, y < x PROVE <<y, x>> \in R
  BY <1>2 DEF OpToRel
<1> HIDE DEF R
<1>3. PICK x \in T : \A y \in T : <<y, x>> \notin R
  BY <1>1, WFMin
<1>4. ASSUME NEW y \in T PROVE x <= y
  <2>1. x \in Nat /\ y \in Nat
    BY <1>3
  <2>2. ~ (y < x)
    BY <1>2, <1>3, <2>1, Zenon
  <2> QED BY <2>1, <2>2
<1> QED BY <1>3, <1>4

\* A set with 0 and all successors is all of Nat.
LEMMA InductSet ==
  ASSUME NEW S \in SUBSET Nat, 0 \in S, \A n \in S : n + 1 \in S
  PROVE  S = Nat
<1>1. SUFFICES ASSUME Nat \ S # {} PROVE FALSE
  OBVIOUS
<1>2. PICK x \in Nat \ S : \A y \in Nat \ S : x <= y
  BY <1>1, LeastElement
<1>3. x # 0 /\ x - 1 \in Nat
  BY <1>2
<1>4. x - 1 \in S
  BY <1>2, <1>3
<1> QED BY <1>2, <1>3, <1>4

\* The levels of the tree, down to the n-th.
Roots == UNION {GoogleTiles(r) : r \in Region}
Below(ts) == UNION {Subtiles(t) : t \in ts}
Unfolds(f, n) == \A k \in 0 .. n : f[k] = IF k = 0 THEN Roots ELSE Below(f[k - 1])
Levels(f) == f = [k \in 0 .. MaxDepth |-> IF k = 0 THEN Roots ELSE Below(f[k - 1])]

LEMMA LevelsExist == ASSUME MaxDepth \in Nat PROVE \E f : Levels(f)
<1> DEFINE N == {n \in Nat : \E f : Unfolds(f, n)}
<1>1. 0 \in N
  <2> DEFINE f == [k \in {0} |-> Roots]
  <2>1. Unfolds(f, 0)
    BY DEF Unfolds
  <2> QED BY <2>1
<1>2. ASSUME NEW n \in N PROVE n + 1 \in N
  <2>1. PICK f : Unfolds(f, n)
    BY <1>2
  <2> DEFINE h == [k \in 0 .. (n + 1) |-> IF k <= n THEN f[k] ELSE Below(f[n])]
  <2>2. ASSUME NEW k \in 0 .. (n + 1) PROVE h[k] = IF k = 0 THEN Roots ELSE Below(h[k - 1])
    <3>1. CASE k <= n
      <4>1. k # 0 => h[k - 1] = f[k - 1]
        BY <3>1
      <4> QED BY <2>1, <3>1, <4>1 DEF Unfolds
    <3>2. CASE ~(k <= n)
      <4>1. k = n + 1 /\ h[k] = Below(f[n]) /\ h[n] = f[n]
        BY <3>2
      <4> QED BY <4>1
    <3> QED BY <3>1, <3>2
  <2> HIDE DEF h
  <2>3. Unfolds(h, n + 1)
    BY <2>2 DEF Unfolds
  <2> QED BY <2>3
<1>3. N \in SUBSET Nat
  OBVIOUS
<1> HIDE DEF N
<1>4. N = Nat
  BY <1>1, <1>2, <1>3, InductSet
<1>5. PICK f : Unfolds(f, MaxDepth)
  BY <1>4 DEF N
<1> DEFINE h == [k \in 0 .. MaxDepth |-> f[k]]
<1>6. h = [k \in 0 .. MaxDepth |-> IF k = 0 THEN Roots ELSE Below(h[k - 1])]
  BY <1>5 DEF Unfolds
<1> HIDE DEF h
<1> QED BY <1>6 DEF Levels

LEMMA TreeLevels ==
  ASSUME MaxDepth \in Nat
  PROVE  /\ GoogleTree[0] = Roots
         /\ \A k \in 0 .. MaxDepth : k # 0 => GoogleTree[k] = Below(GoogleTree[k - 1])
<1> DEFINE g == CHOOSE f : Levels(f)
<1>1. GoogleTree = g
  BY DEF GoogleTree, Levels, Roots, Below
<1>2. Levels(g)
  BY LevelsExist
<1> HIDE DEF g
<1>3. \A k \in 0 .. MaxDepth : g[k] = IF k = 0 THEN Roots ELSE Below(g[k - 1])
  BY <1>2 DEF Levels
<1> QED BY <1>1, <1>3
-----------------------------------------------------------------------------
(* The geometry of tiles.                                                   *)

IsBox(b) == b.south \in Nat /\ b.west \in Nat /\ b.north \in Nat /\ b.east \in Nat
OwnTiles(r) == OsmTiles(r) \cup GoogleTiles(r)

LEMMA ProductNat ==
  ASSUME NEW a \in Nat, NEW b \in Nat
  PROVE  a * b \in Nat
  OBVIOUS

LEMMA ProductGrows ==
  ASSUME NEW a \in Nat, NEW c \in Nat, NEW b \in Nat, a <= c
  PROVE  a * b <= c * b
<1>1. PICK e \in Nat : c = a + e
  <2>1. c - a \in Nat /\ c = a + (c - a)
    OBVIOUS
  <2> QED BY <2>1
<1>2. c * b = a * b + e * b
  BY <1>1
<1>3. e * b \in Nat /\ a * b \in Nat
  BY ProductNat
<1> QED BY <1>2, <1>3

\* A point of a side of a region lies in one of the lanes the side is cut into.
LEMMA LaneOf ==
  ASSUME NEW x \in Nat, NEW len \in Nat, x < len, NEW deg \in Nat \ {0}
  PROVE  \E q \in 0 .. Steps(len, deg) - 1 : q * deg <= x /\ x < (q + 1) * deg
<1>1. CASE len <= deg
  <2>1. Steps(len, deg) = 1 /\ 0 \in 0 .. Steps(len, deg) - 1
    BY <1>1 DEF Steps
  <2>2. 0 * deg = 0 /\ (0 + 1) * deg = deg
    OBVIOUS
  <2> QED BY <1>1, <2>1, <2>2
<1>2. CASE len > deg
  <2> DEFINE c == (len + deg - 1) \div deg
             q == x \div deg
  <2>1. Steps(len, deg) = c
    BY <1>2 DEF Steps, Ceiling
  <2>2. /\ c \in Int /\ len + deg - 1 = deg * c + ((len + deg - 1) % deg)
        /\ (len + deg - 1) % deg \in 0 .. deg - 1
    <3>1. len + deg - 1 \in Nat
      OBVIOUS
    <3> QED BY <3>1
  <2>3. q \in Nat /\ x = deg * q + (x % deg) /\ x % deg \in 0 .. deg - 1
    OBVIOUS
  <2> HIDE DEF c, q
  <2>4. deg * c = c * deg /\ deg * q = q * deg /\ (q + 1) * deg = q * deg + deg
    BY <2>2, <2>3
  <2>5. c * deg \in Int /\ q * deg \in Int
    BY <2>2, <2>3
  <2>6. q * deg <= x /\ x < (q + 1) * deg /\ len <= c * deg
    BY <2>2, <2>3, <2>4, <2>5
  <2>7. ~ (c <= q)
    <3> SUFFICES ASSUME c <= q PROVE FALSE
      OBVIOUS
    <3>1. c \in Nat
      <4> SUFFICES ASSUME c < 0 PROVE FALSE
        BY <2>2
      <4>1. 0 - c \in Nat /\ (0 - c) * deg = 0 - c * deg
        BY <2>2
      <4>2. (0 - c) * deg \in Nat
        BY <4>1, ProductNat
      <4> QED BY <4>1, <4>2, <2>5, <2>6
    <3>2. c * deg <= q * deg
      BY <2>3, <3>1, ProductGrows
    <3> QED BY <3>2, <2>5, <2>6
  <2>8. q \in 0 .. c - 1
    BY <2>2, <2>3, <2>7
  <2> QED BY <2>1, <2>6, <2>8
<1> QED BY <1>1, <1>2

\* The boxes a box is cut into are boxes, and every cell of it lies in one.
LEMMA SplitBoxes ==
  ASSUME NEW b, IsBox(b), NEW deg \in Nat \ {0}, NEW c \in SplitBoundingBox(b, deg)
  PROVE  IsBox(c)
<1>1. PICK i \in 0 .. Steps(b.north - b.south, deg) - 1,
           j \in 0 .. Steps(b.east - b.west, deg) - 1 :
        c = [south |-> b.south + i * deg,
             north |-> Least(b.south + (i + 1) * deg, b.north),
             west |-> b.west + j * deg,
             east |-> Least(b.west + (j + 1) * deg, b.east)]
  BY DEF SplitBoundingBox
<1>2. i \in Nat /\ j \in Nat
  OBVIOUS
<1>3. i * deg \in Nat /\ (i + 1) * deg \in Nat /\ j * deg \in Nat /\ (j + 1) * deg \in Nat
  BY <1>2, ProductNat
<1> QED BY <1>1, <1>3 DEF IsBox, Least

LEMMA SplitCovers ==
  ASSUME NEW b, IsBox(b), NEW deg \in Nat \ {0}, NEW p \in Place,
         At[p].lat \in Nat, At[p].lng \in Nat, Holds(b, p)
  PROVE  \E c \in SplitBoundingBox(b, deg) : Holds(c, p)
<1> DEFINE y == At[p].lat - b.south
           x == At[p].lng - b.west
           h == b.north - b.south
           w == b.east - b.west
<1>1. y \in Nat /\ x \in Nat /\ h \in Nat /\ w \in Nat /\ y < h /\ x < w
  BY DEF IsBox, Holds
<1>2. At[p].lat = b.south + y /\ At[p].lng = b.west + x
  BY DEF IsBox
<1>3. PICK i \in 0 .. Steps(h, deg) - 1 : i * deg <= y /\ y < (i + 1) * deg
  BY <1>1, LaneOf
<1>4. PICK j \in 0 .. Steps(w, deg) - 1 : j * deg <= x /\ x < (j + 1) * deg
  BY <1>1, LaneOf
<1> DEFINE c == [south |-> b.south + i * deg,
                 north |-> Least(b.south + (i + 1) * deg, b.north),
                 west |-> b.west + j * deg,
                 east |-> Least(b.west + (j + 1) * deg, b.east)]
<1>5. c \in SplitBoundingBox(b, deg)
  BY DEF SplitBoundingBox
<1>6. i * deg \in Nat /\ (i + 1) * deg \in Nat /\ j * deg \in Nat /\ (j + 1) * deg \in Nat
  <2>1. i \in Nat /\ j \in Nat
    OBVIOUS
  <2> QED BY <2>1, ProductNat
<1>7. Holds(c, p)
  <2>1. c.south <= At[p].lat /\ c.west <= At[p].lng
    BY <1>1, <1>2, <1>3, <1>4, <1>6 DEF IsBox
  <2>2. At[p].lat < c.north /\ At[p].lng < c.east
    BY <1>1, <1>2, <1>3, <1>4, <1>6 DEF IsBox, Least, Holds
  <2> QED BY <2>1, <2>2 DEF Holds
<1> HIDE DEF c
<1> QED BY <1>5, <1>7

\* So are quadrants.
LEMMA QuadrantBoxes ==
  ASSUME NEW b, IsBox(b)
  PROVE  /\ \A c \in Quadrants(b) : IsBox(c)
         /\ \A p \in Place : /\ At[p].lat \in Nat /\ At[p].lng \in Nat /\ Holds(b, p)
                               => \E c \in Quadrants(b) : Holds(c, p)
<1> DEFINE lat == (b.south + b.north) \div 2
           lng == (b.west + b.east) \div 2
           Box(s, w, n, e) == [south |-> s, west |-> w, north |-> n, east |-> e]
<1>1. lat \in Nat /\ lng \in Nat
  BY DEF IsBox
<1>2. Quadrants(b) = {Box(b.south, b.west, lat, lng), Box(b.south, lng, lat, b.east),
                        Box(lat, b.west, b.north, lng), Box(lat, lng, b.north, b.east)}
  BY DEF Quadrants
<1> HIDE DEF lat, lng
<1>3. ASSUME NEW c \in Quadrants(b) PROVE IsBox(c)
  BY <1>1, <1>2 DEF IsBox
<1>4. ASSUME NEW p \in Place, At[p].lat \in Nat, At[p].lng \in Nat, Holds(b, p)
      PROVE  \E c \in Quadrants(b) : Holds(c, p)
  <2>1. CASE At[p].lat < lat /\ At[p].lng < lng
    BY <1>2, <1>4, <2>1 DEF Holds
  <2>2. CASE At[p].lat < lat /\ lng <= At[p].lng
    BY <1>2, <1>4, <2>2 DEF Holds
  <2>3. CASE lat <= At[p].lat /\ At[p].lng < lng
    BY <1>2, <1>4, <2>3 DEF Holds
  <2>4. CASE lat <= At[p].lat /\ lng <= At[p].lng
    BY <1>2, <1>4, <2>4 DEF Holds
  <2> QED BY <1>1, <1>4, <2>1, <2>2, <2>3, <2>4
<1> QED BY <1>3, <1>4

\* Every tile of the tree is one of Google's; a tile's quadrants are a level deeper.
LEMMA TreeTiles == \A k \in 0 .. MaxDepth : \A t \in GoogleTree[k] : t.source = "GOOGLE" /\ IsBox(t.box)
<1> DEFINE Sound(ts) == \A t \in ts : t.source = "GOOGLE" /\ IsBox(t.box)
           N == {k \in Nat : k <= MaxDepth => Sound(GoogleTree[k])}
<1>0. MaxDepth \in Nat /\ TileDegrees \in Nat \ {0} /\ GoogleDegrees \in Nat \ {0}
  BY BoundsAssumption
<1>1. 0 \in N
  <2>1. Least(TileDegrees, GoogleDegrees) \in Nat \ {0}
    BY <1>0 DEF Least
  <2>2. ASSUME NEW r \in Region, NEW t \in GoogleTiles(r) PROVE t.source = "GOOGLE" /\ IsBox(t.box)
    <3>1. IsBox(r)
      BY GridAssumption DEF IsBox
    <3>2. PICK b \in SplitBoundingBox(r, Least(TileDegrees, GoogleDegrees)) :
            t = [source |-> "GOOGLE", box |-> b]
      BY <2>2 DEF GoogleTiles
    <3>3. IsBox(b)
      BY <2>1, <3>1, SplitBoxes
    <3> QED BY <3>2, <3>3
  <2>3. Sound(Roots)
    BY <2>2 DEF Roots
  <2> QED BY <1>0, <2>3, TreeLevels
<1>2. ASSUME NEW n \in N PROVE n + 1 \in N
  <2> SUFFICES ASSUME n + 1 <= MaxDepth PROVE Sound(GoogleTree[n + 1])
    OBVIOUS
  <2>1. n + 1 \in 0 .. MaxDepth /\ n + 1 # 0 /\ (n + 1) - 1 = n /\ n \in Nat /\ n <= MaxDepth
    BY <1>0
  <2>2. GoogleTree[n + 1] = Below(GoogleTree[n])
    BY <1>0, <2>1, TreeLevels
  <2>3. ASSUME NEW u \in GoogleTree[n], NEW t \in Subtiles(u)
        PROVE  t.source = "GOOGLE" /\ IsBox(t.box)
    <3>1. IsBox(u.box)
      BY <1>2, <2>1
    <3>2. PICK b \in Quadrants(u.box) : t = [source |-> "GOOGLE", box |-> b]
      BY DEF Subtiles
    <3>3. IsBox(b)
      BY <3>1, QuadrantBoxes
    <3> QED BY <3>2, <3>3
  <2> QED BY <2>2, <2>3 DEF Below
<1>3. N \in SUBSET Nat
  OBVIOUS
<1> HIDE DEF N
<1>4. N = Nat
  BY <1>1, <1>2, <1>3, InductSet
<1> QED BY <1>0, <1>4 DEF N

LEMMA TreeInTile ==
  ASSUME NEW k \in 0 .. MaxDepth
  PROVE  GoogleTree[k] \subseteq Tile
BY DEF Tile

LEMMA SubtilesDeeper ==
  ASSUME NEW k \in 0 .. MaxDepth, k < MaxDepth, NEW t \in GoogleTree[k]
  PROVE  k + 1 \in 0 .. MaxDepth /\ Subtiles(t) \subseteq GoogleTree[k + 1]
<1>1. MaxDepth \in Nat /\ k + 1 \in 0 .. MaxDepth /\ k + 1 # 0 /\ (k + 1) - 1 = k
  BY BoundsAssumption
<1>2. GoogleTree[k + 1] = Below(GoogleTree[k])
  BY <1>1, TreeLevels
<1> QED BY <1>1, <1>2 DEF Below

\* A tile too small to be cut, its own quadrant, reaches the depth floor itself.
LEMMA OwnQuadrant ==
  ASSUME NEW k \in 0 .. MaxDepth, NEW t \in GoogleTree[k], t \in Subtiles(t)
  PROVE  t \in GoogleTree[MaxDepth]
<1> DEFINE N == {n \in Nat : k + n <= MaxDepth => t \in GoogleTree[k + n]}
<1>0. MaxDepth \in Nat
  BY BoundsAssumption
<1>1. 0 \in N
  OBVIOUS
<1>2. ASSUME NEW n \in N PROVE n + 1 \in N
  <2> SUFFICES ASSUME k + (n + 1) <= MaxDepth PROVE t \in GoogleTree[k + (n + 1)]
    OBVIOUS
  <2>1. /\ n \in Nat /\ k + n \in 0 .. MaxDepth /\ k + n < MaxDepth /\ k + (n + 1) = (k + n) + 1
    BY <1>0
  <2>2. t \in GoogleTree[k + n]
    BY <2>1
  <2>3. Subtiles(t) \subseteq GoogleTree[(k + n) + 1]
    BY <2>1, <2>2, SubtilesDeeper
  <2> QED BY <2>1, <2>3
<1>3. N \in SUBSET Nat
  OBVIOUS
<1> HIDE DEF N
<1>4. N = Nat
  BY <1>1, <1>2, <1>3, InductSet
<1>5. PICK n \in Nat : n = MaxDepth - k
  BY <1>0
<1>6. k + n = MaxDepth /\ n \in N
  BY <1>0, <1>4, <1>5
<1> QED BY <1>0, <1>6 DEF N

\* A region's own tiles are tiles, Google's at the top of the tree.
LEMMA RegionTiles ==
  ASSUME NEW r \in Region, NEW t \in OwnTiles(r)
  PROVE  /\ t \in Tile /\ t.source \in {"OSM", "GOOGLE"}
         /\ t.source = "GOOGLE" => t \in GoogleTree[0]
<1>1. MaxDepth \in Nat /\ 0 \in 0 .. MaxDepth /\ GoogleTree[0] = Roots
  BY TreeLevels, BoundsAssumption
<1>2. CASE t \in OsmTiles(r)
  <2>1. t.source = "OSM"
    BY <1>2 DEF OsmTiles
  <2> QED BY <1>2, <2>1 DEF Tile
<1>3. CASE t \in GoogleTiles(r)
  <2>1. t.source = "GOOGLE"
    BY <1>3 DEF GoogleTiles
  <2>2. t \in GoogleTree[0]
    BY <1>1, <1>3 DEF Roots
  <2> QED BY <1>1, <2>1, <2>2, TreeInTile
<1> QED BY <1>2, <1>3 DEF OwnTiles

LEMMA TileKinds ==
  ASSUME NEW t \in Tile
  PROVE  t.source \in {"OSM", "GOOGLE"} /\ IsBox(t.box)
<1>1. CASE t \in UNION {OsmTiles(r) : r \in Region}
  <2>1. PICK r \in Region : t \in OsmTiles(r)
    BY <1>1
  <2>2. PICK b \in SplitBoundingBox(r, TileDegrees) : t = [source |-> "OSM", box |-> b]
    BY <2>1 DEF OsmTiles
  <2>3. IsBox(r) /\ TileDegrees \in Nat \ {0}
    BY GridAssumption, BoundsAssumption DEF IsBox
  <2>4. IsBox(b)
    BY <2>3, SplitBoxes
  <2> QED BY <2>2, <2>4
<1>2. CASE \E k \in 0 .. MaxDepth : t \in GoogleTree[k]
  BY <1>2, TreeTiles
<1> QED BY <1>1, <1>2 DEF Tile

\* Every place of a region lies in a tile of its source, and every place of a tile that
\* is split in a quadrant.
LEMMA RegionCovered ==
  ASSUME NEW r \in Region, NEW p \in Place, Holds(r, p)
  PROVE  \E t \in OwnTiles(r) : p \in Within(t)
<1>1. /\ IsBox(r) /\ At[p].lat \in Nat /\ At[p].lng \in Nat
      /\ TileDegrees \in Nat \ {0} /\ Least(TileDegrees, GoogleDegrees) \in Nat \ {0}
  BY GridAssumption, BoundsAssumption DEF IsBox, Least
<1>2. CASE p \in OsmPlace
  <2>1. PICK b \in SplitBoundingBox(r, TileDegrees) : Holds(b, p)
    BY <1>1, SplitCovers
  <2> DEFINE t == [source |-> "OSM", box |-> b]
  <2>2. t \in OsmTiles(r) /\ p \in Within(t)
    BY <1>2, <2>1 DEF OsmTiles, Within
  <2> HIDE DEF t
  <2> QED BY <2>2 DEF OwnTiles
<1>3. CASE p \in GooglePlace
  <2>1. PICK b \in SplitBoundingBox(r, Least(TileDegrees, GoogleDegrees)) : Holds(b, p)
    BY <1>1, SplitCovers
  <2> DEFINE t == [source |-> "GOOGLE", box |-> b]
  <2>2. t \in GoogleTiles(r) /\ p \in Within(t)
    BY <1>3, <2>1 DEF GoogleTiles, Within
  <2> HIDE DEF t
  <2> QED BY <2>2 DEF OwnTiles
<1> QED BY <1>2, <1>3 DEF Place

LEMMA QuadrantOver ==
  ASSUME NEW t \in Tile, t.source = "GOOGLE", NEW p \in Within(t)
  PROVE  \E u \in Subtiles(t) : p \in Within(u)
<1>1. /\ IsBox(t.box) /\ p \in GooglePlace /\ p \in Place /\ Holds(t.box, p)
      /\ At[p].lat \in Nat /\ At[p].lng \in Nat
  BY TileKinds, GridAssumption DEF Within, Place
<1>2. PICK b \in Quadrants(t.box) : Holds(b, p)
  BY <1>1, QuadrantBoxes
<1> DEFINE u == [source |-> "GOOGLE", box |-> b]
<1>3. u \in Subtiles(t) /\ p \in Within(u)
  BY <1>1, <1>2 DEF Subtiles, Within
<1> HIDE DEF u
<1> QED BY <1>3

\* A tile over a place of a region overlaps the region.
LEMMA WithinOverlaps ==
  ASSUME NEW t \in Tile, NEW p \in Within(t), NEW r \in Region, Holds(r, p)
  PROVE  Overlaps(t.box, r)
<1>1. IsBox(t.box) /\ IsBox(r) /\ At[p].lat \in Nat /\ At[p].lng \in Nat /\ Holds(t.box, p)
  BY TileKinds, GridAssumption DEF Within, Place, IsBox
<1> QED BY <1>1 DEF IsBox, Holds, Overlaps

\* Two tiles over one place are of one source.
LEMMA OneSource ==
  ASSUME NEW t \in Tile, NEW u \in Tile, NEW p, p \in Within(t), p \in Within(u)
  PROVE  t.source = u.source
BY TileKinds, PlacesAssumption DEF Within
-----------------------------------------------------------------------------
(* Queues: sequences without repetition.                                    *)

\* Ingestion's finite sets are this module's.
LEMMA FiniteSame ==
  ASSUME NEW S
  PROVE  IsFiniteSet(S) <=> IsFiniteSet(S)
BY DEF IsFiniteSet, IsFiniteSet

LEMMA CardinalitySame ==
  ASSUME NEW S
  PROVE  Cardinality(S) = Cardinality(S)
BY DEF Cardinality, Cardinality

Elems(q) == {q[i] : i \in 1 .. Len(q)}
Distinct(q) == \A i, j \in 1 .. Len(q) : q[i] = q[j] => i = j

LEMMA ListOf ==
  ASSUME NEW S, IsFiniteSet(S)
  PROVE  SetToSeq(S) \in Seq(S) /\ Distinct(SetToSeq(S)) /\ Elems(SetToSeq(S)) \subseteq S
<1> DEFINE n == Cardinality(S)
           q == CHOOSE f \in [1 .. n -> S] : IsInjective(f)
<1>1. n \in Nat /\ ExistsBijection(1 .. n, S)
  BY FS_CardinalityType
<1>2. PICK f \in [1 .. n -> S] : \A i, j \in 1 .. n : f[i] = f[j] => i = j
  <2>1. PICK f : f \in Bijection(1 .. n, S)
    BY <1>1 DEF ExistsBijection
  <2> QED BY <2>1 DEF Bijection, Injection, IsInjective
<1>3. IsInjective(f)
  BY <1>2 DEF IsInjective
<1>4. q \in [1 .. n -> S] /\ IsInjective(q)
  BY <1>2, <1>3
<1>5. SetToSeq(S) = q
  BY CardinalitySame DEF SetToSeq
<1> HIDE DEF q, n
<1>6. q \in Seq(S) /\ Len(q) = n
  BY <1>1, <1>4
<1>7. Distinct(q)
  BY <1>4, <1>6 DEF Distinct, IsInjective
<1> QED BY <1>5, <1>6, <1>7 DEF Elems

LEMMA JoinDistinct ==
  ASSUME NEW S, NEW q \in Seq(S), NEW r \in Seq(S), Distinct(q), Distinct(r),
         Elems(q) \cap Elems(r) = {}
  PROVE  q \o r \in Seq(S) /\ Distinct(q \o r) /\ Elems(q \o r) \subseteq Elems(q) \cup Elems(r)
<1> DEFINE s == q \o r
<1>1. /\ s \in Seq(S) /\ Len(s) = Len(q) + Len(r) /\ Len(q) \in Nat /\ Len(r) \in Nat
      /\ \A i \in 1 .. Len(s) : s[i] = IF i <= Len(q) THEN q[i] ELSE r[i - Len(q)]
  OBVIOUS
<1> HIDE DEF s
<1>2. ASSUME NEW i \in 1 .. Len(s)
      PROVE  \/ i \in 1 .. Len(q) /\ s[i] = q[i] /\ s[i] \in Elems(q)
             \/ i - Len(q) \in 1 .. Len(r) /\ s[i] = r[i - Len(q)] /\ s[i] \in Elems(r)
  BY <1>1 DEF Elems
<1>3. ASSUME NEW i \in 1 .. Len(s), NEW j \in 1 .. Len(s), s[i] = s[j] PROVE i = j
  <2>1. CASE i \in 1 .. Len(q) /\ s[i] = q[i] /\ s[i] \in Elems(q)
    <3>1. j \in 1 .. Len(q) /\ s[j] = q[j]
      BY <1>2, <1>3, <2>1
    <3> QED BY <1>3, <2>1, <3>1 DEF Distinct
  <2>2. CASE i - Len(q) \in 1 .. Len(r) /\ s[i] = r[i - Len(q)] /\ s[i] \in Elems(r)
    <3>1. j - Len(q) \in 1 .. Len(r) /\ s[j] = r[j - Len(q)]
      BY <1>2, <1>3, <2>2
    <3>2. i - Len(q) = j - Len(q)
      BY <1>3, <2>2, <3>1 DEF Distinct
    <3> QED BY <1>1, <3>2
  <2> QED BY <1>2, <2>1, <2>2
<1>4. Elems(s) \subseteq Elems(q) \cup Elems(r)
  BY <1>2 DEF Elems
<1> QED BY <1>1, <1>3, <1>4 DEF s, Distinct

LEMMA TailDistinct ==
  ASSUME NEW S, NEW q \in Seq(S), Distinct(q), q # <<>>
  PROVE  /\ Tail(q) \in Seq(S) /\ Distinct(Tail(q)) /\ Head(q) \in Elems(q)
         /\ Elems(Tail(q)) \subseteq Elems(q) \ {Head(q)}
<1>1. /\ Len(q) \in Nat \ {0} /\ Head(q) = q[1] /\ Tail(q) \in Seq(S) /\ Len(Tail(q)) = Len(q) - 1
      /\ \A i \in 1 .. Len(Tail(q)) : Tail(q)[i] = q[i + 1]
  OBVIOUS
<1>2. \A i \in 1 .. Len(Tail(q)) : i + 1 \in 1 .. Len(q) /\ i + 1 # 1
  BY <1>1
<1>3. Head(q) \in Elems(q) /\ 1 \in 1 .. Len(q)
  BY <1>1 DEF Elems
<1>4. Distinct(Tail(q))
  BY <1>1, <1>2 DEF Distinct
<1>5. ASSUME NEW i \in 1 .. Len(Tail(q)) PROVE Tail(q)[i] \in Elems(q) \ {Head(q)}
  <2>1. Tail(q)[i] = q[i + 1] /\ i + 1 \in 1 .. Len(q) /\ i + 1 # 1
    BY <1>1, <1>2
  <2>2. q[i + 1] # q[1]
    BY <1>3, <2>1 DEF Distinct
  <2> QED BY <1>1, <2>1, <2>2 DEF Elems
<1> QED BY <1>1, <1>3, <1>4, <1>5 DEF Elems

LEMMA AppendDistinct ==
  ASSUME NEW S, NEW q \in Seq(S), NEW x \in S, Distinct(q), x \notin Elems(q)
  PROVE  Append(q, x) \in Seq(S) /\ Distinct(Append(q, x)) /\ Elems(Append(q, x)) \subseteq Elems(q) \cup {x}
<1> DEFINE s == Append(q, x)
<1>1. /\ s \in Seq(S) /\ Len(s) = Len(q) + 1 /\ Len(q) \in Nat
      /\ \A i \in 1 .. Len(s) : s[i] = IF i <= Len(q) THEN q[i] ELSE x
  OBVIOUS
<1> HIDE DEF s
<1>2. ASSUME NEW i \in 1 .. Len(s)
      PROVE  \/ i \in 1 .. Len(q) /\ s[i] = q[i] /\ s[i] \in Elems(q)
             \/ i = Len(q) + 1 /\ s[i] = x
  BY <1>1 DEF Elems
<1>3. ASSUME NEW i \in 1 .. Len(s), NEW j \in 1 .. Len(s), s[i] = s[j] PROVE i = j
  BY <1>1, <1>2, <1>3 DEF Distinct
<1>4. Elems(s) \subseteq Elems(q) \cup {x}
  BY <1>2 DEF Elems
<1> QED BY <1>1, <1>3, <1>4 DEF s, Distinct
-----------------------------------------------------------------------------
(* What a sweep that waits for its tiles has.                               *)

\* The rows of raw places, and what the drains hold of them.
RawTyped ==
  /\ raw \in [Place -> RawPlace \cup {None}]
  /\ world \in [Place -> UNION {Content(p) : p \in Place}]
  /\ \A p \in Place : world[p] \in Content(p)
RowsLanded ==
  \A d \in Drainer :
    /\ drain[d].st \in {"rows", "write"} => \A row \in drain[d].rows : raw[row.place] # None
    /\ drain[d].st = "write" => raw[drain[d].at.row.place] # None

\* The rows and jobs of tiles: no two fetches of one source at once, a job of Google's at
\* the level of its tile, a split into its quadrants, and one entry of the queue at most
\* for a job, which waits.
Job == [st : {"none", "wait", "run", "done"}, depth : 0 .. MaxDepth, tries : Nat,
        found : SUBSET Place, left : SUBSET Tile]
Working(t) == job[t].st \in {"run", "done"}
OneFetch == \A t, u \in Tile : Working(t) /\ Working(u) /\ t.source = u.source => t = u
AtLevel(t) == t.source = "GOOGLE" /\ job[t].st # "none" => t \in GoogleTree[job[t].depth]
Splitting(t) ==
  job[t].left # {} => /\ job[t].left = Subtiles(t) /\ job[t].depth < MaxDepth
                      /\ t.source = "GOOGLE" /\ job[t].st = "run"
Waits(src) == {t \in Tile : t.source = src /\ job[t].st = "wait"}
Queued ==
  /\ queue = [z \in {"OSM", "GOOGLE"} |-> queue[z]]
  /\ \A src \in {"OSM", "GOOGLE"} :
       queue[src] \in Seq(Tile) /\ Distinct(queue[src]) /\ Elems(queue[src]) \subseteq Waits(src)
PipeSound ==
  /\ tile \in [Tile -> TileStatus \cup {None}] /\ job \in [Tile -> Job]
  /\ OneFetch /\ Queued
  /\ \A t \in Tile : AtLevel(t) /\ Splitting(t)

\* A place under a tile that has a row has landed, or is under a crowded tile at the depth
\* floor, or under a tile that is still to be fetched or has failed; and while a tile is
\* fetched, its row apart, or among what the fetch has found or will enqueue.
OpenStatus == {"PENDING", "FETCHING", "FAILED"}
Answered(p) == raw[p] # None \/ Crowded(p)
OpenOver(p, ts) == \E u \in ts : p \in Within(u) /\ tile[u] \in OpenStatus
Covered ==
  \A t \in Tile : tile[t] \in TileStatus =>
    \A p \in Within(t) : Answered(p) \/ OpenOver(p, Tile)
FetchSound(t) ==
  job[t].st = "run" =>
    \A p \in Within(t) :
      \/ p \in job[t].found \/ Answered(p)
      \/ \E u \in job[t].left \ {t} : p \in Within(u)
      \/ OpenOver(p, Tile \ {t})

\* A sweep has a row for each tile of its regions, but for those it is still to enqueue.
SweepSound ==
  /\ sweep = [st |-> sweep.st, regions |-> sweep.regions, todo |-> sweep.todo, late |-> sweep.late]
  /\ sweep.regions \subseteq Region
  /\ \A t \in sweep.todo : \E r \in Region : t \in OwnTiles(r)
  /\ sweep.st \in {"enqueue", "wait"} =>
       \A r \in sweep.regions : \A t \in OwnTiles(r) : t \in sweep.todo \/ tile[t] \in TileStatus
  /\ sweep.st = "wait" => sweep.todo = {}

LandInv ==
  /\ RawTyped /\ RowsLanded /\ PipeSound /\ Covered /\ SweepSound
  /\ \A t \in Tile : FetchSound(t)

\* What has landed stays, and a row stays a row.
RawStays == \A p \in Place : raw[p] # None => raw'[p] # None

LEMMA RawKept ==
  ASSUME RawTyped, raw' = raw, world' = world
  PROVE  RawTyped' /\ RawStays
BY DEF RawTyped, RawStays

LEMMA RawLanded ==
  ASSUME RawTyped, NEW p \in Place, raw' = Landed(p), world' = world
  PROVE  RawTyped' /\ RawStays
<1> DEFINE x == [content |-> world[p], status |-> "PENDING"]
<1>1. x \in RawPlace /\ None \notin RawPlace
  BY NoneAssumption DEF RawTyped, RawPlace
<1> HIDE DEF x
<1>2. raw' = raw \/ raw' = [raw EXCEPT ![p] = x]
  BY DEF Landed, x
<1> QED BY <1>1, <1>2 DEF RawTyped, RawStays

LEMMA RawMarked ==
  ASSUME RawTyped, NEW p \in Place, raw[p] # None,
         NEW s \in {"PROCESSED", "DUPLICATE", "REJECTED"}, raw' = Marked(p, s), world' = world
  PROVE  RawTyped' /\ RawStays
<1> DEFINE x == [raw[p] EXCEPT !.status = s]
<1>1. raw[p] \in RawPlace /\ None \notin RawPlace
  BY NoneAssumption DEF RawTyped
<1>2. x \in RawPlace
  BY <1>1 DEF RawPlace
<1>3. raw' = [raw EXCEPT ![p] = x]
  BY DEF Marked
<1> HIDE DEF x
<1> QED BY <1>1, <1>2, <1>3 DEF RawTyped, RawStays

LEMMA RowsKept ==
  ASSUME ImportInv, RowsLanded, RawStays,
         \A c \in Drainer : drain'[c].st \in {"read", "off", "kinds"} \/ drain'[c] = drain[c]
  PROVE  RowsLanded'
<1> SUFFICES ASSUME NEW c \in Drainer, drain'[c] = drain[c], drain[c].st \in {"rows", "write"}
             PROVE  /\ \A row \in drain[c].rows : raw'[row.place] # None
                    /\ drain[c].st = "write" => raw'[drain[c].at.row.place] # None
  BY DEF RowsLanded
<1>1. /\ \A row \in drain[c].rows : row.place \in Place /\ raw[row.place] # None
      /\ drain[c].st = "write" => /\ drain[c].at.row.place \in Place
                                  /\ raw[drain[c].at.row.place] # None
  BY DEF ImportInv, DrainSound, Resolved, RowsLanded
<1> QED BY <1>1 DEF RawStays

LEMMA RowsRest ==
  ASSUME ImportInv, RowsLanded, RawStays, NEW d \in Drainer,
         drain[d].st \in {"rows", "write"}, NEW rows, rows \subseteq drain[d].rows,
         drain' = Rest(d, rows)
  PROVE  RowsLanded'
<1>1. DOMAIN drain = Drainer
  BY DEF ImportInv, CatalogueTyped
<1>2. /\ drain'[d].rows = rows /\ drain'[d].st \in {"read", "rows"}
      /\ \A c \in Drainer \ {d} : drain'[c] = drain[c]
  BY <1>1 DEF Rest
<1>3. \A row \in rows : row.place \in Place /\ raw[row.place] # None
  BY DEF ImportInv, DrainSound, RowsLanded
<1>4. ASSUME NEW c \in Drainer \ {d}, drain[c].st \in {"rows", "write"}
      PROVE  /\ \A row \in drain[c].rows : raw'[row.place] # None
             /\ drain[c].st = "write" => raw'[drain[c].at.row.place] # None
  <2>1. /\ \A row \in drain[c].rows : row.place \in Place /\ raw[row.place] # None
        /\ drain[c].st = "write" => /\ drain[c].at.row.place \in Place
                                    /\ raw[drain[c].at.row.place] # None
    BY <1>4 DEF ImportInv, DrainSound, Resolved, RowsLanded
  <2> QED BY <2>1 DEF RawStays
<1> QED BY <1>2, <1>3, <1>4 DEF RowsLanded, RawStays

\* A drain reads, resolves and writes rows that have landed.
LEMMA RawDrain ==
  ASSUME ImportInv, RawTyped, RowsLanded, NEW d \in Drainer,
         DrainPending(d) \/ PromoteRow(d) \/ WriteRow(d) \/ PromotionFails(d)
  PROVE  RawTyped' /\ RowsLanded' /\ RawStays
<1>0. drain = [c \in Drainer |-> [st |-> drain[c].st, rows |-> drain[c].rows, at |-> drain[c].at]]
  BY DEF ImportInv, CatalogueTyped
<1>1. CASE DrainPending(d)
  <2>1. raw' = raw /\ world' = world
    BY <1>1 DEF DrainPending
  <2>2. RawTyped' /\ RawStays
    BY <2>1, RawKept
  <2>3. CASE drain' = [drain EXCEPT ![d] = NoDrain]
    <3>1. \A c \in Drainer : drain'[c].st = "off" \/ drain'[c] = drain[c]
      BY <1>0, <2>3 DEF NoDrain
    <3> QED BY <2>2, <3>1, RowsKept
  <2>4. ASSUME NEW s \in SUBSET PendingPlaces,
               drain' = [drain EXCEPT ![d].st = "rows",
                           ![d].rows = {[place |-> p, content |-> raw[p].content] : p \in s}]
        PROVE  RowsLanded'
    <3> DEFINE read == {[place |-> p, content |-> raw[p].content] : p \in s}
    <3>1. \A row \in read : raw[row.place] # None
      BY DEF PendingPlaces
    <3>2. drain' = [drain EXCEPT ![d].st = "rows", ![d].rows = read]
      BY <2>4
    <3> HIDE DEF read
    <3>3. drain'[d].st = "rows" /\ drain'[d].rows = read
      <4>1. drain'[d] = [drain[d] EXCEPT !.st = "rows", !.rows = read]
        BY <1>0, <3>2
      <4>2. drain'[d] = [[st |-> drain[d].st, rows |-> drain[d].rows, at |-> drain[d].at]
                           EXCEPT !.st = "rows", !.rows = read]
        BY <1>0, <4>1
      <4> QED BY <4>2
    <3>4. \A c \in Drainer \ {d} : drain'[c] = drain[c]
      BY <1>0, <3>2
    <3> QED BY <2>1, <3>1, <3>3, <3>4 DEF RowsLanded
  <2> QED BY <1>1, <2>2, <2>3, <2>4 DEF DrainPending, Batches
<1>2. CASE PromoteRow(d)
  <2>1. PICK row \in drain[d].rows :
          IF ~Accepted(Normalize(row.place, row.content))
            THEN raw' = Marked(row.place, "REJECTED") /\ drain' = Rest(d, drain[d].rows \ {row})
            ELSE /\ raw' = raw
                 /\ \E to \in Resolutions(row.place) :
                      drain' = [drain EXCEPT ![d] =
                        [st |-> "write", rows |-> drain[d].rows \ {row},
                         at |-> [row |-> row, to |-> to, seen |-> fac[to.target],
                                 known |-> FacilitiesOf(LotOf[row.place]),
                         hidden |-> FacilitiesOf(LotOf[row.place]) \cap archived]]]
    BY <1>2 DEF PromoteRow
  <2>2. drain[d].st = "rows" /\ row.place \in Place /\ raw[row.place] # None /\ world' = world
    BY <1>2, <2>1 DEF PromoteRow, ImportInv, DrainSound, RowsLanded
  <2>3. CASE raw' = Marked(row.place, "REJECTED") /\ drain' = Rest(d, drain[d].rows \ {row})
    <3>1. RawTyped' /\ RawStays
      BY <2>2, <2>3, RawMarked
    <3> DEFINE rows == drain[d].rows \ {row}
    <3>2. rows \subseteq drain[d].rows /\ drain' = Rest(d, rows)
      BY <2>3
    <3> HIDE DEF rows
    <3> QED BY <2>2, <3>1, <3>2, RowsRest
  <2>4. ASSUME raw' = raw, NEW to,
               drain' = [drain EXCEPT ![d] =
                     [st |-> "write", rows |-> drain[d].rows \ {row},
                      at |-> [row |-> row, to |-> to, seen |-> fac[to.target],
                              known |-> FacilitiesOf(LotOf[row.place]),
                         hidden |-> FacilitiesOf(LotOf[row.place]) \cap archived]]]
        PROVE  RawTyped' /\ RowsLanded' /\ RawStays
    <3>1. RawTyped' /\ RawStays
      BY <2>2, <2>4, RawKept
    <3>2. /\ drain'[d].rows = drain[d].rows \ {row} /\ drain'[d].at.row = row
          /\ \A c \in Drainer \ {d} : drain'[c] = drain[c]
      BY <1>0, <2>4
    <3> QED BY <2>2, <2>4, <3>1, <3>2 DEF RowsLanded
  <2> QED BY <2>1, <2>3, <2>4
<1>3. CASE WriteRow(d) \/ PromotionFails(d)
  <2> DEFINE p == drain[d].at.row.place
  <2>1. /\ drain[d].st = "write" /\ drain' = Rest(d, drain[d].rows) /\ world' = world
        /\ \E s \in {"PROCESSED", "DUPLICATE", "REJECTED"} : raw' = Marked(p, s)
    BY <1>3 DEF WriteRow, PromotionFails
  <2>2. p \in Place /\ raw[p] # None
    BY <2>1 DEF ImportInv, DrainSound, Resolved, RowsLanded
  <2> HIDE DEF p
  <2>3. RawTyped' /\ RawStays
    BY <2>1, <2>2, RawMarked
  <2> QED BY <2>1, <2>3, RowsRest
<1> QED BY <1>1, <1>2, <1>3

LEMMA RawStep ==
  ASSUME ImportInv, RawTyped, RowsLanded, PipeSound, [IngestionNext]_ingestionVars
  PROVE  RawTyped' /\ RowsLanded' /\ RawStays
<1>0. drain = [c \in Drainer |-> [st |-> drain[c].st, rows |-> drain[c].rows, at |-> drain[c].at]]
  BY DEF ImportInv, CatalogueTyped
<1>1. "sweep" \in Drainer /\ "promote" \in Drainer
  BY DEF Drainer
<1>2. ASSUME NEW d \in Drainer, Promotion(d) \/ PromotionFails(d)
      PROVE  RawTyped' /\ RowsLanded' /\ RawStays
  BY <1>2, RawDrain DEF Promotion
<1>3. ASSUME NEW t \in Tile, StoreElement(t) \/ StorePlace(t)
      PROVE  RawTyped' /\ RowsLanded' /\ RawStays
  <2>1. PICK p \in job[t].found : raw' = Landed(p)
    BY <1>3 DEF StoreElement, StorePlace
  <2>2. world' = world /\ drain' = drain
    BY <1>3 DEF StoreElement, StorePlace
  <2>3. p \in Place
    BY <2>1 DEF PipeSound, Job
  <2>4. RawTyped' /\ RawStays
    BY <2>1, <2>2, <2>3, RawLanded
  <2> QED BY <2>2, <2>4, RowsKept
<1>4. ASSUME raw' = raw, world' = world,
             \A c \in Drainer : drain'[c].st \in {"read", "off", "kinds"} \/ drain'[c] = drain[c]
      PROVE  RawTyped' /\ RowsLanded' /\ RawStays
  BY <1>4, RawKept, RowsKept
<1>5. CASE Changes
  <2>1. RawTyped' /\ RawStays
    BY <1>5 DEF Changes, RawTyped, RawStays
  <2> QED BY <1>5, <2>1, RowsKept DEF Changes
<1>6. ASSUME NEW t \in Tile, \/ OverpassFetch(t) \/ GoogleFetch(t) \/ EnqueueGoogleSubtiles(t)
                               \/ Fetched(t) \/ Acknowledge(t) \/ FetchFails(t)
      PROVE  UNCHANGED <<raw, world, drain>>
  BY <1>6 DEF OverpassFetch, GoogleFetch, EnqueueGoogleSubtiles, Fetched, Acknowledge,
              FetchFails
<1>7. CASE \/ IngestRegion \/ EnqueueSweep \/ SweepEnqueues \/ SweepFails
           \/ RefreshReads \/ RefreshFindsNothing \/ RefreshOne \/ RefreshFails \/ Ages
           \/ (\E f \in Place : Archive(f) \/ Restore(f)) \/ UNCHANGED ingestionVars
  <2>1. UNCHANGED <<raw, world, drain>>
    BY <1>7 DEF IngestRegion, EnqueueSweep, SweepEnqueues, SweepFails, RefreshReads,
                RefreshFindsNothing, RefreshOne, RefreshFails, Ages, Archive, Restore,
                ingestionVars
  <2> QED BY <1>4, <2>1
<1>8. CASE EnqueuePromotion \/ \E late \in BOOLEAN : SweepDrains(late)
  <2>1. raw' = raw /\ world' = world
    BY <1>8 DEF EnqueuePromotion, SweepDrains
  <2>2. PICK d \in Drainer : drain' = [drain EXCEPT ![d].st = "read"]
    BY <1>1, <1>8 DEF EnqueuePromotion, SweepDrains
  <2>3. drain'[d] = [[st |-> drain[d].st, rows |-> drain[d].rows, at |-> drain[d].at]
                       EXCEPT !.st = "read"]
    BY <1>0, <2>2
  <2>4. drain'[d].st = "read" /\ \A c \in Drainer \ {d} : drain'[c] = drain[c]
    BY <1>0, <2>2, <2>3
  <2> QED BY <1>4, <2>1, <2>4
<1>9. CASE EnqueueReclassify \/ Reclassify
  <2>1. PICK fs : drain' = Reclassifying(fs)
    BY <1>9 DEF EnqueueReclassify, Reclassify
  <2>2. \A c \in Drainer : drain'[c].st \in {"off", "kinds"} \/ drain'[c] = drain[c]
    BY <1>0, <2>1 DEF Reclassifying, NoDrain
  <2>3. raw' = raw /\ world' = world
    BY <1>9 DEF EnqueueReclassify, Reclassify, pipeline
  <2> QED BY <1>4, <2>2, <2>3
<1>10. CASE Crash
  <2>1. raw' = raw /\ world' = world /\ \A c \in Drainer : drain'[c].st \in {"read", "off"}
    BY <1>10 DEF Crash, NoDrain
  <2> QED BY <1>4, <2>1
<1>11. ASSUME NEW t \in Tile, Worker(t) \/ FetchFails(t)
       PROVE  RawTyped' /\ RowsLanded' /\ RawStays
  BY <1>3, <1>4, <1>6, <1>11 DEF Worker
<1> QED
  BY <1>1, <1>2, <1>5, <1>7, <1>8, <1>9, <1>10, <1>11 DEF IngestionNext, SweepStep

\* A job by its fields.
Shaped(x) == x = [st |-> x.st, depth |-> x.depth, tries |-> x.tries, found |-> x.found, left |-> x.left]

LEMMA ShapedJob ==
  /\ \A x \in Job : Shaped(x)
  /\ \A x : /\ Shaped(x) /\ x.st \in {"none", "wait", "run", "done"} /\ x.depth \in 0 .. MaxDepth
           /\ x.tries \in Nat /\ x.found \subseteq Place /\ x.left \subseteq Tile
           => x \in Job
BY DEF Job, Shaped

LEMMA NoJobTyped == NoJob \in Job
<1>1. MaxDepth \in Nat
  BY BoundsAssumption
<1>2. 0 \in 0 .. MaxDepth
  BY <1>1
<1> QED BY <1>2 DEF NoJob, Job

\* A new job waits.
IsNew(e, d) == Shaped(e) /\ e.st = "wait" /\ e.depth = d /\ e.tries = 0 /\ e.found = {} /\ e.left = {}

LEMMA NewJob ==
  ASSUME NEW d
  PROVE  /\ \A e : e = [NoJob EXCEPT !.st = "wait"] => IsNew(e, 0)
         /\ \A e : e = [NoJob EXCEPT !.st = "wait", !.depth = d] => IsNew(e, d)
         /\ Shaped(NoJob) /\ NoJob.st = "none" /\ NoJob.left = {}
<1>1. ASSUME NEW e, e = [NoJob EXCEPT !.st = "wait"] PROVE IsNew(e, 0)
  BY <1>1 DEF NoJob, Shaped, IsNew
<1>2. ASSUME NEW e, e = [NoJob EXCEPT !.st = "wait", !.depth = d] PROVE IsNew(e, d)
  BY <1>2 DEF NoJob, Shaped, IsNew
<1>3. Shaped(NoJob) /\ NoJob.st = "none" /\ NoJob.left = {}
  BY DEF NoJob, Shaped
<1> QED BY <1>1, <1>2, <1>3

\* Tiles of one source, at one level, are enqueued.
LEMMA EnqueueKeeps ==
  ASSUME PipeSound, NEW ts \in SUBSET Tile, IsFiniteSet(ts), NEW d \in 0 .. MaxDepth,
         NEW src \in {"OSM", "GOOGLE"}, \A t \in ts : t.source = src,
         src = "GOOGLE" => ts \subseteq GoogleTree[d],
         tile' = Enqueued(ts),
         queue' = [queue EXCEPT ![src] = Added(@, ts)],
         job' \in [Tile -> Job],
         \A t \in Tile : IF t \in Fresh(ts) THEN job'[t].st = "wait" /\ job'[t].depth = d /\ job'[t].left = {}
                           ELSE /\ job'[t].st = job[t].st /\ job'[t].depth = job[t].depth
                                /\ job'[t].left \in {job[t].left, {}}
  PROVE  PipeSound'
<1> USE DEF PipeSound
<1>1. tile' \in [Tile -> TileStatus \cup {None}]
  BY DEF Enqueued, TileStatus
<1>2. \A t \in Fresh(ts) : t \in Tile /\ t \in ts /\ job[t].st = "none"
  BY DEF Fresh
<1>3. \A t \in Tile : Working(t)' <=> Working(t)
  BY <1>2 DEF Working
<1>4. OneFetch'
  BY <1>3 DEF OneFetch
<1>5. ASSUME NEW t \in Tile PROVE AtLevel(t)' /\ Splitting(t)'
  <2>1. CASE t \in Fresh(ts)
    BY <1>2, <2>1 DEF AtLevel, Splitting
  <2>2. CASE t \notin Fresh(ts)
    BY <2>2 DEF AtLevel, Splitting
  <2> QED BY <2>1, <2>2
<1>6. Queued'
  <2> DEFINE more == SetToSeq(Fresh(ts))
  <2>1. IsFiniteSet(Fresh(ts))
    BY FS_Subset DEF Fresh
  <2>2. more \in Seq(Fresh(ts)) /\ Distinct(more) /\ Elems(more) \subseteq Fresh(ts)
    BY <2>1, ListOf
  <2>3. more \in Seq(Tile)
    BY <1>2, <2>2
  <2>4. queue'[src] = queue[src] \o more /\ \A s \in {"OSM", "GOOGLE"} \ {src} : queue'[s] = queue[s]
    BY DEF Queued, Added
  <2> HIDE DEF more
  <2>5. Elems(queue[src]) \cap Elems(more) = {}
    BY <1>2, <2>2 DEF Queued, Waits
  <2>6. /\ queue'[src] \in Seq(Tile) /\ Distinct(queue'[src])
        /\ Elems(queue'[src]) \subseteq Elems(queue[src]) \cup Elems(more)
    <3> DEFINE q == queue[src]
    <3>1. q \in Seq(Tile) /\ Distinct(q) /\ Elems(q) \cap Elems(more) = {}
      BY <2>5 DEF Queued
    <3> HIDE DEF q
    <3>2. /\ q \o more \in Seq(Tile) /\ Distinct(q \o more)
          /\ Elems(q \o more) \subseteq Elems(q) \cup Elems(more)
      BY <2>2, <2>3, <3>1, JoinDistinct
    <3> QED BY <2>4, <3>2 DEF q
  <2>7. \A s \in {"OSM", "GOOGLE"} : Waits(s) \subseteq Waits(s)'
    BY <1>2 DEF Waits
  <2>8. Elems(more) \subseteq Waits(src)'
    BY <1>2, <2>2 DEF Waits
  <2>9. queue' = [z \in {"OSM", "GOOGLE"} |-> queue'[z]]
    BY DEF Queued
  <2>10. ASSUME NEW s \in {"OSM", "GOOGLE"}
         PROVE  /\ queue'[s] \in Seq(Tile) /\ Distinct(queue'[s])
                /\ Elems(queue'[s]) \subseteq Waits(s)'
    <3>1. CASE s = src
      BY <2>6, <2>7, <2>8, <3>1 DEF Queued
    <3>2. CASE s # src
      BY <2>4, <2>7, <3>2 DEF Queued
    <3> QED BY <3>1, <3>2
  <2> QED BY <2>9, <2>10 DEF Queued
<1> QED BY <1>1, <1>4, <1>5, <1>6

\* A step that writes the row and the job of one tile, which is not in the queue after it.
LEMMA JobKeeps ==
  ASSUME PipeSound, NEW t \in Tile,
         tile' \in [Tile -> TileStatus \cup {None}], NEW x \in Job, job' = [job EXCEPT ![t] = x],
         x.st \in {"run", "done"} => \A u \in Tile \ {t} : u.source = t.source => ~Working(u),
         AtLevel(t)', Splitting(t)', Queued'
  PROVE  PipeSound'
<1>1. job'[t] = x /\ \A u \in Tile \ {t} : job'[u] = job[u]
  BY DEF PipeSound
<1>2. job' \in [Tile -> Job]
  BY DEF PipeSound
<1>3. \A u \in Tile : Working(u)' <=> IF u = t THEN x.st \in {"run", "done"} ELSE Working(u)
  BY <1>1 DEF Working
<1>4. OneFetch'
  BY <1>3 DEF OneFetch, PipeSound
<1>5. \A u \in Tile \ {t} : AtLevel(u)' /\ Splitting(u)'
  BY <1>1 DEF AtLevel, Splitting, PipeSound
<1> QED BY <1>2, <1>4, <1>5 DEF PipeSound

\* The queue is as it was, and no job that waited does not.
LEMMA QueueStays ==
  ASSUME PipeSound, queue' = queue, NEW t \in Tile, job[t].st # "wait",
         \A u \in Tile \ {t} : job'[u] = job[u]
  PROVE  Queued'
<1>1. \A s \in {"OSM", "GOOGLE"} : Waits(s) \subseteq Waits(s)'
  BY DEF Waits
<1> QED BY <1>1 DEF Queued, PipeSound

\* The requests and the sweep enqueue a region's own tiles, a split its quadrants.
LEMMA PipeEnqueue ==
  ASSUME PipeSound, NEW r \in Region, NEW t \in OwnTiles(r), EnqueueTile(t)
  PROVE  PipeSound'
<1>1. /\ t \in Tile /\ t.source \in {"OSM", "GOOGLE"}
      /\ t.source = "GOOGLE" => t \in GoogleTree[0]
  BY RegionTiles
<1>2. 0 \in 0 .. MaxDepth /\ IsFiniteSet({t})
  <2>1. MaxDepth \in Nat
    BY BoundsAssumption
  <2>2. 0 \in 0 .. MaxDepth
    BY <2>1
  <2> QED BY <2>2, FS_Singleton
<1>3. /\ tile' = Enqueued({t}) /\ queue' = [queue EXCEPT ![t.source] = Added(@, {t})]
      /\ job' = [u \in Tile |-> IF u \in Fresh({t}) THEN [NoJob EXCEPT !.st = "wait"]
                                  ELSE job[u]]
  BY DEF EnqueueTile
<1>4. ASSUME NEW u \in Tile
      PROVE  /\ job'[u] \in Job
             /\ u \in Fresh({t}) => IsNew(job'[u], 0)
             /\ u \notin Fresh({t}) => job'[u] = job[u]
  <2>1. CASE u \in Fresh({t})
    <3>1. IsNew(job'[u], 0)
      BY <1>3, <2>1, NewJob
    <3>2. job'[u] \in Job
      BY <1>2, <3>1, ShapedJob DEF IsNew
    <3> QED BY <2>1, <3>1, <3>2
  <2>2. CASE u \notin Fresh({t})
    BY <1>3, <2>2 DEF PipeSound
  <2> QED BY <2>1, <2>2
<1>5. job' \in [Tile -> Job]
  BY <1>3, <1>4
<1>6. \A u \in Tile : IF u \in Fresh({t}) THEN job'[u].st = "wait" /\ job'[u].depth = 0 /\ job'[u].left = {}
                        ELSE /\ job'[u].st = job[u].st /\ job'[u].depth = job[u].depth
                             /\ job'[u].left \in {job[u].left, {}}
  BY <1>4 DEF IsNew
<1>7. \A u \in {t} : u.source = t.source
  OBVIOUS
<1>8. {t} \in SUBSET Tile /\ (t.source = "GOOGLE" => {t} \subseteq GoogleTree[0])
  BY <1>1
<1> QED BY <1>1, <1>2, <1>3, <1>5, <1>6, <1>7, <1>8, EnqueueKeeps

LEMMA FourQuadrants == ASSUME NEW t PROVE IsFiniteSet(Subtiles(t))
<1>1. ASSUME NEW a, NEW b, NEW c, NEW d PROVE IsFiniteSet({a, b, c, d})
  <2>1. IsFiniteSet({a}) /\ IsFiniteSet({a} \cup {b})
    BY FS_Singleton, FS_AddElement
  <2>2. IsFiniteSet(({a} \cup {b}) \cup {c})
    BY <2>1, FS_AddElement
  <2>3. IsFiniteSet((({a} \cup {b}) \cup {c}) \cup {d})
    BY <2>2, FS_AddElement
  <2>4. (({a} \cup {b}) \cup {c}) \cup {d} = {a, b, c, d}
    OBVIOUS
  <2> QED BY <2>3, <2>4
<1>2. PICK a, b, c, d : Quadrants(t.box) = {a, b, c, d}
  BY DEF Quadrants
<1> DEFINE G(b0) == [source |-> "GOOGLE", box |-> b0]
<1>3. Subtiles(t) = {G(a), G(b), G(c), G(d)}
  BY <1>2 DEF Subtiles
<1>4. IsFiniteSet({G(a), G(b), G(c), G(d)})
  BY <1>1
<1> QED BY <1>3, <1>4

LEMMA PipeSplit ==
  ASSUME PipeSound, NEW t \in Tile, EnqueueGoogleSubtiles(t)
  PROVE  PipeSound'
<1> DEFINE ts == job[t].left
           d == job[t].depth + 1
<1>1. /\ job[t].st = "run" /\ ts # {} /\ tile' = Enqueued(ts)
      /\ queue' = [queue EXCEPT !["GOOGLE"] = Added(@, ts)]
      /\ job' = [Deeper(t, ts) EXCEPT ![t].left = {}]
  BY DEF EnqueueGoogleSubtiles
<1>2. ts = Subtiles(t) /\ job[t].depth < MaxDepth /\ t \in GoogleTree[job[t].depth] /\ job[t] \in Job
  BY <1>1 DEF PipeSound, Splitting, AtLevel
<1>3. job[t].depth \in 0 .. MaxDepth
  BY <1>2 DEF Job
<1>4. d \in 0 .. MaxDepth /\ ts \subseteq GoogleTree[d]
  BY <1>2, <1>3, SubtilesDeeper
<1>5. ts \in SUBSET Tile /\ IsFiniteSet(ts) /\ \A u \in ts : u.source = "GOOGLE"
  BY <1>2, <1>4, TreeInTile, TreeTiles, FourQuadrants
<1> HIDE DEF ts, d
<1>6. t \notin Fresh(ts)
  BY <1>1 DEF Fresh
<1>7. \A u \in Tile : Deeper(t, ts)[u] = IF u \in Fresh(ts)
                                             THEN [NoJob EXCEPT !.st = "wait", !.depth = d]
                                             ELSE job[u]
  BY DEF Deeper, d
<1>8. /\ DOMAIN job' = Tile /\ job'[t] = [job[t] EXCEPT !.left = {}]
      /\ \A u \in Tile \ {t} : job'[u] = Deeper(t, ts)[u]
      /\ job' = [u \in Tile |-> job'[u]]
  BY <1>1, <1>6, <1>7 DEF Deeper
<1>9. ASSUME NEW u \in Tile
      PROVE  /\ job'[u] \in Job
             /\ IF u \in Fresh(ts) THEN job'[u].st = "wait" /\ job'[u].depth = d /\ job'[u].left = {}
                ELSE /\ job'[u].st = job[u].st /\ job'[u].depth = job[u].depth
                     /\ job'[u].left \in {job[u].left, {}}
  <2>1. CASE u = t
    <3>1. Shaped(job[t])
      BY <1>2, ShapedJob
    <3>2. /\ Shaped(job'[t]) /\ job'[t].st = job[t].st /\ job'[t].depth = job[t].depth
          /\ job'[t].tries = job[t].tries /\ job'[t].found = job[t].found /\ job'[t].left = {}
      BY <1>8, <3>1 DEF Shaped
    <3>3. job'[t] \in Job
      <4>1. /\ job[t].st \in {"none", "wait", "run", "done"} /\ job[t].depth \in 0 .. MaxDepth
            /\ job[t].tries \in Nat /\ job[t].found \subseteq Place
        BY <1>2 DEF Job
      <4> QED BY <3>2, <4>1, ShapedJob
    <3> QED BY <1>6, <2>1, <3>2, <3>3
  <2>2. CASE u # t /\ u \in Fresh(ts)
    <3>1. IsNew(job'[u], d)
      BY <1>7, <1>8, <2>2, NewJob
    <3>2. job'[u] \in Job
      BY <1>4, <3>1, ShapedJob DEF IsNew
    <3> QED BY <2>2, <3>1, <3>2 DEF IsNew
  <2>3. CASE u # t /\ u \notin Fresh(ts)
    BY <1>7, <1>8, <2>3 DEF PipeSound
  <2> QED BY <2>1, <2>2, <2>3
<1>10. job' \in [Tile -> Job]
  BY <1>8, <1>9
<1> QED BY <1>1, <1>4, <1>5, <1>9, <1>10, EnqueueKeeps

\* A worker takes the head of its source's queue, whose job waits.
LEMMA Taken ==
  ASSUME PipeSound, NEW t \in Tile, Takes(t), \A u \in Tile \ {t} : job'[u] = job[u]
  PROVE  /\ job[t].st = "wait" /\ Queued' /\ tile' \in [Tile -> TileStatus \cup {None}]
         /\ \A u \in Tile : u.source = t.source => ~Working(u)
<1> DEFINE s == t.source
           q == queue[s]
<1>1. s \in {"OSM", "GOOGLE"}
  BY TileKinds
<1>2. q # <<>> /\ Head(q) = t /\ queue' = [queue EXCEPT ![s] = Tail(q)]
  BY DEF Takes
<1>3. q \in Seq(Tile) /\ Distinct(q) /\ Elems(q) \subseteq Waits(s) /\ queue = [z \in {"OSM", "GOOGLE"} |-> queue[z]]
  BY <1>1 DEF PipeSound, Queued
<1> HIDE DEF q
<1>4. /\ Tail(q) \in Seq(Tile) /\ Distinct(Tail(q)) /\ t \in Elems(q)
      /\ Elems(Tail(q)) \subseteq Elems(q) \ {t}
  BY <1>2, <1>3, TailDistinct
<1>5. job[t].st = "wait"
  BY <1>3, <1>4 DEF Waits
<1>6. /\ Waits(s) \ {t} \subseteq Waits(s)'
      /\ \A z \in {"OSM", "GOOGLE"} \ {s} : Waits(z) \subseteq Waits(z)'
  BY DEF Waits
<1>7. Queued'
  <2>1. queue'[s] = Tail(q) /\ \A z \in {"OSM", "GOOGLE"} \ {s} : queue'[z] = queue[z]
    BY <1>1, <1>2, <1>3
  <2>2. queue' = [z \in {"OSM", "GOOGLE"} |-> queue'[z]]
    BY <1>2, <1>3
  <2>3. Elems(Tail(q)) \subseteq Waits(s)'
    BY <1>3, <1>4, <1>6
  <2> QED BY <1>4, <1>6, <2>1, <2>2, <2>3 DEF Queued, PipeSound
<1>8. tile' \in [Tile -> TileStatus \cup {None}]
  BY DEF Takes, PipeSound, TileStatus
<1>9. \A u \in Tile : u.source = t.source => ~Working(u)
  BY DEF Takes, Busy, Working
<1> QED BY <1>5, <1>7, <1>8, <1>9

\* What a fetch has found are places of its tile, and what it will split are tiles.
LEMMA PipeFetch ==
  ASSUME PipeSound, NEW t \in Tile, OverpassFetch(t) \/ GoogleFetch(t)
  PROVE  /\ PipeSound' /\ job'[t].st = "run" /\ tile' = [tile EXCEPT ![t] = "FETCHING"]
         /\ \A u \in Tile \ {t} : job'[u] = job[u]
         /\ t.source = "OSM" => job'[t].found = Within(t)
         /\ t.source = "GOOGLE" => /\ t \in GoogleTree[job[t].depth]
                                   /\ job'[t].found \in Answers(t)
                                   /\ job'[t].left = Splits(t, job'[t].found)
<1>1. Takes(t) /\ job[t] \in Job /\ Shaped(job[t]) /\ t.source \in {"OSM", "GOOGLE"}
  BY ShapedJob, TileKinds DEF OverpassFetch, GoogleFetch, PipeSound
<1>2. PICK x : /\ job' = [job EXCEPT ![t] = x] /\ Shaped(x) /\ x.st = "run"
               /\ x.depth = job[t].depth /\ x.tries = job[t].tries
               /\ \/ t.source = "OSM" /\ x.found = Within(t) /\ x.left = job[t].left
                  \/ /\ t.source = "GOOGLE" /\ x.found \in Answers(t)
                     /\ x.left = Splits(t, x.found)
  <2>1. CASE OverpassFetch(t)
    <3>1. PICK r, f : r = job[t] /\ f = Within(t)
      OBVIOUS
    <3>2. PICK x : x = [r EXCEPT !.st = "run", !.found = f]
      OBVIOUS
    <3>3. job' = [job EXCEPT ![t] = x] /\ t.source = "OSM"
      BY <2>1, <3>1, <3>2 DEF OverpassFetch
    <3>4. Shaped(r)
      BY <1>1, <3>1
    <3>5. /\ Shaped(x) /\ x.st = "run" /\ x.depth = r.depth /\ x.tries = r.tries
          /\ x.found = f /\ x.left = r.left
      BY <3>2, <3>4 DEF Shaped
    <3> QED BY <3>1, <3>3, <3>5
  <2>2. CASE GoogleFetch(t)
    <3>1. PICK f \in Answers(t) :
            job' = [job EXCEPT ![t].st = "run", ![t].found = f, ![t].left = Splits(t, f)]
      BY <2>2 DEF GoogleFetch
    <3>2. PICK r, l : r = job[t] /\ l = Splits(t, f)
      OBVIOUS
    <3>3. PICK x : x = [r EXCEPT !.st = "run", !.found = f, !.left = l]
      OBVIOUS
    <3>4. job' = [job EXCEPT ![t] = x] /\ t.source = "GOOGLE"
      BY <2>2, <3>1, <3>2, <3>3 DEF GoogleFetch
    <3>5. Shaped(r)
      BY <1>1, <3>2
    <3>6. /\ Shaped(x) /\ x.st = "run" /\ x.depth = r.depth /\ x.tries = r.tries
          /\ x.found = f /\ x.left = l
      BY <3>3, <3>5 DEF Shaped
    <3> QED BY <3>1, <3>2, <3>4, <3>6
  <2> QED BY <2>1, <2>2
<1>3. job'[t] = x /\ \A u \in Tile \ {t} : job'[u] = job[u]
  BY <1>2 DEF PipeSound
<1>4. /\ job[t].st = "wait" /\ Queued' /\ tile' \in [Tile -> TileStatus \cup {None}]
      /\ \A u \in Tile : u.source = t.source => ~Working(u)
  BY <1>1, <1>3, Taken
<1>5. t.source = "GOOGLE" => t \in GoogleTree[job[t].depth]
  BY <1>4 DEF PipeSound, AtLevel
<1>6. job[t].left = {} /\ job[t].depth \in 0 .. MaxDepth /\ job[t].tries \in Nat
  BY <1>1, <1>4 DEF PipeSound, Splitting, Job
<1>7. /\ x.left # {} => /\ x.left = Subtiles(t) /\ x.depth < MaxDepth /\ t.source = "GOOGLE"
      /\ x.left \subseteq Tile
  <2>1. CASE t.source = "OSM"
    BY <1>2, <1>6, <2>1
  <2>2. CASE t.source = "GOOGLE"
    <3>1. x.left # {} => x.left = Subtiles(t) /\ job[t].depth < MaxDepth
      BY <1>2, <2>2 DEF Splits
    <3>2. job[t].depth < MaxDepth => Subtiles(t) \subseteq Tile
      BY <1>5, <1>6, <2>2, SubtilesDeeper, TreeInTile
    <3> QED BY <1>2, <2>2, <3>1, <3>2
  <2> QED BY <1>1, <2>1, <2>2
<1>8. x.found \subseteq Place
  BY <1>2 DEF Answers, Within, Place
<1>9. x \in Job
  BY <1>2, <1>6, <1>7, <1>8, ShapedJob
<1>10. AtLevel(t)' /\ Splitting(t)'
  BY <1>2, <1>3, <1>5, <1>7 DEF AtLevel, Splitting
<1>11. PipeSound'
  BY <1>2, <1>4, <1>9, <1>10, JobKeeps
<1>12. tile' = [tile EXCEPT ![t] = "FETCHING"]
  BY <1>1 DEF Takes
<1> QED BY <1>2, <1>3, <1>5, <1>11, <1>12

\* A fetch stores what it has found, ends, and is reported.
LEMMA PipeWork ==
  ASSUME PipeSound, NEW t \in Tile,
         StoreElement(t) \/ StorePlace(t) \/ Fetched(t) \/ Acknowledge(t)
  PROVE  PipeSound' /\ \A u \in Tile \ {t} : job'[u] = job[u]
<1>1. job[t] \in Job /\ Shaped(job[t]) /\ Working(t) /\ job[t].st # "wait" /\ queue' = queue
  BY ShapedJob DEF PipeSound, Working, StoreElement, StorePlace, Fetched, MayFinish,
                   Acknowledge
<1>2. PICK x \in Job : /\ job' = [job EXCEPT ![t] = x]
                       /\ \/ /\ x.st = job[t].st /\ x.depth = job[t].depth /\ x.left = job[t].left
                          \/ /\ job[t].left = {} /\ x.left = {} /\ x.st = "done"
                             /\ x.depth = job[t].depth
                          \/ x.st = "none" /\ x.left = {}
  <2>1. CASE StoreElement(t) \/ StorePlace(t)
    <3>1. PICK p : job' = [job EXCEPT ![t].found = @ \ {p}]
      BY <2>1 DEF StoreElement, StorePlace
    <3> DEFINE x == [job[t] EXCEPT !.found = job[t].found \ {p}]
    <3>2. job' = [job EXCEPT ![t] = x]
      BY <3>1
    <3>3. /\ Shaped(x) /\ x.st = job[t].st /\ x.depth = job[t].depth /\ x.tries = job[t].tries
          /\ x.found = job[t].found \ {p} /\ x.left = job[t].left
      BY <1>1 DEF Shaped
    <3> HIDE DEF x
    <3>4. x \in Job
      BY <1>1, <3>3, ShapedJob DEF Job
    <3> QED BY <3>2, <3>3, <3>4
  <2>2. CASE Fetched(t)
    <3> DEFINE x == [job[t] EXCEPT !.st = "done"]
    <3>1. job' = [job EXCEPT ![t] = x] /\ job[t].left = {}
      BY <2>2 DEF Fetched, MayFinish
    <3>3. /\ Shaped(x) /\ x.st = "done" /\ x.depth = job[t].depth /\ x.tries = job[t].tries
          /\ x.found = job[t].found /\ x.left = job[t].left
      BY <1>1 DEF Shaped
    <3> HIDE DEF x
    <3>4. x \in Job
      BY <1>1, <3>3, ShapedJob DEF Job
    <3> QED BY <3>1, <3>3, <3>4
  <2>3. CASE Acknowledge(t)
    <3>1. job' = [job EXCEPT ![t] = NoJob]
      BY <2>3 DEF Acknowledge
    <3> QED BY <3>1, NoJobTyped, NewJob
  <2> QED BY <2>1, <2>2, <2>3
<1>3. job'[t] = x /\ \A u \in Tile \ {t} : job'[u] = job[u]
  BY <1>2 DEF PipeSound
<1>4. Queued'
  BY <1>1, <1>3, QueueStays
<1>5. AtLevel(t)' /\ Splitting(t)'
  BY <1>1, <1>2, <1>3 DEF AtLevel, Splitting, PipeSound, Working
<1>6. tile' \in [Tile -> TileStatus \cup {None}]
  BY DEF StoreElement, StorePlace, Fetched, Acknowledge, PipeSound, TileStatus
<1>7. \A u \in Tile \ {t} : u.source = t.source => ~Working(u)
  BY <1>1 DEF PipeSound, OneFetch
<1>8. PipeSound'
  BY <1>2, <1>4, <1>5, <1>6, <1>7, JobKeeps
<1> QED BY <1>3, <1>8

\* A fetch that fails is tried again from its start, or given up.
LEMMA PipeFails ==
  ASSUME PipeSound, NEW t \in Tile, FetchFails(t)
  PROVE  PipeSound' /\ job'[t].st # "run" /\ \A u \in Tile \ {t} : job'[u] = job[u]
<1>1. job[t] \in Job /\ Shaped(job[t]) /\ job[t].st = "run" /\ t.source \in {"OSM", "GOOGLE"}
  BY ShapedJob, TileKinds DEF PipeSound, FetchFails
<1>2. job[t].depth \in 0 .. MaxDepth /\ job[t].tries \in Nat
  BY <1>1 DEF Job
<1>3. PICK x \in Job : /\ job' = [job EXCEPT ![t] = x] /\ x.left = {}
                       /\ \/ /\ x.st = "wait" /\ x.depth = job[t].depth
                             /\ queue' = [queue EXCEPT ![t.source] = Append(@, t)]
                          \/ x.st = "none" /\ queue' = queue
  <2>1. CASE job[t].tries + 1 < Attempts
    <3>1. PICK r : r = job[t]
      OBVIOUS
    <3>2. PICK x : x = [r EXCEPT !.st = "wait", !.tries = r.tries + 1, !.found = {}, !.left = {}]
      OBVIOUS
    <3>3. job' = [job EXCEPT ![t] = x] /\ queue' = [queue EXCEPT ![t.source] = Append(@, t)]
      BY <2>1, <3>1, <3>2 DEF FetchFails
    <3>4. Shaped(r)
      BY <1>1, <3>1
    <3>5. /\ Shaped(x) /\ x.st = "wait" /\ x.depth = r.depth /\ x.tries = r.tries + 1
          /\ x.found = {} /\ x.left = {}
      BY <3>2, <3>4 DEF Shaped
    <3>6. x.tries \in Nat
      BY <1>2, <3>1, <3>5
    <3>7. x \in Job
      BY <1>2, <3>1, <3>5, <3>6, ShapedJob
    <3> QED BY <3>1, <3>3, <3>5, <3>7
  <2>2. CASE ~(job[t].tries + 1 < Attempts)
    <3>1. job' = [job EXCEPT ![t] = NoJob] /\ queue' = queue
      BY <2>2 DEF FetchFails
    <3> QED BY <3>1, NoJobTyped, NewJob
  <2> QED BY <2>1, <2>2
<1>4. job'[t] = x /\ \A u \in Tile \ {t} : job'[u] = job[u]
  BY <1>3 DEF PipeSound
<1>5. Queued'
  <2>1. CASE x.st = "none" /\ queue' = queue
    BY <1>1, <1>4, <2>1, QueueStays
  <2>2. CASE x.st = "wait" /\ queue' = [queue EXCEPT ![t.source] = Append(@, t)]
    <3> DEFINE s == t.source
               q == queue[s]
    <3>1. /\ q \in Seq(Tile) /\ Distinct(q) /\ Elems(q) \subseteq Waits(s)
          /\ queue = [z \in {"OSM", "GOOGLE"} |-> queue[z]]
      BY <1>1 DEF PipeSound, Queued
    <3>2. t \notin Elems(q)
      BY <1>1, <3>1 DEF Waits
    <3>3. queue'[s] = Append(q, t) /\ \A z \in {"OSM", "GOOGLE"} \ {s} : queue'[z] = queue[z]
      BY <1>1, <2>2, <3>1
    <3>4. queue' = [z \in {"OSM", "GOOGLE"} |-> queue'[z]]
      BY <2>2, <3>1
    <3> HIDE DEF q
    <3>5. /\ Append(q, t) \in Seq(Tile) /\ Distinct(Append(q, t))
          /\ Elems(Append(q, t)) \subseteq Elems(q) \cup {t}
      BY <3>1, <3>2, AppendDistinct
    <3>6. /\ Waits(s) \cup {t} \subseteq Waits(s)'
          /\ \A z \in {"OSM", "GOOGLE"} : Waits(z) \subseteq Waits(z)'
      BY <1>1, <1>4, <2>2 DEF Waits
    <3>7. Elems(Append(q, t)) \subseteq Waits(s)'
      BY <3>1, <3>5, <3>6
    <3> QED BY <3>3, <3>4, <3>5, <3>6, <3>7 DEF Queued, PipeSound
  <2> QED BY <1>3, <2>1, <2>2
<1>6. AtLevel(t)' /\ Splitting(t)'
  BY <1>1, <1>3, <1>4 DEF AtLevel, Splitting, PipeSound
<1>7. tile' \in [Tile -> TileStatus \cup {None}]
  BY DEF FetchFails, PipeSound, TileStatus
<1>8. x.st \notin {"run", "done"}
  BY <1>3
<1>9. PipeSound'
  BY <1>3, <1>5, <1>6, <1>7, <1>8, JobKeeps
<1> QED BY <1>4, <1>8, <1>9

\* The jobs that ran wait again, at the head of their queue.
LEMMA PipeCrash ==
  ASSUME PipeSound, Crash
  PROVE  PipeSound' /\ tile' = tile /\ \A t \in Tile : job'[t].st # "run"
<1> DEFINE W(s) == {t \in Tile : t.source = s /\ job[t].st \in {"run", "done"}}
<1>1. ASSUME NEW t \in Tile
      PROVE  /\ job'[t] \in Job /\ job'[t].depth = job[t].depth
             /\ IF Working(t) THEN job'[t].st = "wait" /\ job'[t].left = {} ELSE job'[t] = job[t]
  <2>1. CASE Working(t)
    <3>1. PICK r : r = job[t]
      OBVIOUS
    <3>2. job'[t] = [r EXCEPT !.st = "wait", !.found = {}, !.left = {}]
      BY <2>1, <3>1 DEF Crash, Working
    <3>3. r \in Job /\ Shaped(r)
      BY <3>1, ShapedJob DEF PipeSound
    <3>4. PICK x : x = job'[t]
      OBVIOUS
    <3>5. /\ Shaped(x) /\ x.st = "wait" /\ x.depth = r.depth /\ x.tries = r.tries
          /\ x.found = {} /\ x.left = {}
      BY <3>2, <3>3, <3>4 DEF Shaped
    <3>6. r.depth \in 0 .. MaxDepth /\ r.tries \in Nat
      BY <3>3 DEF Job
    <3>7. x \in Job
      BY <3>5, <3>6, ShapedJob
    <3> QED BY <2>1, <3>1, <3>4, <3>5, <3>7
  <2>2. CASE ~Working(t)
    BY <2>2 DEF Crash, Working, PipeSound
  <2> QED BY <2>1, <2>2
<1>2. job' \in [Tile -> Job]
  BY <1>1 DEF Crash
<1>3. \A t \in Tile : ~Working(t)' /\ job'[t].st # "run"
  BY <1>1 DEF Working
<1>4. \A t \in Tile : AtLevel(t)' /\ Splitting(t)'
  <2> SUFFICES ASSUME NEW t \in Tile PROVE AtLevel(t)' /\ Splitting(t)'
    OBVIOUS
  <2>1. CASE Working(t)
    BY <1>1, <2>1 DEF AtLevel, Splitting, PipeSound, Working
  <2>2. CASE ~Working(t)
    BY <1>1, <2>2 DEF AtLevel, Splitting, PipeSound
  <2> QED BY <2>1, <2>2
<1>5. /\ queue = [z \in {"OSM", "GOOGLE"} |-> queue[z]] /\ queue' = [z \in {"OSM", "GOOGLE"} |-> queue'[z]]
      /\ \A s \in {"OSM", "GOOGLE"} : queue'[s] = SetToSeq(W(s)) \o queue[s]
  BY DEF Crash, PipeSound, Queued
<1>6. ASSUME NEW s \in {"OSM", "GOOGLE"}
      PROVE  /\ queue'[s] \in Seq(Tile) /\ Distinct(queue'[s])
             /\ Elems(queue'[s]) \subseteq Waits(s)'
  <2> DEFINE first == SetToSeq(W(s))
             q == queue[s]
  <2>1. IsFiniteSet(W(s))
    <3>1. CASE W(s) = {}
      BY <3>1, FS_EmptySet
    <3>2. CASE \E t : t \in W(s)
      <4>1. PICK t : t \in W(s)
        BY <3>2
      <4>2. W(s) = {t}
        BY <4>1 DEF PipeSound, OneFetch, Working
      <4> QED BY <4>2, FS_Singleton
    <3> QED BY <3>1, <3>2
  <2>2. /\ W(s) \subseteq Tile /\ \A t \in W(s) : t \in Waits(s)' /\ t \notin Waits(s)
        /\ Waits(s) \subseteq Waits(s)'
    BY <1>1 DEF Waits, Working
  <2> HIDE DEF W
  <2>3. first \in Seq(W(s)) /\ Distinct(first) /\ Elems(first) \subseteq W(s)
    BY <2>1, ListOf
  <2>4. q \in Seq(Tile) /\ Distinct(q) /\ Elems(q) \subseteq Waits(s)
    BY DEF PipeSound, Queued
  <2>5. queue'[s] = first \o q
    BY <1>5
  <2> HIDE DEF first, q
  <2>6. first \in Seq(Tile)
    BY <2>2, <2>3
  <2>7. Elems(first) \cap Elems(q) = {}
    BY <2>2, <2>3, <2>4
  <2>8. /\ first \o q \in Seq(Tile) /\ Distinct(first \o q)
        /\ Elems(first \o q) \subseteq Elems(first) \cup Elems(q)
    BY <2>3, <2>4, <2>6, <2>7, JoinDistinct
  <2>9. Elems(first \o q) \subseteq Waits(s)'
    BY <2>2, <2>3, <2>4, <2>8
  <2> QED BY <2>5, <2>8, <2>9
<1>7. Queued'
  BY <1>5, <1>6 DEF Queued
<1>8. OneFetch'
  BY <1>3 DEF OneFetch
<1>9. tile' = tile
  BY DEF Crash
<1> QED BY <1>2, <1>3, <1>4, <1>7, <1>8, <1>9 DEF PipeSound
-----------------------------------------------------------------------------
(* Every place under a tile stays accounted for.                            *)

\* A step that opens tiles and closes none.
OnlyOpens == \A t \in Tile : tile'[t] = tile[t] \/ tile'[t] \in OpenStatus

LEMMA OpenStays ==
  ASSUME RawStays, OnlyOpens
  PROVE  /\ \A p \in Place : Answered(p) => Answered(p)'
         /\ \A t \in Tile, p \in Place : OpenOver(p, Tile \ {t}) => OpenOver(p, Tile \ {t})'
         /\ \A p \in Place : OpenOver(p, Tile) => OpenOver(p, Tile)'
<1>1. \A p \in Place : Answered(p) => Answered(p)'
  BY DEF RawStays, Answered, Crowded
<1>2. ASSUME NEW p, NEW ts \in SUBSET Tile, OpenOver(p, ts) PROVE OpenOver(p, ts)'
  BY <1>2 DEF OpenOver, OnlyOpens, OpenStatus, Within
<1> QED BY <1>1, <1>2

LEMMA PlacesWithin ==
  ASSUME NEW t
  PROVE  Within(t) \subseteq Place
BY DEF Within, Place

LEMMA CoverOpens ==
  ASSUME RawStays, OnlyOpens, Covered
  PROVE  Covered'
<1> SUFFICES ASSUME NEW t \in Tile, tile'[t] \in TileStatus, NEW p \in Within(t)
             PROVE  Answered(p)' \/ OpenOver(p, Tile)'
  BY DEF Covered, Within
<1>1. p \in Place
  BY PlacesWithin
<1>2. CASE tile'[t] \in OpenStatus
  BY <1>2 DEF OpenOver, Within
<1>3. CASE tile'[t] = tile[t]
  BY <1>1, <1>3, OpenStays DEF Covered
<1> QED BY <1>2, <1>3 DEF OnlyOpens

\* A fetch that goes on keeps what it will enqueue, and what it has found until it lands.
LEMMA FetchGoesOn ==
  ASSUME RawStays, OnlyOpens, NEW t \in Tile, FetchSound(t),
         job'[t].st = "run" => /\ job[t].st = "run" /\ job'[t].left = job[t].left
                               /\ \A p \in job[t].found : p \in job'[t].found \/ raw'[p] # None
  PROVE  FetchSound(t)'
<1> SUFFICES ASSUME job'[t].st = "run", NEW p \in Within(t)
             PROVE  \/ p \in job'[t].found \/ Answered(p)'
                    \/ \E u \in job'[t].left \ {t} : p \in Within(u)
                    \/ OpenOver(p, Tile \ {t})'
  BY DEF FetchSound, Within
<1>1. p \in Place
  BY PlacesWithin
<1>2. \/ p \in job[t].found \/ Answered(p)
      \/ \E u \in job[t].left \ {t} : p \in Within(u)
      \/ OpenOver(p, Tile \ {t})
  BY DEF FetchSound
<1>3. p \in job[t].found => p \in job'[t].found \/ Answered(p)'
  BY DEF Answered
<1> QED BY <1>1, <1>2, <1>3, OpenStays

\* What a fetch enqueues is open once it has.
LEMMA CoverSplit ==
  ASSUME RawStays, PipeSound, NEW t \in Tile, FetchSound(t), EnqueueGoogleSubtiles(t)
  PROVE  FetchSound(t)' /\ OnlyOpens
<1> DEFINE ts == job[t].left
<1>1. tile' = Enqueued(ts) /\ job[t].st = "run" /\ job[t].found = {} /\ ts \subseteq Tile
  BY DEF EnqueueGoogleSubtiles, PipeSound, Job
<1>2. OnlyOpens
  BY <1>1 DEF OnlyOpens, Enqueued, OpenStatus
<1>3. ASSUME NEW p \in Within(t)
      PROVE  Answered(p)' \/ OpenOver(p, Tile \ {t})'
  <2>1. p \in Place
    BY PlacesWithin
  <2>2. Answered(p) \/ (\E u \in ts \ {t} : p \in Within(u)) \/ OpenOver(p, Tile \ {t})
    BY <1>1 DEF FetchSound
  <2>3. CASE \E u \in ts \ {t} : p \in Within(u)
    BY <1>1, <2>3 DEF OpenOver, Enqueued, OpenStatus, Within
  <2> QED BY <1>2, <2>1, <2>2, <2>3, OpenStays
<1> QED BY <1>2, <1>3 DEF FetchSound, Within

\* A tile is marked only once all its places are accounted for elsewhere.
LEMMA CoverFetched ==
  ASSUME LandInv, RawStays, NEW t \in Tile, Fetched(t)
  PROVE  Covered' /\ \A u \in Tile : FetchSound(u)'
<1>1. /\ job[t].st = "run" /\ job[t].found = {} /\ job[t].left = {}
      /\ \A u \in Tile \ {t} : tile'[u] = tile[u] /\ job'[u] = job[u]
      /\ tile'[t] = "FETCHED" /\ job'[t].st = "done"
  BY ShapedJob DEF Fetched, MayFinish, LandInv, PipeSound, Shaped
<1>2. \A p \in Place : Answered(p) => Answered(p)'
  BY DEF RawStays, Answered, Crowded
<1>3. ASSUME NEW p, OpenOver(p, Tile \ {t}) PROVE OpenOver(p, Tile)'
  BY <1>1, <1>3 DEF OpenOver, Within
<1>4. ASSUME NEW p \in Within(t) PROVE Answered(p)' \/ OpenOver(p, Tile)'
  <2>1. Answered(p) \/ OpenOver(p, Tile \ {t})
    BY <1>1 DEF LandInv, FetchSound
  <2> QED BY <1>2, <1>3, <2>1, PlacesWithin
<1>5. Covered'
  <2> SUFFICES ASSUME NEW u \in Tile, tile'[u] \in TileStatus, NEW p \in Within(u)
               PROVE  Answered(p)' \/ OpenOver(p, Tile)'
    BY DEF Covered, Within
  <2>1. CASE p \in Within(t)
    BY <1>4, <2>1
  <2>2. CASE p \notin Within(t)
    <3>1. tile[u] \in TileStatus
      BY <1>1, <2>2
    <3>2. Answered(p) \/ OpenOver(p, Tile)
      BY <3>1 DEF LandInv, Covered
    <3>3. OpenOver(p, Tile) => OpenOver(p, Tile \ {t})
      BY <2>2 DEF OpenOver
    <3> QED BY <1>2, <1>3, <3>2, <3>3, PlacesWithin
  <2> QED BY <2>1, <2>2
<1>6. ASSUME NEW u \in Tile PROVE FetchSound(u)'
  <2> SUFFICES ASSUME job'[u].st = "run", NEW p \in Within(u)
               PROVE  \/ p \in job'[u].found \/ Answered(p)'
                      \/ \E v \in job'[u].left \ {u} : p \in Within(v)
                      \/ OpenOver(p, Tile \ {u})'
    BY DEF FetchSound, Within
  <2>1. u # t /\ job'[u] = job[u]
    BY <1>1
  <2>2. p \notin Within(t)
    BY <1>1, <2>1, OneSource DEF LandInv, PipeSound, OneFetch, Working
  <2>3. \/ p \in job[u].found \/ Answered(p)
        \/ \E v \in job[u].left \ {u} : p \in Within(v)
        \/ OpenOver(p, Tile \ {u})
    BY <2>1 DEF LandInv, FetchSound
  <2>4. OpenOver(p, Tile \ {u}) => OpenOver(p, Tile \ {u})'
    BY <1>1, <2>2 DEF OpenOver, Within
  <2> QED BY <1>2, <2>1, <2>3, <2>4, PlacesWithin
<1> QED BY <1>5, <1>6

\* A fetch finds every place of its tile, or its answer is cut: then its quadrants will be
\* enqueued, or it is at the depth floor, too small to be split included.
LEMMA CoverFetch ==
  ASSUME PipeSound, RawStays, NEW t \in Tile, OverpassFetch(t) \/ GoogleFetch(t)
  PROVE  FetchSound(t)' /\ OnlyOpens
<1>1. /\ job'[t].st = "run" /\ tile' = [tile EXCEPT ![t] = "FETCHING"]
      /\ t.source = "OSM" => job'[t].found = Within(t)
      /\ t.source = "GOOGLE" => /\ t \in GoogleTree[job[t].depth]
                                /\ job'[t].found \in Answers(t)
                                /\ job'[t].left = Splits(t, job'[t].found)
  BY PipeFetch
<1>2. OnlyOpens
  BY <1>1 DEF OnlyOpens, OpenStatus, PipeSound
<1>3. ASSUME NEW p \in Within(t)
      PROVE  \/ p \in job'[t].found \/ Crowded(p)
             \/ \E u \in job'[t].left \ {t} : p \in Within(u)
  <2>1. CASE t.source = "OSM"
    BY <1>1, <2>1
  <2>2. CASE t.source = "GOOGLE"
    <3> DEFINE found == job'[t].found
               d == job[t].depth
    <3>1. /\ d \in 0 .. MaxDepth /\ MaxDepth \in Nat /\ MaxResults \in Nat
          /\ t \in GoogleTree[d] /\ found \in Answers(t)
          /\ job'[t].left = Splits(t, found)
      BY <1>1, <2>2, BoundsAssumption DEF PipeSound, Job
    <3>2. Cardinality(Within(t)) \in Nat
      <4>1. IsFiniteSet(Within(t))
        BY PlacesWithin, FS_Subset, FiniteSame, FinitePlacesAssumption
      <4> QED BY <4>1, FS_CardinalityType, CardinalitySame
    <3>3. CASE Cardinality(Within(t)) <= MaxResults
      BY <3>1, <3>3 DEF Answers
    <3>4. CASE Cardinality(Within(t)) > MaxResults
      <4>1. Cardinality(found) = MaxResults
        BY <3>1, <3>2, <3>4 DEF Answers
      <4>2. t \in GoogleTree[MaxDepth] => Crowded(p)
        BY <3>4 DEF Crowded
      <4>3. CASE d < MaxDepth
        <5>1. job'[t].left = Subtiles(t)
          BY <3>1, <4>1, <4>3 DEF Splits
        <5>2. PICK u \in Subtiles(t) : p \in Within(u)
          BY <2>2, QuadrantOver
        <5>3. u = t => t \in GoogleTree[MaxDepth]
          BY <3>1, <5>2, OwnQuadrant
        <5> QED BY <4>2, <5>1, <5>2, <5>3
      <4>4. CASE d = MaxDepth
        BY <3>1, <4>2, <4>4
      <4> QED BY <3>1, <4>3, <4>4
    <3> QED BY <3>1, <3>2, <3>3, <3>4
  <2> QED BY <2>1, <2>2, TileKinds
<1> QED BY <1>2, <1>3 DEF FetchSound, Within, Answered, Crowded

\* The pipeline is left alone.
LEMMA PipeStays ==
  ASSUME LandInv, RawStays, queue' = queue, job' = job,
         tile' \in [Tile -> TileStatus \cup {None}], OnlyOpens
  PROVE  PipeSound' /\ Covered' /\ \A t \in Tile : FetchSound(t)'
<1>1. PipeSound'
  <2>1. /\ OneFetch' /\ Queued' /\ \A t \in Tile : AtLevel(t)' /\ Splitting(t)'
    BY DEF LandInv, PipeSound, OneFetch, Working, Queued, Waits, AtLevel, Splitting
  <2> QED BY <2>1 DEF LandInv, PipeSound
<1>2. Covered'
  BY CoverOpens DEF LandInv
<1>3. ASSUME NEW t \in Tile PROVE FetchSound(t)'
  BY FetchGoesOn DEF LandInv
<1> QED BY <1>1, <1>2, <1>3

\* A row is upserted, and its job added.
LEMMA LandEnqueue ==
  ASSUME LandInv, RawStays, NEW r \in Region, NEW t \in OwnTiles(r), EnqueueTile(t)
  PROVE  PipeSound' /\ Covered' /\ OnlyOpens /\ \A u \in Tile : FetchSound(u)'
<1>1. PipeSound'
  BY PipeEnqueue DEF LandInv
<1>2. OnlyOpens
  BY DEF OnlyOpens, OpenStatus, EnqueueTile, Enqueued
<1>3. Covered'
  BY <1>2, CoverOpens DEF LandInv
<1>4. ASSUME NEW u \in Tile PROVE FetchSound(u)'
  <2>1. job'[u].st = "run" => job'[u] = job[u]
    <3>1. CASE u \in Fresh({t})
      <4>1. job'[u] = [NoJob EXCEPT !.st = "wait"]
        BY <3>1 DEF EnqueueTile
      <4> QED BY <4>1, NewJob DEF IsNew
    <3>2. CASE u \notin Fresh({t})
      BY <3>2 DEF EnqueueTile
    <3> QED BY <3>1, <3>2
  <2> QED BY <1>2, <2>1, FetchGoesOn DEF LandInv
<1> QED BY <1>1, <1>2, <1>3, <1>4

\* A step of a fetch.
LEMMA LandWork ==
  ASSUME LandInv, RawStays, NEW t \in Tile, Worker(t) \/ FetchFails(t)
  PROVE  /\ PipeSound' /\ Covered' /\ \A u \in Tile : FetchSound(u)'
         /\ OnlyOpens \/ \A u \in Tile : tile'[u] \in {tile[u], "FETCHED"}
<1> USE DEF LandInv
<1>1. CASE OverpassFetch(t) \/ GoogleFetch(t)
  <2>1. PipeSound' /\ \A u \in Tile \ {t} : job'[u] = job[u]
    BY <1>1, PipeFetch
  <2>2. FetchSound(t)' /\ OnlyOpens
    BY <1>1, CoverFetch
  <2>3. \A u \in Tile \ {t} : FetchSound(u)'
    BY <2>1, <2>2, FetchGoesOn
  <2> QED BY <2>1, <2>2, <2>3, CoverOpens
<1>2. CASE StoreElement(t) \/ StorePlace(t)
  <2>1. PipeSound' /\ \A u \in Tile \ {t} : job'[u] = job[u]
    BY <1>2, PipeWork
  <2>2. OnlyOpens
    BY <1>2 DEF OnlyOpens, StoreElement, StorePlace
  <2>3. PICK p \in job[t].found : raw' = Landed(p) /\ job' = [job EXCEPT ![t].found = @ \ {p}]
    BY <1>2 DEF StoreElement, StorePlace
  <2>4. p \in Place /\ raw'[p] # None
    <3>1. p \in Place
      BY DEF PipeSound, Job
    <3> DEFINE x == [content |-> world[p], status |-> "PENDING"]
    <3>2. x \in RawPlace /\ None \notin RawPlace
      BY <3>1, NoneAssumption DEF RawTyped, RawPlace
    <3> HIDE DEF x
    <3>3. (raw[p] # None /\ raw' = raw) \/ raw' = [raw EXCEPT ![p] = x]
      BY <2>3 DEF Landed, x
    <3> QED BY <3>1, <3>2, <3>3 DEF RawTyped
  <2>5. /\ job'[t].left = job[t].left /\ job'[t].found = job[t].found \ {p} /\ job[t].st = "run"
    <3>1. job[t] \in Job /\ job[t].st = "run"
      BY <1>2 DEF PipeSound, StoreElement, StorePlace
    <3>2. Shaped(job[t])
      BY <3>1, ShapedJob
    <3>3. job'[t] = [job[t] EXCEPT !.found = job[t].found \ {p}]
      BY <2>3 DEF PipeSound
    <3> QED BY <3>1, <3>2, <3>3 DEF Shaped
  <2>6. FetchSound(t)'
    BY <2>2, <2>4, <2>5, FetchGoesOn
  <2>7. \A u \in Tile \ {t} : FetchSound(u)'
    BY <2>1, <2>2, FetchGoesOn
  <2> QED BY <2>1, <2>2, <2>6, <2>7, CoverOpens
<1>3. CASE EnqueueGoogleSubtiles(t)
  <2>1. PipeSound'
    BY <1>3, PipeSplit
  <2>2. FetchSound(t)' /\ OnlyOpens
    BY <1>3, CoverSplit
  <2>3. ASSUME NEW u \in Tile \ {t} PROVE FetchSound(u)'
    <3>1. job'[u].st = "run" => job'[u] = job[u]
      <4> DEFINE ts == job[t].left
      <4>1. job'[u] = Deeper(t, ts)[u]
        BY <1>3 DEF EnqueueGoogleSubtiles, Deeper
      <4>2. CASE u \in Fresh(ts)
        <5>1. job'[u] = [NoJob EXCEPT !.st = "wait", !.depth = job[t].depth + 1]
          BY <4>1, <4>2 DEF Deeper
        <5> QED BY <5>1, NewJob DEF IsNew
      <4>3. CASE u \notin Fresh(ts)
        BY <4>1, <4>3 DEF Deeper
      <4> QED BY <4>2, <4>3
    <3> QED BY <2>2, <3>1, FetchGoesOn
  <2> QED BY <2>1, <2>2, <2>3, CoverOpens
<1>4. CASE Fetched(t)
  <2>1. PipeSound'
    BY <1>4, PipeWork
  <2>2. Covered' /\ \A u \in Tile : FetchSound(u)'
    BY <1>4, CoverFetched
  <2>3. \A u \in Tile : tile'[u] \in {tile[u], "FETCHED"}
    BY <1>4 DEF Fetched, PipeSound
  <2> QED BY <2>1, <2>2, <2>3
<1>5. CASE Acknowledge(t)
  <2>1. PipeSound' /\ \A u \in Tile \ {t} : job'[u] = job[u]
    BY <1>5, PipeWork
  <2>2. OnlyOpens
    BY <1>5 DEF OnlyOpens, Acknowledge
  <2>3. job'[t].st # "run"
    <3>1. job'[t] = NoJob
      BY <1>5 DEF Acknowledge, PipeSound
    <3> QED BY <3>1, NewJob
  <2>4. \A u \in Tile : FetchSound(u)'
    BY <2>1, <2>2, <2>3, FetchGoesOn
  <2> QED BY <2>1, <2>2, <2>4, CoverOpens
<1>6. CASE FetchFails(t)
  <2>1. PipeSound' /\ job'[t].st # "run" /\ \A u \in Tile \ {t} : job'[u] = job[u]
    BY <1>6, PipeFails
  <2>2. OnlyOpens
    BY <1>6 DEF OnlyOpens, OpenStatus, FetchFails, PipeSound
  <2>3. \A u \in Tile : FetchSound(u)'
    BY <2>1, <2>2, FetchGoesOn
  <2> QED BY <2>1, <2>2, <2>3, CoverOpens
<1> QED BY <1>1, <1>2, <1>3, <1>4, <1>5, <1>6 DEF Worker
-----------------------------------------------------------------------------
(* A sweep has a row for every tile of its regions.                         *)

RowsRemain == \A t \in Tile : tile[t] \in TileStatus => tile'[t] \in TileStatus

LEMMA SweepStays ==
  ASSUME SweepSound, RowsRemain, sweep' = sweep
  PROVE  SweepSound'
BY RegionTiles DEF SweepSound, RowsRemain

LEMMA SweepGone ==
  ASSUME sweep' = NoSweep
  PROVE  SweepSound'
BY DEF SweepSound, NoSweep

\* A sweep begins, or begins anew after a crash, with every tile of its regions.
LEMMA SweepBegins ==
  ASSUME NEW rs \in SUBSET Region, sweep'.st = "enqueue", sweep'.regions = rs,
         sweep'.todo = UNION {OsmTiles(r) \cup GoogleTiles(r) : r \in rs},
         sweep' = [st |-> sweep'.st, regions |-> sweep'.regions, todo |-> sweep'.todo,
                   late |-> sweep'.late]
  PROVE  SweepSound'
BY DEF SweepSound, OwnTiles

LEMMA SweepMoves ==
  ASSUME [IngestionNext]_ingestionVars
  PROVE  \/ sweep' \in {sweep, NoSweep} \/ EnqueueSweep \/ SweepEnqueues \/ Crash
         \/ \E late \in BOOLEAN : SweepDrains(late)
<1>1. ASSUME NEW t \in Tile, Worker(t) \/ FetchFails(t) PROVE sweep' = sweep
  BY <1>1 DEF Worker, FetchFails, OverpassFetch, GoogleFetch, StoreElement,
              StorePlace, EnqueueGoogleSubtiles, Fetched, Acknowledge
<1>2. ASSUME NEW d \in Drainer, Promotion(d) \/ PromotionFails(d)
      PROVE  sweep' \in {sweep, NoSweep}
  BY <1>2 DEF Promotion, DrainPending, PromoteRow, WriteRow, PromotionFails
<1>3. CASE \/ IngestRegion \/ SweepFails \/ EnqueuePromotion \/ EnqueueReclassify
           \/ Reclassify \/ RefreshReads \/ RefreshFindsNothing \/ RefreshOne
           \/ RefreshFails \/ Changes \/ Ages
           \/ (\E f \in Place : Archive(f) \/ Restore(f)) \/ UNCHANGED ingestionVars
  BY <1>3 DEF IngestRegion, SweepFails, EnqueuePromotion, EnqueueReclassify, Reclassify,
              RefreshReads, RefreshFindsNothing, RefreshOne, RefreshFails, Changes, Ages,
              Archive, Restore, ingestionVars
<1> QED BY <1>1, <1>2, <1>3 DEF IngestionNext, SweepStep, Drainer

LEMMA SweepSoundStep ==
  ASSUME SweepSound, PipeSound, RowsRemain, [IngestionNext]_ingestionVars
  PROVE  SweepSound'
<1>1. CASE EnqueueSweep
  <2>1. PICK rs \in (SUBSET Region) \ {{}} :
          sweep' = [NoSweep EXCEPT !.st = "enqueue", !.regions = rs,
                      !.todo = UNION {OsmTiles(r) \cup GoogleTiles(r) : r \in rs}]
    BY <1>1 DEF EnqueueSweep
  <2> DEFINE todo == UNION {OsmTiles(r) \cup GoogleTiles(r) : r \in rs}
  <2>2. sweep' = [st |-> "enqueue", regions |-> rs, todo |-> todo, late |-> FALSE]
    <3>1. sweep' = [NoSweep EXCEPT !.st = "enqueue", !.regions = rs, !.todo = todo]
      BY <2>1
    <3> HIDE DEF todo
    <3> QED BY <3>1 DEF NoSweep
  <2>3. sweep'.st = "enqueue" /\ sweep'.regions = rs /\ sweep'.todo = todo /\ sweep'.late = FALSE
    BY <2>2
  <2> QED BY <2>2, <2>3, SweepBegins
<1>2. CASE SweepEnqueues
  <2>1. PICK t \in sweep.todo :
          /\ EnqueueTile(t)
          /\ sweep' = [sweep EXCEPT !.todo = @ \ {t}, !.st = IF sweep.todo = {t} THEN "wait" ELSE @]
    BY <1>2 DEF SweepEnqueues
  <2> DEFINE todo == sweep.todo \ {t}
             st == IF sweep.todo = {t} THEN "wait" ELSE sweep.st
  <2>2. sweep' = [st |-> st, regions |-> sweep.regions, todo |-> todo, late |-> sweep.late]
    BY <2>1 DEF SweepSound
  <2>3. sweep.st = "enqueue" /\ st \in {"enqueue", "wait"} /\ (st = "wait" => todo = {})
    BY <1>2 DEF SweepEnqueues
  <2> HIDE DEF st
  <2>4. /\ sweep'.st = st /\ sweep'.regions = sweep.regions
        /\ sweep'.todo = todo /\ sweep'.late = sweep.late
    BY <2>2
  <2> HIDE DEF todo
  <2>5. tile'[t] \in TileStatus
    <3>1. t \in Tile
      BY RegionTiles DEF SweepSound
    <3> QED BY <2>1, <3>1 DEF EnqueueTile, Enqueued, TileStatus
  <2>6. ASSUME NEW r \in sweep.regions, NEW u \in OwnTiles(r)
        PROVE  u \in todo \/ tile'[u] \in TileStatus
    <3>1. u \in Tile
      BY RegionTiles DEF SweepSound
    <3>2. u \in sweep.todo \/ tile[u] \in TileStatus
      BY <2>3 DEF SweepSound
    <3> QED BY <2>5, <3>1, <3>2 DEF todo, RowsRemain
  <2>7. /\ sweep.regions \subseteq Region
        /\ \A u \in todo : \E r \in Region : u \in OwnTiles(r)
    BY DEF SweepSound, todo
  <2> QED BY <2>2, <2>3, <2>4, <2>6, <2>7 DEF SweepSound
<1>3. ASSUME NEW late \in BOOLEAN, SweepDrains(late) PROVE SweepSound'
  <2>1. sweep' = [sweep EXCEPT !.st = "drain", !.late = late]
    BY <1>3 DEF SweepDrains
  <2>2. sweep' = [st |-> "drain", regions |-> sweep.regions, todo |-> sweep.todo, late |-> late]
    BY <2>1 DEF SweepSound
  <2>3. /\ sweep'.st = "drain" /\ sweep'.regions = sweep.regions
        /\ sweep'.todo = sweep.todo /\ sweep'.late = late
    BY <2>2
  <2> QED BY <2>2, <2>3 DEF SweepSound
<1>4. CASE Crash
  <2>1. CASE sweep' = NoSweep
    BY <2>1, SweepGone
  <2>2. CASE sweep' # NoSweep
    <3> DEFINE todo == UNION {OsmTiles(r) \cup GoogleTiles(r) : r \in sweep.regions}
    <3>1. sweep' = [sweep EXCEPT !.st = "enqueue", !.late = FALSE, !.todo = todo]
      BY <1>4, <2>2 DEF Crash
    <3> HIDE DEF todo
    <3>2. sweep' = [st |-> "enqueue", regions |-> sweep.regions, todo |-> todo, late |-> FALSE]
      BY <3>1 DEF SweepSound
    <3>3. /\ sweep'.st = "enqueue" /\ sweep'.regions = sweep.regions
          /\ sweep'.todo = todo /\ sweep'.late = FALSE
      BY <3>2
    <3> USE DEF todo
    <3> QED BY <3>2, <3>3, SweepBegins DEF SweepSound
  <2> QED BY <2>1, <2>2
<1> QED BY <1>1, <1>2, <1>3, <1>4, SweepMoves, SweepStays, SweepGone
-----------------------------------------------------------------------------
(* The invariant, and what a sweep that ends its wait has.                  *)

LEMMA LandStep ==
  ASSUME ImportInv, LandInv, [IngestionNext]_ingestionVars
  PROVE  LandInv'
<1> USE DEF LandInv
<1>1. RawTyped' /\ RowsLanded' /\ RawStays
  BY RawStep
<1> DEFINE Lands == /\ PipeSound' /\ Covered' /\ \A t \in Tile : FetchSound(t)'
                    /\ RowsRemain
<1>2. ASSUME OnlyOpens \/ \A t \in Tile : tile'[t] \in {tile[t], "FETCHED"}
      PROVE  RowsRemain
  BY <1>2 DEF RowsRemain, OnlyOpens, OpenStatus, TileStatus
<1>3. ASSUME NEW t \in Tile, Worker(t) \/ FetchFails(t) PROVE Lands
  BY <1>1, <1>2, <1>3, LandWork
<1>4. ASSUME IngestRegion \/ SweepEnqueues PROVE Lands
  <2>1. PICK r \in Region : \E t \in OwnTiles(r) : EnqueueTile(t)
    BY <1>4 DEF IngestRegion, SweepEnqueues, SweepSound, OwnTiles
  <2> QED BY <1>1, <1>2, <2>1, LandEnqueue
<1>5. ASSUME SweepFails PROVE Lands
  <2>1. queue' = queue /\ job' = job /\ \E ts : tile' = Enqueued(ts)
    BY <1>5 DEF SweepFails
  <2>2. tile' \in [Tile -> TileStatus \cup {None}] /\ OnlyOpens
    BY <2>1 DEF Enqueued, OnlyOpens, OpenStatus, TileStatus, PipeSound
  <2> QED BY <1>1, <1>2, <2>1, <2>2, PipeStays
<1>6. ASSUME Crash PROVE Lands
  <2>1. PipeSound' /\ tile' = tile /\ \A t \in Tile : job'[t].st # "run"
    BY <1>6, PipeCrash
  <2>2. OnlyOpens
    BY <2>1 DEF OnlyOpens
  <2> QED BY <1>1, <1>2, <2>1, <2>2, CoverOpens, FetchGoesOn
<1>7. ASSUME UNCHANGED pipeline PROVE Lands
  <2>1. queue' = queue /\ job' = job /\ tile' = tile
    BY <1>7 DEF pipeline
  <2>2. tile' \in [Tile -> TileStatus \cup {None}] /\ OnlyOpens
    BY <2>1 DEF OnlyOpens, PipeSound
  <2> QED BY <1>1, <1>2, <2>1, <2>2, PipeStays
<1>8. ASSUME NEW d \in Drainer, Promotion(d) \/ PromotionFails(d) PROVE Lands
  BY <1>7, <1>8 DEF Promotion, DrainPending, PromoteRow, WriteRow, PromotionFails
<1>9. ASSUME NEW late \in BOOLEAN, SweepDrains(late) PROVE Lands
  BY <1>7, <1>9 DEF SweepDrains
<1>10. ASSUME \/ EnqueueSweep \/ EnqueuePromotion \/ EnqueueReclassify \/ Reclassify
              \/ RefreshReads \/ RefreshFindsNothing \/ RefreshOne \/ RefreshFails
              \/ Changes \/ Ages \/ (\E f \in Place : Archive(f) \/ Restore(f))
              \/ UNCHANGED ingestionVars
       PROVE  Lands
  <2>1. UNCHANGED pipeline
    BY <1>10 DEF EnqueueSweep, EnqueuePromotion, EnqueueReclassify, Reclassify,
                 RefreshReads, RefreshFindsNothing, RefreshOne, RefreshFails, Changes, Ages,
              Archive, Restore, ingestionVars,
                 pipeline
  <2> QED BY <1>7, <2>1
<1>11. Lands
  BY <1>3, <1>4, <1>5, <1>6, <1>8, <1>9, <1>10 DEF IngestionNext, SweepStep, Drainer
<1>12. SweepSound'
  BY <1>11, SweepSoundStep
<1> QED BY <1>1, <1>11, <1>12

LEMMA LandInit == ASSUME IngestionInit PROVE LandInv
<1>1. tile = [t \in Tile |-> None] /\ job = [t \in Tile |-> NoJob]
      /\ queue = [src \in {"OSM", "GOOGLE"} |-> <<>>] /\ drain = [d \in Drainer |-> NoDrain]
  BY DEF IngestionInit
<1>2. None \notin TileStatus
  BY NoneAssumption
<1>3. RawTyped
  <2>1. raw = [p \in Place |-> IF Origin(fac, p)
                                THEN [content |-> world[p], status |-> "PROCESSED"]
                                ELSE None]
    BY DEF IngestionInit
  <2>2. /\ world \in [Place -> UNION {Content(p) : p \in Place}]
        /\ \A p \in Place : world[p] \in Content(p)
    BY DEF IngestionInit
  <2>3. ASSUME NEW p \in Place
        PROVE  [content |-> world[p], status |-> "PROCESSED"] \in RawPlace
    BY <2>2 DEF RawPlace
  <2> QED BY <2>1, <2>2, <2>3 DEF RawTyped
<1>4. RowsLanded
  BY <1>1 DEF RowsLanded, NoDrain
<1>5. \A t \in Tile : job[t].st = "none" /\ job[t].left = {}
  BY <1>1, NewJob
<1>6. PipeSound
  <2>1. tile \in [Tile -> TileStatus \cup {None}] /\ job \in [Tile -> Job]
    BY <1>1, NoJobTyped
  <2>2. OneFetch /\ \A t \in Tile : AtLevel(t) /\ Splitting(t)
    BY <1>5 DEF OneFetch, Working, AtLevel, Splitting
  <2>3. <<>> \in Seq(Tile) /\ Distinct(<<>>) /\ Elems(<<>>) = {}
    BY DEF Distinct, Elems
  <2>4. Queued
    BY <1>1, <2>3 DEF Queued
  <2> QED BY <2>1, <2>2, <2>4 DEF PipeSound
<1>7. Covered /\ \A t \in Tile : FetchSound(t)
  BY <1>1, <1>2, <1>5 DEF Covered, FetchSound
<1>8. SweepSound
  BY DEF IngestionInit, NoSweep, SweepSound
<1> QED BY <1>3, <1>4, <1>6, <1>7, <1>8 DEF LandInv

\* A sweep that ends its wait before the ceiling promotes a whole region: every place of it
\* has landed, but under a crowded tile at the depth floor or a tile whose fetch failed.
THEOREM WholeRegionAlwaysLands ==
  IngestionSpec => WholeRegionLanded
<1>1. IngestionInit => ImportInv /\ LandInv
  BY ImportInit, LandInit
<1>2. ImportInv /\ LandInv /\ [IngestionNext]_ingestionVars => (ImportInv /\ LandInv)'
  BY ImportStep, LandStep
<1> DEFINE Whole == sweep.st = "wait" /\ sweep'.st = "drain" /\ ~sweep'.late
                    => \A p \in Place :
                         (\E r \in sweep.regions : Holds(r, p))
                         => \/ raw[p] # None
                            \/ Crowded(p)
                            \/ \E t \in Tile : p \in Within(t) /\ tile[t] = "FAILED"
<1>3. LandInv /\ [IngestionNext]_ingestionVars => Whole
  <2> SUFFICES ASSUME LandInv, [IngestionNext]_ingestionVars,
                      sweep.st = "wait", sweep'.st = "drain", ~sweep'.late,
                      NEW p \in Place, NEW r \in sweep.regions, Holds(r, p)
               PROVE  \/ raw[p] # None \/ Crowded(p)
                      \/ \E t \in Tile : p \in Within(t) /\ tile[t] = "FAILED"
    OBVIOUS
  <2>1. Waiting = {}
    <3>1. sweep = [st |-> "wait", regions |-> sweep.regions, todo |-> sweep.todo, late |-> sweep.late]
      BY DEF LandInv, SweepSound
    <3>2. ~Crash
      <4> SUFFICES ASSUME Crash PROVE FALSE
        OBVIOUS
      <4>1. PICK todo : sweep' = [sweep EXCEPT !.st = "enqueue", !.late = FALSE, !.todo = todo]
        BY DEF Crash
      <4>2. sweep' = [st |-> "enqueue", regions |-> sweep.regions, todo |-> todo, late |-> FALSE]
        BY <3>1, <4>1
      <4> QED BY <4>2
    <3>3. PICK late \in BOOLEAN : SweepDrains(late)
      BY <3>2, SweepMoves DEF NoSweep, EnqueueSweep, SweepEnqueues
    <3>4. sweep' = [sweep EXCEPT !.st = "drain", !.late = late]
      BY <3>3 DEF SweepDrains
    <3>5. sweep' = [st |-> "drain", regions |-> sweep.regions, todo |-> sweep.todo, late |-> late]
      BY <3>1, <3>4
    <3>6. ~late
      BY <3>5
    <3> QED BY <3>3, <3>6 DEF SweepDrains
  <2>2. r \in Region
    BY DEF LandInv, SweepSound
  <2>3. PICK t \in OwnTiles(r) : p \in Within(t)
    BY <2>2, RegionCovered
  <2>4. t \in Tile /\ tile[t] \in TileStatus
    BY <2>2, RegionTiles DEF LandInv, SweepSound
  <2>5. Answered(p) \/ OpenOver(p, Tile)
    BY <2>3, <2>4 DEF LandInv, Covered
  <2>6. ASSUME NEW u \in Tile, p \in Within(u), tile[u] \in OpenStatus
        PROVE  tile[u] = "FAILED"
    <3>1. Overlaps(u.box, r)
      BY <2>2, <2>6, WithinOverlaps
    <3>2. tile[u] \notin Awaited
      BY <2>1, <3>1 DEF Waiting
    <3> QED BY <2>6, <3>2 DEF Awaited, OpenStatus
  <2> QED BY <2>5, <2>6 DEF Answered, OpenOver
<1> QED BY <1>1, <1>2, <1>3, PTL DEF IngestionSpec, WholeRegionLanded

\* The sweep drains while its drain is on.
DrainOn ==
  /\ sweep.st \in {"idle", "enqueue", "wait", "drain"}
  /\ (sweep.st = "drain") <=> (drain["sweep"].st # "off")

LEMMA DrainOnStep ==
  ASSUME CatalogueTyped, SweepSound, DrainOn, [IngestionNext]_ingestionVars
  PROVE  DrainOn'
<1>0. /\ drain = [d \in Drainer |-> [st |-> drain[d].st, rows |-> drain[d].rows, at |-> drain[d].at]]
      /\ "sweep" \in Drainer /\ "promote" \in Drainer
  BY DEF CatalogueTyped, Drainer
<1>1. ASSUME drain' = drain, sweep.st # "drain", sweep'.st \in {"idle", "enqueue", "wait"}
      PROVE  DrainOn'
  BY <1>1 DEF DrainOn
<1>2. ASSUME drain'["sweep"] = drain["sweep"], sweep' = sweep PROVE DrainOn'
  BY <1>2 DEF DrainOn
<1>3. CASE EnqueueSweep
  <2>1. PICK rs, todo : sweep' = [NoSweep EXCEPT !.st = "enqueue", !.regions = rs, !.todo = todo]
    BY <1>3 DEF EnqueueSweep
  <2>2. sweep'.st = "enqueue"
    BY <2>1 DEF NoSweep
  <2> QED BY <1>1, <1>3, <2>2 DEF EnqueueSweep
<1>4. CASE SweepEnqueues
  <2>1. PICK t : sweep' = [sweep EXCEPT !.todo = @ \ {t}, !.st = IF sweep.todo = {t} THEN "wait" ELSE @]
    BY <1>4 DEF SweepEnqueues
  <2>2. PICK st : st = IF sweep.todo = {t} THEN "wait" ELSE sweep.st
    OBVIOUS
  <2>3. sweep' = [st |-> st, regions |-> sweep.regions, todo |-> sweep.todo \ {t}, late |-> sweep.late]
    BY <2>1, <2>2 DEF SweepSound
  <2>4. sweep'.st = st
    BY <2>3
  <2> QED BY <1>1, <1>4, <2>2, <2>4 DEF SweepEnqueues
<1>5. CASE SweepFails
  BY <1>1, <1>5 DEF SweepFails, NoSweep
<1>6. ASSUME NEW late \in BOOLEAN, SweepDrains(late) PROVE DrainOn'
  <2>1. /\ sweep' = [sweep EXCEPT !.st = "drain", !.late = late]
        /\ drain' = [drain EXCEPT !["sweep"].st = "read"]
    BY <1>6 DEF SweepDrains
  <2>2. sweep' = [st |-> "drain", regions |-> sweep.regions, todo |-> sweep.todo, late |-> late]
    BY <2>1 DEF SweepSound
  <2>3. drain'["sweep"] = [[st |-> drain["sweep"].st, rows |-> drain["sweep"].rows,
                            at |-> drain["sweep"].at] EXCEPT !.st = "read"]
    BY <1>0, <2>1
  <2>4. sweep'.st = "drain" /\ drain'["sweep"].st = "read"
    BY <2>2, <2>3
  <2> QED BY <2>4 DEF DrainOn
<1>7. CASE Crash
  <2>1. drain'["sweep"].st = "off"
    BY <1>0, <1>7 DEF Crash, NoDrain
  <2>2. sweep'.st \in {"idle", "enqueue"}
    <3>1. CASE sweep' = NoSweep
      BY <3>1 DEF NoSweep
    <3>2. CASE sweep' # NoSweep
      <4>1. PICK todo : sweep' = [sweep EXCEPT !.st = "enqueue", !.late = FALSE, !.todo = todo]
        BY <1>7, <3>2 DEF Crash
      <4>2. sweep' = [st |-> "enqueue", regions |-> sweep.regions, todo |-> todo, late |-> FALSE]
        BY <4>1 DEF SweepSound
      <4> QED BY <4>2
    <3> QED BY <3>1, <3>2
  <2> QED BY <2>1, <2>2 DEF DrainOn
<1>8. ASSUME Promotion("promote") \/ PromotionFails("promote") \/ EnqueuePromotion
             \/ EnqueueReclassify \/ Reclassify
      PROVE  DrainOn'
  <2>1. drain'["sweep"] = drain["sweep"]
    BY <1>0, <1>8 DEF Promotion, DrainPending, PromoteRow, WriteRow, PromotionFails,
                      EnqueuePromotion, EnqueueReclassify, Reclassify, Rest,
                      Reclassifying
  <2>2. sweep' = sweep
    BY <1>8 DEF Promotion, DrainPending, PromoteRow, WriteRow, PromotionFails,
                EnqueuePromotion, EnqueueReclassify, Reclassify
  <2> QED BY <1>2, <2>1, <2>2
<1>9. ASSUME PromoteRow("sweep") \/ WriteRow("sweep") \/ PromotionFails("sweep")
      PROVE  DrainOn'
  <2>1. sweep' = sweep /\ drain["sweep"].st \in {"rows", "write"}
    BY <1>9 DEF PromoteRow, WriteRow, PromotionFails
  <2>2. drain'["sweep"].st \in {"read", "rows", "write"}
    <3>1. CASE \E rows : drain' = Rest("sweep", rows)
      BY <1>0, <3>1 DEF Rest
    <3>2. CASE \E rows, at : drain' = [drain EXCEPT !["sweep"] = [st |-> "write", rows |-> rows, at |-> at]]
      BY <1>0, <3>2
    <3> QED BY <1>9, <3>1, <3>2 DEF PromoteRow, WriteRow, PromotionFails
  <2> QED BY <2>1, <2>2 DEF DrainOn
<1>10. CASE DrainPending("sweep")
  <2>1. CASE drain' = [drain EXCEPT !["sweep"] = NoDrain] /\ sweep' = NoSweep
    BY <1>0, <2>1 DEF NoDrain, NoSweep, DrainOn
  <2>2. ASSUME sweep' = sweep, NEW rows,
               drain' = [drain EXCEPT !["sweep"].st = "rows", !["sweep"].rows = rows]
        PROVE  DrainOn'
    <3>1. drain'["sweep"] = [[st |-> drain["sweep"].st, rows |-> drain["sweep"].rows,
                              at |-> drain["sweep"].at] EXCEPT !.st = "rows", !.rows = rows]
      BY <1>0, <2>2
    <3>2. drain'["sweep"].st = "rows"
      BY <3>1
    <3> QED BY <1>10, <2>2, <3>2 DEF DrainOn, DrainPending
  <2> QED BY <1>10, <2>1, <2>2 DEF DrainPending
<1>11. ASSUME NEW t \in Tile, Worker(t) \/ FetchFails(t) PROVE DrainOn'
  BY <1>2, <1>11 DEF Worker, FetchFails, OverpassFetch, GoogleFetch, StoreElement,
                     StorePlace, EnqueueGoogleSubtiles, Fetched, Acknowledge
<1>12. CASE \/ IngestRegion \/ RefreshReads \/ RefreshFindsNothing \/ RefreshOne
            \/ RefreshFails \/ Changes \/ Ages
            \/ (\E f \in Place : Archive(f) \/ Restore(f)) \/ UNCHANGED ingestionVars
  BY <1>2, <1>12 DEF IngestRegion, RefreshReads, RefreshFindsNothing, RefreshOne,
                     RefreshFails, Changes, Ages, Archive, Restore, ingestionVars
<1>13. ASSUME NEW d \in Drainer, Promotion(d) \/ PromotionFails(d) PROVE DrainOn'
  <2>1. CASE d = "sweep"
    BY <1>9, <1>10, <1>13, <2>1 DEF Promotion
  <2>2. CASE d = "promote"
    BY <1>8, <1>13, <2>2
  <2> QED BY <2>1, <2>2 DEF Drainer
<1> QED
  BY <1>0, <1>3, <1>4, <1>5, <1>6, <1>7, <1>8, <1>11, <1>12, <1>13 DEF IngestionNext, SweepStep

\* Only facilities there are are archived, and none ever goes.
ArchivedKnown == archived \subseteq {f \in Place : fac[f] # None}
LEMMA ArchivedMoves ==
  ASSUME [IngestionNext]_ingestionVars
  PROVE  \/ archived' = archived
         \/ \E f \in Place : archived' = archived \cup {f} /\ fac[f] # None
         \/ archived' \subseteq archived
<1>1. ASSUME NEW t \in Tile, Worker(t) \/ FetchFails(t) PROVE UNCHANGED catalogue
  BY ZenonT(60), <1>1 DEF Worker, FetchFails, OverpassFetch, GoogleFetch, StoreElement,
         StorePlace, EnqueueGoogleSubtiles, Fetched, Acknowledge
<1>2. ASSUME \/ IngestRegion \/ EnqueueSweep \/ SweepEnqueues \/ SweepFails \/ Changes
             \/ EnqueuePromotion \/ EnqueueReclassify \/ RefreshReads \/ RefreshFails \/ Crash
             \/ \E late \in BOOLEAN : SweepDrains(late)
      PROVE  UNCHANGED catalogue
  BY ZenonT(60), <1>2 DEF IngestRegion, EnqueueSweep, SweepEnqueues, SweepFails, Changes,
         EnqueuePromotion, EnqueueReclassify, RefreshReads, RefreshFails, Crash, SweepDrains
<1>3. ASSUME NEW d \in Drainer, Promotion(d) \/ PromotionFails(d) PROVE archived' = archived
  BY <1>3 DEF Promotion, DrainPending, PromoteRow, WriteRow, PromotionFails, catalogue
<1>4. CASE Reclassify \/ RefreshFindsNothing \/ RefreshOne \/ Ages
  BY <1>4 DEF Reclassify, RefreshFindsNothing, RefreshOne, Ages, catalogue
<1>5. CASE \E f \in Place : Archive(f) \/ Restore(f)
  BY <1>5 DEF Archive, Restore
<1>6. CASE UNCHANGED ingestionVars
  BY <1>6 DEF ingestionVars
<1> QED
  BY <1>1, <1>2, <1>3, <1>4, <1>5, <1>6 DEF IngestionNext, SweepStep, Drainer, catalogue

LEMMA ArchivedStep ==
  ASSUME ArchivedKnown, FacilitiesStay, [IngestionNext]_ingestionVars
  PROVE  ArchivedKnown'
<1>1. ASSUME NEW f \in Place, fac[f] # None PROVE fac'[f] # None
  BY <1>1 DEF FacilitiesStay
<1> QED BY <1>1, ArchivedMoves DEF ArchivedKnown

\* Queues hold tiles, rows of every table are of their shape, and a sweep that drains has a
\* drain that is on, and the reverse.
THEOREM IngestionTypes ==
  IngestionSpec => []IngestionTypeOK
<1> DEFINE TypesInv == ImportInv /\ LandInv /\ DrainOn /\ ArchivedKnown
<1>1. IngestionInit => TypesInv
  <2>1. IngestionInit => DrainOn
    BY DEF IngestionInit, NoSweep, NoDrain, Drainer, DrainOn
  <2>2. IngestionInit => ArchivedKnown
    BY DEF IngestionInit, ArchivedKnown
  <2> QED BY <2>1, <2>2, ImportInit, LandInit
<1>2. TypesInv /\ [IngestionNext]_ingestionVars => TypesInv'
  <2>1. ImportInv /\ LandInv /\ DrainOn /\ [IngestionNext]_ingestionVars => DrainOn'
    BY DrainOnStep DEF ImportInv, LandInv
  <2>2. TypesInv /\ [IngestionNext]_ingestionVars => ArchivedKnown'
    BY ImportStep, ArchivedStep
  <2> QED BY <2>1, <2>2, ImportStep, LandStep
<1>3. TypesInv => IngestionTypeOK
  <2> SUFFICES ASSUME TypesInv PROVE IngestionTypeOK
    OBVIOUS
  <2>1. queue \in [{"OSM", "GOOGLE"} -> Seq(Tile)]
    BY DEF LandInv, PipeSound, Queued
  <2>2. \A t \in Tile : job[t].st \in {"none", "wait", "run", "done"}
    BY DEF LandInv, PipeSound, Job
  <2>3. tile \in [Tile -> TileStatus \cup {None}]
    BY DEF LandInv, PipeSound
  <2>4. \A p \in Place : raw[p] = None \/ raw[p] \in RawPlace
    BY DEF LandInv, RawTyped
  <2>5. fac \in [Place -> Facility \cup {None}]
    BY DEF ImportInv, CatalogueTyped
  <2> QED BY <2>1, <2>2, <2>3, <2>4, <2>5 DEF DrainOn, IngestionTypeOK, ArchivedKnown
<1> HIDE DEF TypesInv
<1> QED BY <1>1, <1>2, <1>3, PTL DEF IngestionSpec
=============================================================================
