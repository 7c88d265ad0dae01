---------------------------- MODULE TariffProofs ----------------------------
(***************************************************************************)
(* Proofs about tariffs: Catalogue, what an operator sells and which plan  *)
(* prices what, and Pricing, the price of one stay.                        *)
(*                                                                         *)
(* Of Catalogue: its types and its four properties, for any number of plans, *)
(* facilities, stays and requests and any quotas.  A plan's version is what *)
(* everything rests on: while no two edits of it overlap, the version tells *)
(* the schedule and the state it was read in.                              *)
(*                                                                         *)
(* Of Pricing: its types; that a schedule the write path accepts prices    *)
(* every stay; that the bill is what the schedule says minute by minute;   *)
(* and that a longer stay costs no less, for every draft, stay, week and   *)
(* length of day.  The loop itself carries the induction along the tiers:  *)
(* wherever it stands some tier begins or continues there, and what it has *)
(* charged is one charge for each start before the cursor.                 *)
(***************************************************************************)
EXTENDS Catalogue, Pricing, Sequences, FiniteSetTheorems, WellFoundedInduction, TLAPS

(* An operator has finitely many plans and facilities.                     *)
LEMMA FiniteRows == IsFiniteSet(Plan) /\ IsFiniteSet(Facility)
  BY RowsAssumption

(* A request that has read carries the fields of its own kind.             *)
LEMMA TaskTypes ==
  ASSUME TypeOK, NEW s \in Slot
  PROVE  /\ flight[s].do = "add" => flight[s] \in
              [do : {"add"}, what : Kept, limit : 1..MaxQuota, first : BOOLEAN,
               stamp : 1..MaxMove]
         /\ flight[s].do \in {"edit", "delete"} => flight[s] \in
              [do : {"edit", "delete"}, of : Plan, saw : Seen, others : Nat,
               stamp : 1..MaxMove]
         /\ flight[s].do = "assign" => flight[s] \in
              [do : {"assign"}, of : Facility, plan : Plan]
         /\ flight[s].do = "kind" => flight[s] \in
              [do : {"kind"}, of : Facility, saw : {"BUSINESS", "OTHER"}]
         /\ flight[s].do = "quote" => flight[s] \in
              [do : {"quote"}, of : Booking, plan : Plan, version : Version]
         /\ flight[s].do = "leave" => flight[s] \in
              [do : {"leave"}, of : Booking, found : BOOLEAN]
  <1>1. flight[s] \in Task \cup {Idle}
    BY DEF TypeOK
  <1> QED BY <1>1 DEF Task, Idle

(* A plan that exists is a row, and so is a facility.                      *)
LEMMA RowTypes ==
  ASSUME TypeOK
  PROVE  /\ \A p \in Plan : plan[p] # Absent => plan[p] \in Row
         /\ \A p \in Plan : Standing(p) => plan[p] \in Row /\ plan[p] # Absent
         /\ \A f \in Facility : f \in Sites => facility[f] \in Site
  <1>1. plan \in [Plan -> Row \cup {Absent}]
        /\ facility \in [Facility -> Site \cup {Absent}]
    BY DEF TypeOK
  <1>2. Absent.life = "ABSENT"
    BY DEF Absent
  <1> QED BY <1>1, <1>2 DEF Standing, Sites

(***************************************************************************)
(* The inductive invariant of Catalogue.  A plan's version counts its      *)
(* edits, so it tells the schedule it was read with: that is what a pin and an      *)
(* edit rely on.  Two edits that overlap leave the version where one would *)
(* have, and nothing is known of such a plan ("tangled").  An addition is  *)
(* still under the quota it was counted against, for it holds the lock.    *)
(***************************************************************************)
VersionsBounded == \A p \in Plan : plan[p] # Absent => plan[p].version <= moves + 1

ReadBefore(s) ==
  LET t == flight[s]
  IN /\ t.do = "add" => lock = s /\ Charged[t.what] < t.limit
     /\ t.do \in {"edit", "delete"} =>
          /\ plan[t.of] # Absent
          /\ t.saw.version <= t.stamp /\ t.stamp <= moves
          /\ t.of \notin tangled =>
               /\ t.saw.version <= plan[t.of].version
               /\ t.saw.version = plan[t.of].version => t.saw.active = plan[t.of].active
     /\ t.do = "quote" =>
          /\ plan[t.plan] # Absent /\ pin[t.of] = None
          /\ t.plan \notin tangled => t.version <= plan[t.plan].version
     /\ t.do = "leave" => pin[t.of] # None
ReadsStand == \A s \in Slot : ReadBefore(s)

QuotedOnce ==
  \A s, x \in Slot : flight[s].do = "quote" /\ flight[x].do = "quote"
                     /\ flight[s].of = flight[x].of => s = x

Pinned(b) ==
  pin[b] # None =>
    /\ plan[pin[b].plan] # Absent
    /\ pin[b].plan \notin tangled =>
         /\ pin[b].version <= plan[pin[b].plan].version
         /\ pin[b].version = plan[pin[b].plan].version
              => pin[b].tariff = plan[pin[b].plan].tariff
PinsStand == \A b \in Booking : Pinned(b) /\ (bill[b] # None => pin[b] # None)

CatalogueInv == /\ TypeOK /\ VersionsBounded /\ ReadsStand /\ QuotedOnce /\ PinsStand
                /\ SameScheduleBothEnds /\ AssignmentsAreSellable

(* A slot keeps its request, finishes it or takes a new one.               *)
StepBegins(x) == \/ \E k \in Kept : AddLocks(x, k)
                 \/ \E p \in Plan, do \in {"edit", "delete"} : ChangeReads(x, p, do)
                 \/ \E f \in Facility, p \in Plan : AssignReads(x, f, p)
                 \/ \E f \in Facility : KindReads(x, f)
                 \/ \E b \in Booking, f \in Facility : QuoteReads(x, b, f)
                 \/ \E b \in Booking : Leave(x, b)

(* Who writes each variable.                                               *)
PlanStep == \/ \E s \in Slot, p \in Plan, d \in Draft : InsertPlan(s, p, d)
            \/ \E s \in Slot, d \in Draft, c \in Plan \cup {None}, waited \in BOOLEAN :
                  EditCommits(s, d, c, waited)
            \/ \E s \in Slot, c \in Plan \cup {None} : DeleteCommits(s, c)
            \/ \E p \in Plan : ArchivePlan(p)
            \/ \E p \in Plan : RestorePlan(p)

FacilityStep == \/ \E s \in Slot, f \in Facility : InsertFacility(s, f)
                \/ \E s \in Slot, to \in {"BUSINESS", "OTHER"} : KindWrites(s, to)
                \/ \E f \in Facility : ArchiveFacility(f)
                \/ \E f \in Facility : RestoreFacility(f)
                \/ \E f \in Facility : Publish(f)
                \/ \E f \in Facility, a, u \in BOOLEAN : Show(f, a, u)

AssignedStep == \/ \E s \in Slot, c \in Plan \cup {None} : DeleteCommits(s, c)
                \/ \E s \in Slot : AssignWrites(s)
                \/ \E s \in Slot, to \in {"BUSINESS", "OTHER"} : KindWrites(s, to)
                \/ \E f \in Facility : Unassign(f)

TripStep == \/ \E s \in Slot : QuotePins(s)
            \/ \E s \in Slot : CheckOut(s)

QuotaStep == \/ \E q \in [Kept -> 1..MaxQuota] : Override(q)
             \/ \E k \in Kept, n \in 1..MaxQuota : Requota(k, n)
             \/ Lapse

LockStep == \/ \E s \in Slot, k \in Kept : AddLocks(s, k)
            \/ \E s \in Slot, p \in Plan, d \in Draft : InsertPlan(s, p, d)
            \/ \E s \in Slot, f \in Facility : InsertFacility(s, f)
            \/ \E s \in Slot : Rollback(s)

FlightStep == (\E s \in Slot : Done(s)) \/ (\E s \in Slot : StepBegins(s))

(* The operations of Catalogue, one by one.                                *)
LEMMA Split ==
  ASSUME [Next]_vars
  PROVE  \/ \E s \in Slot, k \in Kept : AddLocks(s, k)
         \/ \E s \in Slot, p \in Plan, d \in Draft : InsertPlan(s, p, d)
         \/ \E s \in Slot, f \in Facility : InsertFacility(s, f)
         \/ \E s \in Slot : Rollback(s)
         \/ \E s \in Slot, p \in Plan, do \in {"edit", "delete"} : ChangeReads(s, p, do)
         \/ \E s \in Slot, d \in Draft, c \in Plan \cup {None}, waited \in BOOLEAN :
               EditCommits(s, d, c, waited)
         \/ \E s \in Slot, c \in Plan \cup {None} : DeleteCommits(s, c)
         \/ \E s \in Slot, f \in Facility, p \in Plan : AssignReads(s, f, p)
         \/ \E s \in Slot, f \in Facility : KindReads(s, f)
         \/ \E s \in Slot : AssignWrites(s)
         \/ \E s \in Slot, to \in {"BUSINESS", "OTHER"} : KindWrites(s, to)
         \/ \E s \in Slot, b \in Booking, f \in Facility : QuoteReads(s, b, f)
         \/ \E s \in Slot : QuotePins(s)
         \/ \E s \in Slot, b \in Booking : Leave(s, b)
         \/ \E s \in Slot : CheckOut(s)
         \/ \E p \in Plan : ArchivePlan(p)
         \/ \E p \in Plan : RestorePlan(p)
         \/ \E f \in Facility : ArchiveFacility(f)
         \/ \E f \in Facility : RestoreFacility(f)
         \/ \E f \in Facility : Unassign(f)
         \/ \E f \in Facility : Publish(f)
         \/ \E f \in Facility, a, u \in BOOLEAN : Show(f, a, u)
         \/ \E q \in [Kept -> 1..MaxQuota] : Override(q)
         \/ \E k \in Kept, n \in 1..MaxQuota : Requota(k, n)
         \/ Lapse
         \/ UNCHANGED vars
  <1>1. CASE \E s \in Slot : Adds(s)
    BY <1>1 DEF Adds
  <1>2. CASE \E s \in Slot : Changes(s)
    BY <1>2 DEF Changes
  <1>3. CASE \E s \in Slot : Places(s)
    BY <1>3 DEF Places
  <1>4. CASE \E s \in Slot : Quotes(s)
    BY <1>4 DEF Quotes
  <1>5. CASE AtOnce
    BY <1>5 DEF AtOnce
  <1>6. \/ (\E s \in Slot : Adds(s)) \/ (\E s \in Slot : Changes(s))
        \/ (\E s \in Slot : Places(s)) \/ (\E s \in Slot : Quotes(s))
        \/ AtOnce \/ UNCHANGED vars
    BY DEF Next
  <1> QED BY <1>1, <1>2, <1>3, <1>4, <1>5, <1>6

(* A step writes a variable only where it is one of that variable's steps. *)
LEMMA Writers ==
  ASSUME [Next]_vars
  PROVE  /\ PlanStep \/ (plan' = plan /\ tangled' = tangled)
         /\ FacilityStep \/ (facility' = facility)
         /\ AssignedStep \/ (assigned' = assigned /\ astray' = astray)
         /\ TripStep \/ (pin' = pin /\ bill' = bill)
         /\ QuotaStep \/ (quota' = quota)
         /\ LockStep \/ (lock' = lock)
         /\ FlightStep \/ flight' = flight
         /\ Move \/ moves' = moves
  <1>1. CASE \E s \in Slot, k \in Kept : AddLocks(s, k)
    <2>1. PICK s \in Slot, k \in Kept : AddLocks(s, k)
      BY <1>1
    <2>2. /\ UNCHANGED <<plan, tangled, facility, assigned, astray, pin, bill, quota>>
          /\ Move \/ moves' = moves
      BY <2>1 DEF AddLocks, rows, trips, history, Start
    <2>3. LockStep /\ FlightStep
      BY <2>1 DEF LockStep, FlightStep, StepBegins
    <2> QED BY <2>2, <2>3
  <1>2. CASE \E s \in Slot, p \in Plan, d \in Draft : InsertPlan(s, p, d)
    <2>1. PICK s \in Slot, p \in Plan, d \in Draft : InsertPlan(s, p, d)
      BY <1>2
    <2>2. UNCHANGED <<facility, assigned, astray, pin, bill, quota, moves>>
      BY <2>1 DEF InsertPlan, rows, trips, history, Done
    <2>3. Done(s)
      BY <2>1 DEF InsertPlan
    <2>4. PlanStep /\ LockStep /\ FlightStep
      BY <2>1, <2>3 DEF PlanStep, LockStep, FlightStep
    <2> QED BY <2>2, <2>4
  <1>3. CASE \E s \in Slot, f \in Facility : InsertFacility(s, f)
    <2>1. PICK s \in Slot, f \in Facility : InsertFacility(s, f)
      BY <1>3
    <2>2. UNCHANGED <<plan, tangled, assigned, astray, pin, bill, quota, moves>>
      BY <2>1 DEF InsertFacility, rows, trips, history, Done
    <2>3. Done(s)
      BY <2>1 DEF InsertFacility
    <2>4. FacilityStep /\ LockStep /\ FlightStep
      BY <2>1, <2>3 DEF FacilityStep, LockStep, FlightStep
    <2> QED BY <2>2, <2>4
  <1>4. CASE \E s \in Slot : Rollback(s)
    <2>1. PICK s \in Slot : Rollback(s)
      BY <1>4
    <2>2. UNCHANGED <<plan, tangled, facility, assigned, astray, pin, bill, quota, moves>>
      BY <2>1 DEF Rollback, rows, trips, history, Done
    <2>3. Done(s)
      BY <2>1 DEF Rollback
    <2>4. LockStep /\ FlightStep
      BY <2>1, <2>3 DEF LockStep, FlightStep
    <2> QED BY <2>2, <2>4
  <1>5. CASE \E s \in Slot, p \in Plan, do \in {"edit", "delete"} : ChangeReads(s, p, do)
    <2>1. PICK s \in Slot, p \in Plan, do \in {"edit", "delete"} : ChangeReads(s, p, do)
      BY <1>5
    <2>2. /\ UNCHANGED <<plan, tangled, facility, assigned, astray, pin, bill, quota, lock>>
          /\ Move \/ moves' = moves
      BY <2>1 DEF ChangeReads, rows, trips, history, Start
    <2>3. FlightStep
      BY <2>1 DEF FlightStep, StepBegins
    <2> QED BY <2>2, <2>3
  <1>6. CASE \E s \in Slot, d \in Draft, c \in Plan \cup {None}, waited \in BOOLEAN :
               EditCommits(s, d, c, waited)
    <2>1. PICK s \in Slot, d \in Draft, c \in Plan \cup {None}, waited \in BOOLEAN :
             EditCommits(s, d, c, waited)
      BY <1>6
    <2>2. UNCHANGED <<facility, assigned, astray, pin, bill, quota, lock, moves>>
      BY <2>1 DEF EditCommits, rows, trips, history, Done
    <2>3. Done(s)
      BY <2>1 DEF EditCommits
    <2>4. PlanStep /\ FlightStep
      BY <2>1, <2>3 DEF PlanStep, FlightStep
    <2> QED BY <2>2, <2>4
  <1>7. CASE \E s \in Slot, c \in Plan \cup {None} : DeleteCommits(s, c)
    <2>1. PICK s \in Slot, c \in Plan \cup {None} : DeleteCommits(s, c)
      BY <1>7
    <2>2. UNCHANGED <<facility, pin, bill, quota, lock, moves>>
      BY <2>1 DEF DeleteCommits, rows, trips, history, Done
    <2>3. Done(s)
      BY <2>1 DEF DeleteCommits
    <2>4. PlanStep /\ AssignedStep /\ FlightStep
      BY <2>1, <2>3 DEF PlanStep, AssignedStep, FlightStep
    <2> QED BY <2>2, <2>4
  <1>8. CASE \E s \in Slot, f \in Facility, p \in Plan : AssignReads(s, f, p)
    <2>1. PICK s \in Slot, f \in Facility, p \in Plan : AssignReads(s, f, p)
      BY <1>8
    <2>2. /\ UNCHANGED <<plan, tangled, facility, assigned, astray, pin, bill, quota, lock>>
          /\ Move \/ moves' = moves
      BY <2>1 DEF AssignReads, rows, trips, history, Start
    <2>3. FlightStep
      BY <2>1 DEF FlightStep, StepBegins
    <2> QED BY <2>2, <2>3
  <1>9. CASE \E s \in Slot, f \in Facility : KindReads(s, f)
    <2>1. PICK s \in Slot, f \in Facility : KindReads(s, f)
      BY <1>9
    <2>2. /\ UNCHANGED <<plan, tangled, facility, assigned, astray, pin, bill, quota, lock>>
          /\ Move \/ moves' = moves
      BY <2>1 DEF KindReads, rows, trips, history, Start
    <2>3. FlightStep
      BY <2>1 DEF FlightStep, StepBegins
    <2> QED BY <2>2, <2>3
  <1>10. CASE \E s \in Slot : AssignWrites(s)
    <2>1. PICK s \in Slot : AssignWrites(s)
      BY <1>10
    <2>2. UNCHANGED <<plan, tangled, facility, pin, bill, quota, lock, moves>>
      BY <2>1 DEF AssignWrites, rows, trips, history, Done
    <2>3. Done(s)
      BY <2>1 DEF AssignWrites
    <2>4. AssignedStep /\ FlightStep
      BY <2>1, <2>3 DEF AssignedStep, FlightStep
    <2> QED BY <2>2, <2>4
  <1>11. CASE \E s \in Slot, to \in {"BUSINESS", "OTHER"} : KindWrites(s, to)
    <2>1. PICK s \in Slot, to \in {"BUSINESS", "OTHER"} : KindWrites(s, to)
      BY <1>11
    <2>2. UNCHANGED <<plan, tangled, pin, bill, quota, lock, moves>>
      BY <2>1 DEF KindWrites, rows, trips, history, Done
    <2>3. Done(s)
      BY <2>1 DEF KindWrites
    <2>4. FacilityStep /\ AssignedStep /\ FlightStep
      BY <2>1, <2>3 DEF FacilityStep, AssignedStep, FlightStep
    <2> QED BY <2>2, <2>4
  <1>12. CASE \E s \in Slot, b \in Booking, f \in Facility : QuoteReads(s, b, f)
    <2>1. PICK s \in Slot, b \in Booking, f \in Facility : QuoteReads(s, b, f)
      BY <1>12
    <2>2. /\ UNCHANGED <<plan, tangled, facility, assigned, astray, pin, bill, quota, lock>>
          /\ Move \/ moves' = moves
      BY <2>1 DEF QuoteReads, rows, trips, history, Start
    <2>3. FlightStep
      BY <2>1 DEF FlightStep, StepBegins
    <2> QED BY <2>2, <2>3
  <1>13. CASE \E s \in Slot : QuotePins(s)
    <2>1. PICK s \in Slot : QuotePins(s)
      BY <1>13
    <2>2. UNCHANGED <<plan, tangled, facility, assigned, astray, quota, lock, moves>>
      BY <2>1 DEF QuotePins, rows, trips, history, Done
    <2>3. Done(s)
      BY <2>1 DEF QuotePins
    <2>4. TripStep /\ FlightStep
      BY <2>1, <2>3 DEF TripStep, FlightStep
    <2> QED BY <2>2, <2>4
  <1>14. CASE \E s \in Slot, b \in Booking : Leave(s, b)
    <2>1. PICK s \in Slot, b \in Booking : Leave(s, b)
      BY <1>14
    <2>2. UNCHANGED <<plan, tangled, facility, assigned, astray, pin, bill, quota, lock,
                       moves>>
      BY <2>1 DEF Leave, rows, trips, history
    <2>3. FlightStep
      BY <2>1 DEF FlightStep, StepBegins
    <2> QED BY <2>2, <2>3
  <1>15. CASE \E s \in Slot : CheckOut(s)
    <2>1. PICK s \in Slot : CheckOut(s)
      BY <1>15
    <2>2. UNCHANGED <<plan, tangled, facility, assigned, astray, quota, lock, moves>>
      BY <2>1 DEF CheckOut, rows, trips, history, Done
    <2>3. Done(s)
      BY <2>1 DEF CheckOut
    <2>4. TripStep /\ FlightStep
      BY <2>1, <2>3 DEF TripStep, FlightStep
    <2> QED BY <2>2, <2>4
  <1>16. CASE \E p \in Plan : ArchivePlan(p)
    <2>1. PICK p \in Plan : ArchivePlan(p)
      BY <1>16
    <2>2. /\ UNCHANGED <<facility, assigned, astray, pin, bill, quota, lock, flight>>
          /\ Move \/ moves' = moves
      BY <2>1 DEF ArchivePlan, rows, trips, history
    <2>3. PlanStep
      BY <2>1 DEF PlanStep
    <2> QED BY <2>2, <2>3
  <1>17. CASE \E p \in Plan : RestorePlan(p)
    <2>1. PICK p \in Plan : RestorePlan(p)
      BY <1>17
    <2>2. /\ UNCHANGED <<facility, assigned, astray, pin, bill, quota, lock, flight>>
          /\ Move \/ moves' = moves
      BY <2>1 DEF RestorePlan, rows, trips, history
    <2>3. PlanStep
      BY <2>1 DEF PlanStep
    <2> QED BY <2>2, <2>3
  <1>18. CASE \E f \in Facility : ArchiveFacility(f)
    <2>1. PICK f \in Facility : ArchiveFacility(f)
      BY <1>18
    <2>2. /\ UNCHANGED <<plan, tangled, assigned, astray, pin, bill, quota, lock, flight>>
          /\ Move \/ moves' = moves
      BY <2>1 DEF ArchiveFacility, rows, trips, history
    <2>3. FacilityStep
      BY <2>1 DEF FacilityStep
    <2> QED BY <2>2, <2>3
  <1>19. CASE \E f \in Facility : RestoreFacility(f)
    <2>1. PICK f \in Facility : RestoreFacility(f)
      BY <1>19
    <2>2. /\ UNCHANGED <<plan, tangled, assigned, astray, pin, bill, quota, lock, flight>>
          /\ Move \/ moves' = moves
      BY <2>1 DEF RestoreFacility, rows, trips, history
    <2>3. FacilityStep
      BY <2>1 DEF FacilityStep
    <2> QED BY <2>2, <2>3
  <1>20. CASE \E f \in Facility : Unassign(f)
    <2>1. PICK f \in Facility : Unassign(f)
      BY <1>20
    <2>2. /\ UNCHANGED <<plan, tangled, facility, pin, bill, quota, lock, flight>>
          /\ Move \/ moves' = moves
      BY <2>1 DEF Unassign, rows, trips, history
    <2>3. AssignedStep
      BY <2>1 DEF AssignedStep
    <2> QED BY <2>2, <2>3
  <1>21. CASE \E f \in Facility : Publish(f)
    <2>1. PICK f \in Facility : Publish(f)
      BY <1>21
    <2>2. /\ UNCHANGED <<plan, tangled, assigned, astray, pin, bill, quota, lock, flight>>
          /\ Move \/ moves' = moves
      BY <2>1 DEF Publish, rows, trips, history
    <2>3. FacilityStep
      BY <2>1 DEF FacilityStep
    <2> QED BY <2>2, <2>3
  <1>22. CASE \E f \in Facility, a, u \in BOOLEAN : Show(f, a, u)
    <2>1. PICK f \in Facility, a, u \in BOOLEAN : Show(f, a, u)
      BY <1>22
    <2>2. /\ UNCHANGED <<plan, tangled, assigned, astray, pin, bill, quota, lock, flight>>
          /\ Move \/ moves' = moves
      BY <2>1 DEF Show, rows, trips, history
    <2>3. FacilityStep
      BY <2>1 DEF FacilityStep
    <2> QED BY <2>2, <2>3
  <1>23. CASE \E q \in [Kept -> 1..MaxQuota] : Override(q)
    <2>1. PICK q \in [Kept -> 1..MaxQuota] : Override(q)
      BY <1>23
    <2>2. /\ UNCHANGED <<plan, tangled, facility, assigned, astray, pin, bill, lock, flight>>
          /\ Move \/ moves' = moves
      BY <2>1 DEF Override, rows, trips, history
    <2>3. QuotaStep
      BY <2>1 DEF QuotaStep
    <2> QED BY <2>2, <2>3
  <1>24. CASE \E k \in Kept, n \in 1..MaxQuota : Requota(k, n)
    <2>1. PICK k \in Kept, n \in 1..MaxQuota : Requota(k, n)
      BY <1>24
    <2>2. /\ UNCHANGED <<plan, tangled, facility, assigned, astray, pin, bill, lock, flight>>
          /\ Move \/ moves' = moves
      BY <2>1 DEF Requota, rows, trips, history
    <2>3. QuotaStep
      BY <2>1 DEF QuotaStep
    <2> QED BY <2>2, <2>3
  <1>25. CASE Lapse
    <2>2. /\ UNCHANGED <<plan, tangled, facility, assigned, astray, pin, bill, lock, flight>>
          /\ Move \/ moves' = moves
      BY <1>25 DEF Lapse, rows, trips, history
    <2>3. QuotaStep
      BY <1>25 DEF QuotaStep
    <2> QED BY <2>2, <2>3
  <1>26. CASE UNCHANGED vars
    BY <1>26 DEF vars
  <1> QED BY <1>1, <1>2, <1>3, <1>4, <1>5, <1>6, <1>7, <1>8, <1>9, <1>10, <1>11, <1>12,
             <1>13, <1>14, <1>15, <1>16, <1>17, <1>18, <1>19, <1>20, <1>21, <1>22,
             <1>23, <1>24, <1>25, <1>26, Split

(* A request that begins takes one free slot, and leaves the others alone.  *)
LEMMA Puts ==
  ASSUME TypeOK, NEW s \in Slot, NEW t \in Task, FirstFree(s),
         flight' = [flight EXCEPT ![s] = t]
  PROVE  /\ flight[s] = Idle /\ flight'[s] = t
         /\ \A x \in Slot : x # s => flight'[x] = flight[x]
         /\ flight' \in [Slot -> Task \cup {Idle}]
  BY DEF TypeOK, FirstFree

(* What begins is a request with everything its kind has read.             *)
LEMMA Begun ==
  ASSUME TypeOK, NEW s \in Slot, StepBegins(s)
  PROVE  \E t \in Task : FirstFree(s) /\ flight' = [flight EXCEPT ![s] = t]
  <1>1. moves \in 0..MaxMove /\ quota \in [Kept -> 1..MaxQuota] /\ MaxMove \in Nat
    BY BoundAssumption DEF TypeOK
  <1>2. CASE \E k \in Kept : AddLocks(s, k)
    <2>1. PICK k \in Kept : AddLocks(s, k)
      BY <1>2
    <2> DEFINE t == [do |-> "add", what |-> k, limit |-> quota[k], first |-> Counted = {},
                     stamp |-> moves + 1]
    <2>2. Start(s, t)
      BY <2>1 DEF AddLocks
    <2>3. t \in Task
      BY <2>2, <1>1 DEF Start, Move, Task
    <2> QED BY <2>2, <2>3 DEF Start
  <1>3. CASE \E p \in Plan, do \in {"edit", "delete"} : ChangeReads(s, p, do)
    <2>1. PICK p \in Plan, do \in {"edit", "delete"} : ChangeReads(s, p, do)
      BY <1>3
    <2> DEFINE t == [do |-> do, of |-> p, saw |-> Snapshot(p), stamp |-> moves + 1,
                     others |-> Cardinality(Counted \ {p})]
    <2>2. Start(s, t) /\ Standing(p)
      BY <2>1 DEF ChangeReads
    <2>3. moves + 1 \in 1..MaxMove
      BY <2>2, <1>1 DEF Start, Move
    <2>4. Snapshot(p) \in Seen
      BY <2>2, RowTypes DEF Snapshot, Seen, Row
    <2>5. Cardinality(Counted \ {p}) \in Nat
      <3>1. Counted \ {p} \subseteq Plan
        BY DEF Counted
      <3> QED BY <3>1, FiniteRows, FS_Subset, FS_CardinalityType
    <2>6. t \in Task
      BY <2>1, <2>3, <2>4, <2>5 DEF Task
    <2> QED BY <2>2, <2>6 DEF Start
  <1>4. CASE \E f \in Facility, p \in Plan : AssignReads(s, f, p)
    <2>1. PICK f \in Facility, p \in Plan : AssignReads(s, f, p)
      BY <1>4
    <2> DEFINE t == [do |-> "assign", of |-> f, plan |-> p]
    <2>2. Start(s, t)
      BY <2>1 DEF AssignReads
    <2>3. t \in Task
      BY DEF Task
    <2> QED BY <2>2, <2>3 DEF Start
  <1>5. CASE \E f \in Facility : KindReads(s, f)
    <2>1. PICK f \in Facility : KindReads(s, f)
      BY <1>5
    <2> DEFINE t == [do |-> "kind", of |-> f, saw |-> facility[f].kind]
    <2>2. Start(s, t) /\ facility[f] \in Site
      BY <2>1, RowTypes DEF KindReads
    <2>3. t \in Task
      BY <2>2 DEF Task, Site
    <2> QED BY <2>2, <2>3 DEF Start
  <1>6. CASE \E b \in Booking, f \in Facility : QuoteReads(s, b, f)
    <2>0. PICK b \in Booking, f \in Facility : QuoteReads(s, b, f)
      BY <1>6
    <2>1. PICK p \in Resolved(f) :
             /\ isPlanApplicable(p)
             /\ Start(s, [do |-> "quote", of |-> b, plan |-> p, version |-> plan[p].version])
      BY <2>0 DEF QuoteReads
    <2>2. p \in Plan
      BY <2>1 DEF Resolved, TypeOK, Defaults, Counted
    <2>3. plan[p].version \in Version
      BY <2>1, <2>2, RowTypes DEF isPlanApplicable, Row
    <2> DEFINE t == [do |-> "quote", of |-> b, plan |-> p, version |-> plan[p].version]
    <2>4. t \in Task
      BY <2>2, <2>3 DEF Task
    <2> QED BY <2>1, <2>4 DEF Start
  <1>7. CASE \E b \in Booking : Leave(s, b)
    <2>1. PICK b \in Booking : Leave(s, b)
      BY <1>7
    <2> DEFINE t == [do |-> "leave", of |-> b, found |-> Resolves(b)]
    <2>2. FirstFree(s) /\ flight' = [flight EXCEPT ![s] = t]
      BY <2>1 DEF Leave
    <2>3. t \in Task
      BY DEF Task, Resolves
    <2> QED BY <2>2, <2>3
  <1> QED BY <1>2, <1>3, <1>4, <1>5, <1>6, <1>7 DEF StepBegins

(* Every slot keeps its request, is done with it or begins one.            *)
LEMMA FlightMoves ==
  ASSUME TypeOK, [Next]_vars
  PROVE  /\ flight' \in [Slot -> Task \cup {Idle}]
         /\ \A x \in Slot : \/ flight'[x] = flight[x]
                            \/ flight'[x] = Idle
                            \/ StepBegins(x) /\ flight[x] = Idle
  <1>1. flight \in [Slot -> Task \cup {Idle}]
    BY DEF TypeOK
  <1>2. CASE \E s \in Slot : Done(s)
    BY <1>1, <1>2 DEF Done
  <1>3. CASE \E s \in Slot : StepBegins(s)
    <2>1. PICK s \in Slot : StepBegins(s)
      BY <1>3
    <2> QED BY <2>1, Begun, Puts
  <1>4. CASE flight' = flight
    BY <1>1, <1>4
  <1> QED BY <1>2, <1>3, <1>4, Writers DEF FlightStep
-----------------------------------------------------------------------------
(* Types.                                                                  *)

LEMMA MovesGrow ==
  ASSUME TypeOK, [Next]_vars
  PROVE  moves' \in 0..MaxMove /\ moves' >= moves
  <1>1. moves \in 0..MaxMove /\ MaxMove \in Nat
    BY BoundAssumption DEF TypeOK
  <1> QED BY <1>1, Writers DEF Move

LEMMA QuotaTypes ==
  ASSUME TypeOK, [Next]_vars
  PROVE  quota' \in [Kept -> 1..MaxQuota]
  <1>1. quota \in [Kept -> 1..MaxQuota] /\ 1 \in 1..MaxQuota
    BY BoundAssumption DEF TypeOK
  <1> QED BY <1>1, Writers DEF QuotaStep, Override, Requota, Lapse, Starter

LEMMA LockTypes ==
  ASSUME TypeOK, [Next]_vars
  PROVE  lock' \in Slot \cup {None}
  BY Writers DEF TypeOK, LockStep, AddLocks, InsertPlan, InsertFacility, Rollback

LEMMA FacilityTypes ==
  ASSUME TypeOK, [Next]_vars
  PROVE  facility' \in [Facility -> Site \cup {Absent}]
  <1>1. facility \in [Facility -> Site \cup {Absent}]
    BY DEF TypeOK
  <1>2. CASE FacilityStep
    <2>1. CASE \E s \in Slot, f \in Facility : InsertFacility(s, f)
      BY <2>1, <1>1 DEF InsertFacility, Site
    <2>2. CASE \E s \in Slot, to \in {"BUSINESS", "OTHER"} : KindWrites(s, to)
      <3>1. PICK s \in Slot, to \in {"BUSINESS", "OTHER"} : KindWrites(s, to)
        BY <2>2
      <3>2. flight[s].of \in Sites /\ flight[s].of \in Facility
        BY <3>1 DEF KindWrites, Sites
      <3>3. facility' = [facility EXCEPT ![flight[s].of].kind = to]
        BY <3>1 DEF KindWrites
      <3> QED BY <3>2, <3>3, <1>1, RowTypes DEF Site
    <2>3. CASE \E f \in Facility : ArchiveFacility(f)
      <3>1. PICK f \in Facility : ArchiveFacility(f)
        BY <2>3
      <3>2. facility[f] \in Site
        BY <3>1, RowTypes DEF ArchiveFacility
      <3>3. facility' = [facility EXCEPT
                          ![f] = [@ EXCEPT !.life = "ARCHIVED", !.active = FALSE]]
        BY <3>1 DEF ArchiveFacility
      <3> QED BY <3>2, <3>3, <1>1 DEF Site
    <2>4. CASE \E f \in Facility : RestoreFacility(f)
      BY <2>4, <1>1 DEF RestoreFacility, Site, Absent
    <2>5. CASE \E f \in Facility : Publish(f)
      <3>1. PICK f \in Facility : Publish(f)
        BY <2>5
      <3>2. facility[f] \in Site
        BY <3>1, RowTypes DEF Publish
      <3>3. facility' = [facility EXCEPT ![f] = [@ EXCEPT !.active = TRUE, !.published = TRUE]]
        BY <3>1 DEF Publish
      <3> QED BY <3>2, <3>3, <1>1 DEF Site
    <2>6. CASE \E f \in Facility, a, u \in BOOLEAN : Show(f, a, u)
      <3>1. PICK f \in Facility, a, u \in BOOLEAN : Show(f, a, u)
        BY <2>6
      <3>2. facility[f] \in Site
        BY <3>1, RowTypes DEF Show
      <3>3. facility' = [facility EXCEPT ![f] = [@ EXCEPT !.active = a, !.published = u]]
        BY <3>1 DEF Show
      <3> QED BY <3>2, <3>3, <1>1 DEF Site
    <2> QED BY <1>2, <2>1, <2>2, <2>3, <2>4, <2>5, <2>6 DEF FacilityStep
  <1> QED BY <1>1, <1>2, Writers

LEMMA AssignedTypes ==
  ASSUME TypeOK, [Next]_vars
  PROVE  assigned' \in [Facility -> Plan \cup {None}] /\ astray' \subseteq Facility
  <1>1. assigned \in [Facility -> Plan \cup {None}] /\ astray \subseteq Facility
    BY DEF TypeOK
  <1>2. CASE \E s \in Slot, c \in Plan \cup {None} : DeleteCommits(s, c)
    BY <1>1, <1>2 DEF DeleteCommits, history
  <1>3. CASE \E s \in Slot : AssignWrites(s)
    <2>1. PICK s \in Slot : AssignWrites(s)
      BY <1>3
    <2>2. flight[s].of \in Facility /\ flight[s].plan \in Plan
      BY <2>1, TaskTypes DEF AssignWrites
    <2> QED BY <1>1, <2>1, <2>2 DEF AssignWrites
  <1>4. CASE \E s \in Slot, to \in {"BUSINESS", "OTHER"} : KindWrites(s, to)
    BY <1>1, <1>4 DEF KindWrites, Sites
  <1>5. CASE \E f \in Facility : Unassign(f)
    BY <1>1, <1>5 DEF Unassign
  <1> QED BY <1>1, <1>2, <1>3, <1>4, <1>5, Writers DEF AssignedStep

LEMMA TripTypes ==
  ASSUME CatalogueInv, [Next]_vars
  PROVE  pin' \in [Booking -> Pin \cup {None}] /\ bill' \in [Booking -> Bill \cup {None}]
  <1>1. /\ pin \in [Booking -> Pin \cup {None}] /\ bill \in [Booking -> Bill \cup {None}]
        /\ TypeOK
    BY DEF TypeOK, CatalogueInv
  <1>2. CASE \E s \in Slot : QuotePins(s)
    <2>1. PICK s \in Slot : QuotePins(s)
      BY <1>2
    <2>2. plan[flight[s].plan] # Absent
      BY <2>1 DEF QuotePins, CatalogueInv, ReadsStand, ReadBefore
    <2>3. /\ flight[s].of \in Booking /\ flight[s].plan \in Plan
          /\ flight[s].version \in Version /\ plan[flight[s].plan] \in Row
      BY <1>1, <2>1, <2>2, TaskTypes, RowTypes DEF QuotePins
    <2>4. plan[flight[s].plan].tariff \in Schedule
      BY <2>3 DEF Row
    <2> QED BY <1>1, <2>1, <2>3, <2>4 DEF QuotePins, Pin
  <1>3. CASE \E s \in Slot : CheckOut(s)
    <2>1. PICK s \in Slot : CheckOut(s)
      BY <1>3
    <2> DEFINE b == flight[s].of
    <2>2. b \in Booking /\ flight[s].found \in BOOLEAN
      BY <1>1, <2>1, TaskTypes DEF CheckOut
    <2>3. pin[b] # None
      BY <2>1 DEF CheckOut, CatalogueInv, ReadsStand, ReadBefore
    <2>4. pin[b] \in Pin /\ plan[pin[b].plan] # Absent
      BY <1>1, <2>2, <2>3 DEF CatalogueInv, PinsStand, Pinned
    <2>5. plan[pin[b].plan] \in Row
      BY <1>1, <2>4, RowTypes DEF Pin
    <2>6. Repriced(b, flight[s].found) \in Bill
      BY <2>2, <2>4, <2>5 DEF Repriced, Bill, Pin, Row, Resolves
    <2>7. pin' = pin
      BY <2>1 DEF CheckOut
    <2> QED BY <1>1, <2>1, <2>2, <2>6, <2>7 DEF CheckOut
  <1> QED BY <1>1, <1>2, <1>3, Writers DEF TripStep
-----------------------------------------------------------------------------
(* What a step does to the plans.                                          *)

(* Everything of a row but whether it is the default.                      *)
SameRow(old, new) ==
  /\ (old = Absent) <=> (new = Absent)
  /\ old # Absent => /\ new \in Row /\ new.life = old.life /\ new.active = old.active
                     /\ new.prices = old.prices /\ new.version = old.version
                     /\ new.tariff = old.tariff

(* Being the default or not is all that a demotion or promotion changes.   *)
LEMMA OneField ==
  ASSUME NEW old \in Row, NEW is \in BOOLEAN
  PROVE  /\ [old EXCEPT !.default = is] \in Row
         /\ SameRow(old, [old EXCEPT !.default = is])
  <1>1. old # Absent /\ [old EXCEPT !.default = is] # Absent
    BY DEF Row, Absent
  <1>2. [old EXCEPT !.default = is] \in Row
    BY DEF Row
  <1> QED BY <1>1, <1>2 DEF SameRow, Row

(* The plans with one demoted, or one promoted over another, are otherwise as they *)
(* were.                                                                   *)
LEMMA Redefaulted ==
  ASSUME TypeOK, NEW p \in Plan, NEW c \in Plan \cup {None}, NEW others,
         \/ others = plan
         \/ others = Demoted(p)
         \/ others = Promoted(p, c) /\ c \in Plan /\ Standing(p) /\ Standing(c)
  PROVE  /\ others \in [Plan -> Row \cup {Absent}]
         /\ \A q \in Plan : SameRow(plan[q], others[q])
  <1>1. plan \in [Plan -> Row \cup {Absent}] /\ Absent \notin Row
    BY DEF TypeOK, Absent, Row
  <1>2. CASE others = plan
    BY <1>1, <1>2 DEF SameRow
  <1>3. CASE others = Demoted(p)
    <2>1. ASSUME NEW q \in Plan
          PROVE  others[q] \in Row \cup {Absent} /\ SameRow(plan[q], others[q])
      <3>1. CASE others[q] = plan[q]
        BY <1>1, <3>1 DEF SameRow
      <3>2. CASE Standing(q) /\ others[q] = [plan[q] EXCEPT !.default = FALSE]
        BY <1>1, <3>2, RowTypes, OneField
      <3> QED BY <1>3, <3>1, <3>2 DEF Demoted
    <2> QED BY <1>3, <2>1 DEF Demoted
  <1>4. CASE others = Promoted(p, c) /\ c \in Plan /\ Standing(p) /\ Standing(c)
    <2> DEFINE down == [plan EXCEPT ![p] = [@ EXCEPT !.default = FALSE]]
    <2>1. plan[p] \in Row /\ plan[c] \in Row
      BY <1>4, RowTypes
    <2>2. others = [down EXCEPT ![c] = [@ EXCEPT !.default = TRUE]]
      BY <1>4 DEF Promoted
    <2>3. down \in [Plan -> Row \cup {Absent}] /\ \A q \in Plan : SameRow(plan[q], down[q])
      BY <1>1, <2>1 DEF SameRow, Row
    <2>4. down[c] \in Row
      BY <2>1, <2>3, <1>1, <1>4 DEF SameRow
    <2> HIDE DEF down
    <2>5. others[c] \in Row /\ SameRow(down[c], others[c])
      BY <1>4, <2>2, <2>3, <2>4, OneField
    <2>6. SameRow(plan[c], others[c])
      BY <1>4, <2>3, <2>5 DEF SameRow
    <2> QED BY <1>4, <2>2, <2>3, <2>5, <2>6
  <1> QED BY <1>2, <1>3, <1>4

(* An edit leaves a row in place of the one that was there, and the others but for *)
(* their default as they were.                                             *)
LEMMA EditEffect ==
  ASSUME CatalogueInv, NEW s \in Slot, NEW d \in Draft, NEW c \in Plan \cup {None},
         NEW waited \in BOOLEAN, EditCommits(s, d, c, waited)
  PROVE  LET p == flight[s].of
             t == flight[s]
         IN /\ p \in Plan /\ plan[p] \in Row /\ Standing(p) /\ plan[p] # Absent
            /\ plan' \in [Plan -> Row \cup {Absent}]
            /\ \A q \in Plan : q # p => SameRow(plan[q], plan'[q])
            /\ plan'[p] \in Row /\ plan'[p] # Absent
            /\ plan'[p].life = "ACTIVE" /\ plan'[p].active = d.active
            /\ plan'[p].version = t.saw.version + 1
            /\ tangled' = IF plan[p].version # t.saw.version THEN tangled \cup {p} ELSE tangled
  <1> DEFINE t == flight[s]
             p == t.of
             swap == WasDefault(t) /\ ~(d.active /\ d.default) /\ MustReplace(t, d.active)
             others == IF swap THEN Promoted(p, c)
                       ELSE IF ~WasDefault(t) /\ d.default THEN Demoted(p) ELSE plan
             row == [life |-> "ACTIVE", active |-> d.active, default |-> d.default,
                     prices |-> d.prices, version |-> NextVersion(t),
                     tariff |-> Rewritten(t, waited)]
  <1>1. /\ t.do = "edit" /\ Standing(p)
        /\ IF swap THEN Promotable(p, c) ELSE c = None
        /\ plan' = [others EXCEPT ![p] = row]
        /\ tangled' = IF plan[p].version # t.saw.version THEN tangled \cup {p} ELSE tangled
    BY DEF EditCommits
  <1>2. TypeOK /\ moves \in 0..MaxMove /\ MaxMove \in Nat /\ None \notin Plan
    BY BoundAssumption, NoneAssumption DEF CatalogueInv, TypeOK
  <1>3. p \in Plan /\ t.saw \in Seen /\ t.stamp \in 1..MaxMove
    BY <1>1, <1>2, TaskTypes
  <1>4. plan[p] \in Row /\ plan[p] # Absent
    BY <1>1, <1>2, <1>3, RowTypes
  <1>5. t.saw.version <= t.stamp /\ t.stamp <= moves
    BY <1>1 DEF CatalogueInv, ReadsStand, ReadBefore
  <1>6. row \in Row
    <2>1. t.saw.version + 1 \in Version
      BY <1>2, <1>3, <1>5 DEF Version, Seen
    <2>2. Rewritten(t, waited) \in Schedule
      BY <1>3, <1>4 DEF Rewritten, Submitted, Schedule, Row
    <2>3. d.active \in BOOLEAN /\ d.default \in BOOLEAN /\ d.prices \in Prices
      BY DraftAssumption DEF Drafts
    <2> QED BY <2>1, <2>2, <2>3 DEF Row, NextVersion
  <1>7. others \in [Plan -> Row \cup {Absent}]
        /\ \A q \in Plan : SameRow(plan[q], others[q])
    <2>1. swap => c \in Plan /\ Standing(c)
      BY <1>1 DEF Promotable, Candidate, Counted
    <2> HIDE DEF swap
    <2> QED BY <1>1, <1>2, <1>3, <2>1, Redefaulted
  <1>8. row # Absent
    BY DEF Absent
  <1> HIDE DEF others
  <1>9. plan'[p] = row /\ \A q \in Plan : q # p => plan'[q] = others[q]
    BY <1>1, <1>3, <1>7
  <1>10. plan' \in [Plan -> Row \cup {Absent}]
    BY <1>1, <1>3, <1>6, <1>7
  <1>11. row.life = "ACTIVE" /\ row.active = d.active /\ row.version = t.saw.version + 1
    BY DEF NextVersion
  <1> HIDE DEF row
  <1> QED BY <1>1, <1>3, <1>4, <1>6, <1>7, <1>8, <1>9, <1>10, <1>11

(* A deletion archives one plan, and leaves the others but for their default.      *)
LEMMA DeleteEffect ==
  ASSUME CatalogueInv, NEW s \in Slot, NEW c \in Plan \cup {None}, DeleteCommits(s, c)
  PROVE  LET p == flight[s].of
         IN /\ p \in Plan /\ tangled' = tangled
            /\ plan' \in [Plan -> Row \cup {Absent}]
            /\ \A q \in Plan : q # p => SameRow(plan[q], plan'[q])
            /\ plan[p] # Absent /\ plan'[p] # Absent /\ plan'[p].life = "ARCHIVED"
            /\ plan'[p].version = plan[p].version /\ plan'[p].active = plan[p].active
            /\ plan'[p].tariff = plan[p].tariff
  <1> DEFINE t == flight[s]
             p == t.of
             swap == WasDefault(t) /\ MustReplace(t, FALSE)
             others == IF swap THEN Promoted(p, c) ELSE plan
  <1>1. /\ t.do = "delete" /\ Standing(p)
        /\ IF swap THEN Promotable(p, c) ELSE c = None
        /\ plan' = [others EXCEPT ![p] = [@ EXCEPT !.life = "ARCHIVED"]]
        /\ tangled' = tangled
    BY DEF DeleteCommits, history
  <1>2. TypeOK
    BY DEF CatalogueInv
  <1>3. p \in Plan /\ plan[p] \in Row /\ plan[p] # Absent
    BY <1>1, <1>2, TaskTypes, RowTypes
  <1>4. others \in [Plan -> Row \cup {Absent}]
        /\ \A q \in Plan : SameRow(plan[q], others[q])
    <2>1. swap => c \in Plan /\ Standing(c)
      BY <1>1 DEF Promotable, Candidate, Counted
    <2> HIDE DEF swap
    <2> QED BY <1>1, <1>2, <1>3, <2>1, Redefaulted
  <1> HIDE DEF others
  <1>5. others[p] \in Row /\ others[p] # Absent /\ SameRow(plan[p], others[p])
    BY <1>3, <1>4 DEF SameRow
  <1>6. plan'[p] = [others[p] EXCEPT !.life = "ARCHIVED"]
        /\ \A q \in Plan : q # p => plan'[q] = others[q]
    BY <1>1, <1>3, <1>4
  <1>7. plan'[p] \in Row /\ plan'[p] # Absent /\ plan'[p].life = "ARCHIVED"
        /\ plan'[p].version = others[p].version /\ plan'[p].active = others[p].active
        /\ plan'[p].tariff = others[p].tariff
    BY <1>5, <1>6 DEF Row, Absent
  <1>8. plan' \in [Plan -> Row \cup {Absent}]
    BY <1>1, <1>3, <1>4, <1>6, <1>7
  <1> QED BY <1>1, <1>3, <1>4, <1>5, <1>6, <1>7, <1>8 DEF SameRow

(* A creation adds one plan, its first version.                            *)
LEMMA InsertEffect ==
  ASSUME CatalogueInv, NEW s \in Slot, NEW p \in Plan, NEW d \in Draft,
         InsertPlan(s, p, d)
  PROVE  /\ plan[p] = Absent /\ tangled' = tangled
         /\ plan' \in [Plan -> Row \cup {Absent}]
         /\ \A q \in Plan : q # p => SameRow(plan[q], plan'[q])
         /\ plan'[p] \in Row /\ plan'[p] # Absent
         /\ plan'[p].version = 1 /\ plan'[p].life = "ACTIVE"
  <1> DEFINE t == flight[s]
             first == t.first /\ canBeDefault(d.prices)
             others == IF d.default \/ first THEN Demoted(p) ELSE plan
             row == [life |-> "ACTIVE", active |-> d.active, default |-> d.default \/ first,
                     prices |-> d.prices, version |-> 1, tariff |-> Submitted(t)]
  <1>1. /\ t.do = "add" /\ plan[p] = Absent /\ plan' = [others EXCEPT ![p] = row]
        /\ tangled' = tangled
    BY DEF InsertPlan, history
  <1>2. TypeOK /\ None \notin Plan /\ MaxMove \in Nat
    BY NoneAssumption, BoundAssumption DEF CatalogueInv
  <1>3. t.stamp \in 1..MaxMove /\ t.first \in BOOLEAN
    BY <1>1, <1>2, TaskTypes
  <1>4. row \in Row
    <2>1. 1 \in Version /\ Submitted(t) \in Schedule
      BY <1>2, <1>3 DEF Version, Submitted, Schedule
    <2>2. d.active \in BOOLEAN /\ d.default \in BOOLEAN /\ d.prices \in Prices
      BY DraftAssumption DEF Drafts
    <2>3. (d.default \/ first) \in BOOLEAN
      OBVIOUS
    <2> HIDE DEF first
    <2> QED BY <2>1, <2>2, <2>3 DEF Row
  <1>5. others \in [Plan -> Row \cup {Absent}]
        /\ \A q \in Plan : SameRow(plan[q], others[q])
    <2> HIDE DEF first
    <2> QED BY <1>2, Redefaulted
  <1>6. row # Absent /\ row.version = 1 /\ row.life = "ACTIVE"
    BY DEF Absent
  <1> HIDE DEF row, others
  <1>7. plan'[p] = row /\ \A q \in Plan : q # p => plan'[q] = others[q]
    BY <1>1, <1>5
  <1>8. plan' \in [Plan -> Row \cup {Absent}]
    BY <1>1, <1>4, <1>5
  <1> QED BY <1>1, <1>4, <1>5, <1>6, <1>7, <1>8

(* The platform archives or restores a plan: its status changes and nothing else.  *)
LEMMA LifeEffect ==
  ASSUME TypeOK, NEW p \in Plan, ArchivePlan(p) \/ RestorePlan(p)
  PROVE  /\ plan' \in [Plan -> Row \cup {Absent}] /\ tangled' = tangled
         /\ \A q \in Plan : q # p => plan'[q] = plan[q]
         /\ plan[p] # Absent /\ plan'[p] # Absent
         /\ plan'[p].version = plan[p].version /\ plan'[p].active = plan[p].active
         /\ plan'[p].tariff = plan[p].tariff /\ plan'[p].default = plan[p].default
  <1>1. plan \in [Plan -> Row \cup {Absent}] /\ tangled' = tangled
    BY DEF TypeOK, ArchivePlan, RestorePlan, history
  <1>2. plan[p] \in Row /\ plan[p] # Absent
    BY <1>1, RowTypes DEF ArchivePlan, RestorePlan, Absent
  <1>3. PICK life \in {"ACTIVE", "ARCHIVED"} :
          plan' = [plan EXCEPT ![p] = [@ EXCEPT !.life = life]]
    BY DEF ArchivePlan, RestorePlan
  <1>4. plan'[p] = [plan[p] EXCEPT !.life = life] /\ \A q \in Plan : q # p => plan'[q] = plan[q]
    BY <1>1, <1>3
  <1>5. plan'[p] \in Row /\ plan'[p] # Absent
    BY <1>2, <1>4 DEF Row, Absent
  <1>6. /\ plan'[p].version = plan[p].version /\ plan'[p].active = plan[p].active
        /\ plan'[p].tariff = plan[p].tariff /\ plan'[p].default = plan[p].default
    BY <1>2, <1>4 DEF Row
  <1> QED BY <1>1, <1>2, <1>3, <1>4, <1>5, <1>6

(* What a plan's version says of it.                                       *)
SameVersion(old, new) == /\ new.version = old.version /\ new.active = old.active
                         /\ new.tariff = old.tariff

(* A bound on the versions so far is one on the versions after the next request.   *)
LEMMA Later ==
  ASSUME NEW m \in Nat, NEW n \in Nat, n >= m, NEW v \in Int, v <= m + 1
  PROVE  v <= n + 1
  OBVIOUS

(* Versions never go back, and one that is kept still means the same schedule; *)
(* but for a plan that has become tangled.                                 *)
LEMMA PlansForward ==
  ASSUME CatalogueInv, [Next]_vars
  PROVE  /\ plan' \in [Plan -> Row \cup {Absent}] /\ tangled' \subseteq Plan
         /\ tangled \subseteq tangled' /\ VersionsBounded'
         /\ \A q \in Plan : plan[q] # Absent =>
              /\ plan'[q] # Absent
              /\ q \notin tangled' => \/ SameVersion(plan[q], plan'[q])
                                      \/ plan'[q].version > plan[q].version
  <1>1. /\ TypeOK /\ plan \in [Plan -> Row \cup {Absent}] /\ tangled \subseteq Plan
        /\ moves \in 0..MaxMove /\ VersionsBounded /\ MaxMove \in Nat
    BY BoundAssumption DEF CatalogueInv, TypeOK
  <1>2. moves \in Nat /\ moves' \in Nat /\ moves' >= moves
    <2>1. moves' \in 0..MaxMove /\ moves' >= moves
      BY <1>1, MovesGrow
    <2> QED BY <1>1, <2>1
  <1>3. \A q \in Plan : plan[q] # Absent => plan[q].version \in Nat
        /\ plan[q].version <= moves + 1
    BY <1>1, RowTypes DEF VersionsBounded, Row, Version
  <1>4. ASSUME NEW old, NEW new, SameRow(old, new), old # Absent
        PROVE  new # Absent /\ SameVersion(old, new)
    BY <1>4 DEF SameRow, SameVersion
  <1>5. CASE plan' = plan /\ tangled' = tangled
    BY <1>1, <1>2, <1>3, <1>5 DEF VersionsBounded, SameVersion
  <1>6. CASE \E s \in Slot, p \in Plan, d \in Draft : InsertPlan(s, p, d)
    <2>1. PICK s \in Slot, p \in Plan, d \in Draft : InsertPlan(s, p, d)
      BY <1>6
    <2>2. \A q \in Plan : plan[q] # Absent => plan'[q] # Absent
          /\ SameVersion(plan[q], plan'[q])
      BY <2>1, <1>4, InsertEffect
    <2>3. \A q \in Plan : plan'[q] # Absent => plan'[q].version <= moves' + 1
      <3>1. ASSUME NEW q \in Plan, plan'[q] # Absent
            PROVE  plan'[q].version <= moves' + 1
        <4>1. CASE q = p
          <5>1. plan'[q].version = 1 /\ 1 <= moves' + 1
            <6>1. plan'[q].version = 1
              BY <4>1, <2>1, InsertEffect
            <6>2. 1 \in Int /\ 1 <= moves + 1
              BY <1>2
            <6> QED BY <6>1, <6>2, <1>2, Later
          <5> QED BY <5>1
        <4>2. CASE q # p
          <5>1. plan[q] # Absent /\ plan'[q].version = plan[q].version
            BY <4>2, <3>1, <2>1, InsertEffect DEF SameRow
          <5>2. plan[q].version \in Nat /\ plan[q].version <= moves + 1
            BY <5>1, <1>3
          <5> QED BY <5>1, <5>2, <1>1, <1>2
        <4> QED BY <4>1, <4>2
      <3> QED BY <3>1
    <2> QED BY <1>1, <2>1, <2>2, <2>3, InsertEffect DEF VersionsBounded
  <1>7. CASE \E s \in Slot, d \in Draft, c \in Plan \cup {None}, waited \in BOOLEAN :
                EditCommits(s, d, c, waited)
    <2>1. PICK s \in Slot, d \in Draft, c \in Plan \cup {None}, waited \in BOOLEAN :
             EditCommits(s, d, c, waited)
      BY <1>7
    <2> DEFINE p == flight[s].of
               saw == flight[s].saw.version
    <2>2. /\ p \in Plan /\ plan[p] \in Row /\ plan[p] # Absent
          /\ plan' \in [Plan -> Row \cup {Absent}]
          /\ \A q \in Plan : q # p => SameRow(plan[q], plan'[q])
          /\ plan'[p] # Absent /\ plan'[p].version = saw + 1
          /\ tangled' = IF plan[p].version # saw THEN tangled \cup {p} ELSE tangled
      BY <2>1, EditEffect
    <2>3. saw \in Nat /\ saw <= moves
      <3>1. flight[s].do = "edit"
        BY <2>1 DEF EditCommits
      <3>2. saw \in Version /\ flight[s].stamp \in 1..MaxMove
        BY <1>1, <3>1, TaskTypes DEF Seen
      <3>3. saw <= flight[s].stamp /\ flight[s].stamp <= moves
        BY <3>1 DEF CatalogueInv, ReadsStand, ReadBefore
      <3> HIDE DEF saw
      <3> QED BY <1>1, <3>2, <3>3 DEF Version
    <2> HIDE DEF p, saw
    <2>4. ASSUME NEW q \in Plan, plan[q] # Absent
          PROVE  /\ plan'[q] # Absent
                 /\ q \notin tangled' => \/ SameVersion(plan[q], plan'[q])
                                         \/ plan'[q].version > plan[q].version
      <3>1. CASE q # p
        BY <3>1, <2>2, <2>4, <1>4
      <3>2. CASE q = p
        BY <3>2, <2>2, <2>3, <2>4
      <3> QED BY <3>1, <3>2
    <2>5. ASSUME NEW q \in Plan, plan'[q] # Absent
          PROVE  plan'[q].version <= moves' + 1
      <3>1. CASE q # p
        BY <3>1, <2>2, <2>5, <1>2, <1>3, <1>1 DEF SameRow
      <3>2. CASE q = p
        <4>1. saw + 1 <= moves' + 1
          <5>1. saw + 1 \in Int /\ saw + 1 <= moves + 1
            BY <2>3, <1>2
          <5> QED BY <5>1, <1>2, Later
        <4> QED BY <3>2, <2>2, <4>1
      <3> QED BY <3>1, <3>2
    <2> QED BY <1>1, <2>2, <2>4, <2>5 DEF VersionsBounded
  <1>8. CASE \E s \in Slot, c \in Plan \cup {None} : DeleteCommits(s, c)
    <2>1. PICK s \in Slot, c \in Plan \cup {None} : DeleteCommits(s, c)
      BY <1>8
    <2>2. \A q \in Plan : plan[q] # Absent => plan'[q] # Absent
          /\ SameVersion(plan[q], plan'[q])
      BY <2>1, <1>4, DeleteEffect DEF SameVersion
    <2>3. \A q \in Plan : plan'[q] # Absent => plan'[q].version <= moves' + 1
      BY <1>1, <1>2, <1>3, <2>1, DeleteEffect DEF SameRow
    <2> QED BY <1>1, <2>1, <2>2, <2>3, DeleteEffect DEF VersionsBounded
  <1>9. CASE \E p \in Plan : ArchivePlan(p) \/ RestorePlan(p)
    <2>1. PICK p \in Plan : ArchivePlan(p) \/ RestorePlan(p)
      BY <1>9
    <2>2. \A q \in Plan : plan[q] # Absent => plan'[q] # Absent
          /\ SameVersion(plan[q], plan'[q])
      BY <1>1, <2>1, LifeEffect DEF SameVersion
    <2>3. \A q \in Plan : plan'[q] # Absent => plan'[q].version <= moves' + 1
      BY <1>1, <1>2, <1>3, <2>1, LifeEffect
    <2> QED BY <1>1, <2>1, <2>2, <2>3, LifeEffect DEF VersionsBounded
  <1> QED BY <1>5, <1>6, <1>7, <1>8, <1>9, Writers DEF PlanStep

(* At most one plan is the default.                                        *)
LEMMA OneDefault ==
  ASSUME CatalogueInv, [Next]_vars
  PROVE  \A p, q \in Defaults' : p = q
  <1>1. TypeOK /\ \A p, q \in Defaults : p = q
    BY DEF CatalogueInv, TypeOK
  <1>2. CASE plan' = plan
    BY <1>1, <1>2 DEF Defaults, Counted, Standing
  <1>3. CASE \E s \in Slot, p \in Plan, d \in Draft : InsertPlan(s, p, d)
    <2>1. PICK s \in Slot, p \in Plan, d \in Draft : InsertPlan(s, p, d)
      BY <1>3
    <2> DEFINE first == flight[s].first /\ canBeDefault(d.prices)
               row == [life |-> "ACTIVE", active |-> d.active, default |-> d.default \/ first,
                       prices |-> d.prices, version |-> 1, tariff |-> Submitted(flight[s])]
    <2>2. CASE d.default \/ first
      <3>1. plan' = [Demoted(p) EXCEPT ![p] = row]
        BY <2>1, <2>2 DEF InsertPlan
      <3>2. \A q \in Plan : q # p => q \notin Defaults'
        <4>1. ASSUME NEW q \in Plan, q # p PROVE q \notin Defaults'
          <5>1. plan'[q] = IF Standing(q) THEN [plan[q] EXCEPT !.default = FALSE] ELSE plan[q]
            BY <3>1, <4>1 DEF Demoted
          <5>2. CASE Standing(q)
            BY <5>1, <5>2, <1>1, RowTypes DEF Defaults, Row
          <5>3. CASE ~Standing(q)
            BY <5>1, <5>3 DEF Defaults, Counted, Standing
          <5> QED BY <5>2, <5>3
        <4> QED BY <4>1
      <3> QED BY <3>2 DEF Defaults, Counted
    <2>3. CASE ~(d.default \/ first)
      <3>1. plan' = [plan EXCEPT ![p] = row] /\ ~row.default
        BY <2>1, <2>3 DEF InsertPlan
      <3>2. Defaults' \subseteq Defaults
        BY <3>1, <1>1 DEF TypeOK, Defaults, Counted, Standing
      <3> QED BY <3>2, <1>1
    <2> QED BY <2>2, <2>3
  <1>4. CASE \E s \in Slot, d \in Draft, c \in Plan \cup {None}, waited \in BOOLEAN :
                EditCommits(s, d, c, waited)
    BY <1>4 DEF EditCommits
  <1>5. CASE \E s \in Slot, c \in Plan \cup {None} : DeleteCommits(s, c)
    <2>1. PICK s \in Slot, c \in Plan \cup {None} : DeleteCommits(s, c)
      BY <1>5
    <2> DEFINE p == flight[s].of
               swap == WasDefault(flight[s]) /\ MustReplace(flight[s], FALSE)
    <2>2. p \in Plan /\ p \notin Defaults'
      BY <2>1, DeleteEffect DEF Defaults, Counted, Standing
    <2>3. CASE swap
      <3>1. plan' = [Promoted(p, c) EXCEPT ![p].life = "ARCHIVED"] /\ Promotable(p, c)
        BY <2>1, <2>3 DEF DeleteCommits
      <3>2. \A q \in Plan : q # p /\ q # c => plan'[q] = plan[q]
        BY <3>1, <1>1 DEF Promoted, TypeOK
      <3>3. Defaults' \subseteq Defaults \cup {c}
        BY <3>2, <2>2 DEF Defaults, Counted, Standing
      <3>4. Defaults \subseteq {p, c}
        BY <3>1 DEF Promotable
      <3> QED BY <2>2, <3>3, <3>4
    <2>4. CASE ~swap
      <3>1. plan' = [plan EXCEPT ![p].life = "ARCHIVED"]
        BY <2>1, <2>4 DEF DeleteCommits
      <3>2. Defaults' \subseteq Defaults
        BY <3>1, <2>2, <1>1 DEF TypeOK, Defaults, Counted, Standing
      <3> QED BY <3>2, <1>1
    <2> QED BY <2>3, <2>4
  <1>6. CASE \E p \in Plan : ArchivePlan(p)
    <2>1. PICK p \in Plan : ArchivePlan(p)
      BY <1>6
    <2>2. plan' = [plan EXCEPT ![p] = [@ EXCEPT !.life = "ARCHIVED"]] /\ plan[p] \in Row
      BY <2>1, <1>1, RowTypes DEF ArchivePlan
    <2>3. p \notin Defaults' /\ \A q \in Plan : q # p => plan'[q] = plan[q]
      BY <2>2, <1>1 DEF TypeOK, Defaults, Counted, Standing, Row
    <2>4. Defaults' \subseteq Defaults
      BY <2>3 DEF Defaults, Counted, Standing
    <2> QED BY <2>4, <1>1
  <1>7. CASE \E p \in Plan : RestorePlan(p)
    <2>1. PICK p \in Plan : RestorePlan(p)
      BY <1>7
    <2>2. /\ \A q \in Plan : q # p => plan'[q] = plan[q]
          /\ plan'[p].active = plan[p].active /\ plan'[p].default = plan[p].default
      BY <2>1, <1>1, LifeEffect
    <2>3. Defaults' \subseteq Defaults \cup {p}
      BY <2>2 DEF Defaults, Counted, Standing
    <2>4. p \in Defaults' => Defaults = {}
      BY <2>1, <2>2 DEF RestorePlan, Defaults, Counted
    <2> QED BY <2>3, <2>4, <1>1
  <1> QED BY <1>2, <1>3, <1>4, <1>5, <1>6, <1>7, Writers DEF PlanStep

LEMMA TypesStep ==
  ASSUME CatalogueInv, [Next]_vars
  PROVE  TypeOK'
  <1>1. TypeOK
    BY DEF CatalogueInv
  <1>2. plan' \in [Plan -> Row \cup {Absent}] /\ tangled' \subseteq Plan
    BY PlansForward
  <1>3. /\ facility' \in [Facility -> Site \cup {Absent}]
        /\ assigned' \in [Facility -> Plan \cup {None}] /\ astray' \subseteq Facility
        /\ quota' \in [Kept -> 1..MaxQuota] /\ lock' \in Slot \cup {None}
        /\ flight' \in [Slot -> Task \cup {Idle}] /\ moves' \in 0..MaxMove
    BY <1>1, FacilityTypes, AssignedTypes, QuotaTypes, LockTypes, FlightMoves, MovesGrow
  <1>4. pin' \in [Booking -> Pin \cup {None}] /\ bill' \in [Booking -> Bill \cup {None}]
    BY TripTypes
  <1> QED BY <1>2, <1>3, <1>4, OneDefault DEF TypeOK
-----------------------------------------------------------------------------
(* The quotas.                                                             *)

(* Charged counts finite sets, and never more than Use does.               *)
LEMMA ChargedRows ==
  /\ Charged["plans"] = Cardinality(Counted \ tangled)
  /\ Charged["facilities"] = Cardinality(Sites)
  /\ Charged["plans"] \in Nat /\ Charged["facilities"] \in Nat
  /\ IsFiniteSet(Counted \ tangled) /\ IsFiniteSet(Sites)
  /\ Charged["plans"] <= Use["plans"]
  /\ Charged["facilities"] = Use["facilities"]
  /\ Use["plans"] \in Nat
  <1>1. /\ IsFiniteSet(Counted) /\ IsFiniteSet(Counted \ tangled) /\ IsFiniteSet(Sites)
        /\ Cardinality(Counted \ tangled) <= Cardinality(Counted)
    <2>1. Counted \subseteq Plan /\ Counted \ tangled \subseteq Counted
          /\ Sites \subseteq Facility
      BY DEF Counted, Sites
    <2> QED BY <2>1, FiniteRows, FS_Subset
  <1>2. /\ Charged["plans"] = Cardinality(Counted \ tangled)
        /\ Charged["facilities"] = Cardinality(Sites)
        /\ Use["plans"] = Cardinality(Counted) /\ Use["facilities"] = Cardinality(Sites)
    BY DEF Charged, Use
  <1> QED BY <1>1, <1>2, FS_CardinalityType

LEMMA ChargedNext ==
  /\ Charged'["plans"] = Cardinality(Counted' \ tangled')
  /\ Charged'["facilities"] = Cardinality(Sites')
  /\ Charged'["plans"] \in Nat /\ Charged'["facilities"] \in Nat
  <1>1. IsFiniteSet(Counted' \ tangled') /\ IsFiniteSet(Sites')
    <2>1. Counted' \ tangled' \subseteq Plan /\ Sites' \subseteq Facility
      BY DEF Counted, Sites
    <2> QED BY <2>1, FiniteRows, FS_Subset
  <1> QED BY <1>1, FS_CardinalityType DEF Charged

(* A subset has no more members, and one more element is one member more.  *)
LEMMA Grows ==
  ASSUME NEW old, IsFiniteSet(old), NEW new
  PROVE  /\ new \subseteq old => Cardinality(new) <= Cardinality(old)
         /\ \A x : new \subseteq old \cup {x} => Cardinality(new) <= Cardinality(old) + 1
  <1>1. ASSUME new \subseteq old
        PROVE  Cardinality(new) <= Cardinality(old)
    BY <1>1, FS_Subset
  <1>2. ASSUME NEW x, new \subseteq old \cup {x}
        PROVE  Cardinality(new) <= Cardinality(old) + 1
    <2>1. /\ IsFiniteSet(old \cup {x}) /\ Cardinality(old) \in Nat
          /\ Cardinality(old \cup {x}) <= Cardinality(old) + 1
      <3>1. /\ IsFiniteSet(old \cup {x})
            /\ Cardinality(old \cup {x}) = IF x \in old THEN Cardinality(old)
                                            ELSE Cardinality(old) + 1
        BY FS_AddElement
      <3>2. Cardinality(old) \in Nat
        BY FS_CardinalityType
      <3> QED BY <3>1, <3>2
    <2>2. /\ Cardinality(new) <= Cardinality(old \cup {x})
          /\ Cardinality(new) \in Nat /\ Cardinality(old \cup {x}) \in Nat
      BY <1>2, <2>1, FS_Subset, FS_CardinalityType
    <2> QED BY <2>1, <2>2
  <1> QED BY <1>1, <1>2

(* An addition ends: its slot is free again.                               *)
Adding(k) == \E s \in Slot : /\ flight[s].do = "add" /\ flight[s].what = k
                             /\ flight'[s] = Idle

(* Another plan counts only by an addition that ends, or under the quota and with  *)
(* the lock free.                                                          *)
LEMMA PlansCharged ==
  ASSUME CatalogueInv, [Next]_vars
  PROVE  \/ Counted' \ tangled' \subseteq Counted \ tangled
         \/ /\ MayAdd("plans") \/ Adding("plans")
            /\ \E p \in Plan : Counted' \ tangled' \subseteq (Counted \ tangled) \cup {p}
  <1>1. TypeOK /\ flight \in [Slot -> Task \cup {Idle}]
    BY DEF CatalogueInv, TypeOK
  <1>2. ASSUME NEW q \in Plan, SameRow(plan[q], plan'[q]), q \in Counted'
        PROVE  q \in Counted
    BY <1>2 DEF SameRow, Counted, Standing, Absent
  <1>3. CASE plan' = plan /\ tangled' = tangled
    BY <1>3 DEF Counted, Standing
  <1>4. CASE \E s \in Slot, p \in Plan, d \in Draft : InsertPlan(s, p, d)
    <2>1. PICK s \in Slot, p \in Plan, d \in Draft : InsertPlan(s, p, d)
      BY <1>4
    <2>2. Adding("plans")
      BY <1>1, <2>1 DEF InsertPlan, Adding, Done
    <2>3. Counted' \subseteq Counted \cup {p} /\ tangled' = tangled
      BY <2>1, <1>2, InsertEffect DEF Counted
    <2> QED BY <2>2, <2>3
  <1>5. CASE \E s \in Slot, d \in Draft, c \in Plan \cup {None}, waited \in BOOLEAN :
                EditCommits(s, d, c, waited)
    <2>1. PICK s \in Slot, d \in Draft, c \in Plan \cup {None}, waited \in BOOLEAN :
             EditCommits(s, d, c, waited)
      BY <1>5
    <2> DEFINE p == flight[s].of
               saw == flight[s].saw
    <2>2. /\ p \in Plan /\ Standing(p)
          /\ \A q \in Plan : q # p => SameRow(plan[q], plan'[q])
          /\ plan'[p].active = d.active
          /\ tangled' = IF plan[p].version # saw.version THEN tangled \cup {p} ELSE tangled
      BY <2>1, EditEffect
    <2>3. p \notin tangled /\ saw.version = plan[p].version => saw.active = plan[p].active
      BY <2>1 DEF EditCommits, CatalogueInv, ReadsStand, ReadBefore
    <2>4. ~saw.active /\ d.active => MayAdd("plans")
      BY <2>1 DEF EditCommits, Reactivates
    <2> HIDE DEF p, saw
    <2>5. Counted' \subseteq Counted \cup {p}
      BY <1>2, <2>2 DEF Counted
    <2>6. CASE MayAdd("plans")
      BY <2>2, <2>5, <2>6
    <2>7. CASE ~MayAdd("plans")
      <3>1. p \in Counted' \ tangled' => p \in Counted \ tangled
        BY <2>2, <2>3, <2>4, <2>7 DEF Counted
      <3> QED BY <2>2, <2>5, <3>1
    <2> QED BY <2>6, <2>7
  <1>6. CASE \E s \in Slot, c \in Plan \cup {None} : DeleteCommits(s, c)
    <2>1. PICK s \in Slot, c \in Plan \cup {None} : DeleteCommits(s, c)
      BY <1>6
    <2>2. flight[s].of \notin Counted' /\ tangled' = tangled
      BY <2>1, DeleteEffect DEF Counted, Standing
    <2>3. Counted' \subseteq Counted
      BY <2>1, <2>2, <1>2, DeleteEffect DEF Counted
    <2> QED BY <2>2, <2>3
  <1>7. CASE \E p \in Plan : ArchivePlan(p) \/ RestorePlan(p)
    <2>1. PICK p \in Plan : ArchivePlan(p) \/ RestorePlan(p)
      BY <1>7
    <2>2. /\ \A q \in Plan : q # p => plan'[q] = plan[q]
          /\ plan'[p].active = plan[p].active /\ tangled' = tangled
      BY <1>1, <2>1, LifeEffect
    <2>3. Counted' \subseteq Counted \cup {p}
      BY <2>2 DEF Counted, Standing
    <2>4. CASE ArchivePlan(p)
      <3>1. p \in Counted \/ p \notin Counted'
        BY <2>2, <2>4 DEF ArchivePlan, Counted
      <3> QED BY <2>2, <2>3, <3>1
    <2>5. CASE RestorePlan(p)
      <3>1. p \in Counted' => MayAdd("plans")
        BY <2>2, <2>5 DEF RestorePlan, Counted
      <3> QED BY <2>2, <2>3, <3>1
    <2> QED BY <2>1, <2>4, <2>5
  <1> QED BY <1>3, <1>4, <1>5, <1>6, <1>7, Writers DEF PlanStep

(* So with facilities.                                                     *)
LEMMA SitesCharged ==
  ASSUME CatalogueInv, [Next]_vars
  PROVE  \/ Sites' \subseteq Sites
         \/ /\ MayAdd("facilities") \/ Adding("facilities")
            /\ \E f \in Facility : Sites' \subseteq Sites \cup {f}
  <1>1. TypeOK /\ flight \in [Slot -> Task \cup {Idle}]
        /\ facility \in [Facility -> Site \cup {Absent}]
    BY DEF CatalogueInv, TypeOK
  <1>2. CASE facility' = facility
    BY <1>2 DEF Sites
  <1>3. CASE \E s \in Slot, f \in Facility : InsertFacility(s, f)
    <2>1. PICK s \in Slot, f \in Facility : InsertFacility(s, f)
      BY <1>3
    <2>2. Adding("facilities")
      BY <1>1, <2>1 DEF InsertFacility, Adding, Done
    <2>3. \A g \in Facility : g # f => facility'[g] = facility[g]
      BY <1>1, <2>1 DEF InsertFacility
    <2>4. Sites' \subseteq Sites \cup {f}
      BY <2>3 DEF Sites
    <2> QED BY <2>2, <2>4
  <1>4. CASE \E s \in Slot, to \in {"BUSINESS", "OTHER"} : KindWrites(s, to)
    BY <1>1, <1>4 DEF KindWrites, Sites
  <1>5. CASE \E f \in Facility : ArchiveFacility(f)
    BY <1>1, <1>5 DEF ArchiveFacility, Sites
  <1>6. CASE \E f \in Facility : RestoreFacility(f)
    <2>1. PICK f \in Facility : RestoreFacility(f)
      BY <1>6
    <2>2. \A g \in Facility : g # f => facility'[g] = facility[g]
      BY <1>1, <2>1 DEF RestoreFacility
    <2>3. Sites' \subseteq Sites \cup {f} /\ MayAdd("facilities")
      BY <2>1, <2>2 DEF Sites, RestoreFacility
    <2> QED BY <2>3
  <1>7. CASE \E f \in Facility : Publish(f)
    BY <1>1, <1>7 DEF Publish, Sites
  <1>8. CASE \E f \in Facility, a, u \in BOOLEAN : Show(f, a, u)
    BY <1>1, <1>8 DEF Show, Sites
  <1> QED BY <1>2, <1>3, <1>4, <1>5, <1>6, <1>7, <1>8, Writers DEF FacilityStep

(* Nothing is added but under the count that was taken of it.              *)
LEMMA ChargedStep ==
  ASSUME CatalogueInv, [Next]_vars, NEW k \in Kept
  PROVE  /\ Charged[k] \in Nat /\ Charged'[k] \in Nat
         /\ \/ Charged'[k] <= Charged[k]
            \/ /\ Charged'[k] <= Charged[k] + 1
               /\ \/ lock = None /\ Charged[k] < quota[k]
                  \/ Adding(k)
  <1>1. MayAdd(k) => lock = None /\ Charged[k] < quota[k]
    <2>1. quota[k] \in Nat
      BY BoundAssumption DEF CatalogueInv, TypeOK
    <2> QED BY <2>1, ChargedRows DEF MayAdd, HasRoom, Kept
  <1>2. CASE k = "plans"
    BY <1>1, <1>2, PlansCharged, ChargedRows, ChargedNext, Grows
  <1>3. CASE k = "facilities"
    BY <1>1, <1>3, SitesCharged, ChargedRows, ChargedNext, Grows
  <1> QED BY <1>2, <1>3 DEF Kept
-----------------------------------------------------------------------------
(* The invariant, part by part.                                            *)

(* Whoever adds holds the lock, and keeps it.                              *)
LEMMA LockStays ==
  ASSUME CatalogueInv, [Next]_vars, NEW x \in Slot,
         flight[x].do = "add", flight'[x] = flight[x]
  PROVE  lock' = x
  <1>1. \A s \in Slot : flight[s].do = "add" => lock = s
    BY DEF CatalogueInv, ReadsStand, ReadBefore
  <1>2. x # None /\ lock = x /\ flight'[x] # Idle /\ flight \in [Slot -> Task \cup {Idle}]
    BY <1>1, NoneAssumption DEF Idle, CatalogueInv, TypeOK
  <1>3. CASE \E s \in Slot, k \in Kept : AddLocks(s, k)
    BY <1>2, <1>3 DEF AddLocks, MayAdd
  <1>4. CASE \E s \in Slot : Rollback(s)
    BY <1>2, <1>4 DEF Rollback, Done
  <1>5. CASE \E s \in Slot, p \in Plan, d \in Draft : InsertPlan(s, p, d)
    <2>1. PICK s \in Slot, p \in Plan, d \in Draft : InsertPlan(s, p, d)
      BY <1>5
    <2>2. flight[s].do = "add" /\ flight'[s] = Idle
      BY <1>2, <2>1 DEF InsertPlan, Done
    <2> QED BY <1>1, <1>2, <2>2
  <1>6. CASE \E s \in Slot, f \in Facility : InsertFacility(s, f)
    <2>1. PICK s \in Slot, f \in Facility : InsertFacility(s, f)
      BY <1>6
    <2>2. flight[s].do = "add" /\ flight'[s] = Idle
      BY <1>2, <2>1 DEF InsertFacility, Done
    <2> QED BY <1>1, <1>2, <2>2
  <1> QED BY <1>2, <1>3, <1>4, <1>5, <1>6, Writers DEF LockStep

(* A pin, once there, stays; a new one comes from a quote at work.         *)
LEMMA PinsStay ==
  ASSUME CatalogueInv, [Next]_vars, NEW b \in Booking
  PROVE  \/ pin'[b] = pin[b]
         \/ /\ pin[b] = None /\ bill'[b] = bill[b] /\ plan' = plan /\ tangled' = tangled
            /\ \E s \in Slot :
                 /\ flight[s].do = "quote" /\ flight[s].of = b /\ flight'[s] = Idle
                 /\ pin'[b] = [plan |-> flight[s].plan, version |-> flight[s].version,
                               tariff |-> plan[flight[s].plan].tariff]
  <1>1. /\ pin \in [Booking -> Pin \cup {None}] /\ flight \in [Slot -> Task \cup {Idle}]
        /\ TypeOK
    BY DEF CatalogueInv, TypeOK
  <1>2. CASE \E s \in Slot : QuotePins(s)
    <2>1. PICK s \in Slot : QuotePins(s)
      BY <1>2
    <2>2. flight[s].do = "quote" /\ flight'[s] = Idle /\ pin[flight[s].of] = None
      BY <1>1, <2>1 DEF QuotePins, Done, CatalogueInv, ReadsStand, ReadBefore
    <2>3. bill' = bill /\ plan' = plan /\ tangled' = tangled
      BY <2>1 DEF QuotePins, rows, history
    <2>4. pin' = [pin EXCEPT ![flight[s].of] = [plan |-> flight[s].plan,
                    version |-> flight[s].version, tariff |-> plan[flight[s].plan].tariff]]
      BY <2>1 DEF QuotePins
    <2> QED BY <1>1, <2>2, <2>3, <2>4
  <1>3. CASE \E s \in Slot : CheckOut(s)
    BY <1>3 DEF CheckOut
  <1> QED BY <1>2, <1>3, Writers DEF TripStep

(* What a request that goes on has read, is still so.                      *)
LEMMA OldReads ==
  ASSUME CatalogueInv, [Next]_vars, NEW x \in Slot, flight'[x] = flight[x]
  PROVE  ReadBefore(x)'
  <1> DEFINE t == flight[x]
  <1>1. TypeOK /\ ReadBefore(x)
    BY DEF CatalogueInv, ReadsStand
  <1>2. ASSUME t.do = "add"
        PROVE  lock' = x /\ Charged'[t.what] < t.limit
    <2>1. lock' = x /\ lock = x /\ Charged[t.what] < t.limit
      BY <1>1, <1>2, LockStays DEF ReadBefore
    <2>2. t.what \in Kept /\ t.limit \in Nat /\ x # None
      BY <1>1, <1>2, TaskTypes, NoneAssumption, BoundAssumption
    <2>3. ~Adding(t.what)
      <3>1. SUFFICES ASSUME NEW s \in Slot, flight[s].do = "add", flight'[s] = Idle
                     PROVE  FALSE
        BY DEF Adding
      <3>2. s = x
        BY <2>1, <3>1 DEF CatalogueInv, ReadsStand, ReadBefore
      <3> QED BY <1>2, <3>1, <3>2 DEF Idle
    <2>4. /\ Charged'[t.what] <= Charged[t.what]
          /\ Charged[t.what] \in Nat /\ Charged'[t.what] \in Nat
      BY <2>1, <2>2, <2>3, ChargedStep
    <2> QED BY <2>1, <2>2, <2>4
  <1>3. ASSUME t.do \in {"edit", "delete"}
        PROVE  /\ plan'[t.of] # Absent
               /\ t.saw.version <= t.stamp /\ t.stamp <= moves'
               /\ t.of \notin tangled' =>
                    /\ t.saw.version <= plan'[t.of].version
                    /\ t.saw.version = plan'[t.of].version => t.saw.active = plan'[t.of].active
    <2>1. /\ t.of \in Plan /\ t.saw \in Seen /\ t.stamp \in Nat /\ moves \in Nat
          /\ plan[t.of] # Absent /\ t.saw.version <= t.stamp /\ t.stamp <= moves
          /\ t.saw.version \in Nat
      <3>1. /\ t.of \in Plan /\ t.saw \in Seen /\ t.stamp \in 1..MaxMove
            /\ MaxMove \in Nat /\ moves \in 0..MaxMove
        BY <1>1, <1>3, TaskTypes, BoundAssumption DEF TypeOK
      <3>2. t.saw.version \in Nat
        BY <3>1 DEF Seen, Version
      <3>3. /\ plan[t.of] # Absent /\ t.saw.version <= t.stamp /\ t.stamp <= moves
        BY <1>1, <1>3 DEF ReadBefore
      <3> QED BY <3>1, <3>2, <3>3
    <2>2. moves' \in Nat /\ moves' >= moves
      BY <1>1, MovesGrow, BoundAssumption
    <2>3. plan'[t.of] # Absent
      BY <2>1, PlansForward
    <2>4. plan[t.of].version \in Nat /\ plan'[t.of].version \in Nat
      BY <1>1, <2>1, <2>3, RowTypes, PlansForward DEF Row, Version
    <2>5. t.of \notin tangled' =>
             /\ t.of \notin tangled
             /\ \/ SameVersion(plan[t.of], plan'[t.of])
                \/ plan'[t.of].version > plan[t.of].version
      BY <2>1, PlansForward
    <2>6. t.of \notin tangled =>
             /\ t.saw.version <= plan[t.of].version
             /\ t.saw.version = plan[t.of].version => t.saw.active = plan[t.of].active
      BY <1>1, <1>3 DEF ReadBefore
    <2> QED BY <2>1, <2>2, <2>3, <2>4, <2>5, <2>6 DEF SameVersion
  <1>4. ASSUME t.do = "quote"
        PROVE  /\ plan'[t.plan] # Absent /\ pin'[t.of] = None
               /\ t.plan \notin tangled' => t.version <= plan'[t.plan].version
    <2>1. /\ t.of \in Booking /\ t.plan \in Plan /\ t.version \in Nat
          /\ plan[t.plan] # Absent /\ pin[t.of] = None
      BY <1>1, <1>4, TaskTypes DEF ReadBefore, Version
    <2>2. t.plan \notin tangled => t.version <= plan[t.plan].version
      BY <1>1, <1>4 DEF ReadBefore
    <2>3. plan'[t.plan] # Absent
      BY <2>1, PlansForward
    <2>4. plan[t.plan].version \in Nat /\ plan'[t.plan].version \in Nat
      BY <1>1, <2>1, <2>3, RowTypes, PlansForward DEF Row, Version
    <2>5. t.plan \notin tangled' =>
             /\ t.plan \notin tangled
             /\ \/ SameVersion(plan[t.plan], plan'[t.plan])
                \/ plan'[t.plan].version > plan[t.plan].version
      BY <2>1, PlansForward
    <2>6. pin'[t.of] = None
      <3>1. SUFFICES ASSUME NEW s \in Slot, flight[s].do = "quote", flight[s].of = t.of,
                            flight'[s] = Idle
                     PROVE  FALSE
        BY <2>1, PinsStay
      <3>2. s = x
        BY <1>4, <3>1 DEF CatalogueInv, QuotedOnce
      <3> QED BY <1>4, <3>1, <3>2 DEF Idle
    <2> QED BY <2>1, <2>2, <2>3, <2>4, <2>5, <2>6 DEF SameVersion
  <1>5. ASSUME t.do = "leave"
        PROVE  pin'[t.of] # None
    <2>1. t.of \in Booking /\ pin[t.of] # None
      BY <1>1, <1>5, TaskTypes DEF ReadBefore
    <2> QED BY <2>1, PinsStay
  <1>6. flight'[x] = t
    OBVIOUS
  <1> HIDE DEF t
  <1> QED BY <1>2, <1>3, <1>4, <1>5, <1>6 DEF ReadBefore

(* What a request has just read, is so.                                    *)
LEMMA NewReads ==
  ASSUME CatalogueInv, [Next]_vars, NEW x \in Slot, StepBegins(x)
  PROVE  ReadBefore(x)'
  <1>1. TypeOK /\ flight \in [Slot -> Task \cup {Idle}]
        /\ pin \in [Booking -> Pin \cup {None}]
    BY DEF CatalogueInv, TypeOK
  <1>2. CASE \E k \in Kept : AddLocks(x, k)
    <2>1. PICK k \in Kept : AddLocks(x, k)
      BY <1>2
    <2>2. /\ flight'[x] = [do |-> "add", what |-> k, limit |-> quota[k],
                           first |-> Counted = {}, stamp |-> moves + 1]
          /\ lock' = x /\ plan' = plan /\ facility' = facility /\ tangled' = tangled
      BY <1>1, <2>1 DEF AddLocks, Start, rows, history
    <2>3. Charged' = Charged
      BY <2>2 DEF Charged, Counted, Standing, Sites
    <2>4. Charged[k] < quota[k]
      <3>1. quota[k] \in Nat /\ HasRoom(k)
        BY <1>1, <2>1, BoundAssumption DEF TypeOK, AddLocks, MayAdd
      <3> QED BY <3>1, ChargedRows DEF HasRoom, Kept
    <2> QED BY <2>2, <2>3, <2>4 DEF ReadBefore
  <1>3. CASE \E p \in Plan, do \in {"edit", "delete"} : ChangeReads(x, p, do)
    <2>1. PICK p \in Plan, do \in {"edit", "delete"} : ChangeReads(x, p, do)
      BY <1>3
    <2>2. /\ flight'[x] = [do |-> do, of |-> p, saw |-> Snapshot(p), stamp |-> moves + 1,
                           others |-> Cardinality(Counted \ {p})]
          /\ plan' = plan /\ Standing(p) /\ moves' = moves + 1
      BY <1>1, <2>1 DEF ChangeReads, Start, Move, rows
    <2>3. plan[p] # Absent /\ plan[p].version \in Nat /\ plan[p].version <= moves + 1
      BY <1>1, <2>2, RowTypes DEF CatalogueInv, VersionsBounded, Row, Version
    <2>4. moves + 1 <= moves' /\ moves + 1 \in Nat
      BY <1>1, <2>2, BoundAssumption DEF TypeOK
    <2> QED BY <2>1, <2>2, <2>3, <2>4 DEF ReadBefore, Snapshot
  <1>4. CASE \E f \in Facility, p \in Plan : AssignReads(x, f, p)
    BY <1>1, <1>4 DEF AssignReads, Start, ReadBefore
  <1>5. CASE \E f \in Facility : KindReads(x, f)
    BY <1>1, <1>5 DEF KindReads, Start, ReadBefore
  <1>6. CASE \E b \in Booking, f \in Facility : QuoteReads(x, b, f)
    <2>1. PICK b \in Booking, f \in Facility : QuoteReads(x, b, f)
      BY <1>6
    <2>2. PICK p \in Resolved(f) :
             /\ isPlanApplicable(p)
             /\ Start(x, [do |-> "quote", of |-> b, plan |-> p, version |-> plan[p].version])
      BY <2>1 DEF QuoteReads
    <2>3. /\ flight'[x] = [do |-> "quote", of |-> b, plan |-> p, version |-> plan[p].version]
          /\ plan' = plan /\ pin' = pin /\ pin[b] = None
      BY <1>1, <2>1, <2>2 DEF QuoteReads, Start, rows, trips
    <2>4. p \in Plan
      BY <2>2, <1>1 DEF Resolved, TypeOK, Defaults, Counted
    <2>5. plan[p] # Absent /\ plan[p].version \in Nat
      BY <1>1, <2>2, <2>4, RowTypes DEF isPlanApplicable, Row, Version
    <2> QED BY <2>3, <2>5 DEF ReadBefore
  <1>7. CASE \E b \in Booking : Leave(x, b)
    BY <1>1, <1>7 DEF Leave, trips, ReadBefore
  <1> QED BY <1>2, <1>3, <1>4, <1>5, <1>6, <1>7 DEF StepBegins

LEMMA ReadsStep ==
  ASSUME CatalogueInv, [Next]_vars
  PROVE  ReadsStand'
  <1>1. ASSUME NEW x \in Slot, flight'[x] = Idle
        PROVE  ReadBefore(x)'
    BY <1>1 DEF ReadBefore, Idle
  <1>2. TypeOK
    BY DEF CatalogueInv
  <1> QED BY <1>1, <1>2, FlightMoves, OldReads, NewReads DEF ReadsStand

(* Two quotes of one stay are never at work at once.                       *)
LEMMA QuotedOnceStep ==
  ASSUME CatalogueInv, [Next]_vars
  PROVE  QuotedOnce'
  <1>1. TypeOK /\ flight \in [Slot -> Task \cup {Idle}] /\ QuotedOnce
    BY DEF CatalogueInv, TypeOK
  <1>2. CASE flight' = flight \/ \E s \in Slot : Done(s)
    <2>1. \A x \in Slot : flight'[x] = flight[x] \/ flight'[x] = Idle
      BY <1>1, <1>2 DEF Done
    <2> QED BY <1>1, <2>1 DEF QuotedOnce, Idle
  <1>3. CASE \E s \in Slot : StepBegins(s)
    <2>1. PICK s \in Slot : StepBegins(s)
      BY <1>3
    <2>2. PICK t \in Task : FirstFree(s) /\ flight' = [flight EXCEPT ![s] = t]
      BY <1>1, <2>1, Begun
    <2>3. /\ flight'[s] = t /\ flight[s] = Idle
          /\ \A x \in Slot : x # s => flight'[x] = flight[x]
      BY <1>1, <2>2 DEF FirstFree
    <2>4. t.do = "quote" => \A x \in Slot : flight[x].do = "quote" => flight[x].of # t.of
      <3>1. CASE \E b \in Booking, f \in Facility : QuoteReads(s, b, f)
        <4>1. PICK b \in Booking, f \in Facility : QuoteReads(s, b, f)
          BY <3>1
        <4>2. \A x \in Slot : flight[x].do = "quote" => flight[x].of # b
          BY <4>1 DEF QuoteReads
        <4>3. t.of = b
          BY <1>1, <2>3, <4>1 DEF QuoteReads, Start
        <4> QED BY <4>2, <4>3
      <3>2. CASE ~\E b \in Booking, f \in Facility : QuoteReads(s, b, f)
        <4>1. CASE \E k \in Kept : AddLocks(s, k)
          BY <1>1, <2>3, <4>1 DEF AddLocks, Start
        <4>2. CASE \E p \in Plan, do \in {"edit", "delete"} : ChangeReads(s, p, do)
          BY <1>1, <2>3, <4>2 DEF ChangeReads, Start
        <4>3. CASE \E f \in Facility, p \in Plan : AssignReads(s, f, p)
          BY <1>1, <2>3, <4>3 DEF AssignReads, Start
        <4>4. CASE \E f \in Facility : KindReads(s, f)
          BY <1>1, <2>3, <4>4 DEF KindReads, Start
        <4>5. CASE \E b \in Booking : Leave(s, b)
          BY <1>1, <2>3, <4>5 DEF Leave
        <4> QED BY <2>1, <3>2, <4>1, <4>2, <4>3, <4>4, <4>5 DEF StepBegins
      <3> QED BY <3>1, <3>2
    <2> QED BY <1>1, <2>3, <2>4 DEF QuotedOnce
  <1> QED BY <1>2, <1>3, Writers DEF FlightStep

(* A stay's pin goes on meaning what it meant.                             *)
LEMMA PinsStep ==
  ASSUME CatalogueInv, [Next]_vars
  PROVE  PinsStand'
  <1> SUFFICES ASSUME NEW b \in Booking
               PROVE  Pinned(b)' /\ (bill'[b] # None => pin'[b] # None)
    BY DEF PinsStand
  <1>1. /\ TypeOK /\ Pinned(b) /\ (bill[b] # None => pin[b] # None)
        /\ pin \in [Booking -> Pin \cup {None}] /\ bill \in [Booking -> Bill \cup {None}]
    BY DEF CatalogueInv, PinsStand, TypeOK
  <1>2. CASE pin'[b] = pin[b]
    <2>1. Pinned(b)'
      <3>1. SUFFICES ASSUME pin[b] # None
                     PROVE  /\ plan'[pin[b].plan] # Absent
                            /\ pin[b].plan \notin tangled' =>
                                 /\ pin[b].version <= plan'[pin[b].plan].version
                                 /\ pin[b].version = plan'[pin[b].plan].version
                                      => pin[b].tariff = plan'[pin[b].plan].tariff
        BY <1>2 DEF Pinned
      <3> DEFINE p == pin[b].plan
                 v == pin[b].version
      <3>2. /\ p \in Plan /\ v \in Nat /\ plan[p] # Absent
            /\ p \notin tangled => /\ v <= plan[p].version
                                   /\ v = plan[p].version => pin[b].tariff = plan[p].tariff
        BY <1>1, <3>1 DEF Pinned, Pin, Version
      <3>3. /\ plan'[p] # Absent
            /\ p \notin tangled' => /\ p \notin tangled
                                    /\ \/ SameVersion(plan[p], plan'[p])
                                       \/ plan'[p].version > plan[p].version
        BY <3>2, PlansForward
      <3>4. plan[p].version \in Nat /\ plan'[p].version \in Nat
        BY <1>1, <3>2, <3>3, RowTypes, PlansForward DEF Row, Version
      <3> HIDE DEF p, v
      <3>5. /\ plan'[p] # Absent
            /\ p \notin tangled' => /\ v <= plan'[p].version
                                    /\ v = plan'[p].version => pin[b].tariff = plan'[p].tariff
        BY <3>2, <3>3, <3>4 DEF SameVersion
      <3> QED BY <3>5 DEF p, v
    <2>2. bill'[b] # None => pin'[b] # None
      <3>1. CASE bill' = bill
        BY <1>1, <1>2, <3>1
      <3>2. CASE \E s \in Slot : CheckOut(s)
        <4>1. PICK s \in Slot : CheckOut(s)
          BY <3>2
        <4>2. pin[flight[s].of] # None
          BY <4>1 DEF CheckOut, CatalogueInv, ReadsStand, ReadBefore
        <4> QED BY <1>1, <1>2, <4>1, <4>2 DEF CheckOut
      <3>3. CASE \E s \in Slot : QuotePins(s)
        BY <1>1, <1>2, <3>3 DEF QuotePins
      <3> QED BY <3>1, <3>2, <3>3, Writers DEF TripStep
    <2> QED BY <2>1, <2>2
  <1>3. CASE pin'[b] # pin[b]
    <2>1. PICK s \in Slot :
            /\ flight[s].do = "quote" /\ flight[s].of = b /\ flight'[s] = Idle
            /\ pin'[b] = [plan |-> flight[s].plan, version |-> flight[s].version,
                          tariff |-> plan[flight[s].plan].tariff]
      BY <1>3, PinsStay
    <2>2. pin[b] = None /\ bill'[b] = bill[b] /\ plan' = plan /\ tangled' = tangled
      BY <1>3, PinsStay
    <2>3. /\ plan[flight[s].plan] # Absent
          /\ flight[s].plan \notin tangled => flight[s].version <= plan[flight[s].plan].version
      BY <2>1 DEF CatalogueInv, ReadsStand, ReadBefore
    <2>4. bill'[b] = None
      BY <1>1, <2>2
    <2> QED BY <2>1, <2>2, <2>3, <2>4 DEF Pinned
  <1> QED BY <1>2, <1>3

(* The bill of a stay is the schedule of its quote.                        *)
LEMMA ScheduleStep ==
  ASSUME CatalogueInv, [Next]_vars
  PROVE  SameScheduleBothEnds'
  <1>1. /\ TypeOK /\ SameScheduleBothEnds
        /\ bill \in [Booking -> Bill \cup {None}]
    BY DEF CatalogueInv, TypeOK
  <1>2. SUFFICES ASSUME NEW b \in Booking, bill'[b] # None, ~bill'[b].torn,
                        pin'[b].plan \notin tangled'
                 PROVE  bill'[b].by = pin'[b].tariff
    BY DEF SameScheduleBothEnds
  <1>3. tangled \subseteq tangled'
    BY PlansForward
  <1>4. CASE bill'[b] = bill[b]
    <2>1. pin[b] # None
      BY <1>2, <1>4 DEF CatalogueInv, PinsStand
    <2>2. pin'[b] = pin[b]
      BY <2>1, PinsStay
    <2> QED BY <1>1, <1>2, <1>3, <1>4, <2>2 DEF SameScheduleBothEnds
  <1>5. CASE bill'[b] # bill[b]
    <2>1. PICK s \in Slot : CheckOut(s)
      BY <1>5, Writers DEF TripStep, QuotePins
    <2>2. /\ flight[s].do = "leave" /\ flight[s].of = b /\ pin' = pin
          /\ bill'[b] = Repriced(b, flight[s].found) /\ tangled' = tangled
      BY <1>1, <1>5, <2>1 DEF CheckOut, history
    <2>3. /\ pin[b] # None
          /\ pin[b].plan \notin tangled /\ pin[b].version = plan[pin[b].plan].version
               => pin[b].tariff = plan[pin[b].plan].tariff
      BY <2>2 DEF CatalogueInv, ReadsStand, ReadBefore, PinsStand, Pinned
    <2>4. CASE flight[s].found
      <3>1. bill'[b] = [by |-> plan[pin[b].plan].tariff, torn |-> ~Resolves(b)]
        BY <2>2, <2>4 DEF Repriced
      <3>2. Resolves(b)
        <4>1. CASE ~Resolves(b)
          <5> DEFINE torn == ~Resolves(b)
          <5>1. torn
            BY <4>1
          <5>2. bill'[b] = [by |-> plan[pin[b].plan].tariff, torn |-> torn]
            BY <3>1
          <5> HIDE DEF torn
          <5>3. bill'[b].torn = torn
            BY <5>2
          <5> QED BY <1>2, <5>1, <5>3
        <4> QED BY <4>1
      <3> QED BY <1>2, <2>2, <2>3, <3>1, <3>2 DEF Resolves
    <2>5. CASE ~flight[s].found
      <3>1. bill'[b] = [by |-> pin[b].tariff, torn |-> FALSE]
        BY <2>2, <2>5 DEF Repriced
      <3> QED BY <2>2, <3>1
    <2> QED BY <2>4, <2>5
  <1> QED BY <1>4, <1>5

(* A facility's assignment leaves with its kind.                           *)
LEMMA SellableStep ==
  ASSUME CatalogueInv, [Next]_vars
  PROVE  AssignmentsAreSellable'
  <1>1. /\ TypeOK /\ AssignmentsAreSellable
        /\ assigned \in [Facility -> Plan \cup {None}]
        /\ facility \in [Facility -> Site \cup {Absent}]
    BY DEF CatalogueInv, TypeOK
  <1>2. SUFFICES ASSUME NEW f \in Facility, assigned'[f] # None, f \notin astray'
                 PROVE  facility'[f].kind = "BUSINESS"
    BY DEF AssignmentsAreSellable
  <1>3. CASE \E s \in Slot, to \in {"BUSINESS", "OTHER"} : KindWrites(s, to)
    <2>1. PICK s \in Slot, to \in {"BUSINESS", "OTHER"} : KindWrites(s, to)
      BY <1>3
    <2> DEFINE g == flight[s].of
    <2>2. /\ g \in Sites /\ g \in Facility /\ facility[g] \in Site
          /\ facility' = [facility EXCEPT ![g] = [@ EXCEPT !.kind = to]]
          /\ assigned' = IF Leaving(flight[s], to) THEN [assigned EXCEPT ![g] = None]
                         ELSE assigned
          /\ astray' = IF flight[s].saw # facility[g].kind THEN astray \cup {g} ELSE astray
      BY <1>1, <2>1, RowTypes DEF KindWrites, Sites
    <2> HIDE DEF g
    <2>3. CASE f # g
      BY <1>1, <1>2, <2>2, <2>3 DEF AssignmentsAreSellable
    <2>4. CASE f = g
      <3>1. flight[s].saw = facility[g].kind /\ f \notin astray
        BY <1>2, <2>2, <2>4
      <3>2. ~Leaving(flight[s], to) /\ assigned' = assigned
        BY <1>1, <1>2, <2>2, <2>4
      <3>3. facility[g].kind = "BUSINESS"
        BY <1>1, <1>2, <2>4, <3>1, <3>2 DEF AssignmentsAreSellable
      <3>4. to = "BUSINESS"
        BY <3>1, <3>2, <3>3 DEF Leaving
      <3> QED BY <1>1, <2>2, <2>4, <3>4 DEF Site
    <2> QED BY <2>3, <2>4
  <1>4. CASE \E s \in Slot : AssignWrites(s)
    BY <1>1, <1>2, <1>4 DEF AssignWrites, AssignmentsAreSellable
  <1>5. CASE \E s \in Slot, c \in Plan \cup {None} : DeleteCommits(s, c)
    BY <1>1, <1>2, <1>5 DEF DeleteCommits, history, AssignmentsAreSellable
  <1>6. CASE \E g \in Facility : Unassign(g)
    BY <1>1, <1>2, <1>6 DEF Unassign, AssignmentsAreSellable
  <1>7. CASE assigned' = assigned /\ astray' = astray
             /\ ~\E s \in Slot, to \in {"BUSINESS", "OTHER"} : KindWrites(s, to)
    <2>1. facility[f].kind = "BUSINESS"
      BY <1>1, <1>2, <1>7 DEF AssignmentsAreSellable
    <2>2. CASE facility' = facility
      BY <2>1, <2>2
    <2>3. CASE \E s \in Slot, g \in Facility : InsertFacility(s, g)
      BY <1>1, <2>1, <2>3 DEF InsertFacility
    <2>4. CASE \E g \in Facility : ArchiveFacility(g)
      BY <1>1, <2>1, <2>4, RowTypes DEF ArchiveFacility, Site
    <2>5. CASE \E g \in Facility : RestoreFacility(g)
      BY <1>1, <2>1, <2>5 DEF RestoreFacility, Site, Absent
    <2>6. CASE \E g \in Facility : Publish(g)
      BY <1>1, <2>1, <2>6, RowTypes DEF Publish, Site
    <2>7. CASE \E g \in Facility, a, u \in BOOLEAN : Show(g, a, u)
      BY <1>1, <2>1, <2>7, RowTypes DEF Show, Site
    <2> QED BY <1>7, <2>2, <2>3, <2>4, <2>5, <2>6, <2>7, Writers DEF FacilityStep
  <1> QED BY <1>3, <1>4, <1>5, <1>6, <1>7, Writers DEF AssignedStep
-----------------------------------------------------------------------------
LEMMA CatalogueInit ==
  ASSUME Init
  PROVE  CatalogueInv
  <1>1. PICK q \in Plan : plan = [p \in Plan |->
          IF p = q THEN [life |-> "ACTIVE", active |-> TRUE, default |-> TRUE,
                         prices |-> "ALL", version |-> 1, tariff |-> {0}] ELSE Absent]
    BY DEF Init
  <1>2. PICK g \in Facility : facility = [f \in Facility |->
          IF f = g THEN [life |-> "ACTIVE", kind |-> "BUSINESS", active |-> TRUE,
                         published |-> TRUE] ELSE Absent]
    BY DEF Init
  <1>3. /\ assigned = [f \in Facility |-> None] /\ quota \in [Kept -> 1..MaxQuota]
        /\ lock = None /\ flight = [s \in Slot |-> Idle]
        /\ pin = [b \in Booking |-> None] /\ bill = [b \in Booking |-> None]
        /\ moves = 0 /\ tangled = {} /\ astray = {}
    BY DEF Init
  <1>4. MaxMove \in Nat
    BY BoundAssumption
  <1>5. plan \in [Plan -> Row \cup {Absent}]
    <2>1. 1 \in Version /\ {0} \in Schedule
      BY <1>4 DEF Version, Schedule
    <2> QED BY <1>1, <2>1 DEF Row, Prices
  <1>6. facility \in [Facility -> Site \cup {Absent}]
    BY <1>2 DEF Site
  <1>7. \A p \in Defaults : p = q
    BY <1>1 DEF Defaults, Counted, Standing, Absent
  <1>8. TypeOK
    BY <1>3, <1>4, <1>5, <1>6, <1>7 DEF TypeOK
  <1>9. VersionsBounded
    BY <1>1, <1>3 DEF VersionsBounded
  <1>10. ReadsStand /\ QuotedOnce
    BY <1>3 DEF ReadsStand, ReadBefore, QuotedOnce, Idle
  <1>11. PinsStand /\ SameScheduleBothEnds /\ AssignmentsAreSellable
    BY <1>3 DEF PinsStand, Pinned, SameScheduleBothEnds, AssignmentsAreSellable
  <1> QED BY <1>8, <1>9, <1>10, <1>11 DEF CatalogueInv

LEMMA CatalogueNext ==
  ASSUME CatalogueInv, [Next]_vars
  PROVE  CatalogueInv'
  BY TypesStep, PlansForward, ReadsStep, QuotedOnceStep, PinsStep, ScheduleStep, SellableStep
     DEF CatalogueInv

LEMMA CatalogueHolds ==
  Spec => []CatalogueInv
  <1>1. Init => CatalogueInv
    BY CatalogueInit
  <1>2. CatalogueInv /\ [Next]_vars => CatalogueInv'
    BY CatalogueNext
  <1> QED BY <1>1, <1>2, PTL DEF Spec

(* The plans that count are finitely many after a step, too.               *)
LEMMA CountedNext ==
  Cardinality(Counted') \in Nat
  <1>1. Counted' \subseteq Plan
    BY DEF Counted
  <1> QED BY <1>1, FiniteRows, FS_Subset, FS_CardinalityType

(* The default a plan was, an edit or delete of it hands on.               *)
LEMMA DefaultHandedOn ==
  ASSUME TypeOK, Defaults # {}, Defaults' = {}, Cardinality(Counted') > 1,
         NEW s \in Slot, NEW c \in Plan \cup {None},
         flight[s].do \in {"edit", "delete"}, ~Stale(s), c # flight[s].of
  PROVE  /\ ~\E d \in Draft, waited \in BOOLEAN :
                (d.default => d.active) /\ EditCommits(s, d, c, waited)
         /\ ~DeleteCommits(s, c)
  <1> DEFINE t == flight[s]
             p == t.of
  <1>1. /\ plan \in [Plan -> Row \cup {Absent}] /\ None \notin Plan
        /\ p \in Plan /\ t.saw = Snapshot(p) /\ t.others = Cardinality(Counted \ {p})
    BY TaskTypes, NoneAssumption DEF TypeOK, Stale
  <1>2. t.saw.active = plan[p].active /\ t.saw.default = plan[p].default
    BY <1>1 DEF Snapshot
  <1>3. t.others = Cardinality(Counted \ {p}) /\ t.others \in Nat
        /\ IsFiniteSet(Counted \ {p})
    <2>1. Counted \ {p} \subseteq Plan
      BY DEF Counted
    <2> QED BY <1>1, <2>1, FiniteRows, FS_Subset, FS_CardinalityType
  <1> HIDE DEF p, t
  (* With the role handed to c, c has it. *)
  <1>4. ASSUME Promotable(p, c), NEW row,
               plan' = [Promoted(p, c) EXCEPT ![p] = row]
        PROVE  FALSE
    <2>1. c \in Plan /\ c # p /\ c \in Counted
      BY <1>4 DEF Promotable, Candidate, Counted, p, t
    <2>2. plan'[c] = [plan[c] EXCEPT !.default = TRUE] /\ plan[c] \in Row
      BY <1>1, <1>4, <2>1, RowTypes DEF Promoted, Counted
    <2>3. c \in Defaults'
      BY <2>1, <2>2 DEF Defaults, Counted, Standing, Row
    <2> QED BY <2>3
  (* Where no other plan counts, none but p can count afterwards. *)
  <1>5. ASSUME NEW stays \in BOOLEAN, ~MustReplace(t, stays),
               Counted' \subseteq (Counted \ {p}) \cup {p}, ~stays => p \notin Counted'
        PROVE  FALSE
    <2>1. t.others + (IF stays THEN 1 ELSE 0) <= 1
      BY <1>3, <1>5 DEF MustReplace
    <2>2. CASE stays
      <3>1. t.others = 0
        BY <1>3, <2>1, <2>2
      <3>2. Cardinality(Counted') <= 1
        <4>1. Cardinality(Counted') <= Cardinality(Counted \ {p}) + 1
          BY <1>3, <1>5, Grows
        <4> QED BY <1>3, <3>1, <4>1
      <3> QED BY <3>2, CountedNext
    <2>3. CASE ~stays
      <3>1. Counted' \subseteq Counted \ {p}
        BY <1>5, <2>3
      <3>2. Cardinality(Counted') <= Cardinality(Counted \ {p})
        BY <1>3, <3>1, Grows
      <3> QED BY <1>3, <2>1, <2>3, <3>2, CountedNext
    <2> QED BY <2>2, <2>3
  (* The default p was not, stays. *)
  <1>6. ASSUME NEW row, plan' = [plan EXCEPT ![p] = row], p \notin Defaults
        PROVE  FALSE
    <2>1. PICK q \in Defaults : TRUE
      OBVIOUS
    <2>2. q \in Plan /\ plan'[q] = plan[q]
      BY <1>1, <1>6, <2>1 DEF Defaults, Counted
    <2>3. q \in Defaults'
      BY <2>1, <2>2 DEF Defaults, Counted, Standing
    <2> QED BY <2>3
  <1>7. ASSUME NEW d \in Draft, NEW waited \in BOOLEAN, d.default => d.active,
               EditCommits(s, d, c, waited)
        PROVE  FALSE
    <2> DEFINE swap == WasDefault(t) /\ ~(d.active /\ d.default) /\ MustReplace(t, d.active)
               others == IF swap THEN Promoted(p, c)
                         ELSE IF ~WasDefault(t) /\ d.default THEN Demoted(p) ELSE plan
               row == [life |-> "ACTIVE", active |-> d.active, default |-> d.default,
                       prices |-> d.prices, version |-> NextVersion(t),
                       tariff |-> Rewritten(t, waited)]
    <2>1. /\ plan' = [others EXCEPT ![p] = row] /\ Standing(p)
          /\ swap => Promotable(p, c)
      BY <1>7 DEF EditCommits, p, t
    <2>2. p \in DOMAIN others
      BY <1>1 DEF Promoted, Demoted
    <2>3. plan'[p] = row /\ row.active = d.active /\ row.default = d.default
          /\ row.life = "ACTIVE"
      BY <2>1, <2>2
    <2>4. ~(d.active /\ d.default)
      BY <1>1, <2>3 DEF Defaults, Counted, Standing
    <2>5. ~d.default
      BY <1>7, <2>4
    <2> HIDE DEF row
    <2>6. CASE swap
      BY <1>4, <2>1, <2>6
    <2>7. CASE ~swap /\ WasDefault(t)
      <3>1. ~MustReplace(t, d.active) /\ plan' = [plan EXCEPT ![p] = row]
        BY <2>1, <2>4, <2>5, <2>7
      <3>2. Counted' \subseteq (Counted \ {p}) \cup {p}
        BY <1>1, <3>1 DEF Counted, Standing
      <3>3. ~d.active => p \notin Counted'
        BY <2>3 DEF Counted
      <3>4. d.active \in BOOLEAN
        BY DraftAssumption DEF Drafts
      <3> QED BY <1>5, <3>1, <3>2, <3>3, <3>4
    <2>8. CASE ~WasDefault(t)
      <3>1. plan' = [plan EXCEPT ![p] = row]
        BY <2>1, <2>5, <2>8
      <3>2. p \notin Defaults
        BY <1>2, <2>8 DEF WasDefault, Defaults, Counted
      <3> QED BY <1>6, <3>1, <3>2
    <2> QED BY <2>6, <2>7, <2>8
  <1>8. ASSUME DeleteCommits(s, c)
        PROVE  FALSE
    <2> DEFINE swap == WasDefault(t) /\ MustReplace(t, FALSE)
               others == IF swap THEN Promoted(p, c) ELSE plan
               row == [others[p] EXCEPT !.life = "ARCHIVED"]
    <2>1. /\ plan' = [others EXCEPT ![p] = row] /\ Standing(p)
          /\ swap => Promotable(p, c)
      BY <1>8 DEF DeleteCommits, p, t
    <2>2. p \in DOMAIN others
      BY <1>1 DEF Promoted
    <2> HIDE DEF row
    <2>3. CASE swap
      BY <1>4, <2>1, <2>3
    <2>4. CASE ~swap /\ WasDefault(t)
      <3>1. ~MustReplace(t, FALSE) /\ plan' = [plan EXCEPT ![p] = row]
        BY <2>1, <2>4
      <3>2. Counted' \subseteq (Counted \ {p}) \cup {p}
        BY <1>1, <3>1 DEF Counted, Standing
      <3>3. p \notin Counted'
        <4>1. plan[p] \in Row
          BY <1>1, <2>1, RowTypes DEF Standing
        <4>2. plan'[p] = [plan[p] EXCEPT !.life = "ARCHIVED"]
          BY <1>1, <2>4, <3>1 DEF row
        <4> QED BY <4>1, <4>2 DEF Counted, Standing, Row
      <3> QED BY <1>5, <3>1, <3>2, <3>3
    <2>5. CASE ~WasDefault(t)
      <3>1. plan' = [plan EXCEPT ![p] = row]
        BY <2>1, <2>5
      <3>2. p \notin Defaults
        BY <1>2, <2>5 DEF WasDefault, Defaults, Counted
      <3> QED BY <1>6, <3>1, <3>2
    <2> QED BY <2>3, <2>4, <2>5
  <1> QED BY <1>7, <1>8
-----------------------------------------------------------------------------

(* Plans, facilities, requests, pins and bills keep their types, and no operator   *)
(* ever has two default plans, whatever the requests at work.              *)
THEOREM CatalogueTypes ==
  Spec => []TypeOK
  <1>1. CatalogueInv => TypeOK
    BY DEF CatalogueInv
  <1> QED BY <1>1, CatalogueHolds, PTL

(* A stay is charged by the schedule it was quoted from, however its plan was   *)
(* edited, archived or restored between the two, for any number of stays, plans and *)
(* requests; but for overlapping edits and an edit amid the check-out's own reads.  *)
THEOREM ScheduleAlwaysTheSame ==
  Spec => []SameScheduleBothEnds
  <1>1. CatalogueInv => SameScheduleBothEnds
    BY DEF CatalogueInv
  <1> QED BY <1>1, CatalogueHolds, PTL

(* No facility that is not a business ever carries a rate schedule, unless it was  *)
(* written by a request that had read another kind.                        *)
THEOREM AssignmentsAlwaysSellable ==
  Spec => []AssignmentsAreSellable
  <1>1. CatalogueInv => AssignmentsAreSellable
    BY DEF CatalogueInv
  <1> QED BY <1>1, CatalogueHolds, PTL

(* No addition, restoration or reactivation ever leads past the quota it was counted *)
(* against, however many requests race: the operator lock suffices.        *)
THEOREM QuotaAlwaysKept ==
  Spec => QuotaKept
  <1>1. CatalogueInv /\ [Next]_vars =>
          [\A k \in Kept :
             Charged'[k] > Charged[k] => \E n \in Allowed(k) : Charged'[k] <= n]_vars
    <2> SUFFICES ASSUME CatalogueInv, [Next]_vars, NEW k \in Kept,
                        Charged'[k] > Charged[k]
                 PROVE  \E n \in Allowed(k) : Charged'[k] <= n
      OBVIOUS
    <2>1. /\ Charged[k] \in Nat /\ Charged'[k] \in Nat /\ Charged'[k] <= Charged[k] + 1
          /\ (lock = None /\ Charged[k] < quota[k]) \/ Adding(k)
      BY ChargedStep
    <2>2. CASE lock = None /\ Charged[k] < quota[k]
      <3>1. quota[k] \in Nat /\ quota[k] \in Allowed(k)
        BY BoundAssumption DEF CatalogueInv, TypeOK, Allowed
      <3> QED BY <2>1, <2>2, <3>1
    <2>3. CASE Adding(k)
      <3>1. PICK s \in Slot : flight[s].do = "add" /\ flight[s].what = k /\ flight'[s] = Idle
        BY <2>3 DEF Adding
      <3>2. Charged[k] < flight[s].limit /\ flight[s].limit \in Allowed(k)
        BY <3>1 DEF CatalogueInv, ReadsStand, ReadBefore, Allowed
      <3>3. flight[s].limit \in Nat
        BY <3>1, TaskTypes, BoundAssumption DEF CatalogueInv
      <3> QED BY <2>1, <3>2, <3>3
    <2> QED BY <2>1, <2>2, <2>3
  <1> QED BY <1>1, CatalogueHolds, PTL DEF Spec, QuotaKept

(* Whoever edits or deletes the default plan of an operator with others, on what it *)
(* still is, leaves a default behind.                                      *)
THEOREM DefaultAlwaysSurvives ==
  Spec => DefaultSurvives
  <1>1. CatalogueInv /\ [Next]_vars =>
          [Defaults # {} /\ Defaults' = {} /\ Cardinality(Counted') > 1 =>
             ~ \E s \in Slot, c \in Plan \cup {None} :
                 /\ flight[s].do \in {"edit", "delete"} /\ ~Stale(s) /\ c # flight[s].of
                 /\ \/ \E d \in Draft, waited \in BOOLEAN :
                         (d.default => d.active) /\ EditCommits(s, d, c, waited)
                    \/ DeleteCommits(s, c)]_vars
    BY DefaultHandedOn DEF CatalogueInv
  <1> QED BY <1>1, CatalogueHolds, PTL DEF Spec, DefaultSurvives
-----------------------------------------------------------------------------
(* Pricing: the price of one stay.                                         *)

(* The clock and the money have their types.                               *)
LEMMA Clock ==
  /\ Days \in Nat \ {0} /\ DayMinutes \in Nat \ {0}
  /\ Tick \in Nat \ {0} /\ Whole \in Nat \ {0} /\ MaxBillable \in Nat
  /\ Null \notin Nat
  BY ClockAssumption

(* The fields of a draft and of a stay have their types.                   *)
LEMMA DraftTypes ==
  ASSUME NEW d \in CompilableDraft
  PROVE  /\ d.tiers \in Seq(Tier) /\ d.windows \in Seq(Window)
         /\ d.rates \in Seq(Rate) /\ d.caps \in Seq(Cap)
         /\ d.grace \in Nat /\ d.increment \in Nat \ {0}
  BY ScheduleAssumption

LEMMA StayTypes ==
  ASSUME NEW s \in Stay
  PROVE  s.start \in Nat /\ s.ticks \in Nat /\ s.turn \in Nat /\ s.shift \in Int
  BY StayAssumption

(* Rounding up and down again never leaves the naturals.                   *)
LEMMA CeilNat ==
  ASSUME NEW a \in Nat, NEW b \in Nat \ {0}
  PROVE  CeilDiv(a, b) \in Nat
  <1>1. a + b - 1 \in Nat
    OBVIOUS
  <1>2. (a + b - 1) \div b \in Nat
    BY <1>1
  <1> QED BY <1>2 DEF CeilDiv

LEMMA ProductNat ==
  ASSUME NEW a \in Nat, NEW b \in Nat
  PROVE  a * b \in Nat
  OBVIOUS

LEMMA BillableNat ==
  ASSUME NEW d \in CompilableDraft, NEW s \in Stay
  PROVE  Billable(s, d) \in Nat
  <1> DEFINE raw == CeilDiv(s.ticks, Tick)
             net == IF raw > d.grace THEN raw - d.grace ELSE 0
  <1>1. raw \in Nat
    BY CeilNat, StayTypes, Clock
  <1>2. net \in Nat
    BY <1>1, DraftTypes
  <1>3. CeilDiv(net, d.increment) * d.increment \in Nat
    BY <1>2, CeilNat, ProductNat, DraftTypes
  <1>4. CeilToIncrement(net, d.increment) \in Nat
    BY <1>2, <1>3 DEF CeilToIncrement
  <1> QED BY <1>4 DEF Billable

(* The day and the minute of a minute of the week.                         *)
LEMMA DayOf ==
  ASSUME NEW a \in Nat \ {0}, NEW b \in Nat \ {0}, NEW w \in 0 .. a * b - 1
  PROVE  w \div b \in 0 .. a - 1 /\ w % b \in 0 .. b - 1
  <1> DEFINE q == w \div b
  <1>1. w \in Nat /\ w < a * b
    BY ProductNat
  <1>2. q \in Nat /\ q * b <= w
    BY <1>1
  <1>3. q < a
    <2>1. SUFFICES ASSUME q >= a PROVE FALSE
      BY <1>2
    <2>2. q * b >= a * b
      <3>1. PICK c \in Nat : q = a + c
        <4>1. q - a \in Nat /\ q = a + (q - a)
          BY <2>1, <1>2
        <4> QED BY <4>1
      <3>2. q * b = a * b + c * b
        BY <3>1
      <3>3. c * b \in Nat /\ a * b \in Nat
        BY ProductNat
      <3> HIDE DEF q
      <3> QED BY <3>2, <3>3
    <2> HIDE DEF q
    <2> QED BY <2>2, <1>1, <1>2, ProductNat
  <1>4. w % b \in 0 .. b - 1
    BY <1>1
  <1> QED BY <1>2, <1>3, <1>4

(* The minute of the week lies in the week.                                *)
LEMMA WallInWeek ==
  ASSUME NEW s \in Stay, NEW m \in Nat
  PROVE  /\ Wall(s, m) \div DayMinutes \in 0 .. Days - 1
         /\ Wall(s, m) % DayMinutes \in 0 .. DayMinutes - 1
<1> DEFINE wall == Wall(s, m)
<1>1. wall \in 0 .. Days * DayMinutes - 1
  <2> DEFINE week == Days * DayMinutes
             at == s.start + m + (IF m >= s.turn THEN s.shift ELSE 0)
  <2>1. week \in Nat /\ week > 0
    BY Clock
  <2>2. at \in Int
    BY StayTypes
  <2>3. at % week \in 0 .. week - 1
    <3> HIDE DEF at, week
    <3> QED BY <2>1, <2>2
  <2> QED BY <2>3 DEF Wall
<1> HIDE DEF wall
<1>2. wall \div DayMinutes \in 0 .. Days - 1 /\ wall % DayMinutes \in 0 .. DayMinutes - 1
  BY <1>1, DayOf, Clock
<1> QED BY <1>2 DEF wall

(* The two readings of a window agree: what validation counts as covered is what  *)
(* the lookup finds.                                                       *)
LEMMA WindowFound ==
  ASSUME NEW d \in CompilableDraft, ValidWindows(d.windows), NEW s \in Stay, NEW m \in Nat
  PROVE  \E j \in DOMAIN d.windows : j \in WindowAt(d.windows, Wall(s, m))
  <1> DEFINE wall == Wall(s, m)
             day == wall \div DayMinutes
             minute == wall % DayMinutes
  <1>2. day \in 0 .. Days - 1 /\ minute \in 0 .. DayMinutes - 1
    BY WallInWeek
  <1> HIDE DEF wall, day, minute
  <1>3. PICK j \in DOMAIN d.windows : InSegments(d.windows[j], day, minute)
    BY <1>2 DEF ValidWindows
  <1>4. d.windows[j] \in Window
    BY DraftTypes
  <1>5. Inside(d.windows[j], minute)
    BY <1>2, <1>3, <1>4, Clock DEF InSegments, Segments, Inside, Window
  <1>6. day \in d.windows[j].days
    BY <1>3 DEF InSegments
  <1> QED BY <1>5, <1>6 DEF WindowAt, day, minute, wall
-----------------------------------------------------------------------------
(* Tiers.                                                                  *)

(* A tier of a draft has its types, and one of valid tiers ends after it begins.  *)
LEMMA TierTypes ==
  ASSUME NEW d \in CompilableDraft, NEW i \in DOMAIN d.tiers
  PROVE  d.tiers[i] \in Tier
  BY DraftTypes

LEMMA TierGrows ==
  ASSUME NEW d \in CompilableDraft, ValidTiers(d.tiers), NEW i \in DOMAIN d.tiers
  PROVE  d.tiers[i].to = Null \/ (d.tiers[i].to \in Nat /\ d.tiers[i].to > d.tiers[i].from)
  BY DEF ValidTiers, Tiled

(* Some tier begins at minute 0.                                           *)
LEMMA FirstTier ==
  ASSUME NEW d \in CompilableDraft, ValidTiers(d.tiers)
  PROVE  \E i \in DOMAIN d.tiers : i \in TierAt(d.tiers, 0)
  <1>1. d.tiers \in Seq(Tier) /\ Len(d.tiers) \in Nat /\ Len(d.tiers) > 0
    BY DraftTypes DEF ValidTiers
  <1>2. 1 \in 1 .. Len(d.tiers)
    BY <1>1
  <1>3. PICK i \in DOMAIN d.tiers : d.tiers[i].from = 0
    BY <1>1, <1>2 DEF ValidTiers, Tiled
  <1>4. d.tiers[i].to = Null \/ 0 < d.tiers[i].to
    BY <1>3, TierGrows
  <1> QED BY <1>3, <1>4 DEF TierAt

(* Where a closed tier ends another begins.                                *)
LEMMA NextTier ==
  ASSUME NEW d \in CompilableDraft, ValidTiers(d.tiers),
         NEW i \in DOMAIN d.tiers, d.tiers[i].to \in Nat
  PROVE  \E k \in DOMAIN d.tiers : /\ k \in TierAt(d.tiers, d.tiers[i].to)
                                   /\ d.tiers[k].from = d.tiers[i].to
  <1> DEFINE n == Len(d.tiers)
  <1>1. d.tiers \in Seq(Tier) /\ n \in Nat
    BY DraftTypes
  <1>2. PICK order \in [1 .. n -> DOMAIN d.tiers] :
          /\ \A x \in DOMAIN d.tiers : \E p \in 1 .. n : order[p] = x
          /\ \A p \in 1 .. n :
               IF p = n
                 THEN d.tiers[order[p]].to = Null
                 ELSE d.tiers[order[p + 1]].from = d.tiers[order[p]].to
    BY DEF ValidTiers, Tiled
  <1>3. PICK p \in 1 .. n : order[p] = i
    BY <1>2
  <1>4. p # n
    BY <1>2, <1>3, Clock
  <1>5. p + 1 \in 1 .. n
    BY <1>1, <1>3, <1>4
  <1>6. d.tiers[order[p + 1]].from = d.tiers[i].to /\ order[p + 1] \in DOMAIN d.tiers
    BY <1>2, <1>3, <1>4, <1>5
  <1>7. \/ d.tiers[order[p + 1]].to = Null
        \/ d.tiers[i].to < d.tiers[order[p + 1]].to
    BY <1>6, TierGrows
  <1>8. d.tiers[order[p + 1]].from <= d.tiers[i].to
    BY <1>6
  <1>9. order[p + 1] \in TierAt(d.tiers, d.tiers[i].to)
    BY <1>6, <1>7, <1>8 DEF TierAt
  <1> QED BY <1>6, <1>9
-----------------------------------------------------------------------------
(* The inductive invariant: a request past validation has a valid draft, and the  *)
(* loop always stands in a tier.                                           *)
InTier == \E i \in DOMAIN draft.tiers : i \in TierAt(draft.tiers, cursor)

PricingInv ==
  /\ PricingTypeOK
  /\ draft \in CompilableDraft /\ stay \in Stay
  /\ phase \in {"accepted", "charging"} => Valid(draft)
  /\ phase \in {"drafted", "accepted"} => cursor = 0
  /\ phase = "charging" => InTier

(* In a valid schedule a charge at a billable minute of a tier covers at least a  *)
(* minute and does not pass the end of the tier.                           *)
LEMMA SpanPositive ==
  ASSUME PricingInv, phase = "charging", cursor < billable,
         NEW i \in DOMAIN draft.tiers, i \in TierAt(draft.tiers, cursor)
  PROVE  /\ Span(draft.tiers[i]) \in Nat /\ Span(draft.tiers[i]) > 0
         /\ TierEnd(draft.tiers[i]) \in Nat
         /\ cursor + Span(draft.tiers[i]) <= TierEnd(draft.tiers[i])
         /\ cursor < TierEnd(draft.tiers[i])
  <1> DEFINE tier == draft.tiers[i]
  <1>1. tier \in Tier /\ ValidTiers(draft.tiers) /\ draft \in CompilableDraft
    BY TierTypes DEF PricingInv, Valid
  <1>2. cursor \in Nat /\ billable \in Nat
    BY Clock DEF PricingInv, PricingTypeOK
  <1>3. tier.from <= cursor /\ (tier.to = Null \/ cursor < tier.to)
    BY DEF TierAt
  <1>4. tier.from \in Nat /\ (tier.to = Null \/ (tier.to \in Nat /\ tier.to > tier.from))
    BY <1>1, TierGrows DEF Tier
  <1>5. TierEnd(tier) \in Nat /\ cursor < TierEnd(tier) /\ tier.from < TierEnd(tier)
    BY <1>2, <1>3, <1>4 DEF TierEnd
  <1>6. Block(tier) \in Nat /\ Block(tier) > 0
    <2>1. CASE tier.unit = "FLAT"
      BY <2>1, <1>4, <1>5 DEF Block
    <2>2. CASE tier.unit = "PER_BLOCK"
      <3>1. tier.block \in Nat /\ tier.block > 0
        BY <2>2, <1>1 DEF ValidTiers
      <3>2. tier.block # Null
        BY <3>1, Clock
      <3> QED BY <2>2, <3>1, <3>2 DEF Block
    <2>3. CASE tier.unit # "FLAT" /\ tier.unit # "PER_BLOCK"
      BY <2>3 DEF Block
    <2> QED BY <2>1, <2>2, <2>3
  <1> HIDE DEF tier
  <1>7. Span(tier) \in Nat /\ Span(tier) > 0 /\ cursor + Span(tier) <= TierEnd(tier)
    BY <1>2, <1>5, <1>6 DEF Span, Least
  <1> QED BY <1>5, <1>7 DEF tier

(* After a charge the loop stands in a tier again.                         *)
LEMMA TierContinues ==
  ASSUME PricingInv, phase = "charging", cursor < billable,
         NEW i \in DOMAIN draft.tiers, i \in TierAt(draft.tiers, cursor)
  PROVE  /\ Advance(draft.tiers[i]) \in Nat
         /\ \E k \in DOMAIN draft.tiers : k \in TierAt(draft.tiers, Advance(draft.tiers[i]))
  <1> DEFINE tier == draft.tiers[i]
             next == Advance(tier)
  <1>1. tier \in Tier /\ ValidTiers(draft.tiers) /\ draft \in CompilableDraft
    BY TierTypes DEF PricingInv, Valid
  <1>2. cursor \in Nat /\ billable \in Nat
    BY Clock DEF PricingInv, PricingTypeOK
  <1>3. tier.from \in Nat /\ tier.from <= cursor
    BY <1>1 DEF TierAt, Tier
  <1>4. /\ Span(tier) \in Nat /\ TierEnd(tier) \in Nat
        /\ cursor + Span(tier) <= TierEnd(tier) /\ cursor < TierEnd(tier)
    BY SpanPositive
  <1>5. next \in Nat /\ tier.from <= next /\ next <= TierEnd(tier)
    BY <1>2, <1>3, <1>4 DEF Advance
  <1>6. \E k \in DOMAIN draft.tiers : k \in TierAt(draft.tiers, next)
    <2> HIDE DEF next
    <2>1. CASE tier.to = Null
      BY <2>1, <1>5 DEF TierAt
    <2>2. CASE tier.to # Null /\ next < tier.to
      BY <2>2, <1>5 DEF TierAt
    <2>3. CASE tier.to # Null /\ ~ (next < tier.to)
      <3>1. tier.to \in Nat /\ TierEnd(tier) = tier.to
        BY <2>3, <1>1, TierGrows DEF TierEnd
      <3>2. next = tier.to
        BY <2>3, <3>1, <1>5
      <3> QED BY <3>1, <3>2, <1>1, NextTier
    <2> QED BY <2>1, <2>2, <2>3
  <1> QED BY <1>5, <1>6

LEMMA InvInit == PricingInit => PricingInv
  BY Clock DEF PricingInit, PricingInv, PricingTypeOK, Phase, Valid, InTier

LEMMA InvStep == PricingInv /\ [PricingNext]_pricingVars => PricingInv'
  <1> SUFFICES ASSUME PricingInv, [PricingNext]_pricingVars PROVE PricingInv'
    OBVIOUS
  <1> USE DEF Phase
  <1>1. CASE Validate
    BY <1>1 DEF PricingInv, PricingTypeOK, Validate, request, InTier
  <1>2. CASE Measure
    <2>1. /\ draft' = draft /\ stay' = stay /\ cursor' = cursor /\ charges' = charges
          /\ phase = "accepted" /\ phase' \in Phase
      BY <1>2 DEF Measure, request
    <2>2. Billable(stay, draft) \in Nat /\ draft \in CompilableDraft /\ Valid(draft) /\ cursor = 0
      BY <2>1, BillableNat DEF PricingInv
    <2>3. billable' \in 0 .. MaxBillable
      <3>1. billable \in 0 .. MaxBillable
        BY DEF PricingInv, PricingTypeOK
      <3>2. billable' = billable \/ billable' = 0
            \/ (billable' = Billable(stay, draft) /\ Billable(stay, draft) <= MaxBillable)
        BY <1>2 DEF Measure
      <3> QED BY <3>1, <3>2, <2>2, Clock
    <2>4. InTier'
      BY <2>1, <2>2, FirstTier DEF InTier, Valid
    <2>5. PricingTypeOK'
      BY <2>1, <2>3 DEF PricingInv, PricingTypeOK
    <2> QED BY <2>1, <2>2, <2>4, <2>5, <1>2 DEF PricingInv, Measure
  <1>3. CASE Charge
    <2>1. phase = "charging" /\ cursor < billable
      BY <1>3 DEF Charge
    <2>2. PICK i \in DOMAIN draft.tiers, j \in DOMAIN draft.windows, k \in DOMAIN draft.rates :
            /\ i \in TierAt(draft.tiers, cursor)
            /\ charges' = Append(charges,
                 [at |-> cursor, minutes |-> Span(draft.tiers[i]), tier |-> i, window |-> j,
                  cents |-> IF draft.tiers[i].unit = "PER_MINUTE"
                              THEN Span(draft.tiers[i]) * draft.rates[k].cents
                              ELSE draft.rates[k].cents])
            /\ cursor' = Advance(draft.tiers[i])
      BY <1>3 DEF Charge, PricedBy
    <2>3. /\ draft' = draft /\ stay' = stay /\ phase' = phase /\ billable' = billable
      BY <1>3 DEF Charge, request
    <2>4. cursor' \in Nat /\ InTier'
      BY <2>1, <2>2, <2>3, TierContinues DEF InTier
    <2>5. Span(draft.tiers[i]) \in Nat
      BY <2>1, <2>2, SpanPositive
    <2>6. i \in Nat /\ j \in Nat /\ draft.rates[k].cents \in Nat
      <3>1. /\ draft.tiers \in Seq(Tier) /\ draft.windows \in Seq(Window)
            /\ draft.rates \in Seq(Rate)
        BY DraftTypes DEF PricingInv
      <3>2. draft.rates[k] \in Rate
        BY <3>1
      <3>3. i \in Nat /\ j \in Nat
        BY <3>1
      <3> QED BY <3>2, <3>3 DEF Rate
    <2>7. Span(draft.tiers[i]) * draft.rates[k].cents \in Nat
      BY <2>5, <2>6, ProductNat
    <2>8. charges' \in Seq([at : Nat, minutes : Nat, tier : Nat, window : Nat, cents : Nat])
      BY <2>2, <2>5, <2>6, <2>7 DEF PricingInv, PricingTypeOK
    <2>9. PricingTypeOK'
      BY <2>3, <2>4, <2>8 DEF PricingInv, PricingTypeOK
    <2> QED BY <2>1, <2>3, <2>4, <2>9 DEF PricingInv
  <1>4. CASE Total
    BY <1>4 DEF PricingInv, PricingTypeOK, Total, request
  <1>5. CASE UNCHANGED pricingVars
    BY <1>5 DEF PricingInv, PricingTypeOK, pricingVars, InTier
  <1> QED BY <1>1, <1>2, <1>3, <1>4, <1>5 DEF PricingNext

LEMMA PricingHolds == PricingSpec => []PricingInv
  BY InvInit, InvStep, PTL DEF PricingSpec

(* Every step of the pricing of a stay keeps its variables well typed: the bill is   *)
(* bounded and every charge is a natural number of cents.                  *)
THEOREM PricingTypes == PricingSpec => []PricingTypeOK
  <1>1. PricingInv => PricingTypeOK
    BY DEF PricingInv
  <1> QED BY <1>1, PricingHolds, PTL

(* A schedule validation accepts has a price for every charge of every stay: the     *)
(* loop never throws NoApplicableTariffError.                              *)
THEOREM EveryStayIsAlwaysPriced == PricingSpec => []EveryStayIsPriced
  <1>1. PricingInv => EveryStayIsPriced
    <2> SUFFICES ASSUME PricingInv, phase = "charging", cursor < billable
                 PROVE  \E i \in DOMAIN draft.tiers, j \in DOMAIN draft.windows,
                           k \in DOMAIN draft.rates : PricedBy(i, j, k)
      BY DEF EveryStayIsPriced
    <2>1. draft \in CompilableDraft /\ stay \in Stay /\ cursor \in Nat /\ Valid(draft)
      BY DEF PricingInv, PricingTypeOK
    <2>2. PICK i \in DOMAIN draft.tiers : i \in TierAt(draft.tiers, cursor)
      BY DEF PricingInv, InTier
    <2>3. Span(draft.tiers[i]) > 0
      BY <2>2, SpanPositive
    <2>4. PICK j \in DOMAIN draft.windows : j \in WindowAt(draft.windows, Wall(stay, cursor))
      BY <2>1, WindowFound DEF Valid
    <2>5. PICK k \in DOMAIN draft.rates : k \in PricesOf(draft, i, j)
      BY <2>1 DEF Valid, ValidRates, PricesOf
    <2> QED BY <2>2, <2>3, <2>4, <2>5 DEF PricedBy
  <1> QED BY <1>1, PricingHolds, PTL
-----------------------------------------------------------------------------
(* Induction and sums.  The library's induction theorems take an operator, which *)
(* no backend can instantiate; they are stated here with a set in its place.  A   *)
(* sum is the library's fold, unfolded to g[s] = f[x] + g[s \ {x}].              *)

\* A set of naturals has a least element.
LEMMA LeastElement ==
  ASSUME NEW T \in SUBSET Nat, T # {}
  PROVE  \E x \in T : \A y \in T : x <= y
<1> DEFINE R == OpToRel(<, Nat)
<1>1. IsWellFoundedOn(R, Nat)
  BY NatLessThanWellFounded
<1>2. ASSUME NEW x \in Nat, NEW y \in Nat, y < x PROVE <<y, x>> \in R
  BY <1>2 DEF OpToRel
<1> HIDE DEF R
<1>3. PICK x \in T : \A y \in T : <<y, x>> \notin R
  BY <1>1, WFMin
<1>4. ASSUME NEW y \in T PROVE x <= y
  <2>1. x \in Nat /\ y \in Nat
    BY <1>3
  <2>2. ~ (y < x)
    BY <1>2, <1>3, <2>1, Zenon
  <2> QED BY <2>1, <2>2
<1> QED BY <1>3, <1>4

\* A set with 0 and all successors is all of Nat.
LEMMA InductSet ==
  ASSUME NEW S \in SUBSET Nat, 0 \in S, \A n \in S : n + 1 \in S
  PROVE  S = Nat
<1>1. SUFFICES ASSUME Nat \ S # {} PROVE FALSE
  OBVIOUS
<1>2. PICK x \in Nat \ S : \A y \in Nat \ S : x <= y
  BY <1>1, LeastElement
<1>3. x # 0 /\ x - 1 \in Nat
  BY <1>2
<1>4. x - 1 \in S
  BY <1>2, <1>3
<1> QED BY <1>2, <1>3, <1>4

\* Among sets of parts of a finite set, a smallest.
LEMMA SmallestPart ==
  ASSUME NEW S, IsFiniteSet(S), NEW B \in SUBSET SUBSET S, B # {}
  PROVE  \E T \in B : \A U \in B : Cardinality(T) <= Cardinality(U)
<1> DEFINE C == {Cardinality(T) : T \in B}
<1>1. C \in SUBSET Nat
  BY FS_Subset, FS_CardinalityType
<1>2. C # {}
  OBVIOUS
<1> HIDE DEF C
<1>3. PICK x \in C : \A y \in C : x <= y
  BY <1>1, <1>2, LeastElement
<1> QED BY <1>3 DEF C

\* The element a sum takes first, and the function the fold is an instance of.
Pick(s) == CHOOSE x \in s : TRUE
Unrolls(g, f, A) ==
  \A s \in A : g[s] = IF s = {} THEN 0 ELSE f[Pick(s)] + g[s \ {Pick(s)}]

Totals(g, f, S) == g = [s \in SUBSET S |-> IF s = {} THEN 0 ELSE f[Pick(s)] + g[s \ {Pick(s)}]]

LEMMA PickIn == ASSUME NEW s, s # {} PROVE Pick(s) \in s
  BY DEF Pick

\* There is such a function: by induction on the size of the parts it is defined on.
LEMMA UnrollsExists ==
  ASSUME NEW S, IsFiniteSet(S), NEW f
  PROVE  \E g : Totals(g, f, S)
<1> DEFINE A(n) == {s \in SUBSET S : Cardinality(s) <= n}
<1> DEFINE N == {n \in Nat : \E g : Unrolls(g, f, A(n))}
<1>0. \A s \in SUBSET S : IsFiniteSet(s) /\ Cardinality(s) \in Nat
  BY FS_Subset, FS_CardinalityType
<1>1. 0 \in N
  <2> DEFINE g == [s \in SUBSET S |-> 0]
  <2>1. \A s \in A(0) : s = {}
    BY <1>0, FS_EmptySet
  <2>2. Unrolls(g, f, A(0))
    BY <2>1 DEF Unrolls
  <2> QED BY <2>2
<1>2. ASSUME NEW n \in N PROVE n + 1 \in N
  <2>1. PICK g : Unrolls(g, f, A(n))
    BY <1>2
  <2> DEFINE h == [s \in SUBSET S |-> IF Cardinality(s) <= n THEN g[s]
                                      ELSE f[Pick(s)] + g[s \ {Pick(s)}]]
  <2>2. ASSUME NEW s \in A(n + 1) PROVE h[s] = IF s = {} THEN 0 ELSE f[Pick(s)] + h[s \ {Pick(s)}]
    <3>1. CASE s = {}
      <4>1. s \in A(n)
        BY <3>1, <1>0, FS_EmptySet
      <4> QED BY <3>1, <4>1, <2>1 DEF Unrolls
    <3>2. CASE s # {}
      <4>1. Pick(s) \in s
        BY <3>2, PickIn
      <4>2. Cardinality(s \ {Pick(s)}) = Cardinality(s) - 1
        BY <4>1, <1>0, FS_RemoveElement
      <4>3. s \ {Pick(s)} \in A(n)
        BY <4>2, <1>0
      <4>4. h[s \ {Pick(s)}] = g[s \ {Pick(s)}]
        BY <4>3
      <4>5. h[s] = f[Pick(s)] + g[s \ {Pick(s)}]
        <5>1. CASE Cardinality(s) <= n
          <6>1. s \in A(n) /\ h[s] = g[s]
            BY <5>1
          <6> QED BY <6>1, <2>1, <3>2 DEF Unrolls
        <5> QED BY <5>1
      <4> QED BY <3>2, <4>4, <4>5
    <3> QED BY <3>1, <3>2
  <2>3. Unrolls(h, f, A(n + 1))
    BY <2>2 DEF Unrolls
  <2>4. n + 1 \in Nat
    OBVIOUS
  <2> HIDE DEF h
  <2> QED BY <2>3, <2>4
<1> HIDE DEF N
<1>3. N = Nat
  <2>1. N \in SUBSET Nat
    BY DEF N
  <2> QED BY <1>1, <1>2, <2>1, InductSet
<1>4. PICK g : Unrolls(g, f, A(Cardinality(S)))
  BY <1>3, <1>0 DEF N
<1>5. \A s \in SUBSET S : s \in A(Cardinality(S))
  BY FS_Subset
<1> DEFINE h == [s \in SUBSET S |-> g[s]]
<1>6. ASSUME NEW s \in SUBSET S
      PROVE  h[s] = IF s = {} THEN 0 ELSE f[Pick(s)] + h[s \ {Pick(s)}]
  BY <1>4, <1>5 DEF Unrolls
<1>7. h = [s \in SUBSET S |-> IF s = {} THEN 0 ELSE f[Pick(s)] + h[s \ {Pick(s)}]]
  BY <1>6
<1> HIDE DEF h
<1> QED BY <1>7 DEF Totals

\* So the fold is its value.
LEMMA SumUnfold ==
  ASSUME NEW S, IsFiniteSet(S), NEW f
  PROVE  \E g : /\ SumFunctionOnSet(f, S) = g[S]
                /\ Unrolls(g, f, SUBSET S)
<1> DEFINE g == CHOOSE g : Totals(g, f, S)
<1>1. SumFunctionOnSet(f, S) = g[S]
  BY DEF SumFunctionOnSet, FoldFunctionOnSet, MapThenFoldSet, Pick, Totals
<1>2. Totals(g, f, S)
  BY UnrollsExists
<1> HIDE DEF g
<1>3. ASSUME NEW s \in SUBSET S PROVE g[s] = IF s = {} THEN 0 ELSE f[Pick(s)] + g[s \ {Pick(s)}]
  BY <1>2 DEF Totals
<1> QED BY <1>1, <1>3 DEF Unrolls

\* Induction over the parts of a finite set.
LEMMA PartsInduct ==
  ASSUME NEW S, IsFiniteSet(S), NEW A \in SUBSET SUBSET S,
         \A T \in SUBSET S : (\A U \in SUBSET T : U # T => U \in A) => T \in A
  PROVE  A = SUBSET S
<1> DEFINE B == (SUBSET S) \ A
<1> SUFFICES ASSUME B # {} PROVE FALSE
  OBVIOUS
<1>0. B \in SUBSET SUBSET S
  OBVIOUS
<1> HIDE DEF B
<1>1. PICK T \in B : \A U \in B : Cardinality(T) <= Cardinality(U)
  BY <1>0, SmallestPart
<1> USE DEF B
<1>2. PICK U \in SUBSET T : U # T /\ U \notin A
  BY <1>1
<1>3. IsFiniteSet(T) /\ IsFiniteSet(U) /\ Cardinality(T) \in Nat /\ Cardinality(U) \in Nat
  BY <1>1, <1>2, FS_Subset, FS_CardinalityType
<1>4. Cardinality(U) < Cardinality(T)
  BY <1>2, <1>3, FS_Subset
<1>5. U \in B
  BY <1>1, <1>2
<1> QED BY <1>1, <1>3, <1>4, <1>5

Sum(f, S) == SumFunctionOnSet(f, S)

\* No terms add up to nothing.
LEMMA SumEmpty == ASSUME NEW f PROVE Sum(f, {}) = 0
<1>1. IsFiniteSet({})
  BY FS_EmptySet
<1>2. PICK g : SumFunctionOnSet(f, {}) = g[{}] /\ Unrolls(g, f, SUBSET {})
  BY <1>1, SumUnfold
<1> QED BY <1>2 DEF Unrolls, Sum

\* Two sums whose terms agree on a part agree there.
LEMMA SameTotals ==
  ASSUME NEW S, IsFiniteSet(S), NEW f, NEW e, \A x \in S : f[x] = e[x],
         NEW g, Unrolls(g, f, SUBSET S), NEW h, NEW T, S \subseteq T, Unrolls(h, e, SUBSET T)
  PROVE  g[S] = h[S]
<1> DEFINE A == {U \in SUBSET S : g[U] = h[U]}
<1>1. ASSUME NEW U \in SUBSET S, \A V \in SUBSET U : V # U => V \in A PROVE U \in A
  <2>1. CASE U = {}
    BY <2>1 DEF Unrolls
  <2>2. CASE U # {}
    <3>1. Pick(U) \in U
      BY <2>2, PickIn
    <3>2. U \ {Pick(U)} \in A
      BY <1>1, <3>1
    <3>3. g[U] = f[Pick(U)] + g[U \ {Pick(U)}] /\ h[U] = e[Pick(U)] + h[U \ {Pick(U)}]
      BY <2>2 DEF Unrolls
    <3>4. f[Pick(U)] = e[Pick(U)]
      BY <3>1
    <3> QED BY <3>2, <3>3, <3>4
  <2> QED BY <2>1, <2>2
<1>2. A \in SUBSET SUBSET S
  OBVIOUS
<1> HIDE DEF A
<1>3. A = SUBSET S
  BY <1>1, <1>2, PartsInduct
<1> QED BY <1>3 DEF A

\* The element that is taken first.
LEMMA SumChosen ==
  ASSUME NEW S, IsFiniteSet(S), S # {}, NEW f
  PROVE  Pick(S) \in S /\ Sum(f, S) = f[Pick(S)] + Sum(f, S \ {Pick(S)})
<1> DEFINE T == S \ {Pick(S)}
<1>1. Pick(S) \in S /\ IsFiniteSet(T) /\ T \subseteq S
  BY PickIn, FS_Subset
<1>2. PICK g : SumFunctionOnSet(f, S) = g[S] /\ Unrolls(g, f, SUBSET S)
  BY SumUnfold
<1>3. PICK h : SumFunctionOnSet(f, T) = h[T] /\ Unrolls(h, f, SUBSET T)
  BY <1>1, SumUnfold
<1>4. g[S] = f[Pick(S)] + g[T]
  BY <1>2 DEF Unrolls
<1>5. h[T] = g[T]
  BY <1>1, <1>2, <1>3, SameTotals
<1> QED BY <1>1, <1>2, <1>3, <1>4, <1>5 DEF Sum

\* The terms are all that a sum depends on.
LEMMA SumSame ==
  ASSUME NEW S, IsFiniteSet(S), NEW f, NEW e, \A x \in S : f[x] = e[x]
  PROVE  Sum(f, S) = Sum(e, S)
<1>1. PICK g : SumFunctionOnSet(f, S) = g[S] /\ Unrolls(g, f, SUBSET S)
  BY SumUnfold
<1>2. PICK h : SumFunctionOnSet(e, S) = h[S] /\ Unrolls(h, e, SUBSET S)
  BY SumUnfold
<1>3. S \subseteq S /\ Unrolls(g, f, SUBSET S) /\ Unrolls(h, e, SUBSET S)
  BY <1>1, <1>2
<1>4. g[S] = h[S]
  BY <1>3, SameTotals
<1> QED BY <1>1, <1>2, <1>4 DEF Sum

\* A sum of integers is one.
LEMMA SumInt ==
  ASSUME NEW S, IsFiniteSet(S), NEW f, \A x \in S : f[x] \in Int
  PROVE  Sum(f, S) \in Int
<1> DEFINE A == {T \in SUBSET S : Sum(f, T) \in Int}
<1>1. ASSUME NEW T \in SUBSET S, \A U \in SUBSET T : U # T => U \in A PROVE T \in A
  <2>1. CASE T = {}
    BY <2>1, SumEmpty
  <2>2. CASE T # {}
    <3>1. Pick(T) \in T /\ Sum(f, T) = f[Pick(T)] + Sum(f, T \ {Pick(T)})
      BY <2>2, SumChosen, FS_Subset
    <3>2. T \ {Pick(T)} \in A
      BY <1>1, <3>1
    <3> QED BY <3>1, <3>2
  <2> QED BY <2>1, <2>2
<1>2. A \in SUBSET SUBSET S
  OBVIOUS
<1> HIDE DEF A
<1>3. A = SUBSET S
  BY <1>1, <1>2, PartsInduct
<1> QED BY <1>3 DEF A

\* Any element may be taken out first.
LEMMA SumRemove ==
  ASSUME NEW S, IsFiniteSet(S), NEW f, \A x \in S : f[x] \in Int, NEW a \in S
  PROVE  Sum(f, S) = f[a] + Sum(f, S \ {a})
<1> DEFINE A == {T \in SUBSET S : \A x \in T : Sum(f, T) = f[x] + Sum(f, T \ {x})}
<1>0. \A T \in SUBSET S : IsFiniteSet(T) /\ Sum(f, T) \in Int
  <2> TAKE T \in SUBSET S
  <2>1. IsFiniteSet(T)
    BY FS_Subset
  <2>2. \A x \in T : f[x] \in Int
    OBVIOUS
  <2> QED BY <2>1, <2>2, SumInt
<1>1. ASSUME NEW T \in SUBSET S, \A U \in SUBSET T : U # T => U \in A,
             NEW x \in T
      PROVE  Sum(f, T) = f[x] + Sum(f, T \ {x})
  <2> DEFINE c == Pick(T)
  <2>1. c \in T /\ Sum(f, T) = f[c] + Sum(f, T \ {c})
    BY <1>0, SumChosen
  <2>2. CASE x = c
    BY <2>1, <2>2
  <2>3. CASE x # c
    <3>1. T \ {c} \in A /\ T \ {x} \in A
      BY <1>1, <2>1
    <3>2. Sum(f, T \ {c}) = f[x] + Sum(f, (T \ {c}) \ {x})
      BY <3>1, <2>3
    <3>3. Sum(f, T \ {x}) = f[c] + Sum(f, (T \ {x}) \ {c})
      BY <3>1, <2>1, <2>3
    <3>4. (T \ {c}) \ {x} = (T \ {x}) \ {c}
      OBVIOUS
    <3>5. Sum(f, (T \ {c}) \ {x}) \in Int /\ f[x] \in Int /\ f[c] \in Int
      BY <1>0, <2>1
    <3>6. Sum(f, T \ {x}) = f[c] + Sum(f, (T \ {c}) \ {x})
      BY <3>3, <3>4
    <3> HIDE DEF c
    <3> QED BY <2>1, <3>2, <3>5, <3>6
  <2> QED BY <2>2, <2>3
<1>2. A \in SUBSET SUBSET S
  OBVIOUS
<1>3. \A T \in SUBSET S : (\A U \in SUBSET T : U # T => U \in A) => T \in A
  BY <1>1
<1> HIDE DEF A
<1>4. A = SUBSET S
  BY <1>2, <1>3, PartsInduct
<1> QED BY <1>4 DEF A

\* Nothing is lost by summing in other words: a bijection of the terms.
LEMMA SumReindex ==
  ASSUME NEW S, IsFiniteSet(S), NEW f, NEW T, NEW e, NEW b \in [S -> T],
         \A x \in S : f[x] \in Int /\ e[b[x]] = f[x],
         \A x, y \in S : b[x] = b[y] => x = y, \A z \in T : \E x \in S : b[x] = z
  PROVE  Sum(f, S) = Sum(e, T)
<1> DEFINE I(U) == {b[x] : x \in U}
           A == {U \in SUBSET S : Sum(f, U) = Sum(e, I(U))}
<1>1. ASSUME NEW U \in SUBSET S, \A V \in SUBSET U : V # U => V \in A PROVE U \in A
  <2>1. CASE U = {}
    <3>1. I(U) = {}
      BY <2>1
    <3> QED BY <2>1, <3>1, SumEmpty
  <2>2. CASE U # {}
    <3>1. PICK x \in U : TRUE
      BY <2>2
    <3>2. IsFiniteSet(U) /\ IsFiniteSet(I(U))
      <4>1. IsFiniteSet(U)
        BY FS_Subset
      <4> DEFINE g == [y \in U |-> b[y]]
      <4>2. g \in Surjection(U, I(U))
        BY DEF Surjection
      <4> HIDE DEF g, I
      <4> QED BY <4>1, <4>2, FS_Surjection
    <3>3. Sum(f, U) = f[x] + Sum(f, U \ {x})
      <4>1. \A y \in U : f[y] \in Int
        OBVIOUS
      <4> QED BY <3>2, <4>1, SumRemove
    <3>4. Sum(e, I(U)) = e[b[x]] + Sum(e, I(U) \ {b[x]})
      <4>1. \A y \in I(U) : e[y] \in Int
        OBVIOUS
      <4>2. b[x] \in I(U)
        OBVIOUS
      <4> HIDE DEF I
      <4> QED BY <3>2, <4>1, <4>2, SumRemove
    <3>5. I(U) \ {b[x]} = I(U \ {x})
      OBVIOUS
    <3>6. U \ {x} \in A
      BY <1>1
    <3> QED BY <3>3, <3>4, <3>5, <3>6
  <2> QED BY <2>1, <2>2
<1>2. A \in SUBSET SUBSET S
  OBVIOUS
<1>3. \A U \in SUBSET S : (\A V \in SUBSET U : V # U => V \in A) => U \in A
  BY <1>1
<1>4. I(S) = T
  OBVIOUS
<1> HIDE DEF A
<1>5. A = SUBSET S
  BY <1>2, <1>3, PartsInduct
<1>6. Sum(f, S) = Sum(e, I(S))
  BY <1>5 DEF A
<1> QED BY <1>4, <1>6

\* Fewer and smaller terms have a smaller sum.
LEMMA SumMonotone ==
  ASSUME NEW S, IsFiniteSet(S), NEW T \in SUBSET S, NEW f, NEW e,
         \A x \in S : e[x] \in Nat, \A x \in T : f[x] \in Int /\ f[x] <= e[x]
  PROVE  Sum(f, T) <= Sum(e, S)
<1> DEFINE A == {U \in SUBSET S : Sum(f, U \cap T) <= Sum(e, U)}
<1>0. \A U \in SUBSET S : IsFiniteSet(U) /\ Sum(e, U) \in Int /\ Sum(f, U \cap T) \in Int
  <2> TAKE U \in SUBSET S
  <2>1. IsFiniteSet(U) /\ IsFiniteSet(U \cap T)
    BY FS_Subset
  <2>2. \A x \in U : e[x] \in Int
    OBVIOUS
  <2>3. \A x \in U \cap T : f[x] \in Int
    OBVIOUS
  <2>4. Sum(e, U) \in Int
    BY <2>1, <2>2, SumInt
  <2>5. Sum(f, U \cap T) \in Int
    BY <2>1, <2>3, SumInt
  <2> QED BY <2>1, <2>4, <2>5
<1>1. ASSUME NEW U \in SUBSET S, \A V \in SUBSET U : V # U => V \in A PROVE U \in A
  <2>1. CASE U = {}
    <3>1. U \cap T = {}
      BY <2>1
    <3>2. Sum(f, U \cap T) = 0
      BY <3>1, SumEmpty
    <3>3. Sum(e, U) = 0
      BY <2>1, SumEmpty
    <3> QED BY <3>2, <3>3
  <2>2. CASE U # {}
    <3>1. PICK x \in U : TRUE
      BY <2>2
    <3> DEFINE V == U \ {x}
    <3>2. V \in A
      BY <1>1
    <3>3. Sum(e, U) = e[x] + Sum(e, V)
      <4>1. \A y \in U : e[y] \in Int
        OBVIOUS
      <4> QED BY <1>0, <4>1, SumRemove
    <3>4. Sum(f, U \cap T) <= e[x] + Sum(f, V \cap T)
      <4>1. CASE x \in T
        <5>1. \A y \in U \cap T : f[y] \in Int
          OBVIOUS
        <5>2. x \in U \cap T /\ (U \cap T) \ {x} = V \cap T
          BY <4>1
        <5>3. IsFiniteSet(U \cap T)
          BY FS_Subset
        <5>4. Sum(f, U \cap T) = f[x] + Sum(f, (U \cap T) \ {x})
          BY <5>1, <5>2, <5>3, SumRemove
        <5>5. f[x] \in Int /\ f[x] <= e[x] /\ e[x] \in Int
          BY <4>1
        <5>6. Sum(f, V \cap T) \in Int
          BY <1>0
        <5>7. Sum(f, U \cap T) = f[x] + Sum(f, V \cap T)
          BY <5>2, <5>4
        <5> HIDE DEF V
        <5> QED BY <5>5, <5>6, <5>7
      <4>2. CASE x \notin T
        <5>1. U \cap T = V \cap T
          BY <4>2
        <5>2. e[x] \in Nat /\ Sum(f, V \cap T) \in Int
          BY <1>0
        <5> HIDE DEF V
        <5> QED BY <5>1, <5>2
      <4> QED BY <4>1, <4>2
    <3>5. Sum(f, V \cap T) <= Sum(e, V)
      BY <3>2
    <3>6. /\ Sum(f, V \cap T) \in Int /\ Sum(e, V) \in Int /\ e[x] \in Int
          /\ Sum(f, U \cap T) \in Int /\ Sum(e, U) \in Int
      BY <1>0
    <3> HIDE DEF V
    <3>7. Sum(f, U \cap T) <= Sum(e, U)
      BY <3>3, <3>4, <3>5, <3>6
    <3> QED BY <3>7
  <2> QED BY <2>1, <2>2
<1>2. A \in SUBSET SUBSET S
  OBVIOUS
<1>3. \A U \in SUBSET S : (\A V \in SUBSET U : V # U => V \in A) => U \in A
  BY <1>1
<1> HIDE DEF A
<1>4. A = SUBSET S
  BY <1>2, <1>3, PartsInduct
<1>5. S \cap T = T
  OBVIOUS
<1> QED BY <1>4, <1>5 DEF A

\* Terms that are nothing add nothing.
LEMMA SumNarrow ==
  ASSUME NEW S, IsFiniteSet(S), NEW f, \A x \in S : f[x] \in Int,
         NEW T \in SUBSET S, \A x \in S \ T : f[x] = 0
  PROVE  Sum(f, S) = Sum(f, T)
<1> DEFINE A == {U \in SUBSET S : Sum(f, U) = Sum(f, U \cap T)}
<1>1. ASSUME NEW U \in SUBSET S, \A V \in SUBSET U : V # U => V \in A PROVE U \in A
  <2>1. CASE U \subseteq T
    <3>1. U \cap T = U
      BY <2>1
    <3> QED BY <3>1
  <2>2. CASE ~ (U \subseteq T)
    <3>1. PICK x \in U : x \notin T
      BY <2>2
    <3> DEFINE V == U \ {x}
    <3>2. V \in A
      BY <1>1
    <3>3. Sum(f, U) = f[x] + Sum(f, V)
      <4>1. IsFiniteSet(U) /\ \A y \in U : f[y] \in Int
        BY FS_Subset
      <4> QED BY <4>1, SumRemove
    <3>4. Sum(f, V) \in Int
      <4>1. IsFiniteSet(V) /\ \A y \in V : f[y] \in Int
        BY FS_Subset
      <4> QED BY <4>1, SumInt
    <3>5. f[x] = 0 /\ U \cap T = V \cap T
      BY <3>1
    <3>6. Sum(f, V) = Sum(f, U \cap T)
      BY <3>2, <3>5
    <3> HIDE DEF V
    <3>7. Sum(f, U) = Sum(f, U \cap T)
      BY <3>3, <3>4, <3>5, <3>6
    <3> QED BY <3>7
  <2> QED BY <2>1, <2>2
<1>2. A \in SUBSET SUBSET S
  OBVIOUS
<1>3. \A U \in SUBSET S : (\A V \in SUBSET U : V # U => V \in A) => U \in A
  BY <1>1
<1> HIDE DEF A
<1>4. A = SUBSET S
  BY <1>2, <1>3, PartsInduct
<1>5. S \cap T = T
  OBVIOUS
<1> QED BY <1>4, <1>5 DEF A

\* Summing by classes is summing.
LEMMA SumByClass ==
  ASSUME NEW S, IsFiniteSet(S), NEW f, \A x \in S : f[x] \in Int,
         NEW C, IsFiniteSet(C), NEW h \in [S -> C]
  PROVE  Sum(f, S) = Sum([c \in C |-> Sum(f, {x \in S : h[x] = c})], C)
<1> DEFINE Class(U, c) == {x \in U : h[x] = c}
           G(U) == [c \in C |-> Sum(f, Class(U, c))]
           A == {U \in SUBSET S : Sum(f, U) = Sum(G(U), C)}
<1>0. \A U \in SUBSET S, c \in C : IsFiniteSet(Class(U, c)) /\ G(U)[c] \in Int
  <2> TAKE U \in SUBSET S, c \in C
  <2>1. IsFiniteSet(Class(U, c))
    BY FS_Subset
  <2>2. \A x \in Class(U, c) : f[x] \in Int
    OBVIOUS
  <2>3. Sum(f, Class(U, c)) \in Int
    <3> HIDE DEF Class
    <3> QED BY <2>1, <2>2, SumInt
  <2> QED BY <2>1, <2>3
<1>1. ASSUME NEW U \in SUBSET S, \A V \in SUBSET U : V # U => V \in A PROVE U \in A
  <2>1. CASE U = {}
    <3> DEFINE g == G(U)
    <3>1. \A c \in C : g[c] = 0
      <4>1. ASSUME NEW c \in C PROVE Class(U, c) = {}
        BY <2>1
      <4> QED BY <4>1, SumEmpty
    <3>2. {} \in SUBSET C /\ \A c \in C : g[c] \in Int
      BY <3>1
    <3> HIDE DEF g
    <3>3. Sum(g, C) = Sum(g, {})
      BY <3>1, <3>2, SumNarrow
    <3>4. Sum(g, C) = 0
      BY <3>3, SumEmpty
    <3>5. Sum(f, U) = 0
      BY <2>1, SumEmpty
    <3> QED BY <3>4, <3>5 DEF g
  <2>2. CASE U # {}
    <3>1. PICK x \in U : TRUE
      BY <2>2
    <3> DEFINE V == U \ {x}
               d == h[x]
               g == G(U)
               k == G(V)
    <3>2. V \in A
      BY <1>1
    <3>3. Sum(f, U) = f[x] + Sum(f, V)
      <4>1. IsFiniteSet(U) /\ \A y \in U : f[y] \in Int
        BY FS_Subset
      <4> QED BY <4>1, SumRemove
    <3>4. d \in C /\ g[d] \in Int /\ k[d] \in Int
      BY <1>0
    <3>5. g[d] = f[x] + k[d]
      <4>1. Class(U, d) \ {x} = Class(V, d) /\ x \in Class(U, d)
        OBVIOUS
      <4>2. IsFiniteSet(Class(U, d)) /\ \A y \in Class(U, d) : f[y] \in Int
        BY <1>0, <3>4
      <4>3. Sum(f, Class(U, d)) = f[x] + Sum(f, Class(U, d) \ {x})
        <5> HIDE DEF Class, d
        <5> QED BY <4>1, <4>2, SumRemove
      <4>4. Sum(f, Class(U, d)) = f[x] + Sum(f, Class(V, d))
        BY <4>1, <4>3
      <4> QED BY <4>4, <3>4
    <3>6. ASSUME NEW c \in C \ {d} PROVE g[c] = k[c]
      <4>1. Class(U, c) = Class(V, c)
        OBVIOUS
      <4> QED BY <4>1
    <3>7. (\A c \in C : g[c] \in Int /\ k[c] \in Int) /\ IsFiniteSet(C \ {d})
      BY <1>0, FS_Subset
    <3>8. Sum(f, V) = Sum(k, C)
      BY <3>2
    <3>9. f[x] \in Int
      OBVIOUS
    <3>10. Sum(k, C \ {d}) \in Int
      <4> HIDE DEF d, k
      <4>1. \A c \in C \ {d} : k[c] \in Int
        BY <3>7
      <4> QED BY <3>7, <4>1, SumInt
    <3> HIDE DEF V, d, g, k
    <3>11. Sum(g, C) = g[d] + Sum(g, C \ {d})
      BY <3>4, <3>7, SumRemove
    <3>12. Sum(k, C) = k[d] + Sum(k, C \ {d})
      BY <3>4, <3>7, SumRemove
    <3>13. Sum(g, C \ {d}) = Sum(k, C \ {d})
      BY <3>6, <3>7, SumSame
    <3>14. Sum(f, U) = Sum(g, C)
      BY <3>3, <3>4, <3>5, <3>8, <3>9, <3>10, <3>11, <3>12, <3>13
    <3> QED BY <3>14 DEF g
  <2> QED BY <2>1, <2>2
<1>2. A \in SUBSET SUBSET S
  OBVIOUS
<1>3. \A U \in SUBSET S : (\A V \in SUBSET U : V # U => V \in A) => U \in A
  BY <1>1
<1> HIDE DEF A
<1>4. A = SUBSET S
  BY <1>2, <1>3, PartsInduct
<1> QED BY <1>4 DEF A
-----------------------------------------------------------------------------
(* The schedule, read at one minute.                                       *)

\* The tiers of a valid schedule do not overlap.
LEMMA TierUnique ==
  ASSUME NEW d \in CompilableDraft, ValidTiers(d.tiers), NEW m \in Nat,
         NEW i \in TierAt(d.tiers, m), NEW k \in TierAt(d.tiers, m)
  PROVE  i = k
<1> DEFINE ts == d.tiers
           n == Len(ts)
<1>1. ts \in Seq(Tier) /\ n \in Nat
  BY DraftTypes
<1>2. PICK order \in [1 .. n -> DOMAIN ts] :
        /\ \A x \in DOMAIN ts : \E p \in 1 .. n : order[p] = x
        /\ \A p \in 1 .. n :
             IF p = n
               THEN ts[order[p]].to = Null
               ELSE /\ ts[order[p]].to \in Nat /\ ts[order[p]].to > ts[order[p]].from
                    /\ ts[order[p + 1]].from = ts[order[p]].to
  BY DEF ValidTiers, Tiled
<1>3. \A p \in 1 .. n : ts[order[p]].from \in Nat
  <2> TAKE p \in 1 .. n
  <2>1. ts[order[p]] \in Tier
    BY <1>2, TierTypes
  <2> QED BY <2>1 DEF Tier
<1> DEFINE S == {r \in Nat : \A p, q \in 1 .. n : q = p + 1 + r =>
                    ts[order[p]].to \in Nat /\ ts[order[p]].to <= ts[order[q]].from}
<1> HIDE DEF ts, n
<1>4. ASSUME NEW p \in 1 .. n, NEW q \in 1 .. n, q = p + 1
      PROVE  ts[order[p]].to \in Nat /\ ts[order[q]].from = ts[order[p]].to
                /\ ts[order[p]].from < ts[order[p]].to
  <2>1. p # n /\ q = p + 1
    BY <1>4, <1>1
  <2> QED BY <2>1, <1>2, <1>3
<1>5. 0 \in S
  <2> SUFFICES ASSUME NEW p \in 1 .. n, NEW q \in 1 .. n, q = p + 1 + 0
               PROVE  ts[order[p]].to \in Nat /\ ts[order[p]].to <= ts[order[q]].from
    OBVIOUS
  <2>1. q = p + 1
    OBVIOUS
  <2> QED BY <2>1, <1>4
<1>6. ASSUME NEW r \in S PROVE r + 1 \in S
  <2>0. r \in Nat
    OBVIOUS
  <2>1. ASSUME NEW p \in 1 .. n, NEW q \in 1 .. n, q = p + 1 + (r + 1)
        PROVE  ts[order[p]].to \in Nat /\ ts[order[p]].to <= ts[order[q]].from
    <3> DEFINE o == q - 1
    <3>1. o \in 1 .. n /\ q = o + 1 /\ o = p + 1 + r
      <4> HIDE DEF S
      <4> QED BY <2>0, <2>1, <1>1
    <3>2. ts[order[p]].to \in Nat /\ ts[order[p]].to <= ts[order[o]].from
      BY <3>1
    <3>3. /\ ts[order[o]].to \in Nat /\ ts[order[q]].from = ts[order[o]].to
          /\ ts[order[o]].from < ts[order[o]].to
      BY <3>1, <1>4
    <3>4. ts[order[o]].from \in Nat
      BY <3>1, <1>3
    <3> QED BY <3>2, <3>3, <3>4
  <2> QED BY <2>0, <2>1
<1>7. S = Nat
  <2>1. S \in SUBSET Nat
    OBVIOUS
  <2> HIDE DEF S
  <2> QED BY <1>5, <1>6, <2>1, InductSet
<1>8. ASSUME NEW p \in 1 .. n, NEW q \in 1 .. n, p < q
      PROVE  ts[order[p]].to \in Nat /\ ts[order[p]].to <= ts[order[q]].from
  <2> DEFINE r == q - p - 1
  <2>1. r \in Nat /\ q = p + 1 + r
    BY <1>1, <1>8
  <2> HIDE DEF r
  <2>2. r \in S
    <3> HIDE DEF S
    <3> QED BY <2>1, <1>7
  <2> QED BY <2>1, <2>2
<1>9. PICK p \in 1 .. n, q \in 1 .. n : order[p] = i /\ order[q] = k
  BY <1>2 DEF TierAt, ts
<1>10. /\ ts[i].from <= m /\ (ts[i].to \in Nat => m < ts[i].to)
       /\ ts[k].from <= m /\ (ts[k].to \in Nat => m < ts[k].to)
  BY Clock DEF TierAt, ts
<1>11. p \in Int /\ q \in Int /\ ts[i].from \in Nat /\ ts[k].from \in Nat
  <2>1. p \in Int /\ q \in Int
    BY <1>1
  <2>2. ts[order[p]].from \in Nat /\ ts[order[q]].from \in Nat
    BY <1>3
  <2> QED BY <2>1, <2>2, <1>9
<1>12. ~ (p < q)
  <2> SUFFICES ASSUME p < q PROVE FALSE
    OBVIOUS
  <2>1. ts[i].to \in Nat /\ ts[i].to <= ts[k].from
    BY <1>8, <1>9
  <2> QED BY <2>1, <1>10, <1>11
<1>13. ~ (q < p)
  <2> SUFFICES ASSUME q < p PROVE FALSE
    OBVIOUS
  <2>1. ts[k].to \in Nat /\ ts[k].to <= ts[i].from
    BY <1>8, <1>9
  <2> QED BY <2>1, <1>10, <1>11
<1> QED BY <1>9, <1>11, <1>12, <1>13

\* Every minute has a tier.
LEMMA TierCovers ==
  ASSUME NEW d \in CompilableDraft, ValidTiers(d.tiers), NEW m \in Nat
  PROVE  TierAt(d.tiers, m) # {}
<1> DEFINE S == {n \in Nat : TierAt(d.tiers, n) # {}}
<1>1. 0 \in S
  BY FirstTier
<1>2. ASSUME NEW n \in S PROVE n + 1 \in S
  <2>1. PICK i \in TierAt(d.tiers, n) : TRUE
    OBVIOUS
  <2>2. i \in DOMAIN d.tiers /\ d.tiers[i].from <= n /\ (d.tiers[i].to = Null \/ n < d.tiers[i].to)
    BY <2>1 DEF TierAt
  <2>3. d.tiers[i].from \in Nat /\ (d.tiers[i].to = Null \/ d.tiers[i].to \in Nat)
    BY <2>2, TierTypes DEF Tier
  <2>4. CASE d.tiers[i].to = Null \/ n + 1 < d.tiers[i].to
    <3>1. i \in TierAt(d.tiers, n + 1)
      BY <2>2, <2>3, <2>4 DEF TierAt
    <3> QED BY <3>1
  <2>5. CASE d.tiers[i].to # Null /\ ~ (n + 1 < d.tiers[i].to)
    <3>1. d.tiers[i].to \in Nat /\ d.tiers[i].to = n + 1
      BY <2>2, <2>3, <2>5
    <3> QED BY <3>1, <2>2, NextTier
  <2> QED BY <2>4, <2>5
<1>3. S \in SUBSET Nat
  OBVIOUS
<1> HIDE DEF S
<1>4. S = Nat
  BY <1>1, <1>2, <1>3, InductSet
<1> QED BY <1>4 DEF S

\* Which minutes start a charge.
LEMMA StartsIn ==
  ASSUME NEW d \in CompilableDraft, ValidTiers(d.tiers), NEW n \in Nat, NEW m \in Nat,
         NEW i \in TierAt(d.tiers, m)
  PROVE  /\ TierOf(d, m) = i
         /\ m \in Starts(d, n) <=> m < n /\ Begins(d.tiers[i], m)
<1>1. TierOf(d, m) \in TierAt(d.tiers, m)
  BY DEF TierOf
<1>2. TierOf(d, m) = i
  BY <1>1, TierUnique
<1>3. m \in 0 .. n - 1 <=> m < n
  OBVIOUS
<1> QED BY <1>2, <1>3 DEF Starts

\* What the engine looks up is what the declarative reading says.
LEMMA RateFound ==
  ASSUME NEW d \in CompilableDraft, Valid(d), NEW s \in Stay, NEW m \in Nat,
         NEW i \in TierAt(d.tiers, m), NEW j \in WindowAt(d.windows, Wall(s, m)),
         NEW k \in PricesOf(d, i, j)
  PROVE  RateAt(d, s, m) = d.rates[k].cents
<1> DEFINE wall == Wall(s, m)
           day == wall \div DayMinutes
           minute == wall % DayMinutes
           x == WindowOf(d, wall)
<1>1. day \in 0 .. Days - 1 /\ minute \in 0 .. DayMinutes - 1
  BY WallInWeek
<1>2. j \in DOMAIN d.windows /\ day \in d.windows[j].days /\ Inside(d.windows[j], minute)
  BY DEF WindowAt
<1>3. d.windows[j] \in Window
  BY <1>2, DraftTypes
<1>4. InSegments(d.windows[j], day, minute)
  <2> HIDE DEF wall, day, minute, x
  <2>1. \E g \in Segments(d.windows[j]) : g[1] <= minute /\ minute < g[2]
    <3> DEFINE w == d.windows[j]
    <3>1. w.start \in 0 .. DayMinutes - 1 /\ w.end \in 0 .. DayMinutes
      BY <1>3 DEF Window
    <3>2. minute \in Nat /\ minute < DayMinutes /\ DayMinutes \in Nat
      BY <1>1, Clock
    <3>3. Inside(w, minute)
      BY <1>2
    <3> HIDE DEF w
    <3>4. CASE w.end > w.start
      <4>1. <<w.start, w.end>> \in Segments(w)
        BY <3>4 DEF Segments
      <4>2. w.start <= minute /\ minute < w.end
        BY <3>1, <3>2, <3>3, <3>4 DEF Inside
      <4> QED BY <4>1, <4>2 DEF w
    <3>5. CASE ~ (w.end > w.start) /\ minute >= w.start
      <4>1. <<w.start, DayMinutes>> \in Segments(w)
        BY <3>5 DEF Segments
      <4>2. w.start <= minute /\ minute < DayMinutes
        BY <3>1, <3>2, <3>5
      <4> QED BY <4>1, <4>2 DEF w
    <3>6. CASE ~ (w.end > w.start) /\ ~ (minute >= w.start)
      <4>1. minute < w.end
        BY <3>3, <3>6 DEF Inside
      <4>2. w.end > 0
        BY <4>1, <3>1, <3>2
      <4>3. <<0, w.end>> \in Segments(w)
        BY <3>6, <4>2 DEF Segments
      <4>4. 0 <= minute
        BY <3>2
      <4> QED BY <4>1, <4>3, <4>4 DEF w
    <3> QED BY <3>4, <3>5, <3>6
  <2> QED BY <2>1, <1>2 DEF InSegments
<1>5. x = j
  <2>1. \A y \in DOMAIN d.windows : InSegments(d.windows[y], day, minute) => y = j
    <3> HIDE DEF wall, day, minute, x
    <3> QED BY <1>1, <1>2, <1>4 DEF Valid, ValidWindows
  <2>2. x \in DOMAIN d.windows /\ InSegments(d.windows[x], day, minute)
    BY <1>2, <1>4 DEF WindowOf
  <2> HIDE DEF wall, day, minute, x
  <2> QED BY <2>1, <2>2
<1>6. TierOf(d, m) = i
  BY StartsIn DEF Valid
<1>7. \A y \in PricesOf(d, i, j) : y = k
  BY DEF Valid, ValidRates, PricesOf
<1>8. (CHOOSE y \in PricesOf(d, i, j) : TRUE) = k
  BY <1>7
<1> QED BY <1>5, <1>6, <1>8 DEF RateAt

\* Every minute has a rate.
LEMMA RateNat ==
  ASSUME NEW d \in CompilableDraft, Valid(d), NEW s \in Stay, NEW m \in Nat
  PROVE  RateAt(d, s, m) \in Nat
<1>1. PICK i \in TierAt(d.tiers, m) : TRUE
  BY TierCovers DEF Valid
<1>2. PICK j \in WindowAt(d.windows, Wall(s, m)) : TRUE
  BY WindowFound DEF Valid
<1>3. i \in DOMAIN d.tiers /\ j \in DOMAIN d.windows
  BY DEF TierAt, WindowAt
<1>4. PICK k \in PricesOf(d, i, j) : TRUE
  BY <1>3 DEF Valid, ValidRates, PricesOf
<1>5. RateAt(d, s, m) = d.rates[k].cents
  BY RateFound
<1>6. k \in DOMAIN d.rates
  BY DEF PricesOf
<1>7. d.rates \in Seq(Rate)
  BY DraftTypes
<1>8. d.rates[k] \in Rate
  BY <1>6, <1>7
<1> QED BY <1>5, <1>8 DEF Rate
-----------------------------------------------------------------------------
(* Division.                                                               *)

\* Products grow with a factor.
LEMMA ProductGrows ==
  ASSUME NEW a \in Int, NEW c \in Int, NEW b \in Nat, a <= c
  PROVE  a * b <= c * b
<1>1. PICK e \in Nat : c = a + e
  <2>1. c - a \in Nat /\ c = a + (c - a)
    OBVIOUS
  <2> QED BY <2>1
<1>2. c * b = a * b + e * b
  BY <1>1
<1>3. e * b \in Nat /\ a * b \in Int
  BY ProductNat
<1> QED BY <1>2, <1>3

\* A quotient is the number whose multiple is at most one divisor below.
LEMMA QuotientUnique ==
  ASSUME NEW x \in Int, NEW b \in Nat \ {0}, NEW q \in Int, q * b <= x, x < q * b + b
  PROVE  x \div b = q /\ x % b = x - q * b
<1> DEFINE p == x \div b
<1>1. p \in Int /\ x = b * p + (x % b) /\ x % b \in 0 .. b - 1
  OBVIOUS
<1>2. b * p = p * b
  BY <1>1
<1> HIDE DEF p
<1>3. p * b \in Int /\ q * b \in Int
  BY <1>1
<1>4. ~ (p >= q + 1)
  <2> SUFFICES ASSUME p >= q + 1 PROVE FALSE
    OBVIOUS
  <2>1. (q + 1) * b <= p * b
    BY <1>1, ProductGrows
  <2>2. (q + 1) * b = q * b + b
    OBVIOUS
  <2> QED BY <2>1, <2>2, <1>1, <1>2, <1>3
<1>5. ~ (q >= p + 1)
  <2> SUFFICES ASSUME q >= p + 1 PROVE FALSE
    OBVIOUS
  <2>1. (p + 1) * b <= q * b
    BY <1>1, ProductGrows
  <2>2. (p + 1) * b = p * b + b
    BY <1>1
  <2> QED BY <2>1, <2>2, <1>1, <1>2, <1>3
<1>6. p = q
  BY <1>1, <1>4, <1>5
<1> QED BY <1>1, <1>2, <1>3, <1>6 DEF p

\* Between two starts of a block there is none, and one block further there is one.
LEMMA BlockSteps ==
  ASSUME NEW a \in Nat, NEW b \in Nat \ {0}, a % b = 0
  PROVE  /\ (a + b) % b = 0
         /\ \A r \in 1 .. b - 1 : (a + r) % b # 0
<1> DEFINE q == a \div b
<1>1. q \in Int /\ a = q * b
  <2>1. q \in Int /\ a = b * q + (a % b)
    OBVIOUS
  <2> QED BY <2>1
<1> HIDE DEF q
<1>2. (q + 1) * b = q * b + b /\ q * b \in Int
  BY <1>1
<1>3. (a + b) % b = 0
  <2>1. (q + 1) * b <= a + b /\ a + b < (q + 1) * b + b
    BY <1>1, <1>2
  <2>2. (a + b) % b = a + b - (q + 1) * b
    BY <2>1, <1>1, QuotientUnique
  <2> QED BY <2>2, <1>1, <1>2
<1>4. ASSUME NEW r \in 1 .. b - 1 PROVE (a + r) % b # 0
  <2>1. q * b <= a + r /\ a + r < q * b + b
    BY <1>1, <1>2
  <2>2. (a + r) % b = a + r - q * b
    BY <2>1, <1>1, QuotientUnique
  <2> QED BY <2>2, <1>1, <1>2
<1> QED BY <1>3, <1>4

\* A minute is in the bucket its quotient names.
LEMMA BucketOf ==
  ASSUME NEW m \in Nat, NEW k \in Nat \ {0}
  PROVE  /\ m \div k \in 0 .. m
         /\ \A b \in Nat : m \in b * k .. (b + 1) * k - 1 <=> m \div k = b
<1> DEFINE p == m \div k
<1>1. p \in Nat /\ m = k * p + (m % k) /\ m % k \in 0 .. k - 1
  OBVIOUS
<1>2. k * p = p * k
  BY <1>1
<1> HIDE DEF p
<1>3. p * 1 <= p * k
  <2>1. 1 * p <= k * p
    BY <1>1, ProductGrows
  <2> QED BY <2>1, <1>1, <1>2
<1>4. p \in 0 .. m
  BY <1>1, <1>2, <1>3
<1>5. ASSUME NEW b \in Nat PROVE m \in b * k .. (b + 1) * k - 1 <=> p = b
  <2>1. (b + 1) * k = b * k + k /\ b * k \in Nat /\ (p + 1) * k = p * k + k
    BY <1>1, ProductNat
  <2>2. ASSUME m \in b * k .. (b + 1) * k - 1 PROVE p = b
    <3>1. b * k <= m /\ m < b * k + k
      BY <2>1, <2>2
    <3> QED BY <3>1, QuotientUnique DEF p
  <2>3. ASSUME p = b PROVE m \in b * k .. (b + 1) * k - 1
    <3>1. p * k <= m /\ m < p * k + k
      BY <1>1, <1>2
    <3> QED BY <2>1, <2>3, <3>1
  <2> QED BY <2>2, <2>3
<1> QED BY <1>4, <1>5 DEF p
-----------------------------------------------------------------------------
(* The loop: what has been charged is what starts before the cursor.       *)

\* The charges are the starts of a stay of n minutes, one each, at their rate.
Booked(n) ==
  /\ \A x \in DOMAIN charges :
       /\ charges[x].at \in Starts(draft, n)
       /\ charges[x].cents = RateAt(draft, stay, charges[x].at)
  /\ \A x, y \in DOMAIN charges : charges[x].at = charges[y].at => x = y
  /\ \A m \in Starts(draft, n) : \E x \in DOMAIN charges : charges[x].at = m

\* Inside the stay the cursor stands at the start of a charge.
Aligned ==
  cursor < billable =>
    \A i \in TierAt(draft.tiers, cursor) : Begins(draft.tiers[i], cursor)

LoopInv ==
  /\ PricingInv
  /\ perk \in Perk /\ take \in Commission
  /\ phase \in {"drafted", "accepted"} => charges = <<>>
  /\ phase = "charging" => /\ Aligned /\ Booked(Least(cursor, billable))
                           /\ billable = Billable(stay, draft)
  /\ phase = "priced" => Valid(draft) /\ billable = Billable(stay, draft)
  /\ BillIsTheSchedule

\* A tier that begins where another ends begins a charge there.
LEMMA NextBegins ==
  ASSUME NEW d \in CompilableDraft, ValidTiers(d.tiers),
         NEW i \in DOMAIN d.tiers, d.tiers[i].to \in Nat,
         NEW k \in TierAt(d.tiers, d.tiers[i].to)
  PROVE  Begins(d.tiers[k], d.tiers[i].to)
<1> DEFINE m == d.tiers[i].to
           tier == d.tiers[k]
<1>1. PICK o \in DOMAIN d.tiers : o \in TierAt(d.tiers, m) /\ d.tiers[o].from = m
  BY NextTier
<1>2. k = o
  BY <1>1, TierUnique
<1>3. tier.unit = "PER_BLOCK" => tier.block \in Nat /\ tier.block > 0
  BY <1>1, <1>2 DEF ValidTiers
<1>4. tier.from = m
  BY <1>1, <1>2
<1> HIDE DEF tier, m
<1>5. m \in Nat
  BY DEF m
<1>6. CASE tier.unit = "PER_BLOCK"
  <2>1. (m - tier.from) % tier.block = 0
    <3>1. m - tier.from = 0
      BY <1>4, <1>5
    <3>2. tier.block \in Nat /\ tier.block > 0
      BY <1>3, <1>6
    <3> QED BY <3>1, <3>2
  <2> QED BY <2>1, <1>6 DEF Begins, tier, m
<1>7. CASE tier.unit # "PER_BLOCK"
  BY <1>4, <1>7 DEF Begins, tier, m
<1> QED BY <1>6, <1>7

\* One iteration covers one start: the one it charges.
LEMMA OneStart ==
  ASSUME PricingInv, Aligned, phase = "charging", cursor < billable,
         NEW i \in TierAt(draft.tiers, cursor)
  PROVE  LET tier == draft.tiers[i]
             next == Advance(tier)
         IN  /\ tier.unit = "PER_MINUTE" => Span(tier) = 1
             /\ Starts(draft, Least(next, billable)) = Starts(draft, cursor) \cup {cursor}
             /\ cursor \notin Starts(draft, cursor)
             /\ next < billable =>
                  \A k \in TierAt(draft.tiers, next) : Begins(draft.tiers[k], next)
<1> DEFINE tier == draft.tiers[i]
           next == Advance(tier)
           end == TierEnd(tier)
           span == Span(tier)
           to == Least(next, billable)
<1>0. draft \in CompilableDraft /\ ValidTiers(draft.tiers) /\ i \in DOMAIN draft.tiers
  BY DEF PricingInv, Valid, TierAt
<1>1. cursor \in Nat /\ billable \in Nat /\ cursor < billable
  BY Clock DEF PricingInv, PricingTypeOK
<1>2. tier \in Tier
  BY <1>0, TierTypes
<1>3. /\ tier.from \in Nat /\ tier.from <= cursor
      /\ tier.to = Null \/ (tier.to \in Nat /\ cursor < tier.to)
  BY <1>2 DEF TierAt, Tier
<1>4. /\ span \in Nat /\ span > 0 /\ end \in Nat /\ cursor + span <= end /\ cursor < end
  BY <1>0, SpanPositive
<1>5. end = IF tier.to = Null THEN billable ELSE tier.to
  BY DEF TierEnd
<1>6. Begins(tier, cursor)
  BY DEF Aligned
<1>7. tier.unit \in Unit
  BY <1>2 DEF Tier
<1>8. tier.unit = "PER_BLOCK" => tier.block \in Nat \ {0} /\ tier.block # Null
  BY <1>0, Clock DEF ValidTiers
<1>9. span = Least(Least(Block(tier), billable - cursor), end - cursor)
  BY DEF Span
<1>10. next = IF tier.unit = "FLAT" THEN end ELSE cursor + span
  BY DEF Advance
<1> HIDE DEF tier, next, end, span
<1>11. ASSUME tier.unit = "PER_MINUTE" PROVE span = 1
  <2>1. Block(tier) = 1
    BY <1>11 DEF Block
  <2> QED BY <2>1, <1>1, <1>4, <1>9 DEF Least
<1>12. ASSUME tier.unit = "PER_BLOCK"
       PROVE  span <= tier.block /\ (span = tier.block \/ span = billable - cursor
                                                       \/ span = end - cursor)
  <2>1. Block(tier) = tier.block
    BY <1>8, <1>12 DEF Block
  <2> QED BY <2>1, <1>1, <1>4, <1>8, <1>9, <1>12 DEF Least
<1>13. next \in Nat /\ cursor < next /\ next <= end
  BY <1>1, <1>4, <1>10
<1>14. to \in Nat /\ to <= billable /\ to <= next /\ cursor < to
  BY <1>1, <1>13 DEF Least
<1> HIDE DEF to
\* Every minute up to the next cursor is the tier's.
<1>15. ASSUME NEW m \in Nat, cursor <= m, m < next, m < billable
       PROVE  i \in TierAt(draft.tiers, m)
  <2>1. tier.from <= m /\ (tier.to = Null \/ m < tier.to)
    BY <1>1, <1>3, <1>5, <1>13, <1>15
  <2> QED BY <2>1, <1>0 DEF TierAt, tier
<1>16. ASSUME NEW m \in Nat, cursor < m, m < to
       PROVE  ~ Begins(tier, m)
  <2>1. CASE tier.unit = "FLAT"
    BY <2>1, <1>1, <1>3, <1>6, <1>16 DEF Begins
  <2>2. CASE tier.unit = "PER_MINUTE"
    <3>1. next = cursor + 1
      BY <2>2, <1>10, <1>11
    <3> QED BY <3>1, <1>1, <1>13, <1>14, <1>16
  <2>3. CASE tier.unit = "PER_BLOCK"
    <3> DEFINE a == cursor - tier.from
               r == m - cursor
    <3>1. a \in Nat /\ a % tier.block = 0
      BY <2>3, <1>1, <1>3, <1>6 DEF Begins
    <3>2. next = cursor + span
      BY <2>3, <1>10
    <3>3. r \in 1 .. tier.block - 1
      BY <3>2, <2>3, <1>1, <1>4, <1>8, <1>12, <1>14, <1>16
    <3>4. m - tier.from = a + r
      BY <1>1, <1>3
    <3> HIDE DEF a, r
    <3>5. (a + r) % tier.block # 0
      BY <2>3, <3>1, <3>3, <1>8, BlockSteps
    <3> QED BY <2>3, <3>4, <3>5 DEF Begins
  <2> QED BY <2>1, <2>2, <2>3, <1>7 DEF Unit
<1>17. Starts(draft, to) = Starts(draft, cursor) \cup {cursor}
  <2>1. ASSUME NEW m \in Nat PROVE m \in Starts(draft, to)
                                     <=> m \in Starts(draft, cursor) \/ m = cursor
    <3>1. PICK k \in TierAt(draft.tiers, m) : TRUE
      BY <1>0, TierCovers
    <3>2. m \in Starts(draft, to) <=> m < to /\ Begins(draft.tiers[k], m)
      BY <1>0, <1>14, StartsIn
    <3>3. m \in Starts(draft, cursor) <=> m < cursor /\ Begins(draft.tiers[k], m)
      BY <1>0, <1>1, StartsIn
    <3>4. CASE m < cursor
      BY <3>2, <3>3, <3>4, <1>1, <1>14
    <3>5. CASE m >= cursor /\ m < to
      <4>1. k = i
        <5>1. i \in TierAt(draft.tiers, m)
          BY <3>5, <1>1, <1>13, <1>14, <1>15
        <5> QED BY <5>1, <1>0, TierUnique
      <4>2. m = cursor \/ ~ Begins(tier, m)
        BY <3>5, <1>1, <1>16
      <4> QED BY <3>2, <3>3, <3>5, <4>1, <4>2, <1>1, <1>6 DEF tier
    <3>6. CASE m >= to
      BY <3>2, <3>3, <3>6, <1>1, <1>14
    <3> QED BY <3>4, <3>5, <3>6, <1>1, <1>14
  <2>2. Starts(draft, to) \subseteq Nat /\ Starts(draft, cursor) \subseteq Nat
    BY <1>1, <1>14 DEF Starts
  <2> QED BY <2>1, <2>2, <1>1
<1>18. cursor \notin Starts(draft, cursor)
  BY <1>1 DEF Starts
<1>19. ASSUME next < billable, NEW k \in TierAt(draft.tiers, next)
       PROVE  Begins(draft.tiers[k], next)
  <2>1. CASE next = end
    <3>1. tier.to \in Nat /\ next = tier.to
      BY <2>1, <1>1, <1>3, <1>5, <1>19
    <3> QED BY <3>1, <1>0, <1>19, NextBegins DEF tier
  <2>2. CASE next # end
    <3>1. next < end
      BY <2>2, <1>4, <1>13
    <3>2. i \in TierAt(draft.tiers, next)
      <4>1. tier.from <= next /\ (tier.to = Null \/ next < tier.to)
        BY <3>1, <1>1, <1>3, <1>5, <1>13
      <4> QED BY <4>1, <1>0 DEF TierAt, tier
    <3>3. k = i
      BY <3>2, <1>0, <1>13, <1>19, TierUnique
    <3>4. tier.unit # "FLAT" /\ next = cursor + span
      BY <2>2, <1>10
    <3>5. CASE tier.unit = "PER_MINUTE"
      BY <3>3, <3>5 DEF Begins, tier
    <3>6. CASE tier.unit = "PER_BLOCK"
      <4>1. span = tier.block
        BY <3>1, <3>4, <3>6, <1>1, <1>4, <1>12, <1>19
      <4> DEFINE a == cursor - tier.from
      <4>2. a \in Nat /\ a % tier.block = 0
        BY <3>6, <1>1, <1>3, <1>6 DEF Begins
      <4>3. next - tier.from = a + tier.block
        BY <3>4, <4>1, <1>1, <1>3, <1>4
      <4> HIDE DEF a
      <4>4. (a + tier.block) % tier.block = 0
        BY <3>6, <4>2, <1>8, BlockSteps
      <4>5. Begins(tier, next)
        BY <3>6, <4>3, <4>4 DEF Begins
      <4> QED BY <3>3, <4>5 DEF tier
    <3> QED BY <3>4, <3>5, <3>6, <1>7 DEF Unit
  <2> QED BY <2>1, <2>2
<1> QED BY <1>11, <1>17, <1>18, <1>19 DEF tier, next, span, to
-----------------------------------------------------------------------------
(* The sums of a bill.                                                     *)

\* A sum of naturals is one.
LEMMA SumNat ==
  ASSUME NEW S, IsFiniteSet(S), NEW f, \A x \in S : f[x] \in Nat
  PROVE  Sum(f, S) \in Nat
<1>1. Sum(f, {}) <= Sum(f, S)
  BY SumMonotone
<1>2. Sum(f, {}) = 0
  BY SumEmpty
<1>3. Sum(f, S) \in Int
  BY SumInt
<1> QED BY <1>1, <1>2, <1>3

\* What the model calls a sum is the sum of the terms.
LEMMA OwedSum ==
  ASSUME NEW d, NEW s, NEW S
  PROVE  Owed(d, s, S) = Sum([m \in S |-> RateAt(d, s, m)], S)
  BY DEF Owed, SumFunction, Sum

LEMMA CentsSum ==
  ASSUME NEW S
  PROVE  CentsOf(S) = Sum([x \in S |-> charges[x].cents], S)
  BY DEF CentsOf, SumFunction, Sum

\* What is owed is a natural, and more minutes owe no less.
LEMMA OwedNat ==
  ASSUME NEW d \in CompilableDraft, Valid(d), NEW s \in Stay,
         NEW S \in SUBSET Nat, IsFiniteSet(S)
  PROVE  Owed(d, s, S) \in Nat
<1> DEFINE f == [m \in S |-> RateAt(d, s, m)]
<1>1. \A m \in S : f[m] \in Nat
  BY RateNat
<1> HIDE DEF f
<1>2. Sum(f, S) \in Nat
  BY <1>1, SumNat
<1> QED BY <1>2, OwedSum DEF f

LEMMA OwedGrows ==
  ASSUME NEW d \in CompilableDraft, Valid(d), NEW s \in Stay,
         NEW S \in SUBSET Nat, IsFiniteSet(S), NEW T \in SUBSET S
  PROVE  Owed(d, s, T) <= Owed(d, s, S)
<1> DEFINE f == [m \in S |-> RateAt(d, s, m)]
           e == [m \in T |-> RateAt(d, s, m)]
<1>1. \A m \in S : f[m] \in Nat
  BY RateNat
<1>2. \A m \in T : e[m] \in Int /\ e[m] <= f[m]
  BY <1>1
<1> HIDE DEF f, e
<1>3. Sum(e, T) <= Sum(f, S)
  BY <1>1, <1>2, SumMonotone
<1> QED BY <1>3, OwedSum DEF f, e

\* A stay has finitely many starts, and a longer one has them too.
LEMMA StartsFinite ==
  ASSUME NEW d, NEW n \in Nat
  PROVE  /\ Starts(d, n) \in SUBSET Nat /\ Starts(d, n) \subseteq 0 .. n - 1
         /\ IsFiniteSet(Starts(d, n))
<1>1. Starts(d, n) \subseteq 0 .. n - 1
  BY DEF Starts
<1>2. IsFiniteSet(0 .. n - 1)
  BY FS_Interval
<1>3. IsFiniteSet(Starts(d, n))
  BY <1>1, <1>2, FS_Subset
<1> QED BY <1>1, <1>3

LEMMA StartsGrow ==
  ASSUME NEW d, NEW n \in Nat, NEW o \in Nat, n <= o
  PROVE  Starts(d, n) \subseteq Starts(d, o)
<1>1. 0 .. n - 1 \subseteq 0 .. o - 1
  OBVIOUS
<1> QED BY <1>1 DEF Starts

\* What a bucket of a rolling cap leaves.
LEMMA BucketTerm ==
  ASSUME NEW d \in CompilableDraft, Valid(d), NEW s \in Stay,
         NEW cents \in Nat, NEW n \in Nat, NEW o \in Nat, n <= o, NEW I
  PROVE  /\ Least(Owed(d, s, Starts(d, n) \cap I), cents) \in Nat
         /\ Least(Owed(d, s, Starts(d, n) \cap I), cents)
              <= Least(Owed(d, s, Starts(d, o) \cap I), cents)
<1> DEFINE A == Starts(d, n) \cap I
           B == Starts(d, o) \cap I
<1>1. /\ A \in SUBSET Nat /\ IsFiniteSet(A) /\ B \in SUBSET Nat /\ IsFiniteSet(B)
      /\ A \subseteq B
  BY StartsFinite, StartsGrow, FS_Subset
<1> HIDE DEF A, B
<1>2. Owed(d, s, A) \in Nat /\ Owed(d, s, B) \in Nat /\ Owed(d, s, A) <= Owed(d, s, B)
  BY <1>1, OwedNat, OwedGrows
<1>3. /\ Least(Owed(d, s, A), cents) \in Nat
      /\ Least(Owed(d, s, A), cents) <= Least(Owed(d, s, B), cents)
  BY <1>2 DEF Least
<1> QED BY <1>3 DEF A, B

\* A longer stay costs no less under a cap.
LEMMA CapGrows ==
  ASSUME NEW d \in CompilableDraft, Valid(d), NEW s \in Stay, NEW cap \in Cap,
         NEW n \in Nat, NEW o \in Nat, n <= o
  PROVE  /\ OwedUnder(d, s, cap, n) \in Nat
         /\ OwedUnder(d, s, cap, n) <= OwedUnder(d, s, cap, o)
<1>1. cap.cents \in Nat /\ cap.minutes \in Nat \ {0}
  BY DEF Cap
<1>2. CASE cap.scope = "STAY"
  <2>1. /\ Owed(d, s, Starts(d, n)) \in Nat /\ Owed(d, s, Starts(d, o)) \in Nat
        /\ Owed(d, s, Starts(d, n)) <= Owed(d, s, Starts(d, o))
    BY StartsFinite, StartsGrow, OwedNat, OwedGrows
  <2> QED BY <1>1, <1>2, <2>1 DEF OwedUnder, Least
<1>3. CASE cap.scope # "STAY"
  <2> DEFINE I(b) == b * cap.minutes .. (b + 1) * cap.minutes - 1
             f == [b \in 0 .. n |-> Least(Owed(d, s, Starts(d, n) \cap I(b)), cap.cents)]
             e == [b \in 0 .. o |-> Least(Owed(d, s, Starts(d, o) \cap I(b)), cap.cents)]
  <2>1. \A b \in 0 .. n : f[b] \in Nat
    <3> TAKE b \in 0 .. n
    <3> HIDE DEF I
    <3> QED BY <1>1, BucketTerm
  <2>2. \A b \in 0 .. o : e[b] \in Nat
    <3> TAKE b \in 0 .. o
    <3>1. o <= o
      OBVIOUS
    <3> HIDE DEF I
    <3> QED BY <1>1, <3>1, BucketTerm
  <2>3. 0 .. n \subseteq 0 .. o
    OBVIOUS
  <2>4. \A b \in 0 .. n : f[b] <= e[b]
    <3> TAKE b \in 0 .. n
    <3>1. b \in 0 .. o
      BY <2>3
    <3> HIDE DEF I
    <3> QED BY <1>1, <3>1, BucketTerm
  <2>5. IsFiniteSet(0 .. n) /\ IsFiniteSet(0 .. o)
    BY FS_Interval
  <2>6. OwedUnder(d, s, cap, n) = Sum(f, 0 .. n) /\ OwedUnder(d, s, cap, o) = Sum(e, 0 .. o)
    BY <1>3 DEF OwedUnder, SumFunction, Sum
  <2> HIDE DEF f, e
  <2>7. Sum(f, 0 .. n) \in Nat
    BY <2>1, <2>5, SumNat
  <2>8. Sum(f, 0 .. n) <= Sum(e, 0 .. o)
    <3>1. \A b \in 0 .. n : f[b] \in Int /\ f[b] <= e[b]
      BY <2>1, <2>4
    <3> QED BY <2>2, <2>3, <2>5, <3>1, SumMonotone
  <2> QED BY <2>6, <2>7, <2>8
<1> QED BY <1>2, <1>3

\* The smallest of a set of naturals.
LEMMA MinOf ==
  ASSUME NEW S \in SUBSET Nat, S # {}
  PROVE  Min(S) \in S /\ \A x \in S : Min(S) <= x
  BY LeastElement DEF Min

LEMMA CapTypes ==
  ASSUME NEW d \in CompilableDraft, NEW c \in DOMAIN d.caps
  PROVE  d.caps[c] \in Cap
  BY DraftTypes

\* Neither do all the caps together make a longer stay cheaper.
LEMMA BeforePerkGrows ==
  ASSUME NEW d \in CompilableDraft, Valid(d), NEW s \in Stay,
         NEW n \in Nat, NEW o \in Nat, n <= o
  PROVE  BeforePerk(d, s, n) \in Nat /\ BeforePerk(d, s, n) <= BeforePerk(d, s, o)
<1> DEFINE A(x) == {Owed(d, s, Starts(d, x))}
                     \cup {OwedUnder(d, s, d.caps[c], x) : c \in DOMAIN d.caps}
<1>1. ASSUME NEW x \in Nat PROVE A(x) \in SUBSET Nat /\ A(x) # {}
  <2>1. Owed(d, s, Starts(d, x)) \in Nat
    BY StartsFinite, OwedNat
  <2>2. x <= x
    OBVIOUS
  <2>3. \A c \in DOMAIN d.caps : OwedUnder(d, s, d.caps[c], x) \in Nat
    BY <2>2, CapTypes, CapGrows
  <2> QED BY <2>1, <2>3
<1>2. \A y \in A(o) : \E x \in A(n) : x <= y
  <2>1. Owed(d, s, Starts(d, n)) <= Owed(d, s, Starts(d, o))
    BY StartsFinite, StartsGrow, OwedGrows
  <2>2. \A c \in DOMAIN d.caps :
          OwedUnder(d, s, d.caps[c], n) <= OwedUnder(d, s, d.caps[c], o)
    BY CapTypes, CapGrows
  <2> QED BY <2>1, <2>2
<1>3. BeforePerk(d, s, n) = Min(A(n)) /\ BeforePerk(d, s, o) = Min(A(o))
  BY DEF BeforePerk
<1>4. A(n) \in SUBSET Nat /\ A(n) # {} /\ A(o) \in SUBSET Nat /\ A(o) # {}
  BY <1>1
<1> HIDE DEF A
<1>5. Min(A(n)) \in A(n) /\ Min(A(o)) \in A(o) /\ \A x \in A(n) : Min(A(n)) <= x
  BY <1>4, MinOf
<1>6. PICK x \in A(n) : x <= Min(A(o))
  BY <1>2, <1>5
<1>7. Min(A(n)) \in Nat /\ Min(A(o)) \in Nat /\ x \in Nat /\ Min(A(n)) <= x
  BY <1>4, <1>5
<1>8. Min(A(n)) <= Min(A(o))
  BY <1>6, <1>7
<1> QED BY <1>3, <1>7, <1>8

\* A quotient is bounded, and grows with what is divided.
LEMMA QuotientBound ==
  ASSUME NEW x \in Int, NEW b \in Nat \ {0}, NEW q \in Int, x < q * b + b
  PROVE  x \div b <= q
<1> DEFINE p == x \div b
<1>1. p \in Int /\ x = b * p + (x % b) /\ x % b \in 0 .. b - 1
  OBVIOUS
<1>2. b * p = p * b
  BY <1>1
<1> HIDE DEF p
<1>3. p * b \in Int /\ q * b \in Int
  BY <1>1
<1>4. ~ (p >= q + 1)
  <2> SUFFICES ASSUME p >= q + 1 PROVE FALSE
    OBVIOUS
  <2>1. (q + 1) * b <= p * b
    BY <1>1, ProductGrows
  <2>2. (q + 1) * b = q * b + b
    OBVIOUS
  <2> QED BY <2>1, <2>2, <1>1, <1>2, <1>3
<1> QED BY <1>1, <1>4 DEF p

LEMMA QuotientGrows ==
  ASSUME NEW x \in Int, NEW y \in Int, NEW b \in Nat \ {0}, NEW k \in Nat, x <= y + k * b
  PROVE  x \div b <= y \div b + k
<1> DEFINE p == y \div b
<1>1. p \in Int /\ y = b * p + (y % b) /\ y % b \in 0 .. b - 1
  OBVIOUS
<1>2. (p + k) * b = b * p + k * b /\ b * p \in Int /\ k * b \in Int
  BY <1>1
<1> HIDE DEF p
<1>3. x < (p + k) * b + b
  BY <1>1, <1>2
<1>4. p + k \in Int
  BY <1>1
<1>5. x \div b <= p + k
  BY <1>3, <1>4, QuotientBound
<1> QED BY <1>5 DEF p

\* A share is no more than the whole, and what is left of more is no less.
LEMMA ShareBounds ==
  ASSUME NEW a \in Nat, NEW bps \in 0 .. Whole
  PROVE  ShareOf(a, bps) \in 0 .. a
<1>1. Whole \in Nat \ {0}
  BY Clock
<1> DEFINE x == 2 * a * bps + Whole
           b == 2 * Whole
<1>2. a * bps \in Nat /\ a * bps <= a * Whole /\ a * Whole \in Nat
  <2>1. bps * a <= Whole * a
    BY <1>1, ProductGrows
  <2> QED BY <2>1, <1>1, ProductNat
<1>3. x = 2 * (a * bps) + Whole /\ a * b = 2 * (a * Whole) /\ b \in Nat \ {0}
  BY <1>1
<1>4. x \in Nat /\ x < a * b + b
  BY <1>1, <1>2, <1>3
<1> HIDE DEF x, b
<1>5. x \div b <= a
  BY <1>3, <1>4, QuotientBound
<1>6. x \div b \in Nat
  BY <1>3, <1>4
<1> QED BY <1>5, <1>6 DEF ShareOf, x, b

LEMMA ShareGrows ==
  ASSUME NEW a \in Nat, NEW c \in Nat, a <= c, NEW bps \in 0 .. Whole
  PROVE  ShareOf(c, bps) <= ShareOf(a, bps) + (c - a)
<1>1. Whole \in Nat \ {0}
  BY Clock
<1> DEFINE x == 2 * a * bps + Whole
           y == 2 * c * bps + Whole
           b == 2 * Whole
           k == c - a
<1>2. k \in Nat /\ c = a + k
  OBVIOUS
<1>3. c * bps = a * bps + k * bps /\ k * bps <= k * Whole
  <2>1. bps * k <= Whole * k
    BY <1>1, <1>2, ProductGrows
  <2>2. c * bps = a * bps + k * bps
    BY <1>2
  <2>3. bps * k = k * bps /\ Whole * k = k * Whole
    BY <1>1, <1>2
  <2> QED BY <2>1, <2>2, <2>3
<1>4. a * bps \in Nat /\ k * bps \in Nat /\ k * Whole \in Nat /\ c * bps \in Nat
  BY <1>1, <1>2, ProductNat
<1>5. /\ x = 2 * (a * bps) + Whole /\ y = 2 * (c * bps) + Whole
      /\ k * b = 2 * (k * Whole) /\ b \in Nat \ {0}
  BY <1>1, <1>2
<1>6. x \in Int /\ y \in Int /\ y <= x + k * b
  BY <1>1, <1>3, <1>4, <1>5
<1> HIDE DEF x, y, b, k
<1>7. y \div b <= x \div b + k
  BY <1>2, <1>5, <1>6, QuotientGrows
<1> QED BY <1>7 DEF ShareOf, x, y, b, k

\* What a discount leaves.
LEMMA DiscountGrows ==
  ASSUME NEW a \in Nat, NEW c \in Nat, a <= c, NEW bps \in Perk
  PROVE  /\ DiscountOn(a, bps) \in 0 .. a
         /\ a - DiscountOn(a, bps) <= c - DiscountOn(c, bps)
<1>1. bps \in (0 .. Whole) \cup {Null}
  BY StayAssumption
<1>2. CASE bps = Null \/ bps = 0
  BY <1>2 DEF DiscountOn
<1>3. CASE bps # Null /\ bps # 0
  <2>1. bps \in 0 .. Whole
    BY <1>1, <1>3
  <2>2. ShareOf(a, bps) \in 0 .. a /\ ShareOf(c, bps) \in 0 .. c
    BY <2>1, ShareBounds
  <2>3. ShareOf(c, bps) <= ShareOf(a, bps) + (c - a)
    BY <2>1, ShareGrows
  <2>4. ASSUME NEW x \in {a, c}
        PROVE  DiscountOn(x, bps) = IF x = 0 THEN 0 ELSE ShareOf(x, bps)
    BY <1>3, <2>2 DEF DiscountOn, Least
  <2>5. a \in {a, c} /\ c \in {a, c}
    OBVIOUS
  <2>6. /\ DiscountOn(a, bps) = IF a = 0 THEN 0 ELSE ShareOf(a, bps)
        /\ DiscountOn(c, bps) = IF c = 0 THEN 0 ELSE ShareOf(c, bps)
    BY <2>4, <2>5
  <2> QED BY <2>2, <2>3, <2>6
<1> QED BY <1>2, <1>3

\* More minutes, no less due.
LEMMA DueGrows ==
  ASSUME NEW d \in CompilableDraft, Valid(d), NEW s \in Stay, NEW bps \in Perk,
         NEW n \in Nat, NEW o \in Nat, n <= o
  PROVE  Due(d, s, bps, n) \in Nat /\ Due(d, s, bps, n) <= Due(d, s, bps, o)
<1>1. /\ BeforePerk(d, s, n) \in Nat /\ BeforePerk(d, s, o) \in Nat
      /\ BeforePerk(d, s, n) <= BeforePerk(d, s, o)
  <2>1. o <= o
    OBVIOUS
  <2> QED BY <2>1, BeforePerkGrows
<1>2. /\ DiscountOn(BeforePerk(d, s, n), bps) \in 0 .. BeforePerk(d, s, n)
      /\ BeforePerk(d, s, n) - DiscountOn(BeforePerk(d, s, n), bps)
           <= BeforePerk(d, s, o) - DiscountOn(BeforePerk(d, s, o), bps)
  BY <1>1, DiscountGrows
<1> QED BY <1>1, <1>2 DEF Due

\* Rounding up keeps the order.
LEMMA CeilGrows ==
  ASSUME NEW x \in Nat, NEW y \in Nat, x <= y, NEW b \in Nat \ {0}
  PROVE  CeilDiv(x, b) <= CeilDiv(y, b)
<1> DEFINE u == x + b - 1
           v == y + b - 1
<1>1. u \in Int /\ v \in Int /\ u <= v + 0 * b
  OBVIOUS
<1> HIDE DEF u, v
<1>2. u \div b <= v \div b + 0
  BY <1>1, QuotientGrows
<1>3. v \div b \in Int
  BY <1>1
<1>4. u \div b <= v \div b
  BY <1>2, <1>3
<1> QED BY <1>4 DEF CeilDiv, u, v

\* Neither the grace nor the rounding up bills a shorter stay longer.
LEMMA BillableGrows ==
  ASSUME NEW d \in CompilableDraft, NEW s \in Stay, NEW t \in 0 .. s.ticks
  PROVE  LET shorter == [s EXCEPT !.ticks = t]
         IN  Billable(shorter, d) \in Nat /\ Billable(shorter, d) <= Billable(s, d)
<1> DEFINE raw(x) == CeilDiv(x, Tick)
           net(x) == IF raw(x) > d.grace THEN raw(x) - d.grace ELSE 0
           up(x) == CeilToIncrement(net(x), d.increment)
           shorter == [s EXCEPT !.ticks = t]
<1>1. s \in [start : Nat, ticks : Nat, turn : Nat, shift : Int]
  BY StayAssumption
<1>2. shorter.ticks = t /\ t \in Nat /\ s.ticks \in Nat /\ t <= s.ticks
  BY <1>1
<1>3. d.grace \in Nat /\ d.increment \in Nat \ {0} /\ Tick \in Nat \ {0}
  BY DraftTypes, Clock
<1>4. raw(t) \in Nat /\ raw(s.ticks) \in Nat /\ raw(t) <= raw(s.ticks)
  BY <1>2, <1>3, CeilNat, CeilGrows
<1>5. net(t) \in Nat /\ net(s.ticks) \in Nat /\ net(t) <= net(s.ticks)
  <2> HIDE DEF raw
  <2> QED BY <1>3, <1>4
<1>6. up(t) \in Nat /\ up(s.ticks) \in Nat /\ up(t) <= up(s.ticks)
  <2> DEFINE a == CeilDiv(net(t), d.increment)
             b == CeilDiv(net(s.ticks), d.increment)
  <2> HIDE DEF net
  <2>1. a \in Nat /\ b \in Nat /\ a <= b
    BY <1>3, <1>5, CeilNat, CeilGrows
  <2> HIDE DEF a, b
  <2>2. a * d.increment <= b * d.increment
    BY <2>1, <1>3, ProductGrows
  <2>3. a * d.increment \in Nat /\ b * d.increment \in Nat
    BY <2>1, <1>3, ProductNat
  <2> QED BY <2>2, <2>3, <1>5 DEF CeilToIncrement, a, b
<1>7. Billable(shorter, d) = up(t) /\ Billable(s, d) = up(s.ticks)
  BY <1>2 DEF Billable
<1> HIDE DEF up
<1> QED BY <1>6, <1>7
-----------------------------------------------------------------------------
(* The bill is the schedule.                                               *)

ChargeRecord == [at : Nat, minutes : Nat, tier : Nat, window : Nat, cents : Nat]

\* The charges are finitely many, of naturals.
LEMMA ChargesFinite ==
  ASSUME charges \in Seq(ChargeRecord)
  PROVE  /\ IsFiniteSet(DOMAIN charges)
         /\ \A x \in DOMAIN charges : charges[x].at \in Nat /\ charges[x].cents \in Nat
<1>1. Len(charges) \in Nat /\ DOMAIN charges = 1 .. Len(charges)
  OBVIOUS
<1>2. IsFiniteSet(DOMAIN charges)
  BY <1>1, FS_Interval
<1>3. \A x \in DOMAIN charges : charges[x] \in ChargeRecord
  OBVIOUS
<1> QED BY <1>2, <1>3 DEF ChargeRecord

\* Charges and the starts they stand at add up to the same.
LEMMA BookedSum ==
  ASSUME charges \in Seq(ChargeRecord), NEW n \in Nat, Booked(n),
         NEW S \in SUBSET DOMAIN charges, NEW T \in SUBSET Starts(draft, n),
         \A x \in DOMAIN charges : x \in S <=> charges[x].at \in T
  PROVE  CentsOf(S) = Owed(draft, stay, T)
<1> DEFINE f == [x \in S |-> charges[x].cents]
           e == [m \in T |-> RateAt(draft, stay, m)]
           b == [x \in S |-> charges[x].at]
<1>1. IsFiniteSet(S)
  BY ChargesFinite, FS_Subset
<1>2. b \in [S -> T]
  OBVIOUS
<1>3. \A x \in S : f[x] \in Int /\ e[b[x]] = f[x]
  <2> TAKE x \in S
  <2>1. charges[x].cents \in Nat
    BY ChargesFinite
  <2>2. charges[x].at \in T /\ charges[x].cents = RateAt(draft, stay, charges[x].at)
    BY DEF Booked
  <2> QED BY <2>1, <2>2
<1>4. \A x, y \in S : b[x] = b[y] => x = y
  BY DEF Booked
<1>5. \A m \in T : \E x \in S : b[x] = m
  <2> TAKE m \in T
  <2>1. PICK x \in DOMAIN charges : charges[x].at = m
    BY DEF Booked
  <2>2. x \in S
    BY <2>1
  <2> QED BY <2>1, <2>2
<1> HIDE DEF f, e, b
<1>6. Sum(f, S) = Sum(e, T)
  BY <1>1, <1>2, <1>3, <1>4, <1>5, SumReindex
<1> QED BY <1>6, CentsSum, OwedSum DEF f, e

\* So do the charges of each bucket of a cap.
LEMMA BookedCap ==
  ASSUME charges \in Seq(ChargeRecord), NEW n \in Nat, Booked(n),
         draft \in CompilableDraft, Valid(draft), stay \in Stay, NEW cap \in Cap
  PROVE  CappedBy(cap) = OwedUnder(draft, stay, cap, n)
<1>1. cap.cents \in Nat /\ cap.minutes \in Nat \ {0}
  BY DEF Cap
<1>2. CASE cap.scope = "STAY"
  <2>1. \A x \in DOMAIN charges : charges[x].at \in Starts(draft, n)
    BY DEF Booked
  <2>2. CentsOf(DOMAIN charges) = Owed(draft, stay, Starts(draft, n))
    BY <2>1, BookedSum
  <2> QED BY <1>2, <2>2 DEF CappedBy, OwedUnder
<1>3. CASE cap.scope # "STAY"
  <2> DEFINE I(b) == b * cap.minutes .. (b + 1) * cap.minutes - 1
             In(b) == {x \in DOMAIN charges : Bucket(x, cap) = b}
             D == {Bucket(x, cap) : x \in DOMAIN charges}
             N == 0 .. n
             f == [b \in D |-> Least(CentsOf(In(b)), cap.cents)]
             e == [b \in N |-> Least(Owed(draft, stay, Starts(draft, n) \cap I(b)), cap.cents)]
  <2>1. ASSUME NEW x \in DOMAIN charges
        PROVE  /\ Bucket(x, cap) \in N
               /\ \A b \in N : charges[x].at \in I(b) <=> Bucket(x, cap) = b
    <3> DEFINE m == charges[x].at
    <3>1. m \in Starts(draft, n) /\ m \in Nat
      BY ChargesFinite DEF Booked
    <3>2. m < n
      BY <3>1 DEF Starts
    <3> HIDE DEF m
    <3>3. /\ m \div cap.minutes \in 0 .. m
          /\ \A b \in Nat : m \in b * cap.minutes .. (b + 1) * cap.minutes - 1
                               <=> m \div cap.minutes = b
      BY <1>1, <3>1, BucketOf
    <3>4. m \div cap.minutes \in N
      BY <3>1, <3>2, <3>3
    <3>5. \A b \in N : b \in Nat
      OBVIOUS
    <3> QED BY <3>3, <3>4, <3>5 DEF Bucket, m
  <2>2. ASSUME NEW b \in N
        PROVE  CentsOf(In(b)) = Owed(draft, stay, Starts(draft, n) \cap I(b))
    <3>1. \A x \in DOMAIN charges : x \in In(b) <=> charges[x].at \in Starts(draft, n) \cap I(b)
      BY <2>1 DEF Booked
    <3>2. In(b) \in SUBSET DOMAIN charges
      OBVIOUS
    <3> HIDE DEF In, I
    <3> QED BY <3>1, <3>2, BookedSum
  <2>3. D \subseteq N
    BY <2>1
  <2>4. \A b \in D : f[b] = e[b]
    BY <2>2, <2>3
  <2>5. \A b \in N : e[b] \in Nat
    <3> TAKE b \in N
    <3>1. n <= n
      OBVIOUS
    <3> HIDE DEF I
    <3> QED BY <1>1, <3>1, BucketTerm
  <2>6. \A b \in N \ D : e[b] = 0
    <3> TAKE b \in N \ D
    <3>1. In(b) = {}
      OBVIOUS
    <3>2. CentsOf({}) = 0
      BY CentsSum, SumEmpty
    <3>3. Owed(draft, stay, Starts(draft, n) \cap I(b)) = 0
      BY <2>2, <3>1, <3>2
    <3>4. e[b] = Least(0, cap.cents)
      BY <3>3
    <3> QED BY <3>4, <1>1 DEF Least
  <2>7. IsFiniteSet(N)
    BY FS_Interval
  <2>8. CappedBy(cap) = Sum(f, D) /\ OwedUnder(draft, stay, cap, n) = Sum(e, N)
    BY <1>3 DEF CappedBy, OwedUnder, SumFunction, Sum
  <2> HIDE DEF f, e, D, N
  <2>9. Sum(e, N) = Sum(e, D)
    <3>1. \A b \in N : e[b] \in Int
      BY <2>5
    <3> QED BY <2>3, <2>6, <2>7, <3>1, SumNarrow
  <2>10. Sum(f, D) = Sum(e, D)
    <3>1. IsFiniteSet(D)
      BY <2>3, <2>7, FS_Subset
    <3> QED BY <2>4, <3>1, SumSame
  <2> QED BY <2>8, <2>9, <2>10
<1> QED BY <1>2, <1>3

\* The amount before the discount.
LEMMA BookedCapped ==
  ASSUME charges \in Seq(ChargeRecord), NEW n \in Nat, Booked(n),
         draft \in CompilableDraft, Valid(draft), stay \in Stay
  PROVE  Capped = BeforePerk(draft, stay, n)
<1>1. \A x \in DOMAIN charges : charges[x].at \in Starts(draft, n)
  BY DEF Booked
<1>2. CentsOf(DOMAIN charges) = Owed(draft, stay, Starts(draft, n))
  BY <1>1, BookedSum
<1>3. \A c \in DOMAIN draft.caps :
        CappedBy(draft.caps[c]) = OwedUnder(draft, stay, draft.caps[c], n)
  BY BookedCap, CapTypes
<1> DEFINE A == {CappedBy(draft.caps[c]) : c \in DOMAIN draft.caps}
           B == {OwedUnder(draft, stay, draft.caps[c], n) : c \in DOMAIN draft.caps}
<1>4. A = B
  BY <1>3
<1>5. Capped = Min({CentsOf(DOMAIN charges)} \cup A)
  BY DEF Capped
<1>6. BeforePerk(draft, stay, n) = Min({Owed(draft, stay, Starts(draft, n))} \cup B)
  BY DEF BeforePerk
<1> QED BY <1>2, <1>4, <1>5, <1>6

\* The lines add up to the raw amount.
LEMMA LinesAdd ==
  ASSUME charges \in Seq(ChargeRecord)
  PROVE  SumFunction(Lines) = CentsOf(DOMAIN charges) /\ CentsOf(DOMAIN charges) \in Int
<1> DEFINE S == DOMAIN charges
           Cell(x) == <<charges[x].tier, charges[x].window>>
           C == {Cell(x) : x \in S}
           f == [x \in S |-> charges[x].cents]
           h == [x \in S |-> Cell(x)]
           e == [c \in C |-> Sum(f, {x \in S : h[x] = c})]
<1>1. IsFiniteSet(S) /\ \A x \in S : f[x] \in Int
  BY ChargesFinite
<1>2. h \in [S -> C]
  OBVIOUS
<1>3. IsFiniteSet(C)
  <2>1. h \in Surjection(S, C)
    BY DEF Surjection
  <2> HIDE DEF S, C, h
  <2> QED BY <1>1, <2>1, FS_Surjection
<1>4. Sum(f, S) = Sum(e, C)
  <2> HIDE DEF S, C, f, h
  <2> QED BY <1>1, <1>2, <1>3, SumByClass
<1>5. ASSUME NEW c \in C PROVE e[c] = Lines[c]
  <2> DEFINE K == {x \in S : h[x] = c}
             g == [x \in K |-> charges[x].cents]
  <2>1. e[c] = Sum(f, K)
    OBVIOUS
  <2>2. K = {x \in S : Cell(x) = c}
    OBVIOUS
  <2>3. IsFiniteSet(K)
    BY <1>1, FS_Subset
  <2>4. \A x \in K : f[x] = g[x]
    OBVIOUS
  <2>5. Sum(f, K) = Sum(g, K)
    <3> HIDE DEF K, f, g
    <3> QED BY <2>3, <2>4, SumSame
  <2>6. CentsOf(K) = Sum(g, K)
    BY CentsSum
  <2>7. Lines[c] = CentsOf(K)
    BY <2>2 DEF Lines
  <2> QED BY <2>1, <2>5, <2>6, <2>7
<1>6. DOMAIN Lines = C
  BY DEF Lines
<1>7. Sum(e, C) = Sum(Lines, C)
  <2> HIDE DEF C, e
  <2> QED BY <1>3, <1>5, SumSame
<1>8. SumFunction(Lines) = Sum(Lines, C)
  BY <1>6 DEF SumFunction, Sum
<1>9. CentsOf(DOMAIN charges) = Sum(f, S)
  BY CentsSum
<1>10. Sum(f, S) \in Int
  <2> HIDE DEF S, f
  <2> QED BY <1>1, SumInt
<1> QED BY <1>4, <1>7, <1>8, <1>9, <1>10

\* A stay of no minutes owes nothing.
LEMMA NothingDue ==
  ASSUME NEW d \in CompilableDraft, Valid(d), NEW s \in Stay, NEW bps \in Perk
  PROVE  Due(d, s, bps, 0) = 0
<1>1. Starts(d, 0) = {}
  BY DEF Starts
<1>2. Owed(d, s, {}) = 0
  BY OwedSum, SumEmpty
<1>3. BeforePerk(d, s, 0) \in Nat
  <2>1. 0 <= 0
    OBVIOUS
  <2> QED BY <2>1, BeforePerkGrows
<1> DEFINE A == {Owed(d, s, Starts(d, 0))}
                  \cup {OwedUnder(d, s, d.caps[c], 0) : c \in DOMAIN d.caps}
<1>4. 0 \in A
  BY <1>1, <1>2
<1>5. A \in SUBSET Nat
  <2>1. 0 <= 0
    OBVIOUS
  <2>2. \A c \in DOMAIN d.caps : OwedUnder(d, s, d.caps[c], 0) \in Nat
    BY <2>1, CapTypes, CapGrows
  <2> QED BY <1>1, <1>2, <2>2
<1>6. BeforePerk(d, s, 0) = Min(A)
  BY DEF BeforePerk
<1> HIDE DEF A
<1>7. Min(A) <= 0
  BY <1>4, <1>5, MinOf
<1>8. BeforePerk(d, s, 0) = 0
  BY <1>3, <1>6, <1>7
<1>9. DiscountOn(0, bps) = 0
  BY DEF DiscountOn
<1> QED BY <1>8, <1>9 DEF Due

\* The total of a stay whose charges are booked.
LEMMA TotalDue ==
  ASSUME PricingInv, Valid(draft), perk \in Perk, take \in Commission,
         Booked(billable)
  PROVE  /\ Capped - Discount = Due(draft, stay, perk, billable)
         /\ Capped - Discount
              = SumFunction(Lines) + (Capped - CentsOf(DOMAIN charges)) - Discount
         /\ Capped - Discount \in Nat
         /\ ShareOf(Capped - Discount, take) \in 0 .. Capped - Discount
<1>1. /\ charges \in Seq(ChargeRecord) /\ billable \in Nat
      /\ draft \in CompilableDraft /\ stay \in Stay
  BY Clock DEF PricingInv, PricingTypeOK, ChargeRecord
<1>2. Capped = BeforePerk(draft, stay, billable)
  BY <1>1, BookedCapped
<1>3. Capped \in Nat
  <2>1. billable <= billable
    BY <1>1
  <2> QED BY <1>1, <1>2, <2>1, BeforePerkGrows
<1>4. Discount \in 0 .. Capped
  <2>1. Capped <= Capped
    BY <1>3
  <2>2. DiscountOn(Capped, perk) \in 0 .. Capped
    BY <1>3, <2>1, DiscountGrows
  <2> QED BY <2>2 DEF Discount
<1>5. SumFunction(Lines) = CentsOf(DOMAIN charges) /\ CentsOf(DOMAIN charges) \in Int
  BY <1>1, LinesAdd
<1>6. Capped - Discount = Due(draft, stay, perk, billable)
  BY <1>2 DEF Due, Discount
<1>7. Capped - Discount \in Nat
  BY <1>3, <1>4
<1>8. ShareOf(Capped - Discount, take) \in 0 .. Capped - Discount
  <2>1. take \in 0 .. Whole
    BY StayAssumption
  <2> QED BY <1>7, <2>1, ShareBounds
<1>9. Capped - Discount
        = SumFunction(Lines) + (Capped - CentsOf(DOMAIN charges)) - Discount
  BY <1>3, <1>4, <1>5
<1> QED BY <1>6, <1>7, <1>8, <1>9
-----------------------------------------------------------------------------
(* The loop's invariant holds at first, and each step keeps it.               *)
LEMMA LoopInit == PricingInit => LoopInv
<1> SUFFICES ASSUME PricingInit PROVE LoopInv
  OBVIOUS
<1>1. PricingInv
  BY InvInit
<1> QED BY <1>1 DEF PricingInit, LoopInv, BillIsTheSchedule

LEMMA MeasureLoop ==
  ASSUME LoopInv, PricingInv', Measure
  PROVE  LoopInv'
<1> DEFINE b == Billable(stay, draft)
<1>1. /\ draft' = draft /\ stay' = stay /\ perk' = perk /\ take' = take
      /\ cursor' = cursor /\ charges' = charges /\ phase = "accepted"
  BY DEF Measure, request
<1>2. /\ draft \in CompilableDraft /\ stay \in Stay /\ perk \in Perk /\ take \in Commission
      /\ Valid(draft) /\ cursor = 0 /\ charges = <<>> /\ b \in Nat
  BY <1>1, BillableNat DEF LoopInv, PricingInv
<1>3. \/ phase' = "refused"
      \/ phase' = "priced" /\ b = 0 /\ billable' = 0 /\ result' = Free
      \/ phase' = "charging" /\ billable' = b /\ b # 0
  BY DEF Measure
<1>4. CASE phase' = "refused"
  BY <1>1, <1>2, <1>4 DEF LoopInv, BillIsTheSchedule
<1>5. CASE phase' = "priced" /\ b = 0 /\ billable' = 0 /\ result' = Free
  <2>1. Due(draft, stay, perk, 0) = 0
    BY <1>2, NothingDue
  <2>2. SumFunction(<<>>) = 0
    <3>1. DOMAIN <<>> = {}
      OBVIOUS
    <3>2. SumFunction(<<>>) = Sum(<<>>, {})
      BY <3>1 DEF SumFunction, Sum
    <3> QED BY <3>2, SumEmpty
  <2>3. BillIsTheSchedule'
    <3>1. /\ result'.total = 0 /\ result'.lines = <<>> /\ result'.adjustment = 0
          /\ result'.discount = 0 /\ result'.commission = 0
      BY <1>5 DEF Free
    <3>2. result'.total = Due(draft', stay', perk', billable')
      BY <1>1, <1>5, <2>1, <3>1
    <3>3. result'.total = SumFunction(result'.lines) + result'.adjustment - result'.discount
      BY <2>2, <3>1
    <3> QED BY <3>1, <3>2, <3>3 DEF BillIsTheSchedule
  <2> QED BY <1>1, <1>2, <1>5, <2>3 DEF LoopInv
<1>6. CASE phase' = "charging" /\ billable' = b /\ b # 0
  <2>1. Aligned'
    <3>1. ASSUME NEW i \in TierAt(draft.tiers, 0)
          PROVE  Begins(draft.tiers[i], 0)
      <4>1. draft.tiers[i] \in Tier /\ draft.tiers[i].from <= 0
            /\ (draft.tiers[i].unit = "PER_BLOCK" =>
                  draft.tiers[i].block \in Nat /\ draft.tiers[i].block > 0)
        BY <1>2, TierTypes DEF TierAt, Valid, ValidTiers
      <4> DEFINE tier == draft.tiers[i]
      <4>2. tier.from = 0
        BY <4>1 DEF Tier
      <4>3. tier.unit = "PER_BLOCK" => (0 - tier.from) % tier.block = 0
        <5> HIDE DEF tier
        <5> QED BY <4>1, <4>2 DEF tier
      <4> QED BY <4>2, <4>3 DEF Begins
    <3> QED BY <1>1, <1>2, <3>1 DEF Aligned
  <2>2. Booked(Least(cursor, billable))'
    <3>1. Starts(draft, 0) = {} /\ DOMAIN charges = {}
      BY <1>2 DEF Starts
    <3>2. Least(cursor', billable') = 0
      BY <1>1, <1>2, <1>6 DEF Least
    <3> QED BY <1>1, <3>1, <3>2 DEF Booked
  <2>3. BillIsTheSchedule'
    BY <1>6 DEF BillIsTheSchedule
  <2> QED BY <1>1, <1>2, <1>6, <2>1, <2>2, <2>3 DEF LoopInv
<1> QED BY <1>3, <1>4, <1>5, <1>6

LEMMA ChargeLoop ==
  ASSUME LoopInv, PricingInv', Charge
  PROVE  LoopInv'
<1>1. /\ phase = "charging" /\ cursor < billable
      /\ draft' = draft /\ stay' = stay /\ perk' = perk /\ take' = take
      /\ phase' = phase /\ billable' = billable /\ result' = result
  BY DEF Charge, request
<1>2. PICK i \in DOMAIN draft.tiers, j \in DOMAIN draft.windows, k \in DOMAIN draft.rates :
        /\ PricedBy(i, j, k)
        /\ charges' = Append(charges,
             [at |-> cursor, minutes |-> Span(draft.tiers[i]), tier |-> i, window |-> j,
              cents |-> IF draft.tiers[i].unit = "PER_MINUTE"
                          THEN Span(draft.tiers[i]) * draft.rates[k].cents
                          ELSE draft.rates[k].cents])
        /\ cursor' = Advance(draft.tiers[i])
  BY DEF Charge
<1> DEFINE tier == draft.tiers[i]
           next == Advance(tier)
           to == Least(next, billable)
           new == [at |-> cursor, minutes |-> Span(tier), tier |-> i, window |-> j,
                   cents |-> IF tier.unit = "PER_MINUTE"
                               THEN Span(tier) * draft.rates[k].cents
                               ELSE draft.rates[k].cents]
<1>3. /\ PricingInv /\ Aligned /\ Booked(Least(cursor, billable))
      /\ billable = Billable(stay, draft) /\ perk \in Perk /\ take \in Commission
  BY <1>1 DEF LoopInv
<1>4. /\ draft \in CompilableDraft /\ stay \in Stay /\ Valid(draft)
      /\ cursor \in Nat /\ billable \in Nat /\ charges \in Seq(ChargeRecord)
  BY <1>1, <1>3, Clock DEF PricingInv, PricingTypeOK, ChargeRecord
<1>5. /\ i \in TierAt(draft.tiers, cursor)
      /\ j \in WindowAt(draft.windows, Wall(stay, cursor)) /\ k \in PricesOf(draft, i, j)
  BY <1>2 DEF PricedBy
<1>6. Booked(cursor)
  BY <1>1, <1>3, <1>4 DEF Least
<1>7. /\ tier.unit = "PER_MINUTE" => Span(tier) = 1
      /\ Starts(draft, to) = Starts(draft, cursor) \cup {cursor}
      /\ cursor \notin Starts(draft, cursor)
      /\ next < billable => \A x \in TierAt(draft.tiers, next) : Begins(draft.tiers[x], next)
  BY <1>1, <1>3, <1>5, OneStart
<1>8. draft.rates[k].cents \in Nat
  <2>1. draft.rates \in Seq(Rate)
    BY <1>4, DraftTypes
  <2>2. draft.rates[k] \in Rate
    BY <2>1
  <2> QED BY <2>2 DEF Rate
<1>9. new.at = cursor /\ new.cents = RateAt(draft, stay, cursor)
  <2>1. RateAt(draft, stay, cursor) = draft.rates[k].cents
    BY <1>4, <1>5, RateFound
  <2>2. 1 * draft.rates[k].cents = draft.rates[k].cents
    BY <1>8
  <2> QED BY <1>7, <2>1, <2>2
<1>10. Aligned'
  BY <1>1, <1>2, <1>7 DEF Aligned
<1>11. Booked(Least(cursor, billable))'
  <2> DEFINE old == DOMAIN charges
             last == Len(charges) + 1
  <2>1. /\ DOMAIN charges' = old \cup {last} /\ last \notin old
        /\ charges'[last] = new /\ \A x \in old : charges'[x] = charges[x]
    <3> HIDE DEF new
    <3>1. charges' = Append(charges, new)
      BY <1>2 DEF new
    <3> QED BY <3>1, <1>4
  <2>2. Least(cursor', billable') = to
    BY <1>1, <1>2
  <2> HIDE DEF old, last, new, to
  <2>3. \A x \in DOMAIN charges' :
          /\ charges'[x].at \in Starts(draft, to)
          /\ charges'[x].cents = RateAt(draft, stay, charges'[x].at)
    BY <1>6, <1>7, <1>9, <2>1 DEF Booked, old
  <2>4. \A x \in old : charges'[x].at # cursor
    BY <1>6, <1>7, <2>1 DEF Booked, old
  <2>5. \A x, y \in DOMAIN charges' : charges'[x].at = charges'[y].at => x = y
    <3>1. \A x, y \in old : charges'[x].at = charges'[y].at => x = y
      BY <1>6, <2>1 DEF Booked, old
    <3> QED BY <1>9, <2>1, <2>4, <3>1
  <2>6. \A m \in Starts(draft, to) : \E x \in DOMAIN charges' : charges'[x].at = m
    <3> TAKE m \in Starts(draft, to)
    <3>1. CASE m = cursor
      BY <3>1, <1>9, <2>1
    <3>2. CASE m # cursor
      <4>1. m \in Starts(draft, cursor)
        BY <3>2, <1>7
      <4>2. PICK x \in old : charges[x].at = m
        BY <4>1, <1>6 DEF Booked, old
      <4> QED BY <4>2, <2>1
    <3> QED BY <3>1, <3>2
  <2> QED BY <1>1, <2>2, <2>3, <2>5, <2>6 DEF Booked
<1>12. BillIsTheSchedule'
  BY <1>1 DEF BillIsTheSchedule
<1> QED BY <1>1, <1>3, <1>10, <1>11, <1>12 DEF LoopInv

LEMMA TotalLoop ==
  ASSUME LoopInv, PricingInv', Total
  PROVE  LoopInv'
<1>1. /\ phase = "charging" /\ cursor >= billable /\ phase' = "priced"
      /\ draft' = draft /\ stay' = stay /\ perk' = perk /\ take' = take
      /\ billable' = billable /\ charges' = charges
      /\ result' = [lines      |-> Lines,
                   adjustment |-> Capped - CentsOf(DOMAIN charges),
                   discount   |-> Discount,
                   total      |-> Capped - Discount,
                   commission |-> ShareOf(Capped - Discount, take)]
  BY DEF Total, request
<1>2. /\ PricingInv /\ Valid(draft) /\ perk \in Perk /\ take \in Commission
      /\ billable = Billable(stay, draft) /\ Booked(Least(cursor, billable))
  BY <1>1 DEF LoopInv, PricingInv
<1>3. cursor \in Nat /\ billable \in Nat
  BY <1>2, Clock DEF PricingInv, PricingTypeOK
<1>4. Booked(billable)
  <2>1. Least(cursor, billable) = billable
    BY <1>1, <1>3 DEF Least
  <2> QED BY <1>2, <2>1
<1>5. /\ Capped - Discount = Due(draft, stay, perk, billable)
      /\ Capped - Discount
           = SumFunction(Lines) + (Capped - CentsOf(DOMAIN charges)) - Discount
      /\ Capped - Discount \in Nat
      /\ ShareOf(Capped - Discount, take) \in 0 .. Capped - Discount
  BY <1>2, <1>4, TotalDue
<1>6. BillIsTheSchedule'
  <2>1. /\ result'.total = Capped - Discount /\ result'.lines = Lines
        /\ result'.adjustment = Capped - CentsOf(DOMAIN charges)
        /\ result'.discount = Discount
        /\ result'.commission = ShareOf(Capped - Discount, take)
    BY <1>1
  <2>2. result'.total = Due(draft', stay', perk', billable')
    BY <1>1, <1>5, <2>1
  <2>3. result'.total = SumFunction(result'.lines) + result'.adjustment - result'.discount
    BY <1>5, <2>1
  <2>4. result'.total >= 0 /\ result'.commission \in 0 .. result'.total
    BY <1>5, <2>1
  <2> QED BY <2>2, <2>3, <2>4 DEF BillIsTheSchedule
<1>7. Valid(draft)' /\ (billable = Billable(stay, draft))'
  BY <1>1, <1>2
<1> QED BY <1>1, <1>2, <1>6, <1>7 DEF LoopInv

LEMMA LoopNext == LoopInv /\ [PricingNext]_pricingVars => LoopInv'
<1> SUFFICES ASSUME LoopInv, [PricingNext]_pricingVars PROVE LoopInv'
  OBVIOUS
<1>1. PricingInv'
  BY InvStep DEF LoopInv
<1>2. CASE Validate
  <2>1. /\ draft' = draft /\ stay' = stay /\ perk' = perk /\ take' = take
        /\ charges' = charges /\ phase = "drafted" /\ phase' \in {"accepted", "refused"}
    BY <1>2 DEF Validate, request
  <2>2. BillIsTheSchedule'
    BY <2>1 DEF BillIsTheSchedule
  <2> QED BY <1>1, <2>1, <2>2 DEF LoopInv
<1>3. CASE Measure
  BY <1>1, <1>3, MeasureLoop
<1>4. CASE Charge
  BY <1>1, <1>4, ChargeLoop
<1>5. CASE Total
  BY <1>1, <1>5, TotalLoop
<1>6. CASE UNCHANGED pricingVars
  <2>1. /\ phase' = phase /\ draft' = draft /\ stay' = stay /\ perk' = perk /\ take' = take
        /\ billable' = billable /\ cursor' = cursor /\ charges' = charges /\ result' = result
    BY <1>6 DEF pricingVars
  <2>2. BillIsTheSchedule'
    BY <2>1 DEF LoopInv, BillIsTheSchedule
  <2> QED BY <1>1, <2>1, <2>2 DEF LoopInv, Aligned, Booked
<1> QED BY <1>2, <1>3, <1>4, <1>5, <1>6 DEF PricingNext

LEMMA LoopHolds == PricingSpec => []LoopInv
  BY LoopInit, LoopNext, PTL DEF PricingSpec

\* What the loop has charged, capped, discounted and shown in lines is what the schedule
\* says, minute by minute, for any schedule that validation accepts.
THEOREM BillIsAlwaysTheSchedule == PricingSpec => []BillIsTheSchedule
<1>1. LoopInv => BillIsTheSchedule
  BY DEF LoopInv
<1> QED BY <1>1, LoopHolds, PTL

\* Leaving a minute later never makes a stay cheaper.
THEOREM LongerNeverCostsLess == PricingSpec => []LongerCostsNoLess
<1>1. LoopInv => LongerCostsNoLess
  <2> SUFFICES ASSUME LoopInv, phase = "priced", NEW t \in 0 .. stay.ticks
               PROVE  result.total >= Due(draft, stay, perk,
                                           Billable([stay EXCEPT !.ticks = t], draft))
    BY DEF LongerCostsNoLess
  <2> DEFINE n == Billable([stay EXCEPT !.ticks = t], draft)
  <2>1. /\ draft \in CompilableDraft /\ stay \in Stay /\ perk \in Perk /\ Valid(draft)
        /\ billable = Billable(stay, draft)
        /\ result.total = Due(draft, stay, perk, billable)
    BY DEF LoopInv, PricingInv, BillIsTheSchedule
  <2>2. n \in Nat /\ n <= billable /\ billable \in Nat
    BY <2>1, BillableGrows, BillableNat
  <2> HIDE DEF n
  <2>3. Due(draft, stay, perk, n) \in Nat
        /\ Due(draft, stay, perk, n) <= Due(draft, stay, perk, billable)
    BY <2>1, <2>2, DueGrows
  <2>4. billable <= billable
    BY <2>2
  <2>5. Due(draft, stay, perk, billable) \in Nat
    BY <2>1, <2>2, <2>4, DueGrows
  <2>6. result.total >= Due(draft, stay, perk, n)
    BY <2>1, <2>3, <2>5
  <2> QED BY <2>6 DEF n
<1> QED BY <1>1, LoopHolds, PTL
=============================================================================
