----------------------------- MODULE Catalogue -----------------------------
(***************************************************************************)
(* What one operator sells: tariff plans, their default and the facilities  *)
(* they price, under the quotas of its subscription (tariff.service.ts,     *)
(* facilities.service.ts, entitlement.service.ts, and the plans and         *)
(* facilities of lifecycle.service.ts).                                     *)
(*                                                                          *)
(* A slot of "flight" is one request at work: it has read, and writes later *)
(* at Read Committed.  Additions hold the operator's row lock from their    *)
(* count to their commit.  There is one class of vehicle, and a plan prices *)
(* every class, this one among others, or only others; the validity window  *)
(* is taken to be open.  A schedule is the set of drafts whose tiers are in *)
(* it: one draft, unless two edits have been mixed.                         *)
(***************************************************************************)
EXTENDS Integers, FiniteSets

CONSTANTS Plan, Facility,
          Booking,   \* the stays being quoted
          Draft,     \* the drafts that are submitted
          Slot,      \* bounds the requests at work at once
          MaxQuota,  \* the largest quota
          MaxMove,   \* bound on the requests
          None       \* no plan, no slot, no pin

Prices == {"ALL", "SLOT", "OTHER"}
canBeDefault(prices) == prices = "ALL"
Drafts == {d \in [active : BOOLEAN, default : BOOLEAN, prices : Prices] :
              d.default => canBeDefault(d.prices)}

ASSUME DraftAssumption == Draft \subseteq Drafts
ASSUME NoneAssumption == None \notin Plan \cup Slot
ASSUME SlotAssumption == Slot \subseteq Nat
ASSUME RowsAssumption == IsFiniteSet(Plan) /\ IsFiniteSet(Facility)
ASSUME BoundAssumption == MaxQuota \in Nat \ {0} /\ MaxMove \in Nat

VARIABLES plan,      \* TariffPlan rows
          facility,  \* Facility rows
          assigned,  \* FacilityTariffAssignment: the plan of each facility's slot
          quota,     \* maxTariffPlans and maxFacilities
          lock,      \* who holds the operator's row
          flight,    \* the request each slot is working on
          pin,       \* what each stay was quoted: plan, version and schedule
          bill,      \* the schedule each stay was charged by at check-out
          moves,     \* the requests so far
          tangled,   \* history: plans written by an edit of an older version
          astray     \* history: facilities written by a request that read another kind

vars == <<plan, facility, assigned, quota, lock, flight, pin, bill, moves,
          tangled, astray>>

Absent == [life |-> "ABSENT"]
Version == 1..(MaxMove + 1)
Schedule == SUBSET (0..MaxMove)
Row == [life : {"ACTIVE", "ARCHIVED"}, active : BOOLEAN, default : BOOLEAN,
        prices : Prices, version : Version, tariff : Schedule]
Site == [life : {"ACTIVE", "ARCHIVED"}, kind : {"BUSINESS", "OTHER"},
         active : BOOLEAN, published : BOOLEAN]
Kept == {"plans", "facilities"}
Pin == [plan : Plan, version : Version, tariff : Schedule]
Bill == [by : Schedule, torn : BOOLEAN]
Idle == [do |-> "idle"]
Seen == [version : Version, active : BOOLEAN, default : BOOLEAN]
Task == [do : {"add"}, what : Kept, limit : 1..MaxQuota, first : BOOLEAN, stamp : 1..MaxMove]
   \cup [do : {"edit", "delete"}, of : Plan, saw : Seen, others : Nat, stamp : 1..MaxMove]
   \cup [do : {"assign"}, of : Facility, plan : Plan]
   \cup [do : {"kind"}, of : Facility, saw : {"BUSINESS", "OTHER"}]
   \cup [do : {"quote"}, of : Booking, plan : Plan, version : Version]
   \cup [do : {"leave"}, of : Booking, found : BOOLEAN]

-----------------------------------------------------------------------------
(* What the services read.                                                  *)

Standing(p) == plan[p].life = "ACTIVE"
Counted == {p \in Plan : Standing(p) /\ plan[p].active}
Defaults == {p \in Counted : plan[p].default}
Sites == {f \in Facility : facility[f].life = "ACTIVE"}
Use == [plans |-> Cardinality(Counted), facilities |-> Cardinality(Sites)]
HasRoom(k) == Use[k] < quota[k]
\* assertCanCreate..., under the lock that every addition takes.
MayAdd(k) == lock = None /\ HasRoom(k)

Snapshot(p) == [version |-> plan[p].version, active |-> plan[p].active,
                default |-> plan[p].default]
Mismatched(p) == plan[p].prices = "OTHER"
isPlanApplicable(p) == Standing(p) /\ plan[p].active /\ ~Mismatched(p)
\* The facility's own plan, and only without one the operator's default.
Resolved(f) == IF assigned[f] # None THEN {assigned[f]} ELSE Defaults
Covered(f) == \E p \in Resolved(f) : isPlanApplicable(p)
OnSale(f) == /\ f \in Sites /\ facility[f].kind = "BUSINESS"
             /\ facility[f].active /\ facility[f].published

TypeOK ==
  /\ plan \in [Plan -> Row \cup {Absent}]
  /\ facility \in [Facility -> Site \cup {Absent}]
  /\ assigned \in [Facility -> Plan \cup {None}]
  /\ quota \in [Kept -> 1..MaxQuota]
  /\ lock \in Slot \cup {None}
  /\ flight \in [Slot -> Task \cup {Idle}]
  /\ pin \in [Booking -> Pin \cup {None}]
  /\ bill \in [Booking -> Bill \cup {None}]
  /\ moves \in 0..MaxMove
  /\ tangled \subseteq Plan /\ astray \subseteq Facility
  /\ \A p, q \in Defaults : p = q

Move == moves < MaxMove /\ moves' = moves + 1
FirstFree(s) == flight[s] = Idle /\ \A x \in Slot : flight[x] = Idle => s <= x
Start(s, t) == Move /\ FirstFree(s) /\ flight' = [flight EXCEPT ![s] = t]
Done(s) == flight' = [flight EXCEPT ![s] = Idle] /\ UNCHANGED moves
rows == <<plan, facility, assigned>>
trips == <<pin, bill>>
history == <<tangled, astray>>

-----------------------------------------------------------------------------
(* Creating: lock, count, insert.                                           *)

AddLocks(s, k) ==
  /\ MayAdd(k)
  /\ IF k = "plans" THEN \E p \in Plan : plan[p] = Absent
     ELSE \E f \in Facility : facility[f] = Absent
  /\ Start(s, [do |-> "add", what |-> k, limit |-> quota[k], first |-> Counted = {},
               stamp |-> moves + 1])
  /\ lock' = s
  /\ UNCHANGED <<rows, quota, trips, history>>

\* Every other default of the operator, inactive ones too, is one no longer.
Demoted(p) == [q \in Plan |-> IF q # p /\ Standing(q) THEN [plan[q] EXCEPT !.default = FALSE]
                              ELSE plan[q]]

\* writeSchedule adds the draft's tiers to those that are there.
Submitted(t) == {t.stamp}

InsertPlan(s, p, d) ==
  LET t == flight[s]
      first == t.first /\ canBeDefault(d.prices)
      others == IF d.default \/ first THEN Demoted(p) ELSE plan
  IN /\ t.do = "add" /\ t.what = "plans" /\ plan[p] = Absent
     /\ plan' = [others EXCEPT ![p] =
                   [life |-> "ACTIVE", active |-> d.active, default |-> d.default \/ first,
                    prices |-> d.prices, version |-> 1, tariff |-> Submitted(t)]]
     /\ lock' = None /\ Done(s)
     /\ UNCHANGED <<facility, assigned, quota, trips, history>>

InsertFacility(s, f) ==
  /\ flight[s].do = "add" /\ flight[s].what = "facilities" /\ facility[f] = Absent
  /\ facility' = [facility EXCEPT ![f] = [life |-> "ACTIVE", kind |-> "BUSINESS",
                                          active |-> FALSE, published |-> FALSE]]
  /\ lock' = None /\ Done(s)
  /\ UNCHANGED <<plan, assigned, quota, trips, history>>

\* A request is refused, loses to a constraint, or its process dies.
Rollback(s) ==
  /\ flight[s] # Idle
  /\ lock' = IF lock = s THEN None ELSE lock
  /\ Done(s)
  /\ UNCHANGED <<rows, quota, trips, history>>

-----------------------------------------------------------------------------
(* Editing and deleting a plan: both read it before they write.             *)

ChangeReads(s, p, do) ==
  /\ Standing(p)
  /\ Start(s, [do |-> do, of |-> p, saw |-> Snapshot(p), stamp |-> moves + 1,
               others |-> Cardinality(Counted \ {p})])
  /\ UNCHANGED <<rows, quota, lock, trips, history>>

\* Mutant of Reactivates: an edit is never charged for the slot it takes.
ReactivatesForFree(t, d) == FALSE
Reactivates(t, d) == ~t.saw.active /\ d.active
WasDefault(t) == t.saw.default /\ t.saw.active
\* Mutant of MustReplace: a plan that stays active is not counted.
MustReplaceByOthers(t, stays) == t.others > 1
MustReplace(t, stays) == t.others + (IF stays THEN 1 ELSE 0) > 1
Candidate(c) == c \in Counted /\ canBeDefault(plan[c].prices)
\* guardDefaultRemoval: c is promoted, and the index admits no second default.
Promotable(p, c) == c # None /\ Candidate(c) /\ Defaults \subseteq {p, c}
Promoted(p, c) == [plan EXCEPT ![p].default = FALSE, ![c].default = TRUE]

NextVersion(t) == t.saw.version + 1
\* An edit whose first delete waited for another's leaves that one's tiers in place.
Rewritten(t, waited) == Submitted(t) \cup (IF waited THEN plan[t.of].tariff ELSE {})

EditCommits(s, d, c, waited) ==
  LET t == flight[s]
      p == t.of
      swap == WasDefault(t) /\ ~(d.active /\ d.default) /\ MustReplace(t, d.active)
      others == IF swap THEN Promoted(p, c)
                ELSE IF ~WasDefault(t) /\ d.default THEN Demoted(p) ELSE plan
  IN /\ t.do = "edit" /\ Standing(p)
     /\ Reactivates(t, d) => MayAdd("plans")
     /\ IF swap THEN Promotable(p, c) ELSE c = None
     /\ waited => plan[p].version # t.saw.version
     /\ plan' = [others EXCEPT ![p] =
                   [life |-> "ACTIVE", active |-> d.active, default |-> d.default,
                    prices |-> d.prices, version |-> NextVersion(t),
                    tariff |-> Rewritten(t, waited)]]
     /\ \A x, y \in Defaults' : x = y
     /\ tangled' = IF plan[p].version # t.saw.version THEN tangled \cup {p} ELSE tangled
     /\ Done(s)
     /\ UNCHANGED <<facility, assigned, quota, lock, trips, astray>>

DeleteCommits(s, c) ==
  LET t == flight[s]
      p == t.of
      swap == WasDefault(t) /\ MustReplace(t, FALSE)
      others == IF swap THEN Promoted(p, c) ELSE plan
  IN /\ t.do = "delete" /\ Standing(p)
     /\ IF swap THEN Promotable(p, c) ELSE c = None
     /\ plan' = [others EXCEPT ![p].life = "ARCHIVED"]
     /\ assigned' = [f \in Facility |-> IF assigned[f] = p THEN None ELSE assigned[f]]
     /\ Done(s)
     /\ UNCHANGED <<facility, quota, lock, trips, history>>

-----------------------------------------------------------------------------
(* The platform's trash.  A tombstone differs in its purgeAfter alone, see  *)
(* Lifecycle; every row is written under the status that was read.          *)

ArchivePlan(p) ==
  /\ Standing(p) /\ Move
  /\ plan' = [plan EXCEPT ![p].life = "ARCHIVED"]
  /\ UNCHANGED <<facility, assigned, quota, lock, flight, trips, history>>

RestorePlan(p) ==
  /\ plan[p].life = "ARCHIVED" /\ Move
  /\ plan[p].active => MayAdd("plans")
  /\ plan[p].active /\ plan[p].default => Defaults = {}
  /\ plan' = [plan EXCEPT ![p].life = "ACTIVE"]
  /\ UNCHANGED <<facility, assigned, quota, lock, flight, trips, history>>

\* The bookings that keep a facility open are Holds' and Lifecycle's.
ArchiveFacility(f) ==
  /\ f \in Sites /\ Move
  /\ facility' = [facility EXCEPT ![f].life = "ARCHIVED", ![f].active = FALSE]
  /\ UNCHANGED <<plan, assigned, quota, lock, flight, trips, history>>

RestoreFacility(f) ==
  /\ facility[f].life = "ARCHIVED" /\ Move /\ MayAdd("facilities")
  /\ facility' = [facility EXCEPT ![f].life = "ACTIVE"]
  /\ UNCHANGED <<plan, assigned, quota, lock, flight, trips, history>>

\* What is in effect is the plan's own quota, under the operator's override, or the default
\* plan's once the subscription has ended.  An override is written under the lock and
\* must fit what is there; an edited plan, and a lapse, ask nobody.
Fits(q) == \A k \in Kept : Use[k] <= q[k]
Override(q) ==
  /\ q # quota /\ lock = None /\ Fits(q) /\ Move
  /\ quota' = q
  /\ UNCHANGED <<rows, lock, flight, trips, history>>
Requota(k, n) ==
  /\ n # quota[k] /\ Move
  /\ quota' = [quota EXCEPT ![k] = n]
  /\ UNCHANGED <<rows, lock, flight, trips, history>>
Starter == [k \in Kept |-> 1]
Lapse ==
  /\ quota # Starter /\ Move
  /\ quota' = Starter
  /\ UNCHANGED <<rows, lock, flight, trips, history>>

-----------------------------------------------------------------------------
(* Pricing a facility: its plan, its kind, its place in the listings.       *)

AssignReads(s, f, p) ==
  /\ f \in Sites /\ facility[f].kind = "BUSINESS"
  /\ Standing(p) /\ ~Mismatched(p)
  /\ Start(s, [do |-> "assign", of |-> f, plan |-> p])
  /\ UNCHANGED <<rows, quota, lock, trips, history>>

AssignWrites(s) ==
  LET t == flight[s]
  IN /\ t.do = "assign"
     /\ assigned' = [assigned EXCEPT ![t.of] = t.plan]
     /\ astray' = IF facility[t.of].kind = "BUSINESS" THEN astray \ {t.of} ELSE astray \cup {t.of}
     /\ Done(s)
     /\ UNCHANGED <<plan, facility, quota, lock, trips, tangled>>

Unassign(f) ==
  /\ f \in Sites /\ assigned[f] # None /\ Move
  /\ assigned' = [assigned EXCEPT ![f] = None]
  /\ astray' = astray \ {f}
  /\ UNCHANGED <<plan, facility, quota, lock, flight, trips, tangled>>

KindReads(s, f) ==
  /\ f \in Sites
  /\ Start(s, [do |-> "kind", of |-> f, saw |-> facility[f].kind])
  /\ UNCHANGED <<rows, quota, lock, trips, history>>

\* Mutant of Leaving: the rows outlive the kind.
LeavingNothing(t, to) == FALSE
Leaving(t, to) == t.saw = "BUSINESS" /\ to # "BUSINESS"

KindWrites(s, to) ==
  LET t == flight[s]
      f == t.of
  IN /\ t.do = "kind" /\ f \in Sites
     /\ facility' = [facility EXCEPT ![f].kind = to]
     /\ assigned' = IF Leaving(t, to) THEN [assigned EXCEPT ![f] = None] ELSE assigned
     /\ astray' = IF t.saw # facility[f].kind THEN astray \cup {f} ELSE astray
     /\ Done(s)
     /\ UNCHANGED <<plan, quota, lock, trips, tangled>>

\* Publishing asks the pricing path first; editing the flags does not.
Publish(f) ==
  /\ f \in Sites /\ Move
  /\ facility[f].kind = "BUSINESS" => Covered(f)
  /\ facility' = [facility EXCEPT ![f].active = TRUE, ![f].published = TRUE]
  /\ UNCHANGED <<plan, assigned, quota, lock, flight, trips, history>>

Show(f, active, published) ==
  /\ f \in Sites /\ Move
  /\ facility' = [facility EXCEPT ![f].active = active, ![f].published = published]
  /\ facility' # facility
  /\ UNCHANGED <<plan, assigned, quota, lock, flight, trips, history>>

-----------------------------------------------------------------------------
(* A quote reads the plan's row, then the plan's schedule.                  *)

QuoteReads(s, b, f) ==
  /\ OnSale(f)
  /\ pin[b] = None /\ \A x \in Slot : flight[x].do = "quote" => flight[x].of # b
  /\ \E p \in Resolved(f) :
       /\ isPlanApplicable(p)
       /\ Start(s, [do |-> "quote", of |-> b, plan |-> p, version |-> plan[p].version])
  /\ UNCHANGED <<rows, quota, lock, trips, history>>

QuotePins(s) ==
  LET t == flight[s]
  IN /\ t.do = "quote"
     /\ pin' = [pin EXCEPT ![t.of] = [plan |-> t.plan, version |-> t.version,
                                      tariff |-> plan[t.plan].tariff]]
     /\ Done(s)
     /\ UNCHANGED <<rows, quota, lock, bill, history>>

\* priceWithPinnedPlan resolves the pin, whatever has become of the plan's status.
Resolves(b) == plan[pin[b].plan].version = pin[b].version

\* Check-out reads the pinned row, and then its schedule; without the row it keeps the
\* price that was quoted.
Leave(s, b) ==
  /\ pin[b] # None /\ bill[b] = None /\ FirstFree(s)
  /\ flight' = [flight EXCEPT ![s] = [do |-> "leave", of |-> b, found |-> Resolves(b)]]
  /\ UNCHANGED <<rows, quota, lock, trips, moves, history>>

\* Mutant of Repriced: a pin that no longer resolves is priced by what the plan has become.
RepricedByPlan(b, found) ==
  [by |-> plan[pin[b].plan].tariff, torn |-> found /\ ~Resolves(b)]
Repriced(b, found) ==
  IF found THEN [by |-> plan[pin[b].plan].tariff, torn |-> ~Resolves(b)]
  ELSE [by |-> pin[b].tariff, torn |-> FALSE]

CheckOut(s) ==
  LET t == flight[s]
  IN /\ t.do = "leave"
     /\ bill' = IF bill[t.of] = None THEN [bill EXCEPT ![t.of] = Repriced(t.of, t.found)]
                ELSE bill
     /\ Done(s)
     /\ UNCHANGED <<rows, quota, lock, pin, history>>

-----------------------------------------------------------------------------

\* An operator in business: a default plan, one facility on sale, room or none.
Init ==
  /\ \E q \in Plan : plan = [p \in Plan |->
       IF p = q THEN [life |-> "ACTIVE", active |-> TRUE, default |-> TRUE,
                      prices |-> "ALL", version |-> 1, tariff |-> {0}] ELSE Absent]
  /\ \E g \in Facility : facility = [f \in Facility |->
       IF f = g THEN [life |-> "ACTIVE", kind |-> "BUSINESS", active |-> TRUE,
                      published |-> TRUE] ELSE Absent]
  /\ assigned = [f \in Facility |-> None]
  /\ quota \in [Kept -> 1..MaxQuota]
  /\ lock = None
  /\ flight = [s \in Slot |-> Idle]
  /\ pin = [b \in Booking |-> None] /\ bill = pin
  /\ moves = 0
  /\ tangled = {} /\ astray = {}

Adds(s) == \/ \E k \in Kept : AddLocks(s, k)
           \/ \E p \in Plan, d \in Draft : InsertPlan(s, p, d)
           \/ \E f \in Facility : InsertFacility(s, f)
           \/ Rollback(s)
Changes(s) == \/ \E p \in Plan, do \in {"edit", "delete"} : ChangeReads(s, p, do)
              \/ \E d \in Draft, c \in Plan \cup {None}, waited \in BOOLEAN :
                    EditCommits(s, d, c, waited)
              \/ \E c \in Plan \cup {None} : DeleteCommits(s, c)
Places(s) == \/ \E f \in Facility : \/ \E p \in Plan : AssignReads(s, f, p)
                                    \/ KindReads(s, f)
             \/ AssignWrites(s)
             \/ \E to \in {"BUSINESS", "OTHER"} : KindWrites(s, to)
Quotes(s) == \/ \E b \in Booking, f \in Facility : QuoteReads(s, b, f)
             \/ QuotePins(s)
             \/ \E b \in Booking : Leave(s, b)
             \/ CheckOut(s)
AtOnce == \/ \E p \in Plan : ArchivePlan(p) \/ RestorePlan(p)
          \/ \E f \in Facility : \/ ArchiveFacility(f) \/ RestoreFacility(f)
                                 \/ Unassign(f) \/ Publish(f)
                                 \/ \E a, u \in BOOLEAN : Show(f, a, u)
          \/ \E q \in [Kept -> 1..MaxQuota] : Override(q)
          \/ \E k \in Kept, n \in 1..MaxQuota : Requota(k, n)
          \/ Lapse

Next == \/ \E s \in Slot : Adds(s) \/ Changes(s) \/ Places(s) \/ Quotes(s)
        \/ AtOnce

Spec == Init /\ [][Next]_vars

-----------------------------------------------------------------------------
(* Properties.                                                              *)

Stale(s) == /\ flight[s].do \in {"edit", "delete"}
            /\ \/ flight[s].saw # Snapshot(flight[s].of)
               \/ flight[s].others # Cardinality(Counted \ {flight[s].of})
\* What quota the addition of this step was counted against.
Allowed(k) == {quota[k]} \cup {flight[s].limit : s \in {x \in Slot :
                 flight[x].do = "add" /\ flight'[x] = Idle}}

\* What has been added under the lock: a plan two edits of which have overlapped may have
\* come back in a slot it was not charged for.
Charged == [plans |-> Cardinality(Counted \ tangled), facilities |-> Cardinality(Sites)]

\* The operator lock and the count under it are all that keeps the quotas: creating,
\* restoring and reactivating never lead past the quota they were counted against, in
\* any interleaving, but for an edit of a plan that another edit has changed since it
\* was read (facilities.service.ts:733-743, tariff.service.ts:610-619).
QuotaKept == [][\A k \in Kept :
                  Charged'[k] > Charged[k] => \E n \in Allowed(k) : Charged'[k] <= n]_vars

\* An operator with two active plans keeps a default: editing or deleting the default
\* hands the role on (tariff.service.ts:905-965).  Set apart are a request whose reading
\* was overtaken (Stale), the plan offered as its own successor, and an inactive draft
\* made the default.
DefaultSurvives ==
  [][Defaults # {} /\ Defaults' = {} /\ Cardinality(Counted') > 1 =>
       ~ \E s \in Slot, c \in Plan \cup {None} :
           /\ flight[s].do \in {"edit", "delete"} /\ ~Stale(s) /\ c # flight[s].of
           /\ \/ \E d \in Draft, waited \in BOOLEAN :
                   (d.default => d.active) /\ EditCommits(s, d, c, waited)
              \/ DeleteCommits(s, c)]_vars

\* A stay is charged by the schedule it was quoted from, however the plan was edited,
\* archived or restored meanwhile and however the quote's two reads fell; except on a plan
\* two edits of which have overlapped, or edited between the two reads of the check-out
\* (tariff.service.ts:191-216, booking.service.ts:803-844).
SameScheduleBothEnds ==
  \A b \in Booking : bill[b] # None /\ ~bill[b].torn /\ pin[b].plan \notin tangled =>
                       bill[b].by = pin[b].tariff

\* A facility that is not for sale carries no rate schedule, so that none comes back with
\* its kind.  The overlap itself is set apart (astray): an assignment, or an edit of the
\* kind, by a request that had read another kind than the one it wrote over, until the
\* next assignment or its removal (facilities.service.ts:529-535, 900-905).
AssignmentsAreSellable ==
  \A f \in Facility : assigned[f] # None /\ f \notin astray => facility[f].kind = "BUSINESS"

=============================================================================
