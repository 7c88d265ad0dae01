----------------------------- MODULE Lifecycle -----------------------------
(***************************************************************************)
(* Archiving, tombstoning, restoring and purging: lifecycle.service.ts,     *)
(* lifecycle-admin.service.ts, lifecycle-approval.service.ts, the retention *)
(* sweep of lifecycle-purge.service.ts, the demotion of super               *)
(* administrators (identity-approval.service.ts) and the deletion of one's  *)
(* own account (account-deletion.service.ts).                               *)
(*                                                                          *)
(* A slot of "flight" is one request at work: it has read, and writes later *)
(* at Read Committed, guarded by the lifecycle status it read.  A resource  *)
(* is a facility, an operator or a person; tariff plans, whose restore is   *)
(* about quotas and defaults, are in Catalogue.  Every administrator here   *)
(* is a super administrator, the tier that may act on every kind.           *)
(***************************************************************************)
EXTENDS Integers, Sequences, SequencesExt, FiniteSets

CONSTANTS Facility, Operator, Person,
          Owner,     \* the operator of each facility
          Founder,   \* the super administrators at the start
          Customer,  \* the person whose bookings there are
          Approval,  \* PendingApproval ids; bounds the requests for approval
          Slot,      \* bounds the requests at work at once
          Batch,     \* PURGE_BATCH_SIZE
          MaxMove,   \* bound on what administrators and account owners start
          None       \* no resource

Resource == Facility \cup Operator \cup Person

ASSUME KindAssumption == /\ Facility \cap (Operator \cup Person) = {}
                         /\ Operator \cap Person = {}
                         /\ None \notin Resource
ASSUME OwnerAssumption == Owner \in [Facility -> Operator]
ASSUME PersonAssumption == Founder \subseteq Person /\ Customer \in Person
ASSUME FounderAssumption == Founder # {}
ASSUME NumberAssumption == Approval \subseteq Nat /\ Slot \subseteq Nat
ASSUME BoundAssumption == Batch \in Nat \ {0} /\ MaxMove \in Nat

VARIABLES life,      \* lifecycleStatus; GONE is a deleted row or a PURGED account
          trash,     \* the tombstones, by purgeAfter
          due,       \* those whose purgeAfter has passed
          super,     \* the accounts whose role is SUPER_ADMIN
          deleted,   \* the accounts with deletedAt
          booking,   \* the customer's booking at each facility
          paying,    \* the bookings with a confirmation at work: a call's, or a webhook's
          approval,  \* PendingApproval
          flight,    \* the request each slot is working on
          sweep,     \* the run of the purge job
          moves,     \* the moves made so far
          recycled,  \* history: tombstones restored in the sweep's or an approver's hands
          crossed,   \* history: changes to administrators have overlapped
          late       \* history: lapsed bookings confirmed once their customer was checked

lifecycleVars == <<life, trash, due, super, deleted, booking, paying, approval, flight, sweep,
                   moves, recycled, crossed, late>>

Life == {"ACTIVE", "ARCHIVED", "TOMBSTONED", "GONE"}
Stage == {"NONE", "PENDING", "PAID", "LAPSED", "REFUND", "OVER"}
Request == [act : {"purge", "demote"}, of : Resource, by : Person,
            state : {"PENDING", "APPROVED", "REJECTED", "EXPIRED"}, live : BOOLEAN,
            decider : Person \cup {None}]
Unused == [state |-> "UNUSED"]
Idle == [do |-> "idle"]
Task == [do : {"move"}, of : Resource, to : Life, saw : Life]
   \cup [do : {"purge", "remove", "demote"}, of : Resource, id : Approval, by : Person]
   \cup [do : {"delete"}, of : Person]
   \cup [do : {"refund", "close"}, of : Facility]
Run == [kind : 1..3, todo : Seq(Resource), item : Resource \cup {None}]

LifecycleTypeOK ==
  /\ life \in [Resource -> Life]
  /\ trash \in Seq(Resource) /\ IsInjective(trash)
  /\ ToSet(trash) = {r \in Resource : life[r] = "TOMBSTONED"}
  /\ due \subseteq ToSet(trash)
  /\ super \subseteq Person /\ deleted \subseteq Person
  /\ booking \in [Facility -> Stage]
  /\ paying \subseteq Facility
  /\ approval \in [Approval -> Request \cup {Unused}]
  /\ flight \in [Slot -> Task \cup {Idle}]
  /\ sweep \in Run
  /\ moves \in 0..MaxMove
  /\ recycled \subseteq Resource
  /\ crossed \in BOOLEAN
  /\ late \subseteq Facility

-----------------------------------------------------------------------------
(* What the services read.                                                  *)

Place(r) == CHOOSE i \in DOMAIN trash : trash[i] = r
ResourceKind(n) == <<Facility, Operator, Person>>[n]
Admins == {p \in super \ deleted : life[p] = "ACTIVE"}
SecondApprover(p) == Admins \ {p} # {}
Booked(f) == booking[f] # "NONE"
Owning(o) == \E f \in Facility : Owner[f] = o /\ life[f] # "GONE"
Unsettled(p) == p = Customer /\ \E f \in Facility : booking[f] \in {"PENDING", "PAID", "REFUND"}

\* What RESTRICT foreign keys refuse, and what the services count besides.
Pinned(r) == (r \in Facility /\ Booked(r)) \/ (r \in Operator /\ Owning(r))
\* Mutant of Blocked: only what the foreign keys would refuse.
BlockedByKeys(r) == Pinned(r)
Blocked(r) == Pinned(r) \/ Unsettled(r)

From(to) == CASE to = "ARCHIVED" -> {"ACTIVE"}
              [] to = "TOMBSTONED" -> {"ACTIVE", "ARCHIVED"}
              [] to = "ACTIVE" -> {"ARCHIVED", "TOMBSTONED"}
Loaded(r, to) == life[r] \in From(to)
Buried(r) == life[r] = "TOMBSTONED"
Purgeable(r) == Buried(r) /\ ~Blocked(r)
\* Demotion is all that may be done to a super administrator.
Protected(r) == r \in super

\* What keeps a resource from being archived or tombstoned, and from coming back.
MayClose(r) == /\ r \in Facility => booking[r] # "PAID"
               /\ r \in Operator => \A f \in Facility : Owner[f] = r => life[f] # "ACTIVE"
               /\ ~Protected(r)
MayReturn(r) == r \notin deleted

Move == moves < MaxMove /\ moves' = moves + 1
FirstFree(s) == flight[s] = Idle /\ \A x \in Slot : flight[x] = Idle => s <= x
Start(s, t) == Move /\ FirstFree(s) /\ flight' = [flight EXCEPT ![s] = t]
Done(s) == flight' = [flight EXCEPT ![s] = Idle] /\ UNCHANGED moves
rows == <<life, trash, due>>
people == <<super, deleted>>
bookings == <<booking, paying, late>>
history == <<recycled, crossed>>

\* Another request is at work on who administers the platform.
Crossing(s) == \E x \in Slot \ {s} : /\ flight[x].do \in {"move", "demote", "delete"}
                                     /\ flight[x].of \in Person
\* The check for a removal has passed r, or the removal has.
PastCheck(r) == \/ life[r] = "GONE" \/ sweep.item = r
                \/ \E s \in Slot : flight[s].do = "remove" /\ flight[s].of = r
InHand(r) == \/ r \in ToSet(sweep.todo) \cup {sweep.item}
             \/ \E s \in Slot : flight[s].do = "remove" /\ flight[s].of = r

-----------------------------------------------------------------------------
(* Archive, tombstone and restore.                                          *)

\* A restored facility may also be refused for its operator's quota, see Catalogue.
MoveReads(s, r, to) ==
  /\ Loaded(r, to)
  /\ IF to = "ACTIVE" THEN MayReturn(r) ELSE MayClose(r)
  /\ Start(s, [do |-> "move", of |-> r, to |-> to, saw |-> life[r]])
  /\ crossed' = (crossed \/ (r \in Person /\ Crossing(s)))
  /\ UNCHANGED <<rows, people, bookings, approval, sweep, recycled>>

Cleared(r) == /\ trash' = IF Buried(r) THEN RemoveAt(trash, Place(r)) ELSE trash
              /\ due' = due \ {r}

Placed(r, to) ==
  /\ life' = [life EXCEPT ![r] = to]
  /\ IF to = "TOMBSTONED" THEN trash' = Append(trash, r) /\ UNCHANGED due ELSE Cleared(r)

\* The write is guarded by the status that was read, and by that alone.
MoveWrites(s) ==
  LET t == flight[s]
  IN /\ t.do = "move"
     /\ IF life[t.of] = t.saw
        THEN /\ Placed(t.of, t.to)
             /\ recycled' = IF t.saw = "TOMBSTONED" /\ InHand(t.of)
                            THEN recycled \cup {t.of} ELSE recycled
        ELSE UNCHANGED <<rows, recycled>>
     /\ Done(s)
     /\ UNCHANGED <<people, bookings, approval, sweep, crossed>>

\* softDelete by force: the booking is cancelled and refunded, and the archiving that
\* follows counts again.  A cancellation that fails leaves the facility open.
ForceReads(s, f) ==
  /\ life[f] = "ACTIVE" /\ booking[f] = "PAID"
  /\ Start(s, [do |-> "refund", of |-> f])
  /\ UNCHANGED <<rows, people, bookings, approval, sweep, history>>

CancelAndRefund(s) ==
  LET t == flight[s]
  IN /\ t.do = "refund"
     /\ \/ /\ booking[t.of] = "PAID" /\ booking' = [booking EXCEPT ![t.of] = "REFUND"]
           /\ flight' = [flight EXCEPT ![s].do = "close"] /\ UNCHANGED moves
        \/ Done(s) /\ UNCHANGED booking
     /\ UNCHANGED <<rows, people, paying, late, approval, sweep, history>>

ForceArchives(s) ==
  LET t == flight[s]
  IN /\ t.do = "close"
     /\ IF Loaded(t.of, "ARCHIVED") /\ MayClose(t.of)
        THEN /\ flight' = [flight EXCEPT ![s] = [do |-> "move", of |-> t.of, to |-> "ARCHIVED",
                                                 saw |-> life[t.of]]]
             /\ UNCHANGED moves
        ELSE Done(s)
     /\ UNCHANGED <<rows, people, bookings, approval, sweep, history>>

\* purgeAfter passes, in its order: days, over which no hold and no capture of the customer's
\* lasts, and a tombstoned account makes no other.
Paused(r) == r = Customer => paying = {} /\ \A f \in Facility : booking[f] # "PENDING"
Retained == {r \in Resource : Buried(r)} \ due
Lapse(r) ==
  /\ r \in Retained /\ \A q \in Retained : Place(r) <= Place(q)
  /\ Paused(r)
  /\ due' = due \cup {r}
  /\ UNCHANGED <<life, trash, people, bookings, approval, flight, sweep, moves, history>>

\* The row is deleted; an account is anonymised in place.
Erase(r) ==
  /\ life' = [life EXCEPT ![r] = "GONE"]
  /\ Cleared(r)
  /\ deleted' = IF r \in Person THEN deleted \cup {r} ELSE deleted
\* Only a tombstone is removed, and the keys have the last word.
Removable(r) == Buried(r) /\ ~Pinned(r)

-----------------------------------------------------------------------------
(* The retention sweep.                                                     *)

DueOf(k) == ResourceKind(k) \cap due
\* The first of them, by purgeAfter.
BatchOf(k) ==
  {b \in UNION {[1..n -> DueOf(k)] : n \in 1..Batch} :
     /\ \A i, j \in DOMAIN b : i < j => Place(b[i]) < Place(b[j])
     /\ \A r \in DueOf(k) \ Range(b) :
          Len(b) = Batch /\ \A i \in DOMAIN b : Place(b[i]) < Place(r)}

\* The kinds take turns; one with nothing due is passed over.
SweepReads ==
  /\ sweep.todo = <<>> /\ sweep.item = None
  /\ \E turn \in 1..3 :
       LET Kth(i) == ((sweep.kind + i - 1) % 3) + 1
       IN /\ DueOf(Kth(turn)) # {} /\ \A i \in 1..(turn - 1) : DueOf(Kth(i)) = {}
          /\ \E b \in BatchOf(Kth(turn)) :
               sweep' = [kind |-> Kth(turn), todo |-> b, item |-> None]
  /\ UNCHANGED <<rows, people, bookings, approval, flight, moves, history>>

\* Mutant of SweepChecks: a blocked row ends the run.
SweepChecksOrStops ==
  /\ sweep.todo # <<>> /\ sweep.item = None
  /\ sweep' = IF Blocked(Head(sweep.todo)) THEN [kind |-> 3, todo |-> <<>>, item |-> None]
              ELSE [sweep EXCEPT !.todo = Tail(@), !.item = Head(sweep.todo)]
  /\ UNCHANGED <<rows, people, bookings, approval, flight, moves, history>>
SweepChecks ==
  /\ sweep.todo # <<>> /\ sweep.item = None
  /\ sweep' = [sweep EXCEPT !.todo = Tail(@),
                            !.item = IF Blocked(Head(sweep.todo)) THEN None
                                     ELSE Head(sweep.todo)]
  /\ UNCHANGED <<rows, people, bookings, approval, flight, moves, history>>

SweepRemoves ==
  /\ sweep.item # None
  /\ IF Removable(sweep.item) THEN Erase(sweep.item) ELSE UNCHANGED <<rows, deleted>>
  /\ sweep' = [sweep EXCEPT !.item = None]
  /\ UNCHANGED <<super, bookings, approval, flight, moves, history>>

\* The worker stops; the next run starts over.
SweepStops ==
  /\ Move
  /\ sweep.todo # <<>> \/ sweep.item # None
  /\ sweep' = [kind |-> 3, todo |-> <<>>, item |-> None]
  /\ UNCHANGED <<rows, people, bookings, approval, flight, history>>

-----------------------------------------------------------------------------
(* The two-person rule: purges on demand, and demotions.                    *)

Locked(a) == \E s \in Slot : flight[s].do = "demote" /\ flight[s].id = a
Open(a) == approval[a].state = "PENDING" /\ ~Locked(a)
Live(a) == Open(a) /\ approval[a].live

NewApproval == {a \in Approval : approval[a] = Unused
                                 /\ \A b \in Approval : approval[b] = Unused => a <= b}
Waiting(act, r) == {a \in Approval : /\ approval[a].state = "PENDING"
                                      /\ approval[a].act = act /\ approval[a].of = r}
Lapsed(act, r) == {a \in Waiting(act, r) : ~approval[a].live}
\* At most one PENDING request per action and resource; a lapsed one makes room.
File(act, r, p) ==
  /\ Waiting(act, r) = Lapsed(act, r) /\ \A a \in Lapsed(act, r) : ~Locked(a)
  /\ \E n \in NewApproval :
       approval' = [a \in Approval |->
         IF a = n THEN [act |-> act, of |-> r, by |-> p, state |-> "PENDING",
                        live |-> TRUE, decider |-> None]
         ELSE IF a \in Lapsed(act, r) THEN [approval[a] EXCEPT !.state = "EXPIRED"]
         ELSE approval[a]]

RequestPurge(r, p) ==
  /\ Move
  /\ p \in Admins /\ SecondApprover(p)
  /\ ~Protected(r) /\ Purgeable(r)
  /\ File("purge", r, p)
  /\ UNCHANGED <<rows, people, bookings, flight, sweep, history>>

RequestDemotion(u, p) ==
  /\ Move
  /\ p \in Admins /\ p # u /\ u \in super
  /\ SecondApprover(p) /\ Admins \ {u} # {}
  /\ File("demote", u, p)
  /\ UNCHANGED <<rows, people, bookings, flight, sweep, history>>

\* Its day passes; then a decision finds it so.
Expire(a) ==
  /\ approval[a].state = "PENDING" /\ approval[a].live
  /\ approval' = [approval EXCEPT ![a].live = FALSE]
  /\ UNCHANGED <<rows, people, bookings, flight, sweep, moves, history>>
Burn(a) ==
  /\ Move
  /\ Open(a) /\ ~approval[a].live
  /\ approval' = [approval EXCEPT ![a].state = "EXPIRED"]
  /\ UNCHANGED <<rows, people, bookings, flight, sweep, history>>
\* Whoever turns down a purge may turn down a demotion; the converse is refused.
Reject(a) ==
  /\ Move
  /\ Live(a)
  /\ approval' = [approval EXCEPT ![a].state = "REJECTED"]
  /\ UNCHANGED <<rows, people, bookings, flight, sweep, history>>
RejectDemotion(a) == approval[a].state = "PENDING" /\ approval[a].act = "demote" /\ Reject(a)

Approved(a, p) == [approval EXCEPT ![a].state = "APPROVED", ![a].decider = p]
\* Mutant of MayApprove: the requester is not told apart.
AnyoneMayApprove(a, p) == Live(a) /\ p \in Admins
MayApprove(a, p) == Live(a) /\ p \in Admins /\ approval[a].by # p

\* The claim commits first, whatever the approval is of; the checks and the removal follow.
Claim(s, a, p) ==
  /\ MayApprove(a, p)
  /\ approval' = Approved(a, p)
  /\ Start(s, [do |-> "purge", of |-> approval[a].of, id |-> a, by |-> p])
  /\ UNCHANGED <<rows, people, bookings, sweep, history>>

PurgeChecks(s) ==
  LET t == flight[s]
  IN /\ t.do = "purge"
     /\ IF Purgeable(t.of)
        THEN flight' = [flight EXCEPT ![s].do = "remove"] /\ UNCHANGED moves
        ELSE Done(s)
     /\ UNCHANGED <<rows, people, bookings, approval, sweep, history>>

PurgeRemoves(s) ==
  LET t == flight[s]
  IN /\ t.do = "remove"
     /\ IF Removable(t.of) THEN Erase(t.of) ELSE UNCHANGED <<rows, deleted>>
     /\ Done(s)
     /\ UNCHANGED <<super, bookings, approval, sweep, history>>

\* The claim and the demotion are one transaction: the last super administrator is
\* looked for again, without a lock, and a failed update undoes the claim.
\* Mutant of NotTheLast: checked when it was requested, and never again.
LastOneIsNotLookedFor(u) == TRUE
NotTheLast(u) == Admins \ {u} # {}
DemoteReads(s, a, p) ==
  /\ MayApprove(a, p) /\ approval[a].act = "demote"
  /\ approval[a].of \in super /\ NotTheLast(approval[a].of)
  /\ Start(s, [do |-> "demote", of |-> approval[a].of, id |-> a, by |-> p])
  /\ crossed' = (crossed \/ Crossing(s))
  /\ UNCHANGED <<rows, people, bookings, approval, sweep, recycled>>

DemoteWrites(s) ==
  LET t == flight[s]
  IN /\ t.do = "demote"
     /\ IF life[t.of] = "ACTIVE"
        THEN super' = super \ {t.of} /\ approval' = Approved(t.id, t.by)
        ELSE UNCHANGED <<super, approval>>
     /\ Done(s)
     /\ UNCHANGED <<rows, deleted, bookings, sweep, history>>

-----------------------------------------------------------------------------
(* Accounts and bookings.                                                   *)

\* assignRole.
Promote(u) ==
  /\ Move
  /\ life[u] = "ACTIVE" /\ u \notin super \cup deleted
  /\ super' = super \cup {u}
  /\ UNCHANGED <<rows, deleted, bookings, approval, flight, sweep, history>>

DeleteReads(s, u) ==
  /\ life[u] = "ACTIVE" /\ u \notin super \cup deleted /\ ~Unsettled(u)
  /\ Start(s, [do |-> "delete", of |-> u])
  /\ crossed' = (crossed \/ Crossing(s))
  /\ UNCHANGED <<rows, people, bookings, approval, sweep, recycled>>

DeleteWrites(s) ==
  LET u == flight[s].of
  IN /\ flight[s].do = "delete"
     /\ deleted' = IF life[u] = "ACTIVE" THEN deleted \cup {u} ELSE deleted
     /\ Done(s)
     /\ UNCHANGED <<rows, super, bookings, approval, sweep, history>>

\* The stages of a booking (Holds, Settlement) that the checks tell apart.
Book(f) ==
  /\ booking[f] = "NONE" /\ life[f] = "ACTIVE"
  /\ life[Customer] = "ACTIVE" /\ Customer \notin deleted
  /\ booking' = [booking EXCEPT ![f] = "PENDING"]
  /\ UNCHANGED <<rows, people, paying, late, approval, flight, sweep, moves, history>>

\* LAPSED is also a hold cancelled unpaid, PAID one whose stay is not over yet.
Later == [NONE |-> {}, PENDING |-> {"LAPSED"}, PAID |-> {"REFUND", "OVER"},
          LAPSED |-> {}, REFUND |-> {"OVER"}, OVER |-> {}]
Advance(f) ==
  /\ \E b \in Later[booking[f]] : booking' = [booking EXCEPT ![f] = b]
  /\ UNCHANGED <<rows, people, paying, late, approval, flight, sweep, moves, history>>

\* The deadline and the status are read before the capture, ...
Pay(f) ==
  /\ booking[f] = "PENDING" /\ f \notin paying
  /\ paying' = paying \cup {f}
  /\ UNCHANGED <<rows, people, booking, late, approval, flight, sweep, moves, history>>
\* ... and the deadline not again after it, nor by a webhook the status.
\* The driver's call and the provider's webhook may both be at work.
Confirm(f) ==
  /\ f \in paying
  /\ paying' \in {paying, paying \ {f}}
  /\ \/ /\ booking' = [booking EXCEPT ![f] = "PAID"]
        /\ late' = IF booking[f] # "PENDING" /\ PastCheck(Customer) THEN late \cup {f} ELSE late
     \/ UNCHANGED <<booking, late>>
  /\ UNCHANGED <<rows, people, approval, flight, sweep, moves, history>>

-----------------------------------------------------------------------------
LifecycleInit ==
  /\ life = [r \in Resource |-> "ACTIVE"]
  /\ trash = <<>>
  /\ due = {}
  /\ super = Founder
  /\ deleted = {}
  /\ booking = [f \in Facility |-> "NONE"]
  /\ paying = {}
  /\ approval = [a \in Approval |-> Unused]
  /\ flight = [s \in Slot |-> Idle]
  /\ sweep = [kind |-> 3, todo |-> <<>>, item |-> None]
  /\ moves = 0
  /\ recycled = {}
  /\ crossed = FALSE
  /\ late = {}

Sweeps == SweepReads \/ SweepChecks \/ SweepRemoves

LifecycleNext ==
  \/ \E s \in Slot :
       \/ \E r \in Resource, to \in Life \ {"GONE"} : MoveReads(s, r, to)
       \/ \E a \in Approval, p \in Person : Claim(s, a, p) \/ DemoteReads(s, a, p)
       \/ \E u \in Person : DeleteReads(s, u)
       \/ \E f \in Facility : ForceReads(s, f)
       \/ CancelAndRefund(s) \/ ForceArchives(s)
       \/ MoveWrites(s) \/ PurgeChecks(s) \/ PurgeRemoves(s) \/ DemoteWrites(s)
       \/ DeleteWrites(s)
  \/ \E r \in Resource : Lapse(r)
  \/ \E r \in Resource, p \in Person : RequestPurge(r, p)
  \/ \E u, p \in Person : RequestDemotion(u, p)
  \/ \E a \in Approval : Expire(a) \/ Burn(a) \/ Reject(a) \/ RejectDemotion(a)
  \/ \E u \in Person : Promote(u)
  \/ \E f \in Facility : Book(f) \/ Advance(f) \/ Pay(f) \/ Confirm(f)
  \/ Sweeps \/ SweepStops

\* The job scheduler runs the sweep every hour and retries nothing else.
Fairness == WF_lifecycleVars(Sweeps)
LifecycleSpec == LifecycleInit /\ [][LifecycleNext]_lifecycleVars /\ Fairness

-----------------------------------------------------------------------------
(* Properties.                                                              *)

\* Nothing is removed before its retention window has passed unless two different
\* administrators wanted it gone, or at least demoted, since the claim of a purge does not
\* look at the action of the request (lifecycle-approval.service.ts:151-158); apart from a
\* tombstone that was restored, and buried again, after the sweep or an approver had
\* looked at it.
RetentionOrTwo ==
  [][\A r \in Resource \ recycled :
       life[r] # "GONE" /\ life'[r] = "GONE" =>
         \/ r \in due
         \/ \E a \in Approval : /\ approval[a].state = "APPROVED" /\ approval[a].of = r
                                /\ approval[a].by # approval[a].decider]_lifecycleVars

\* An anonymised customer has no booking that is still to be paid for or honoured, unless it
\* is one that had lapsed, or been cancelled, with its capture under way: the check does not
\* count such a hold, and it may be confirmed after the check all the same.  A customer who
\* was restored, and buried again, in the sweep's or an approver's hands is set apart too.
NobodyIsStranded ==
  life[Customer] = "GONE" /\ Customer \notin recycled =>
    \A f \in Facility : booking[f] \in {"PENDING", "PAID"} => f \in late

\* What lifecycle-purge.service.ts:456-459 says of the check, for every booking there is.
\* The code breaks it, by the booking that NobodyIsStranded sets apart.
NobodyIsStrandedLate ==
  life[Customer] = "GONE" /\ Customer \notin recycled =>
    \A f \in Facility : booking[f] \notin {"PENDING", "PAID"}

\* identity-approval.service.ts looks for the last super administrator again when the
\* approval is redeemed, and so one survives.  Two changes to who administers that are at
\* work at once, each of which still counted the other's account, are set apart as
\* crossed: there is no lock between them.
SuperAdminSurvives == ~crossed => Admins # {}

Due(r) == life[r] = "TOMBSTONED" /\ r \in due
Ahead(r) == {q \in due : /\ \E n \in 1..3 : {q, r} \subseteq ResourceKind(n)
                         /\ Place(q) < Place(r) /\ Blocked(q)}
Crowded(r) == Due(r) /\ Cardinality(Ahead(r)) >= Batch

\* A tombstone whose window has passed is in the end removed, restored, or pinned by
\* what refers to it, or else whole batches of pinned ones stand before it.
DueTombstonesGo == \A r \in Resource : Due(r) ~> (~Due(r) \/ Blocked(r) \/ Crowded(r))

=============================================================================
