---------------------------- MODULE Subscription ----------------------------
(***************************************************************************)
(* The billing of one operator: its OperatorSubscription rows, the webhook  *)
(* deliveries that change them (operator-subscription-events.service.ts),   *)
(* the administrator's assignments (subscription-admin.service.ts) and the  *)
(* self-service checkout.  The provider numbers its agreements with the     *)
(* customer and sends events about them, late, again and out of order.      *)
(*                                                                          *)
(* A delivery is a transaction that reads, perhaps waits for the operator's *)
(* row lock, and then writes by id; a rolled-back one leaves no trace and   *)
(* the provider sends the event again.  TRIALING is written ACTIVE: no      *)
(* handler tells them apart.  Periods, prices and entitlements are data.    *)
(***************************************************************************)
EXTENDS Integers, FiniteSets

CONSTANTS Row,          \* OperatorSubscription ids; bounds the rows created
          Agreement,    \* provider subscriptions of the operator's customer
          Plan,         \* SubscriptionPlan
          PlanOf,       \* the plan each agreement is opened for
          Reported,     \* the statuses an update may carry
          None,         \* no row, no provider subscription, no plan
          MaxTime,      \* bound on the provider's clock
          MaxMoves,     \* bound on what is counted in moves
          MaxInFlight   \* bound on the deliveries processed at once

ASSUME RowAssumption == Row \subseteq Nat
ASSUME NoneAssumption == None \notin Row \cup Agreement \cup Plan
ASSUME PlanAssumption == PlanOf \in [Agreement -> Plan]
ASSUME BoundAssumption == /\ MaxTime \in Nat \ {0}
                          /\ MaxMoves \in Nat
                          /\ MaxInFlight \in Nat
ASSUME ReportedAssumption ==
  Reported \subseteq {"ACTIVE", "PAST_DUE", "CANCELLED", "UNKNOWN"}

VARIABLES now,        \* the provider's clock
          agreement,  \* what the provider knows of each agreement
          sent,       \* the events the provider has raised
          catalog,    \* the plans that are not archived
          counted,    \* the plans archivePlan has found without subscribers
          row,        \* OperatorSubscription
          ledger,     \* WebhookEvent: what each surface has committed
          flight,     \* the operator surface's open transactions
          admin,      \* the administrator's open transaction
          due,        \* agreements about to be cancelled at the provider
          moves,      \* history: assignments, archived plans, reports
          honoured,   \* history: the checkouts that put the operator on their plan
          mislaid     \* history: agreements honoured whose purchase no row names

provider == <<now, agreement, sent>>
history == <<honoured, mislaid>>
vars == <<now, agreement, sent, catalog, counted, row, ledger, flight, admin, due,
          moves, honoured, mislaid>>

Time == 1..MaxTime
Live == {"ACTIVE", "PAST_DUE"}
Status == Live \cup {"CANCELLED"}
\* A mark of 0 is a lastEventAt that is null.
Subscription == [plan : Plan, status : Status, bill : Agreement \cup {None},
                 mark : Time \cup {0}]
Absent == [plan |-> None, status |-> "ABSENT", bill |-> None, mark |-> 0]

\* A completed checkout may not name the subscription it opened; the other
\* events always do.  It may be sent again under another event id.
Checkout == [type : {"checkout", "resent"}, of : Agreement, named : BOOLEAN, at : Time,
             status : {"ACTIVE"}]
Event == Checkout
   \cup  [type : {"updated"}, of : Agreement, named : {TRUE}, at : Time,
          status : {"ACTIVE", "PAST_DUE", "CANCELLED", "UNKNOWN"}]
   \cup  [type : {"failed"}, of : Agreement, named : {TRUE}, at : Time,
          status : {"PAST_DUE"}]
   \cup  [type : {"deleted"}, of : Agreement, named : {TRUE}, at : Time,
          status : {"CANCELLED"}]

Surface == {"operator", "driver"}
\* A transaction: the event, the row it resolved and that row as it was read.
Task == [step : {"lock", "write"}, event : Event, id : Row \cup {None},
         saw : Subscription \cup {Absent}]
Assignment == [plan : Plan, status : Status, id : Row \cup {None},
               saw : Subscription \cup {Absent}]
Idle == [plan |-> None, status |-> "ABSENT", id |-> None, saw |-> Absent]

TypeOK ==
  /\ now \in Time
  /\ agreement \in [Agreement -> {"none", "session", "running", "ended"}]
  /\ sent \subseteq Event
  /\ catalog \subseteq Plan
  /\ counted \subseteq Plan
  /\ row \in [Row -> Subscription \cup {Absent}]
  /\ ledger \subseteq Surface \X Event
  /\ flight \subseteq Task
  /\ admin \in Assignment \cup {Idle}
  /\ due \subseteq Agreement
  /\ moves \in Nat
  /\ honoured \subseteq Event
  /\ mislaid \subseteq Agreement

\* What is handled as a purchase.
IsCheckout(e) == e.type \in {"checkout", "resent"}

-----------------------------------------------------------------------------
(* The rows, and the two unique indexes that guard them.                    *)

\* The next row id, if the bound on rows leaves one.
Spare == {r \in Row : row[r] = Absent}
Fresh == {r \in Spare : \A q \in Spare : r <= q}
Billed(s) == {r \in Row : row[r].bill = s}
LiveRows == {r \in Row : row[r].status \in Live}

UniqueIndexes(rows) ==
  \A r, q \in Row :
    r # q => /\ rows[r].bill = None \/ rows[r].bill # rows[q].bill
             /\ ~(rows[r].status \in Live /\ rows[q].status \in Live)

\* SELECT ... FOR UPDATE on the ParkingOperator row.
LockFree == admin = Idle /\ \A t \in flight : t.step # "write" \/ ~IsCheckout(t.event)

\* The row a transaction found, read as it stands.
Snapshot(r) == IF r = None THEN Absent ELSE row[r]

\* findFirst among the live rows.
Current == IF LiveRows = {} THEN {None} ELSE LiveRows

\* The current row, cancelled where it stands.
Retired(id) ==
  IF id = None THEN row
  ELSE [row EXCEPT ![id] = [plan |-> row[id].plan, status |-> "CANCELLED",
                            bill |-> row[id].bill, mark |-> row[id].mark]]

\* The rows after a grant: the agreement that billed the current row, if
\* "retire" says so, keeps its own cancelled row.
Granted(id, retire, fresh, new) ==
  IF id # None /\ ~retire
  THEN [row EXCEPT ![id] = new]
  ELSE [Retired(id) EXCEPT ![fresh] = new]

\* The agreements whose purchase a row names, with the plan it was for.  A checkout that
\* names no subscription leaves its purchase without a trace.
Traced ==
  {s \in Agreement : /\ \E r \in Row : row[r].bill = s /\ row[r].plan = PlanOf[s]
                     /\ \A e \in sent : IsCheckout(e) /\ e.of = s => e.named}

Traces == mislaid' = mislaid \cup ({e.of : e \in honoured'} \ Traced')

-----------------------------------------------------------------------------
(* The provider, the customer and the catalogue.                            *)

\* The driver endpoint of the same account is served first: to it the operator's
\* events mean nothing, and it says so in its own ledger rows.
Raise(events) ==
  /\ sent' = sent \cup events
  /\ ledger' = ledger \cup ({"driver"} \X events)

Updated(s, status) ==
  [type |-> "updated", of |-> s, named |-> TRUE, at |-> now, status |-> status]

Deleted(s) ==
  [type |-> "deleted", of |-> s, named |-> TRUE, at |-> now, status |-> "CANCELLED"]

Resent(e) ==
  [type |-> "resent", of |-> e.of, named |-> e.named, at |-> now, status |-> "ACTIVE"]

Tick ==
  /\ now < MaxTime
  /\ now' = now + 1
  /\ UNCHANGED <<agreement, sent, catalog, counted, row, ledger, flight, admin, due,
                 moves, history>>

\* The plan must be in the catalogue and not the one the operator is on.
StartCheckout(s) ==
  /\ agreement[s] = "none"
  /\ PlanOf[s] \in catalog
  /\ \A r \in LiveRows : row[r].plan # PlanOf[s]
  /\ agreement' = [agreement EXCEPT ![s] = "session"]
  /\ UNCHANGED <<now, sent, catalog, counted, row, ledger, flight, admin, due, moves,
                 history>>

Pay(s, named) ==
  /\ agreement[s] = "session"
  /\ agreement' = [agreement EXCEPT ![s] = "running"]
  /\ Raise({[type |-> "checkout", of |-> s, named |-> named, at |-> now,
             status |-> "ACTIVE"]})
  /\ UNCHANGED <<now, catalog, counted, row, flight, admin, due, moves, history>>

\* A dashboard resend, or a replayed backlog: the same purchase, another event.
Resend(s) ==
  /\ moves < MaxMoves /\ moves' = moves + 1
  /\ \E e \in sent : /\ e.type = "checkout" /\ e.of = s
                    /\ Resent(e) \notin sent /\ Raise({Resent(e)})
  /\ UNCHANGED <<now, agreement, catalog, counted, row, flight, admin, due, history>>

Report(s) ==
  /\ agreement[s] = "running"
  /\ moves < MaxMoves /\ moves' = moves + 1
  /\ \E event \in {Updated(s, status) : status \in Reported}
             \cup {[type |-> "failed", of |-> s, named |-> TRUE, at |-> now,
                    status |-> "PAST_DUE"]} :
       event \notin sent /\ Raise({event})
  /\ UNCHANGED <<now, agreement, catalog, counted, row, flight, admin, due, history>>

EndAgreement(s) ==
  /\ agreement[s] = "running"
  /\ moves < MaxMoves /\ moves' = moves + 1
  /\ agreement' = [agreement EXCEPT ![s] = "ended"]
  /\ Raise({Deleted(s)})
  /\ UNCHANGED <<now, catalog, counted, row, flight, admin, due, history>>

\* cancelSubscriptionBestEffort after a commit: it ends the agreement, or it
\* fails (or the process dies first) and the agreement goes on.
CancelAtProvider(s) ==
  /\ s \in due
  /\ due' = due \ {s}
  /\ \/ /\ agreement[s] = "running"
        /\ agreement' = [agreement EXCEPT ![s] = "ended"]
        /\ Raise({Deleted(s)})
     \/ UNCHANGED <<agreement, sent, ledger>>
  /\ UNCHANGED <<now, catalog, counted, row, flight, admin, moves, history>>

\* archivePlan counts the plan's subscribers and archives it later, under no lock.
CountSubscribers(p) ==
  /\ p \in catalog \ counted
  /\ \A r \in LiveRows : row[r].plan # p
  /\ moves < MaxMoves /\ moves' = moves + 1
  /\ counted' = counted \cup {p}
  /\ UNCHANGED <<provider, catalog, row, ledger, flight, admin, due, history>>

ArchivePlan(p) ==
  /\ p \in counted
  /\ counted' = counted \ {p}
  /\ catalog' = catalog \ {p}
  /\ UNCHANGED <<provider, row, ledger, flight, admin, due, moves, history>>

-----------------------------------------------------------------------------
(* Deliveries.  The ledger row is inserted first, so one event is in one    *)
(* transaction at a time; the insert is kept only if the transaction is.    *)

\* Mutant of Duplicate: a ledger keyed by the event alone.
DuplicateOnAnySurface(e) == \E surface \in Surface : <<surface, e>> \in ledger

\* A committed ledger row makes every later delivery a duplicate.
Duplicate(e) == <<"operator", e>> \in ledger

Record(e) == ledger' = ledger \cup {<<"operator", e>>}

Arrives(e) ==
  /\ e \in sent
  /\ ~Duplicate(e)
  /\ \A t \in flight : t.event # e
  /\ Cardinality(flight) < MaxInFlight

CheckoutReads(e) ==
  /\ IsCheckout(e) /\ Arrives(e)
  /\ \/ /\ e.named /\ Billed(e.of) # {}
        /\ Record(e)
        /\ UNCHANGED flight
     \/ /\ ~(e.named /\ Billed(e.of) # {})
        /\ flight' = flight \cup
             {[step |-> "lock", event |-> e, id |-> None, saw |-> Absent]}
        /\ UNCHANGED ledger
  /\ UNCHANGED <<provider, catalog, counted, row, admin, due, moves, history>>

CheckoutLocks(t) ==
  /\ t.step = "lock" /\ LockFree
  /\ \/ /\ PlanOf[t.event.of] \notin catalog
        /\ Record(t.event)
        /\ flight' = flight \ {t}
     \/ /\ PlanOf[t.event.of] \in catalog
        /\ \E id \in Current :
             flight' = (flight \ {t}) \cup
               {[step |-> "write", event |-> t.event, id |-> id, saw |-> Snapshot(id)]}
        /\ UNCHANGED ledger
  /\ UNCHANGED <<provider, catalog, counted, row, admin, due, moves, history>>

BillNamedBy(e) == IF e.named THEN e.of ELSE None

\* The current agreement is another one, which this purchase replaces.
Supersedes(t) == t.id # None /\ t.saw.bill # None /\ t.saw.bill # BillNamedBy(t.event)

Purchase(t) ==
  [plan |-> PlanOf[t.event.of], status |-> "ACTIVE", mark |-> t.event.at,
   bill |-> IF t.event.named THEN t.event.of
            ELSE IF t.id # None /\ ~Supersedes(t) THEN row[t.id].bill ELSE None]

\* The purchase was honoured before and its row has it: a second delivery that had
\* looked for the agreement before the first one stored it.
Repeats(t) ==
  /\ t.event.named /\ t.event.of \in {e.of : e \in honoured}
  /\ t.id # None /\ ~Supersedes(t)
  /\ row[t.id].bill = t.event.of /\ row[t.id].plan = PlanOf[t.event.of]

CheckoutCommits(t) ==
  /\ t.step = "write" /\ IsCheckout(t.event)
  /\ UNCHANGED <<provider, catalog, counted, admin, moves>>
  /\ flight' = flight \ {t}
  /\ \E fresh \in Fresh :
       LET rows == Granted(t.id, Supersedes(t), fresh, Purchase(t)) IN
       \/ /\ UniqueIndexes(rows)
          /\ row' = rows
          /\ Record(t.event)
          /\ due' = IF Supersedes(t) THEN due \cup {t.saw.bill} ELSE due
          /\ honoured' = IF Repeats(t) THEN honoured ELSE honoured \cup {t.event}
          /\ Traces
       \/ ~UniqueIndexes(rows) /\ UNCHANGED <<row, ledger, due, history>>

\* By the agreement's own row, else by the customer's live one.
Found(e) == IF Billed(e.of) # {} THEN Billed(e.of) ELSE Current

isOutOfOrder(e, found) == found.mark # 0 /\ e.at < found.mark

\* Mutant of Applies: without the terminal-state check.
AppliesToCancelled(e, found) ==
  /\ found # Absent
  /\ ~isOutOfOrder(e, found)
  /\ ~(e.type = "failed" /\ found.status = "PAST_DUE")

\* What a handler read lets it write: otherwise it answers that the event is
\* unmatched, stale or already applied, and records it all the same.
Applies(e, found) ==
  /\ found # Absent
  /\ ~isOutOfOrder(e, found)
  /\ found.status # "CANCELLED"
  /\ ~(e.type = "failed" /\ found.status = "PAST_DUE")

EventReads(e) ==
  /\ ~IsCheckout(e) /\ Arrives(e)
  /\ \E id \in Found(e) :
       LET found == Snapshot(id) IN
       \/ /\ ~Applies(e, found)
          /\ Record(e)
          /\ UNCHANGED flight
       \/ /\ Applies(e, found)
          /\ flight' = flight \cup
               {[step |-> "write", event |-> e, id |-> id, saw |-> found]}
          /\ UNCHANGED ledger
  /\ UNCHANGED <<provider, catalog, counted, row, admin, due, moves, history>>

\* Mutant of Applied: an update also writes the plan its price is for.
AppliedWithPlan(t) ==
  [plan |-> PlanOf[t.event.of],
   status |-> IF t.event.status = "UNKNOWN" THEN row[t.id].status ELSE t.event.status,
   bill |-> IF t.event.type = "updated" /\ t.saw.bill = None THEN t.event.of
            ELSE row[t.id].bill,
   mark |-> t.event.at]

\* An update adopts the provider id of a row that was read without one.
Applied(t) ==
  LET e == t.event
      r == row[t.id]
  IN  [plan |-> r.plan,
       status |-> IF e.status = "UNKNOWN" THEN r.status ELSE e.status,
       bill |-> IF e.type = "updated" /\ t.saw.bill = None THEN e.of ELSE r.bill,
       mark |-> e.at]

EventCommits(t) ==
  /\ t.step = "write" /\ ~IsCheckout(t.event)
  /\ UNCHANGED <<provider, catalog, counted, admin, due, moves, honoured>>
  /\ flight' = flight \ {t}
  /\ LET rows == [row EXCEPT ![t.id] = Applied(t)] IN
     \/ UniqueIndexes(rows) /\ row' = rows /\ Record(t.event) /\ Traces
     \/ ~UniqueIndexes(rows) /\ UNCHANGED <<row, ledger, mislaid>>

-----------------------------------------------------------------------------
(* The administrator, who holds the lock from reading to commit.            *)

AssignLocks(plan, status) ==
  /\ LockFree
  /\ plan \in catalog
  /\ moves < MaxMoves /\ moves' = moves + 1
  /\ \E id \in Current :
       admin' = [plan |-> plan, status |-> status, id |-> id, saw |-> Snapshot(id)]
  /\ UNCHANGED <<provider, catalog, counted, row, ledger, flight, due, history>>

\* Cancelling, or moving to another plan, ends an agreement that is billed.
EndsAgreement(a) ==
  a.saw.bill # None /\ (a.status = "CANCELLED" \/ a.saw.plan # a.plan)

Assigned(a, retire) ==
  IF a.id # None /\ ~retire
  THEN [plan |-> a.plan, status |-> a.status, bill |-> row[a.id].bill,
        mark |-> row[a.id].mark]
  ELSE [plan |-> a.plan, status |-> a.status, bill |-> None, mark |-> 0]

AssignCommits ==
  /\ admin # Idle
  /\ admin' = Idle
  /\ UNCHANGED <<provider, catalog, counted, ledger, flight, moves, honoured>>
  /\ \E fresh \in Fresh :
       LET retire == EndsAgreement(admin) /\ admin.status # "CANCELLED"
           rows == Granted(admin.id, retire, fresh, Assigned(admin, retire))
       IN \/ /\ UniqueIndexes(rows)
             /\ row' = rows
             /\ due' = IF EndsAgreement(admin) THEN due \cup {admin.saw.bill} ELSE due
             /\ Traces
          \/ ~UniqueIndexes(rows) /\ UNCHANGED <<row, due, mislaid>>

-----------------------------------------------------------------------------
Init ==
  /\ now = 1
  /\ agreement = [s \in Agreement |-> "none"]
  /\ sent = {}
  /\ catalog = Plan
  /\ counted = {}
  /\ row = [r \in Row |-> Absent]
  /\ ledger = {}
  /\ flight = {}
  /\ admin = Idle
  /\ due = {}
  /\ moves = 0
  /\ honoured = {}
  /\ mislaid = {}

Deliver ==
  \/ \E e \in sent : CheckoutReads(e) \/ EventReads(e)
  \/ \E t \in flight : CheckoutLocks(t) \/ CheckoutCommits(t) \/ EventCommits(t)

Next ==
  \/ Tick
  \/ \E s \in Agreement :
       \/ StartCheckout(s) \/ Resend(s) \/ Report(s) \/ EndAgreement(s) \/ CancelAtProvider(s)
       \/ \E named \in BOOLEAN : Pay(s, named)
  \/ \E p \in Plan : CountSubscribers(p) \/ ArchivePlan(p)
  \/ Deliver
  \/ \E p \in Plan, status \in {"ACTIVE", "CANCELLED"} : AssignLocks(p, status)
  \/ AssignCommits

Spec == Init /\ [][Next]_vars

\* The provider sends an event until it is acknowledged, and an open transaction
\* ends: some such step is taken while there is one to take.
FairSpec == Spec /\ WF_vars(Deliver \/ AssignCommits)

-----------------------------------------------------------------------------
(* Properties.                                                              *)

\* No claim of a purchase the rows still name is honoured again: of two checkouts of one
\* purchase honoured, its record was lost in between, or it never named its subscription
\* (operator-subscription-events: the lookup before the lock, and the unique index on
\* providerSubscriptionId behind it).
GrantedOnce ==
  \A d, e \in honoured : d # e /\ d.of = e.of => d.of \in mislaid

\* A write whose row has not changed since the transaction read it is lawful: it
\* never reopens a cancelled row, never takes a row from the agreement that bills
\* it, and (but for a purchase, which starts a row's history) never moves the
\* row's mark back.
FreshWritesAreLawful ==
  [][\A t \in flight \ flight' :
       (t.id # None /\ row[t.id] = t.saw) =>
          /\ (t.saw.status = "CANCELLED" => row'[t.id] = row[t.id])
          /\ (t.saw.bill # None => row'[t.id].bill = t.saw.bill)
          /\ (~IsCheckout(t.event) => row'[t.id].mark >= t.saw.mark)]_vars

\* Every event is in the end recorded by the operator's surface: no constraint
\* violation poisons an event for good, and the driver surface's own record of it
\* does not hide it.
EventsAreAcknowledged == []<>(\A e \in sent : <<"operator", e>> \in ledger)

-----------------------------------------------------------------------------
(* Refinement: the plan the operator is on.                                 *)

Bought == [s \in Agreement |-> IF agreement[s] \in {"running", "ended"}
                               THEN PlanOf[s] ELSE None]
Claimed == {e \in sent : IsCheckout(e)}
PlansHeld == {row[r].plan : r \in LiveRows}
PlansOnFile == {row[r].plan : r \in Row} \ {None}

Billing == INSTANCE OnePlan
             WITH Claim <- Checkout, Of <- [e \in Checkout |-> e.of],
                  bought <- Bought, claims <- Claimed,
                  traced <- Traced, desk <- admin.plan,
                  held <- PlansHeld, onFile <- PlansOnFile

\* Subscription implements OnePlan: however the deliveries, which take no common lock,
\* the administrator and the provider interleave, the operator is on one plan at most.  A
\* purchase is honoured after it was paid for, never while an administrator is deciding,
\* and once, however often its checkout is delivered or sent again (until its record is
\* mislaid); only it and the administrator's decision take the operator from one plan to
\* another, and nothing the provider reports does (the partial unique index
\* OperatorSubscription_operator_live_key, and the lock of the ParkingOperator row).
KeepsOnePlan == Billing!Spec

=============================================================================
