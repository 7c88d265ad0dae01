---------------------------- MODULE DriverBilling ----------------------------
(***************************************************************************)
(* The billing of one rider: checkout sessions opened by the rider          *)
(* (driver-subscriptions-self.service.ts), agreements at the provider, the  *)
(* events it sends about them (driver-subscription-events.service.ts) and   *)
(* the administrator (driver-subscription-admin.service.ts).                *)
(*                                                                          *)
(* A session that is paid becomes the agreement of the same number.  Events *)
(* arrive late, again and in any order until one delivery commits.  A       *)
(* checkout and an assignment hold the rider's row lock from their read of  *)
(* the live row to their write.  The other events take no lock, so what any *)
(* of them has read may have changed when it writes.                        *)
(* Every event names its agreement and its customer; Subscription has the   *)
(* checkouts that do not.  Prices, periods, overrides and the view of the   *)
(* rider's own subscription are data.                                       *)
(***************************************************************************)
EXTENDS Integers, FiniteSets

CONSTANTS
  Plan,         \* DriverSubscriptionPlan
  Session,      \* checkout sessions, numbered as they are opened
  Row,          \* DriverSubscription rows, numbered as they are created
  None,
  MaxTime,      \* bound on the provider's clock
  MaxBucket,    \* bound on the windows of the checkout key
  MaxMove,      \* bound on what administrators, crashes and the provider start
  MaxInFlight   \* bound on deliveries read and not yet written

ASSUME NumberAssumption ==
  /\ Session \subseteq Nat \ {0} /\ Row \subseteq Nat \ {0}
  /\ None \notin Plan \cup Session \cup Row
  /\ MaxTime \in Nat \ {0} /\ MaxBucket \in Nat /\ MaxMove \in Nat /\ MaxInFlight \in Nat

VARIABLES
  plan,       \* which plans are archived, which are in the public catalogue
  bucket,     \* the ten-minute window of the checkout idempotency key
  taps,       \* the plans of checkouts that passed their checks and open next
  session,    \* sessions at the provider
  agreement,  \* agreements at the provider
  now,        \* the provider's clock; events may share a second
  sent,       \* events the provider sends until they are acknowledged
  ledger,     \* WebhookEvent rows of this surface
  row,        \* DriverSubscription rows
  queue,      \* purchases not found stored, waiting for the rider's row lock
  flight,     \* other deliveries that have read their row
  lock,       \* the holder of the rider's row lock, with what it read; or None
  counted,    \* plans found without subscribers, to be archived next
  due,        \* agreements to cancel at the provider, after the commit
  audit,      \* what is on record for a reconciliation
  lost,       \* history: cancellations a crash forgot
  odd,        \* history: agreements whose row met one of the races below
  honoured,   \* history: the purchases that put the rider on their plan
  mislaid,    \* history: agreements honoured whose purchase no row names
  moves       \* bound

provider == <<session, agreement, now, sent>>
office == <<plan, counted>>
books == <<ledger, row, queue, flight, lock>>
history == <<lost, odd, honoured, mislaid>>
driverBillingVars == <<plan, bucket, taps, session, agreement, now, sent, ledger, row,
                       queue, flight, lock, counted, due, audit, lost, odd, honoured,
                       mislaid, moves>>

Live == {"ACTIVE", "PAST_DUE"}
Status == Live \cup {"CANCELLED"}
Time == 1 .. MaxTime
\* A mark of 0 is a lastEventAt that is null.
Subscription == [plan : Plan, status : Status, bill : Session \cup {None},
                 mark : Time \cup {0}]
\* A completed checkout may be sent again under another event id.
Event == [type : {"checkout", "resent", "updated", "failed", "deleted"}, of : Session,
          at : Time, status : Status \cup {"UNKNOWN"}]
Task == [event : Event, id : Row, adopts : BOOLEAN]
Lock == [event : Event \cup {None}, plan : Plan, status : Status, id : Row \cup {None},
         bill : Session \cup {None}, ended : SUBSET Session]
Checkout == [plan : Plan, bucket : 0 .. MaxBucket, status : {"open", "completed", "cancelled"}]

ASSUME NoneAssumption ==
  None \notin Subscription /\ None \notin Event /\ None \notin Checkout /\ None \notin Lock

LiveRows == {r \in Row : row[r] # None /\ row[r].status \in Live}
BilledTo(s) == {r \in Row : row[r] # None /\ row[r].bill = s}
IsCheckout(e) == e.type \in {"checkout", "resent"}
FreshRow == {r \in Row : row[r] = None /\ \A q \in Row : q < r => row[q] # None}

\* Mutant of UniqueIndexes: without the partial index on the live rows.
BillsAreUnique(rows) ==
  \A r, q \in Row :
    r # q /\ rows[r] # None /\ rows[q] # None =>
      rows[r].bill = None \/ rows[r].bill # rows[q].bill

\* DriverSubscription_user_live_key, and providerSubscriptionId @unique.
UniqueIndexes(rows) ==
  \A r, q \in Row :
    r # q /\ rows[r] # None /\ rows[q] # None =>
      /\ ~ (rows[r].status \in Live /\ rows[q].status \in Live)
      /\ rows[r].bill = None \/ rows[r].bill # rows[q].bill

Cancelled(x) == [x EXCEPT !.status = "CANCELLED"]
-----------------------------------------------------------------------------
(* The rider: startCheckout checks, then opens a session.                   *)

HoldsPlan(p) == \E r \in LiveRows : row[r].plan = p

CheckoutReads(p) ==
  /\ plan[p].active /\ plan[p].public
  /\ ~ HoldsPlan(p)
  /\ p \notin taps
  /\ taps' = taps \cup {p}
  /\ UNCHANGED <<provider, office, history, bucket, books, due, audit, moves>>

\* The provider replays the session it opened for the same key.
SessionOf(key) ==
  {s \in Session : session[s] # None /\ session[s].plan = key[1] /\ session[s].bucket = key[2]}
NewSession == {s \in Session : session[s] = None /\ \A t \in Session : t < s => session[t] # None}

CheckoutOpens(p) ==
  /\ p \in taps
  /\ taps' = taps \ {p}
  /\ IF SessionOf(<<p, bucket>>) # {}
       THEN UNCHANGED session
       ELSE \E s \in NewSession :
              session' = [session EXCEPT ![s] =
                            [plan |-> p, bucket |-> bucket, status |-> "open"]]
  /\ UNCHANGED <<agreement, now, sent, office, history, bucket, books, due,
                 audit, moves>>

NextBucket ==
  /\ bucket < MaxBucket /\ moves < MaxMove
  /\ moves' = moves + 1
  /\ bucket' = bucket + 1
  /\ UNCHANGED <<provider, office, history, taps, books, due, audit>>
-----------------------------------------------------------------------------
(* The provider.                                                            *)

Raise(type, s, status) ==
  sent' = sent \cup {[type |-> type, of |-> s, at |-> now, status |-> status]}

Tick ==
  /\ now < MaxTime /\ moves < MaxMove
  /\ moves' = moves + 1
  /\ now' = now + 1
  /\ UNCHANGED <<session, agreement, sent, office, history, bucket, taps, books,
                 due, audit>>

Pay(s) ==
  /\ session[s] # None /\ session[s].status = "open"
  /\ session' = [session EXCEPT ![s].status = "completed"]
  /\ agreement' = [agreement EXCEPT ![s] = "running"]
  /\ Raise("checkout", s, "ACTIVE")
  /\ UNCHANGED <<now, office, history, bucket, taps, books, due, audit, moves>>

Abandon(s) ==
  /\ session[s] # None /\ session[s].status = "open" /\ moves < MaxMove
  /\ moves' = moves + 1
  /\ session' = [session EXCEPT ![s].status = "cancelled"]
  /\ UNCHANGED <<agreement, now, sent, office, history, bucket, taps, books, due,
                 audit>>

\* A dashboard resend, or a replayed backlog: the same purchase, another event.
Resend(s) ==
  /\ moves < MaxMove /\ moves' = moves + 1
  /\ \E e \in sent : e.type = "checkout" /\ e.of = s
  /\ Raise("resent", s, "ACTIVE")
  /\ UNCHANGED <<session, agreement, now, office, history, bucket, taps, books, due, audit>>

\* A renewal, a failed invoice, or a status this system does not model.
Report(s) ==
  /\ agreement[s] = "running" /\ moves < MaxMove
  /\ moves' = moves + 1
  /\ \/ Raise("updated", s, "ACTIVE")
     \/ Raise("updated", s, "UNKNOWN")
     \/ Raise("failed", s, "PAST_DUE")
  /\ UNCHANGED <<session, agreement, now, office, history, bucket, taps, books,
                 due, audit>>

\* The provider gives up on an agreement by itself.
Lapse(s) ==
  /\ agreement[s] = "running" /\ moves < MaxMove
  /\ moves' = moves + 1
  /\ agreement' = [agreement EXCEPT ![s] = "ended"]
  /\ Raise("deleted", s, "CANCELLED")
  /\ UNCHANGED <<session, now, office, history, bucket, taps, books, due, audit>>
-----------------------------------------------------------------------------
(* A purchase: applyCheckoutCompleted.                                      *)

Pending(e) ==
  e \in sent \ (ledger \cup queue) /\ \A t \in flight \cup ({lock} \ {None}) : t.event # e

\* Mutant of Superseded: the row is overwritten, whatever agreement bills it.
NothingIsSuperseded(s) == {}

\* The agreement that bills the live row, if it is not the purchase itself.
Superseded(s) == {row[r].bill : r \in LiveRows} \ {s, None}

\* What a transaction under the rider's row lock has read: the live row, the agreement
\* that bills it, and the one its write ends.
Locks(e, p, status, ended) ==
  /\ lock = None
  /\ lock' = [event |-> e, plan |-> p, status |-> status, ended |-> ended,
              id   |-> IF LiveRows = {} THEN None ELSE CHOOSE r \in LiveRows : TRUE,
              bill |-> IF LiveRows = {} THEN None ELSE row[CHOOSE r \in LiveRows : TRUE].bill]

\* The agreement is stored already: paid for and granted.
PurchaseRepeated(e) ==
  /\ Pending(e) /\ IsCheckout(e)
  /\ BilledTo(e.of) # {}
  /\ ledger' = ledger \cup {e}
  /\ UNCHANGED <<provider, office, history, bucket, taps, row, queue, flight, lock, due, audit,
                 moves>>

PurchaseQueues(e) ==
  /\ Pending(e) /\ IsCheckout(e) /\ Cardinality(queue) < MaxInFlight
  /\ BilledTo(e.of) = {}
  /\ queue' = queue \cup {e}
  /\ UNCHANGED <<provider, office, history, bucket, taps, ledger, row, flight, lock, due,
                 audit, moves>>

\* The plan was archived since: filed for a human.
PurchaseUnmatched(e) ==
  /\ e \in queue /\ lock = None
  /\ ~ plan[session[e.of].plan].active
  /\ queue' = queue \ {e}
  /\ audit' = audit \cup {<<"unmatched_plan", e.of>>}
  /\ ledger' = ledger \cup {e}
  /\ UNCHANGED <<provider, office, history, bucket, taps, row, flight, lock, due, moves>>

PurchaseReads(e) ==
  /\ e \in queue
  /\ plan[session[e.of].plan].active
  /\ Locks(e, session[e.of].plan, e.status, Superseded(e.of))
  /\ queue' = queue \ {e}
  /\ UNCHANGED <<provider, office, history, bucket, taps, ledger, row, flight, due, audit,
                 moves>>

\* What is written over the live row, or into a new one: a purchase names its agreement,
\* an assignment leaves the row's as it is.
Granted(k, x) ==
  IF k.event = None
    THEN [plan |-> k.plan, status |-> k.status,
          bill |-> IF x = None THEN None ELSE x.bill, mark |-> IF x = None THEN 0 ELSE x.mark]
    ELSE [plan |-> k.plan, status |-> k.status, bill |-> k.event.of, mark |-> k.event.at]

\* A live row is taken over, unless another agreement bills it: then it is retired and
\* the plan goes to a new row n.
TakesOver(k) == k.id # None /\ (k.ended = {} \/ k.status = "CANCELLED")

Outcome(k, n) ==
  IF TakesOver(k)
    THEN [row EXCEPT ![k.id] = Granted(k, @)]
    ELSE [r \in Row |-> IF r = n THEN Granted(k, None)
                        ELSE IF r = k.id THEN Cancelled(row[r])
                        ELSE row[r]]

NewRow(k) == IF TakesOver(k) THEN {None} ELSE FreshRow

Deleted(s) == \E d \in ledger : d.type = "deleted" /\ d.of = s

\* The races: the purchase's deletion was processed first, or the row was cancelled or
\* adopted an agreement since it was read.
Overtaken(k) ==
  {s \in Session : \/ k.event # None /\ k.event.of = s /\ Deleted(s)
                   \/ /\ k.id # None /\ row[k.id].bill = s
                      /\ row[k.id].status = "CANCELLED" \/ k.bill # s}

\* The plan each agreement was paid for.
Bought == [s \in Session |-> IF agreement[s] = "none" THEN None ELSE session[s].plan]

\* The agreements whose purchase a row names, with the plan it was for.
Traced == {s \in Session : \E r \in BilledTo(s) : row[r].plan = Bought[s]}
Traces == mislaid' = mislaid \cup ({e.of : e \in honoured'} \ Traced')

\* The purchase was honoured before and its row has it: a second delivery that had
\* looked for the agreement before the first one stored it.
Repeats(k) ==
  /\ k.event.of \in {e.of : e \in honoured}
  /\ k.id # None /\ row[k.id].bill = k.event.of /\ row[k.id].plan = k.plan

LockWrites ==
  /\ lock # None
  /\ UNCHANGED <<provider, office, bucket, taps, queue, flight, audit, lost, moves>>
  /\ \E n \in NewRow(lock) :
       /\ UniqueIndexes(Outcome(lock, n))
       /\ row' = Outcome(lock, n)
  /\ ledger' = ledger \cup ({lock.event} \ {None})
  /\ due' = due \cup lock.ended
  /\ odd' = odd \cup Overtaken(lock)
  /\ honoured' = IF lock.event = None \/ Repeats(lock) THEN honoured
                 ELSE honoured \cup {lock.event}
  /\ Traces
  /\ lock' = None

\* A unique index refuses the write: rolled back, and an event is sent again.
LockFails ==
  /\ lock # None
  /\ \A n \in NewRow(lock) : ~ UniqueIndexes(Outcome(lock, n))
  /\ lock' = None
  /\ UNCHANGED <<provider, office, history, bucket, taps, ledger, row, queue, flight, due, audit,
                 moves>>

\* After the commit, best effort: what fails is put on record.
Cancels(s) ==
  /\ s \in due /\ agreement[s] = "running"
  /\ due' = due \ {s}
  /\ agreement' = [agreement EXCEPT ![s] = "ended"]
  /\ Raise("deleted", s, "CANCELLED")
  /\ UNCHANGED <<session, now, office, history, bucket, taps, books, audit, moves>>

CancelFails(s) ==
  /\ s \in due
  /\ due' = due \ {s}
  /\ audit' = audit \cup {<<"provider_cancel_failed", s>>}
  /\ UNCHANGED <<provider, office, history, bucket, taps, books, moves>>

\* The process dies between the commit and the cancellation; the redelivery is a
\* duplicate, so nobody repeats it.
Crash(s) ==
  /\ s \in due /\ moves < MaxMove
  /\ moves' = moves + 1
  /\ due' = due \ {s}
  /\ lost' = lost \cup {s}
  /\ UNCHANGED <<provider, office, odd, honoured, mislaid, bucket, taps, books, audit>>
-----------------------------------------------------------------------------
(* The other events: find a row, decide, and write it by id.                *)

\* By the agreement, else the live row of the customer's rider.
Found(e) == IF BilledTo(e.of) # {} THEN BilledTo(e.of) ELSE LiveRows

\* Mutant of Applies: cancellation is not terminal.
AppliesToCancelled(e, x) ==
  /\ e.at >= x.mark
  /\ e.type = "failed" => x.status # "PAST_DUE"

Applies(e, x) ==
  /\ e.at >= x.mark
  /\ x.status # "CANCELLED"
  /\ e.type = "failed" => x.status # "PAST_DUE"

\* Nothing to do: no row, out of order, stale or already applied.
Acknowledge(e) ==
  /\ Pending(e) /\ ~ IsCheckout(e)
  /\ \A r \in Found(e) : ~ Applies(e, row[r])
  /\ ledger' = ledger \cup {e}
  /\ UNCHANGED <<provider, office, history, bucket, taps, row, queue, flight, lock, due, audit,
                 moves>>

EventReads(e) ==
  /\ Pending(e) /\ ~ IsCheckout(e) /\ Cardinality(flight) < MaxInFlight
  /\ \E r \in Found(e) :
       /\ Applies(e, row[r])
       /\ flight' = flight \cup {[event |-> e, id |-> r, adopts |-> row[r].bill = None]}
  /\ UNCHANGED <<provider, office, history, bucket, taps, ledger, row, queue, lock, due, audit,
                 moves>>

\* Only an update adopts the agreement into a row that had none when it was read.
Written(t, x) ==
  [x EXCEPT !.status = IF t.event.status = "UNKNOWN" THEN @ ELSE t.event.status,
            !.mark   = t.event.at,
            !.bill   = IF t.adopts /\ t.event.type = "updated" THEN t.event.of ELSE @]

\* The races: the row is billed by another agreement, or was cancelled since it was
\* read, or adopts an agreement whose deletion was processed first; or a deletion that
\* read before its checkout wrote misses its own row.
Raced(t, x) ==
  {s \in {x.bill} \ {None} : s # t.event.of \/ x.status = "CANCELLED"}
    \cup {s \in {t.event.of} : \/ t.adopts /\ (x.status = "CANCELLED" \/ Deleted(s))
                               \/ t.event.type = "deleted" /\ x.bill # s}

EventWrites(t) ==
  LET rows == [row EXCEPT ![t.id] = Written(t, @)]
  IN  /\ t \in flight
      /\ UNCHANGED <<provider, office, bucket, taps, queue, lock, due, audit, lost, honoured,
                     moves>>
      /\ UniqueIndexes(rows)
      /\ row' = rows
      /\ ledger' = ledger \cup {t.event}
      /\ odd' = odd \cup Raced(t, row[t.id])
      /\ flight' = flight \ {t}
      /\ Traces

\* P2002 on another index than the ledger's: rolled back and sent again.
EventFails(t) ==
  /\ t \in flight
  /\ ~ UniqueIndexes([row EXCEPT ![t.id] = Written(t, @)])
  /\ flight' = flight \ {t}
  /\ UNCHANGED <<provider, office, history, bucket, taps, ledger, row, queue, lock, due, audit,
                 moves>>
-----------------------------------------------------------------------------
(* The administrator.                                                       *)

\* The agreement an assignment ends: cancelled outright, or moved to another plan.
EndedBy(p, status) ==
  {row[r].bill : r \in {q \in LiveRows : status = "CANCELLED" \/ row[q].plan # p}} \ {None}

Assign(p, status) ==
  /\ plan[p].active /\ moves < MaxMove
  /\ moves' = moves + 1
  /\ Locks(None, p, status, EndedBy(p, status))
  /\ UNCHANGED <<provider, office, history, bucket, taps, ledger, row, queue, flight, due, audit>>

Publish(p) ==
  /\ plan[p].active /\ moves < MaxMove
  /\ moves' = moves + 1
  /\ plan' = [plan EXCEPT ![p].public = ~ @]
  /\ UNCHANGED <<provider, counted, history, bucket, taps, books, due, audit>>

ArchiveCounts(p) ==
  /\ plan[p].active /\ p \notin counted /\ moves < MaxMove
  /\ moves' = moves + 1
  /\ ~ HoldsPlan(p)
  /\ counted' = counted \cup {p}
  /\ UNCHANGED <<provider, plan, history, bucket, taps, books, due, audit>>

ArchiveWrites(p) ==
  /\ p \in counted
  /\ counted' = counted \ {p}
  /\ plan' = [plan EXCEPT ![p].active = FALSE]
  /\ UNCHANGED <<provider, history, bucket, taps, books, due, audit, moves>>
-----------------------------------------------------------------------------
DriverBillingInit ==
  /\ plan = [p \in Plan |-> [active |-> TRUE, public |-> TRUE]]
  /\ bucket = 0 /\ taps = {} /\ now = 1 /\ moves = 0
  /\ session = [s \in Session |-> None]
  /\ agreement = [s \in Session |-> "none"]
  /\ row = [r \in Row |-> None]
  /\ sent = {} /\ ledger = {} /\ queue = {} /\ flight = {} /\ lock = None
  /\ counted = {} /\ due = {} /\ audit = {} /\ lost = {} /\ odd = {}
  /\ honoured = {} /\ mislaid = {}

Deliver ==
  \/ \E e \in sent :
       \/ PurchaseRepeated(e) \/ PurchaseQueues(e) \/ PurchaseUnmatched(e) \/ PurchaseReads(e)
       \/ Acknowledge(e) \/ EventReads(e)
  \/ \E t \in flight : EventWrites(t) \/ EventFails(t)
  \/ LockWrites \/ LockFails

DriverBillingNext ==
  \/ \E p \in Plan : \/ CheckoutReads(p) \/ CheckoutOpens(p) \/ Publish(p)
                     \/ ArchiveCounts(p) \/ ArchiveWrites(p)
                     \/ \E status \in Status : Assign(p, status)
  \/ \E s \in Session : \/ Pay(s) \/ Abandon(s) \/ Resend(s) \/ Report(s) \/ Lapse(s)
                        \/ Cancels(s) \/ CancelFails(s) \/ Crash(s)
  \/ Deliver \/ NextBucket \/ Tick

\* The provider sends an event until it is acknowledged.
DriverBillingSpec ==
  /\ DriverBillingInit
  /\ [][DriverBillingNext]_driverBillingVars
  /\ WF_driverBillingVars(Deliver)
-----------------------------------------------------------------------------
(* Properties.                                                              *)

\* The variables have their types; at most one row is live.
DriverBillingTypeOK ==
  /\ plan \in [Plan -> [active : BOOLEAN, public : BOOLEAN]]
  /\ bucket \in 0 .. MaxBucket /\ now \in Time /\ moves \in 0 .. MaxMove
  /\ taps \subseteq Plan /\ counted \subseteq Plan
  /\ session \in [Session -> Checkout \cup {None}]
  /\ agreement \in [Session -> {"none", "running", "ended"}]
  /\ sent \subseteq Event /\ ledger \subseteq sent
  /\ queue \subseteq Event /\ flight \subseteq Task
  /\ lock \in Lock \cup {None}
  /\ row \in [Row -> Subscription \cup {None}]
  /\ UniqueIndexes(row)
  /\ due \subseteq Session /\ lost \subseteq Session /\ odd \subseteq Session
  /\ audit \subseteq {"unmatched_plan", "provider_cancel_failed"} \X Session
  /\ honoured \subseteq Event /\ mislaid \subseteq Session

\* Nothing charges the rider unseen: an agreement that runs and whose checkout was
\* acknowledged is the one the live row names, or is about to be cancelled, or is on
\* record for a reconciliation (driver-subscription-events.service.ts: the old agreement
\* "would otherwise keep charging their card with nothing in this database pointing at
\* it").  Not covered: a crash before the cancellation, and a row another agreement's
\* event wrote to.
NothingChargesUnseen ==
  \A s \in Session :
    /\ agreement[s] = "running"
    /\ \E e \in ledger : IsCheckout(e) /\ e.of = s
    => \/ \E r \in LiveRows : row[r].bill = s
       \/ s \in due \cup lost \cup odd
       \/ \E what \in {"unmatched_plan", "provider_cancel_failed"} : <<what, s>> \in audit

\* No rider keeps a plan nobody pays for: once an agreement has ended, no live row names
\* it for ever, however its events were ordered (the case the terminal status and
\* lastEventAt exist for).  Not covered: a deletion that overtakes its checkout or the
\* update that adopts it, an event of another agreement, and an update or an assignment
\* that had read the row before the deletion.
EndedIsCancelled ==
  \A s \in Session :
    agreement[s] = "ended" ~> (s \in odd \/ \A r \in LiveRows : row[r].bill # s)
-----------------------------------------------------------------------------
(* Refinement: the plan the rider is on.                                    *)

Purchase == {e \in Event : IsCheckout(e)}
Claimed == {e \in sent : IsCheckout(e)}
Desk == IF lock # None /\ lock.event = None THEN lock.plan ELSE None
PlansHeld == {row[r].plan : r \in LiveRows}
PlansOnFile == {row[r].plan : r \in {q \in Row : row[q] # None}}

Riding == INSTANCE OnePlan
            WITH Agreement <- Session, Claim <- Purchase, Of <- [e \in Purchase |-> e.of],
                 bought <- Bought, claims <- Claimed, traced <- Traced, desk <- Desk,
                 held <- PlansHeld, onFile <- PlansOnFile

\* DriverBilling implements OnePlan: however the events, of which only a checkout takes
\* the rider's row lock, the administrator and the provider interleave, the rider is on
\* one plan at most.  A purchase is honoured after it was paid for, never while an
\* administrator is deciding, and once, however often its checkout is delivered or sent
\* again (until its record is mislaid); only it and the administrator's decision take the
\* rider from one plan to another, and nothing the provider reports does (the partial
\* unique index DriverSubscription_user_live_key, and the lock of the User row).
RiderKeepsOnePlan == Riding!Spec
=============================================================================
