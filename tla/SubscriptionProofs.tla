------------------------- MODULE SubscriptionProofs -------------------------
(*************************************************************************)
(* Proofs about Subscription, for any number of agreements, plans, rows  *)
(* and concurrent deliveries: a purchase is written at most once, a      *)
(* write that its row has waited for is lawful, and the whole implements *)
(* OnePlan.                                                              *)
(*************************************************************************)
EXTENDS Subscription, TLAPS

\* An open transaction is about an event that was sent and is not yet recorded.
TasksAreOpen == \A t \in flight : t.event \in sent /\ ~Duplicate(t.event)

\* The ledger insert admits one open transaction for each event.
OneTaskEach == \A t, u \in flight : t.event = u.event => t = u

\* What a transaction means to write was allowed by the row it read.
TasksAreJustified ==
  \A t \in flight :
    /\ t.step = "lock" => IsCheckout(t.event) /\ t.id = None
    /\ t.id # None => row[t.id] # Absent
    /\ IsCheckout(t.event) /\ t.id # None => t.saw.status \in Live
    /\ ~IsCheckout(t.event) => t.id # None /\ Applies(t.event, t.saw)

AdminIsJustified == admin # Idle /\ admin.id # None => row[admin.id] # Absent

Typed == TypeOK /\ TasksAreJustified /\ AdminIsJustified

\* The provider completes a checkout of an agreement, or sends it again, once it runs.
PurchasesArePaid ==
  \A e \in sent : IsCheckout(e) => agreement[e.of] \in {"running", "ended"}

\* A purchase that was honoured is in the ledger.
HonouredAreRecorded ==
  \A e \in honoured : e \in sent /\ IsCheckout(e) /\ Duplicate(e)

\* What was honoured has a row to its name, or lost it once.
LossesAreMislaid == {e.of : e \in honoured} \ Traced \subseteq mislaid

\* The administrator and a purchase never hold the operator's lock together.
OneLockHolder ==
  admin # Idle => \A t \in flight : t.step # "write" \/ ~IsCheckout(t.event)

Inv == /\ Typed /\ TasksAreOpen /\ OneTaskEach
       /\ PurchasesArePaid /\ HonouredAreRecorded /\ LossesAreMislaid /\ GrantedOnce
       /\ OneLockHolder

-----------------------------------------------------------------------------
(* The rows.                                                                *)

\* A row that exists is not the absent one.
LEMMA SubscriptionExists == Absent \notin Subscription
BY NoneAssumption DEF Absent, Subscription

LEMMA ExistingRow ==
  ASSUME TypeOK, NEW r \in Row, row[r] # Absent
  PROVE  row[r] \in Subscription
BY DEF TypeOK

LEMMA CurrentExists ==
  ASSUME TypeOK, NEW id \in Current
  PROVE  /\ id \in Row \cup {None}
         /\ id # None => /\ row[id] \in Subscription
                         /\ row[id].status \in Live
BY NoneAssumption DEF TypeOK, Current, LiveRows, Live, Absent

LEMMA SnapshotTyped ==
  ASSUME TypeOK, NEW id \in Row \cup {None}
  PROVE  Snapshot(id) \in Subscription \cup {Absent}
BY DEF TypeOK, Snapshot

LEMMA FreshIsAbsent ==
  ASSUME NEW fresh \in Fresh
  PROVE  fresh \in Row /\ row[fresh] = Absent
BY DEF Fresh, Spare

\* Retiring keeps every row a row, and touches the current one only.
LEMMA RetiredTyped ==
  ASSUME TypeOK, NEW id \in Row \cup {None}, id # None => row[id] # Absent
  PROVE  /\ Retired(id) \in [Row -> Subscription \cup {Absent}]
         /\ \A r \in Row : row[r] # Absent => Retired(id)[r] # Absent
<1>1. CASE id = None
  BY <1>1 DEF Retired, TypeOK
<1>2. CASE id # None
  <2>1. id \in Row /\ row[id] \in Subscription
    BY <1>2, ExistingRow
  <2> DEFINE old == [plan |-> row[id].plan, status |-> "CANCELLED",
                     bill |-> row[id].bill, mark |-> row[id].mark]
  <2>2. old \in Subscription
    BY <2>1 DEF Subscription, Status
  <2>3. Retired(id) = [row EXCEPT ![id] = old]
    BY <1>2 DEF Retired
  <2> HIDE DEF old
  <2> QED
    BY <2>1, <2>2, <2>3, SubscriptionExists DEF TypeOK
<1> QED
  BY <1>1, <1>2

\* A grant keeps every row a row, and no row disappears.
LEMMA GrantedTyped ==
  ASSUME TypeOK, NEW id \in Row \cup {None}, id # None => row[id] # Absent,
         NEW retire \in BOOLEAN, NEW fresh \in Fresh, NEW new \in Subscription
  PROVE  /\ Granted(id, retire, fresh, new) \in [Row -> Subscription \cup {Absent}]
         /\ \A r \in Row : row[r] # Absent => Granted(id, retire, fresh, new)[r] # Absent
<1>1. CASE id # None /\ ~retire
  BY <1>1, SubscriptionExists DEF Granted, TypeOK
<1>2. CASE ~(id # None /\ ~retire)
  <2>1. Granted(id, retire, fresh, new) = [Retired(id) EXCEPT ![fresh] = new]
    BY <1>2 DEF Granted
  <2> QED
    BY <2>1, RetiredTyped, FreshIsAbsent, SubscriptionExists
<1> QED
  BY <1>1, <1>2

-----------------------------------------------------------------------------
(* Each step keeps the variables typed and the transactions justified.      *)

LEMMA CheckoutEventTyped ==
  ASSUME NEW s \in Agreement, NEW named \in BOOLEAN, TypeOK
  PROVE  [type |-> "checkout", of |-> s, named |-> named, at |-> now,
          status |-> "ACTIVE"] \in Event
BY DEF TypeOK, Event, Checkout

LEMMA ResentTyped ==
  ASSUME NEW e \in Event, e.type = "checkout", TypeOK
  PROVE  /\ Resent(e) \in Event /\ IsCheckout(Resent(e))
         /\ Resent(e).of = e.of /\ Resent(e).named = e.named
<1>1. e \in Checkout
  BY DEF Event, Checkout
<1> QED
  BY <1>1 DEF TypeOK, Event, Checkout, IsCheckout, Resent

LEMMA FailedEventTyped ==
  ASSUME NEW s \in Agreement, TypeOK
  PROVE  [type |-> "failed", of |-> s, named |-> TRUE, at |-> now,
          status |-> "PAST_DUE"] \in Event
BY DEF TypeOK, Event

LEMMA UpdatedTyped ==
  ASSUME NEW s \in Agreement, NEW status \in Reported, TypeOK
  PROVE  Updated(s, status) \in Event
BY ReportedAssumption DEF TypeOK, Event, Updated

LEMMA DeletedTyped ==
  ASSUME NEW s \in Agreement, TypeOK
  PROVE  Deleted(s) \in Event
BY DEF TypeOK, Event, Deleted

\* What every handler may rely on of an event.
LEMMA EventFields ==
  ASSUME NEW e \in Event
  PROVE  /\ e.type \in {"checkout", "resent", "updated", "failed", "deleted"}
         /\ e.of \in Agreement /\ e.named \in BOOLEAN /\ e.at \in Time
         /\ e.status \in Status \cup {"UNKNOWN"}
         /\ ~IsCheckout(e) => e.named
         /\ IsCheckout(e) => e \in Checkout
BY DEF Event, Checkout, IsCheckout, Status, Live

LEMMA TaskFields ==
  ASSUME NEW t \in Task
  PROVE  /\ t.event \in Event /\ t.id \in Row \cup {None}
         /\ t.saw \in Subscription \cup {Absent}
         /\ t.step \in {"lock", "write"}
BY DEF Task

\* Transactions that were open already stay justified when no row disappears.
LEMMA StillJustified ==
  ASSUME Typed, flight' \subseteq flight,
         \A r \in Row : row[r] # Absent => row'[r] # Absent
  PROVE  TasksAreJustified'
<1>1. \A t \in flight : t.id \in Row \cup {None}
  BY TaskFields DEF Typed, TypeOK
<1>2. \A t \in flight : Applies(t.event, t.saw)' = Applies(t.event, t.saw)
  BY DEF Applies, isOutOfOrder
<1> QED
  BY <1>1, <1>2 DEF Typed, TasksAreJustified

LEMMA RaiseTyped ==
  ASSUME TypeOK, NEW events \in SUBSET Event, Raise(events)
  PROVE  sent' \in SUBSET Event /\ ledger' \in SUBSET (Surface \X Event)
BY DEF TypeOK, Raise, Surface

LEMMA RecordTyped ==
  ASSUME TypeOK, NEW e \in Event, Record(e)
  PROVE  ledger' \in SUBSET (Surface \X Event)
BY DEF TypeOK, Record, Surface

\* The provider, the customer and the catalogue leave rows and transactions alone.
Outside ==
  \/ Tick
  \/ \E s \in Agreement : \/ StartCheckout(s) \/ Resend(s) \/ Report(s)
                          \/ EndAgreement(s) \/ CancelAtProvider(s)
                          \/ \E named \in BOOLEAN : Pay(s, named)
  \/ \E p \in Plan : CountSubscribers(p) \/ ArchivePlan(p)

LEMMA OutsideTyped ==
  ASSUME Typed, Outside
  PROVE  Typed'
<1> USE DEF Typed, provider, history
<1>1. UNCHANGED <<row, flight, admin, honoured, mislaid>>
  BY DEF history, Outside, Resend, Tick, StartCheckout, Report, EndAgreement, CancelAtProvider, Pay,
         CountSubscribers, ArchivePlan
<1>2. TasksAreJustified' /\ AdminIsJustified'
  BY <1>1, StillJustified DEF AdminIsJustified
<1>3. TypeOK'
  <2>1. CASE Tick
    BY <2>1, BoundAssumption DEF TypeOK, Tick, Time
  <2>2. ASSUME NEW s \in Agreement, StartCheckout(s) PROVE TypeOK'
    BY <2>2 DEF TypeOK, StartCheckout
  <2>3. ASSUME NEW s \in Agreement, Report(s) PROVE TypeOK'
    <3>1. PICK event \in {Updated(s, status) : status \in Reported}
                 \cup {[type |-> "failed", of |-> s, named |-> TRUE, at |-> now,
                        status |-> "PAST_DUE"]} : Raise({event})
      BY <2>3 DEF Report
    <3>2. {event} \in SUBSET Event
      BY <3>1, UpdatedTyped, FailedEventTyped
    <3>3. sent' \in SUBSET Event /\ ledger' \in SUBSET (Surface \X Event)
      BY <3>1, <3>2, RaiseTyped
    <3> QED
      BY <1>1, <2>3, <3>3 DEF TypeOK, Report
  <2>4. ASSUME NEW s \in Agreement, EndAgreement(s) PROVE TypeOK'
    <3>1. sent' \in SUBSET Event /\ ledger' \in SUBSET (Surface \X Event)
      BY <2>4, DeletedTyped, RaiseTyped DEF EndAgreement
    <3> QED
      BY <1>1, <2>4, <3>1 DEF TypeOK, EndAgreement
  <2>5. ASSUME NEW s \in Agreement, CancelAtProvider(s) PROVE TypeOK'
    <3>1. sent' \in SUBSET Event /\ ledger' \in SUBSET (Surface \X Event)
      BY <2>5, DeletedTyped, RaiseTyped DEF CancelAtProvider, TypeOK
    <3>2. agreement' \in [Agreement -> {"none", "session", "running", "ended"}]
      BY <2>5 DEF TypeOK, CancelAtProvider
    <3> QED
      BY <1>1, <2>5, <3>1, <3>2 DEF TypeOK, CancelAtProvider
  <2>6. ASSUME NEW s \in Agreement, NEW named \in BOOLEAN, Pay(s, named) PROVE TypeOK'
    <3>1. sent' \in SUBSET Event /\ ledger' \in SUBSET (Surface \X Event)
      BY <2>6, CheckoutEventTyped, RaiseTyped DEF Pay
    <3> QED
      BY <1>1, <2>6, <3>1 DEF TypeOK, Pay
  <2>9. ASSUME NEW s \in Agreement, Resend(s) PROVE TypeOK'
    <3>1. PICK e \in sent : /\ e.type = "checkout"
                            /\ Raise({Resent(e)})
      BY <2>9 DEF Resend
    <3>2. {Resent(e)} \in SUBSET Event
      BY <3>1, ResentTyped DEF TypeOK
    <3>3. sent' \in SUBSET Event /\ ledger' \in SUBSET (Surface \X Event)
      BY <3>1, <3>2, RaiseTyped
    <3> QED
      BY <1>1, <2>9, <3>3 DEF TypeOK, Resend
  <2>7. ASSUME NEW p \in Plan, CountSubscribers(p) PROVE TypeOK'
    BY <2>7 DEF TypeOK, CountSubscribers
  <2>8. ASSUME NEW p \in Plan, ArchivePlan(p) PROVE TypeOK'
    BY <2>8 DEF TypeOK, ArchivePlan
  <2> QED
    BY <2>1, <2>2, <2>3, <2>4, <2>5, <2>6, <2>7, <2>8, <2>9 DEF Outside
<1> QED
  BY <1>2, <1>3

-----------------------------------------------------------------------------
(* Deliveries and the administrator keep the types and the justifications.  *)

LEMMA ArrivesTyped ==
  ASSUME TypeOK, NEW e, Arrives(e)
  PROVE  e \in Event
BY DEF TypeOK, Arrives

\* A transaction that joins the open ones must be justified itself.
LEMMA JoinJustified ==
  ASSUME Typed, NEW u \in Task, UNCHANGED row, flight' \subseteq flight \cup {u},
         u.step = "lock" => IsCheckout(u.event) /\ u.id = None,
         u.id # None => row[u.id] # Absent,
         IsCheckout(u.event) /\ u.id # None => u.saw.status \in Live,
         ~IsCheckout(u.event) => u.id # None /\ Applies(u.event, u.saw)
  PROVE  TasksAreJustified'
<1>1. \A t \in flight \cup {u} :
        /\ t.step = "lock" => IsCheckout(t.event) /\ t.id = None
        /\ t.id # None => row[t.id] # Absent
        /\ IsCheckout(t.event) /\ t.id # None => t.saw.status \in Live
        /\ ~IsCheckout(t.event) => t.id # None /\ Applies(t.event, t.saw)
  BY DEF Typed, TasksAreJustified
<1>2. \A t : Applies(t.event, t.saw)' = Applies(t.event, t.saw)
  BY DEF Applies, isOutOfOrder
<1> QED
  BY <1>1, <1>2 DEF TasksAreJustified

LEMMA CheckoutReadsTyped ==
  ASSUME Typed, NEW e \in sent, CheckoutReads(e)
  PROVE  Typed'
<1>1. TypeOK /\ e \in Event /\ IsCheckout(e)
  BY ArrivesTyped DEF Typed, CheckoutReads
<1>2. UNCHANGED <<provider, catalog, counted, row, admin, due, moves, honoured, mislaid>>
  BY DEF history, CheckoutReads
<1>3. AdminIsJustified'
  BY <1>2 DEF Typed, AdminIsJustified
<1>4. CASE Record(e) /\ UNCHANGED flight
  <2>1. ledger' \in SUBSET (Surface \X Event)
    BY <1>1, <1>4, RecordTyped
  <2>2. TypeOK'
    BY <1>1, <1>2, <1>4, <2>1 DEF TypeOK, provider
  <2>3. TasksAreJustified'
    BY <1>2, <1>4, StillJustified
  <2> QED
    BY <1>3, <2>2, <2>3 DEF Typed
<1>5. CASE /\ flight' = flight \cup
                {[step |-> "lock", event |-> e, id |-> None, saw |-> Absent]}
           /\ UNCHANGED ledger
  <2> DEFINE u == [step |-> "lock", event |-> e, id |-> None, saw |-> Absent]
  <2>1. /\ u \in Task /\ u.step = "lock" /\ u.id = None /\ u.event = e
        /\ flight' = flight \cup {u}
    BY <1>1, <1>5 DEF Task
  <2> HIDE DEF u
  <2>2. TypeOK'
    BY <1>1, <1>2, <1>5, <2>1 DEF TypeOK, provider
  <2>3. TasksAreJustified'
    BY <1>1, <1>2, <2>1, JoinJustified
  <2> QED
    BY <1>3, <2>2, <2>3 DEF Typed
<1> QED
  BY <1>4, <1>5 DEF CheckoutReads

LEMMA CheckoutLocksTyped ==
  ASSUME Typed, NEW t \in flight, CheckoutLocks(t)
  PROVE  Typed'
<1>1. /\ TypeOK /\ t \in Task /\ t.event \in Event /\ t.step = "lock"
      /\ IsCheckout(t.event)
  BY TaskFields DEF Typed, TypeOK, CheckoutLocks, TasksAreJustified
<1>2. UNCHANGED <<provider, catalog, counted, row, admin, due, moves, honoured, mislaid>>
  BY DEF history, CheckoutLocks
<1>3. AdminIsJustified'
  BY <1>2 DEF Typed, AdminIsJustified
<1>4. CASE Record(t.event) /\ flight' = flight \ {t}
  <2>1. ledger' \in SUBSET (Surface \X Event)
    BY <1>1, <1>4, RecordTyped
  <2>2. TypeOK'
    BY <1>1, <1>2, <1>4, <2>1 DEF TypeOK, provider
  <2>3. TasksAreJustified'
    BY <1>2, <1>4, StillJustified
  <2> QED
    BY <1>3, <2>2, <2>3 DEF Typed
<1>5. ASSUME NEW id \in Current,
             flight' = (flight \ {t}) \cup
               {[step |-> "write", event |-> t.event, id |-> id, saw |-> Snapshot(id)]},
             UNCHANGED ledger
      PROVE  Typed'
  <2> DEFINE u == [step |-> "write", event |-> t.event, id |-> id, saw |-> Snapshot(id)]
  <2>1. /\ id \in Row \cup {None}
        /\ id # None => row[id] \in Subscription /\ row[id].status \in Live
    BY <1>1, CurrentExists
  <2>2. Snapshot(id) \in Subscription \cup {Absent}
    BY <1>1, <2>1, SnapshotTyped
  <2>3. id # None => Snapshot(id) = row[id]
    BY DEF Snapshot
  <2>4. /\ u \in Task /\ u.step = "write" /\ u.id = id /\ u.event = t.event
        /\ u.saw = Snapshot(id) /\ flight' = (flight \ {t}) \cup {u}
    BY <1>1, <1>5, <2>1, <2>2 DEF Task
  <2> HIDE DEF u
  <2>5. TypeOK'
    BY <1>1, <1>2, <1>5, <2>4 DEF TypeOK, provider
  <2>6. TasksAreJustified'
    BY <1>1, <1>2, <2>1, <2>3, <2>4, JoinJustified, SubscriptionExists
  <2> QED
    BY <1>3, <2>5, <2>6 DEF Typed
<1> QED
  BY <1>4, <1>5 DEF CheckoutLocks

\* What a purchase writes is a subscription.
LEMMA PurchaseTyped ==
  ASSUME Typed, NEW t \in flight
  PROVE  Purchase(t) \in Subscription
<1>1. /\ t.event \in Event /\ t.id \in Row \cup {None}
      /\ t.id # None => row[t.id] # Absent
  BY TaskFields DEF Typed, TypeOK, TasksAreJustified
<1>2. t.event.of \in Agreement /\ t.event.at \in Time
  BY <1>1, EventFields
<1>3. t.id # None => row[t.id].bill \in Agreement \cup {None}
  BY <1>1, ExistingRow DEF Typed, Subscription
<1> QED
  BY <1>2, <1>3, PlanAssumption DEF Purchase, Subscription, Status, Live

LEMMA CheckoutCommitsTyped ==
  ASSUME Typed, NEW t \in flight, CheckoutCommits(t)
  PROVE  Typed'
<1>1. /\ TypeOK /\ t.event \in Event /\ t.event.of \in Agreement
      /\ t.id \in Row \cup {None} /\ t.saw \in Subscription \cup {Absent}
      /\ t.id # None => row[t.id] # Absent
  BY TaskFields, EventFields DEF Typed, TypeOK, TasksAreJustified
<1>2. UNCHANGED <<provider, catalog, counted, admin, moves>> /\ flight' = flight \ {t}
  BY DEF CheckoutCommits
<1>3. PICK fresh \in Fresh :
        LET rows == Granted(t.id, Supersedes(t), fresh, Purchase(t)) IN
        \/ /\ row' = rows
           /\ Record(t.event)
           /\ due' = IF Supersedes(t) THEN due \cup {t.saw.bill} ELSE due
           /\ honoured' = IF Repeats(t) THEN honoured ELSE honoured \cup {t.event}
           /\ Traces
        \/ UNCHANGED <<row, ledger, due, honoured, mislaid>>
  BY DEF CheckoutCommits, history
<1>4. CASE UNCHANGED <<row, ledger, due, honoured, mislaid>>
  <2>1. TypeOK'
    BY <1>1, <1>2, <1>4 DEF TypeOK, provider
  <2>2. TasksAreJustified' /\ AdminIsJustified'
    BY <1>2, <1>4, StillJustified DEF Typed, AdminIsJustified
  <2> QED
    BY <2>1, <2>2 DEF Typed
<1>5. CASE /\ row' = Granted(t.id, Supersedes(t), fresh, Purchase(t))
           /\ Record(t.event)
           /\ due' = IF Supersedes(t) THEN due \cup {t.saw.bill} ELSE due
           /\ honoured' = IF Repeats(t) THEN honoured ELSE honoured \cup {t.event}
           /\ Traces
  <2>1. Supersedes(t) \in BOOLEAN /\ Purchase(t) \in Subscription
    BY PurchaseTyped DEF Supersedes
  <2>2. /\ row' \in [Row -> Subscription \cup {Absent}]
        /\ \A r \in Row : row[r] # Absent => row'[r] # Absent
    <3> DEFINE id == t.id
               retire == Supersedes(t)
               new == Purchase(t)
    <3>1. row' = Granted(id, retire, fresh, new)
      BY <1>5
    <3>2. /\ id \in Row \cup {None} /\ (id # None => row[id] # Absent)
          /\ retire \in BOOLEAN /\ new \in Subscription /\ TypeOK
      BY <1>1, <2>1
    <3> HIDE DEF id, retire, new
    <3>3. /\ Granted(id, retire, fresh, new) \in [Row -> Subscription \cup {Absent}]
          /\ \A r \in Row : row[r] # Absent => Granted(id, retire, fresh, new)[r] # Absent
      BY <3>2, GrantedTyped
    <3> QED
      BY <3>1, <3>3
  <2>3. ledger' \in SUBSET (Surface \X Event)
    BY <1>1, <1>5, RecordTyped
  <2>4. honoured' \subseteq Event /\ mislaid' \subseteq Agreement
    <3>1. honoured' \subseteq Event
      BY <1>1, <1>5 DEF TypeOK
    <3> QED
      BY <1>1, <1>5, <3>1, EventFields DEF TypeOK, Traces
  <2>5. due' \subseteq Agreement
    <3>1. Supersedes(t) => t.saw.bill \in Agreement
      BY <1>1 DEF Supersedes, Subscription, Absent
    <3> QED
      BY <1>1, <1>5, <3>1 DEF TypeOK
  <2>6. TypeOK'
    BY <1>1, <1>2, <2>2, <2>3, <2>4, <2>5 DEF TypeOK, provider
  <2>7. TasksAreJustified'
    BY <1>2, <2>2, StillJustified
  <2>8. AdminIsJustified'
    BY <1>1, <1>2, <2>2, NoneAssumption DEF Typed, TypeOK, AdminIsJustified, Assignment
  <2> QED
    BY <2>6, <2>7, <2>8 DEF Typed
<1> QED
  BY <1>3, <1>4, <1>5

LEMMA FoundTyped ==
  ASSUME TypeOK, NEW e \in Event, NEW id \in Found(e)
  PROVE  /\ id \in Row \cup {None}
         /\ id # None => row[id] \in Subscription
<1>1. CASE Billed(e.of) # {}
  <2>1. id \in Row /\ row[id].bill = e.of
    BY <1>1 DEF Found, Billed
  <2>2. e.of \in Agreement
    BY EventFields
  <2>3. row[id] # Absent
    BY <2>1, <2>2, NoneAssumption DEF Absent
  <2> QED
    BY <2>1, <2>3, ExistingRow
<1>2. CASE Billed(e.of) = {}
  BY <1>2, CurrentExists DEF Found
<1> QED
  BY <1>1, <1>2

LEMMA EventReadsTyped ==
  ASSUME Typed, NEW e \in sent, EventReads(e)
  PROVE  Typed'
<1>1. TypeOK /\ e \in Event /\ ~IsCheckout(e)
  BY ArrivesTyped DEF Typed, EventReads
<1>2. UNCHANGED <<provider, catalog, counted, row, admin, due, moves, honoured, mislaid>>
  BY DEF history, EventReads
<1>3. AdminIsJustified'
  BY <1>2 DEF Typed, AdminIsJustified
<1>4. CASE Record(e) /\ UNCHANGED flight
  <2>1. ledger' \in SUBSET (Surface \X Event)
    BY <1>1, <1>4, RecordTyped
  <2>2. TypeOK'
    BY <1>1, <1>2, <1>4, <2>1 DEF TypeOK, provider
  <2>3. TasksAreJustified'
    BY <1>2, <1>4, StillJustified
  <2> QED
    BY <1>3, <2>2, <2>3 DEF Typed
<1>5. ASSUME NEW id \in Found(e), Applies(e, Snapshot(id)), UNCHANGED ledger,
             flight' = flight \cup
               {[step |-> "write", event |-> e, id |-> id, saw |-> Snapshot(id)]}
      PROVE  Typed'
  <2> DEFINE u == [step |-> "write", event |-> e, id |-> id, saw |-> Snapshot(id)]
  <2>1. /\ id \in Row \cup {None}
        /\ id # None => row[id] \in Subscription
    BY <1>1, FoundTyped
  <2>2. Snapshot(id) \in Subscription \cup {Absent}
    BY <1>1, <2>1, SnapshotTyped
  <2>3. id # None
    BY <1>5 DEF Applies, Snapshot
  <2>4. /\ u \in Task /\ u.step = "write" /\ u.id = id /\ u.event = e
        /\ u.saw = Snapshot(id) /\ flight' = flight \cup {u}
    BY <1>1, <1>5, <2>1, <2>2 DEF Task
  <2>5. Applies(u.event, u.saw)
    BY <1>5, <2>4
  <2> HIDE DEF u
  <2>6. TypeOK'
    BY <1>1, <1>2, <1>5, <2>4 DEF TypeOK, provider
  <2>7. TasksAreJustified'
    BY <1>1, <1>2, <2>1, <2>3, <2>4, <2>5, JoinJustified, SubscriptionExists
  <2> QED
    BY <1>3, <2>6, <2>7 DEF Typed
<1> QED
  BY <1>4, <1>5 DEF EventReads

\* What an event leaves of its row is a subscription.
LEMMA AppliedTyped ==
  ASSUME Typed, NEW t \in flight, ~IsCheckout(t.event)
  PROVE  Applied(t) \in Subscription
<1>1. /\ t.event \in Event /\ t.id \in Row /\ row[t.id] \in Subscription
  BY TaskFields, ExistingRow DEF Typed, TypeOK, TasksAreJustified
<1>2. /\ t.event.of \in Agreement /\ t.event.at \in Time
      /\ t.event.status \in Status \cup {"UNKNOWN"}
  BY <1>1, EventFields
<1> QED
  BY <1>1, <1>2 DEF Applied, Subscription

LEMMA EventCommitsTyped ==
  ASSUME Typed, NEW t \in flight, EventCommits(t)
  PROVE  Typed'
<1>1. /\ TypeOK /\ t.event \in Event /\ ~IsCheckout(t.event)
      /\ UNCHANGED <<provider, catalog, counted, admin, due, moves, honoured>>
      /\ flight' = flight \ {t}
  BY TaskFields DEF Typed, TypeOK, EventCommits
<1>2. CASE UNCHANGED <<row, ledger, mislaid>>
  <2>1. TypeOK'
    BY <1>1, <1>2 DEF TypeOK, provider
  <2>2. TasksAreJustified' /\ AdminIsJustified'
    BY <1>1, <1>2, StillJustified DEF Typed, AdminIsJustified
  <2> QED
    BY <2>1, <2>2 DEF Typed
<1>3. CASE row' = [row EXCEPT ![t.id] = Applied(t)] /\ Record(t.event) /\ Traces
  <2>1. Applied(t) \in Subscription
    BY <1>1, AppliedTyped
  <2>2. /\ row' \in [Row -> Subscription \cup {Absent}]
        /\ \A r \in Row : row[r] # Absent => row'[r] # Absent
    <3> DEFINE new == Applied(t)
    <3>1. new \in Subscription /\ row' = [row EXCEPT ![t.id] = new]
      BY <1>3, <2>1
    <3> HIDE DEF new
    <3> QED
      BY <1>1, <3>1, SubscriptionExists DEF TypeOK
  <2>3. ledger' \in SUBSET (Surface \X Event)
    BY <1>1, <1>3, RecordTyped
  <2>4. TypeOK'
    <3>1. mislaid' \subseteq Agreement
      BY <1>1, <1>3, EventFields DEF TypeOK, Traces
    <3> QED
      BY <1>1, <2>2, <2>3, <3>1 DEF TypeOK, provider
  <2>5. TasksAreJustified'
    BY <1>1, <2>2, StillJustified
  <2>6. AdminIsJustified'
    BY <1>1, <2>2, NoneAssumption DEF Typed, TypeOK, AdminIsJustified, Assignment
  <2> QED
    BY <2>4, <2>5, <2>6 DEF Typed
<1> QED
  BY <1>2, <1>3 DEF EventCommits

LEMMA AssignLocksTyped ==
  ASSUME Typed, NEW plan \in Plan, NEW status \in {"ACTIVE", "CANCELLED"},
         AssignLocks(plan, status)
  PROVE  Typed'
<1>1. PICK id \in Current :
        admin' = [plan |-> plan, status |-> status, id |-> id, saw |-> Snapshot(id)]
  BY DEF AssignLocks
<1>2. UNCHANGED <<provider, catalog, counted, row, ledger, flight, due, honoured, mislaid>>
  BY DEF history, AssignLocks
<1>3. /\ id \in Row \cup {None}
      /\ id # None => row[id] \in Subscription
  BY CurrentExists DEF Typed
<1>4. Snapshot(id) \in Subscription \cup {Absent}
  BY <1>3, SnapshotTyped DEF Typed
<1>5. admin' \in Assignment
  BY <1>1, <1>3, <1>4 DEF Assignment, Status, Live
<1>6. moves' \in Nat
  BY DEF Typed, TypeOK, AssignLocks
<1>7. TypeOK'
  BY <1>2, <1>5, <1>6 DEF Typed, TypeOK, provider
<1>8. TasksAreJustified'
  BY <1>2, StillJustified
<1>9. AdminIsJustified'
  BY <1>1, <1>2, <1>3, SubscriptionExists DEF AdminIsJustified
<1> QED
  BY <1>7, <1>8, <1>9 DEF Typed

LEMMA AssignCommitsTyped ==
  ASSUME Typed, AssignCommits
  PROVE  Typed'
<1>1. /\ TypeOK /\ admin \in Assignment
      /\ admin.id # None => row[admin.id] # Absent
  BY DEF Typed, TypeOK, AssignCommits, AdminIsJustified
<1>2. /\ admin.plan \in Plan /\ admin.status \in Status
      /\ admin.id \in Row \cup {None} /\ admin.saw \in Subscription \cup {Absent}
  BY <1>1 DEF Assignment
<1>3. /\ UNCHANGED <<provider, catalog, counted, ledger, flight, moves, honoured>>
      /\ admin' = Idle
  BY DEF AssignCommits
<1> DEFINE retire == EndsAgreement(admin) /\ admin.status # "CANCELLED"
           new == Assigned(admin, retire)
<1>4. PICK fresh \in Fresh :
        \/ /\ row' = Granted(admin.id, retire, fresh, new)
           /\ due' = IF EndsAgreement(admin) THEN due \cup {admin.saw.bill} ELSE due
           /\ Traces
        \/ UNCHANGED <<row, due, mislaid>>
  BY DEF AssignCommits
<1>5. retire \in BOOLEAN
  BY DEF EndsAgreement
<1>6. new \in Subscription
  <2>1. admin.id # None => row[admin.id] \in Subscription
    BY <1>1, <1>2, ExistingRow
  <2> HIDE DEF retire
  <2> QED
    BY <1>2, <2>1 DEF Assigned, Subscription
<1> HIDE DEF retire, new
<1>7. /\ row' \in [Row -> Subscription \cup {Absent}]
      /\ \A r \in Row : row[r] # Absent => row'[r] # Absent
  <2> DEFINE id == admin.id
  <2>1. /\ row' = Granted(id, retire, fresh, new) \/ row' = row
        /\ id \in Row \cup {None} /\ (id # None => row[id] # Absent)
    BY <1>1, <1>2, <1>4
  <2> HIDE DEF id
  <2>2. /\ Granted(id, retire, fresh, new) \in [Row -> Subscription \cup {Absent}]
        /\ \A r \in Row : row[r] # Absent => Granted(id, retire, fresh, new)[r] # Absent
    BY <1>1, <1>5, <1>6, <2>1, GrantedTyped
  <2> QED
    BY <1>1, <2>1, <2>2 DEF TypeOK
<1>8. due' \subseteq Agreement
  <2>1. EndsAgreement(admin) => admin.saw.bill \in Agreement
    BY <1>2 DEF EndsAgreement, Subscription, Absent
  <2> QED
    BY <1>1, <1>4, <2>1 DEF TypeOK
<1>9. TypeOK'
  <2>1. mislaid' \subseteq Agreement
    BY <1>1, <1>3, <1>4, EventFields DEF TypeOK, Traces
  <2> QED
    BY <1>1, <1>3, <1>7, <1>8, <2>1 DEF TypeOK, provider
<1>10. TasksAreJustified'
  BY <1>3, <1>7, StillJustified
<1>11. AdminIsJustified'
  BY <1>3 DEF AdminIsJustified
<1> QED
  BY <1>9, <1>10, <1>11 DEF Typed

-----------------------------------------------------------------------------
LEMMA InitTyped == Init => Typed
<1> SUFFICES ASSUME Init PROVE Typed
  OBVIOUS
<1>1. now \in Time
  BY BoundAssumption DEF Init, Time
<1>2. TypeOK
  BY <1>1 DEF Init, TypeOK
<1>3. TasksAreJustified /\ AdminIsJustified
  BY DEF Init, TasksAreJustified, AdminIsJustified
<1> QED
  BY <1>2, <1>3 DEF Typed

LEMMA NextTyped == Typed /\ [Next]_vars => Typed'
<1> SUFFICES ASSUME Typed, [Next]_vars PROVE Typed'
  OBVIOUS
<1>1. CASE Outside
  BY <1>1, OutsideTyped
<1>2. CASE Deliver
  BY <1>2, CheckoutReadsTyped, CheckoutLocksTyped, CheckoutCommitsTyped,
     EventReadsTyped, EventCommitsTyped DEF Deliver
<1>3. CASE \E p \in Plan, status \in {"ACTIVE", "CANCELLED"} : AssignLocks(p, status)
  BY <1>3, AssignLocksTyped
<1>4. CASE AssignCommits
  BY <1>4, AssignCommitsTyped
<1>5. CASE UNCHANGED vars
  <2>1. TypeOK'
    BY <1>5 DEF vars, Typed, TypeOK
  <2>2. TasksAreJustified' /\ AdminIsJustified'
    BY <1>5, StillJustified DEF vars, Typed, AdminIsJustified
  <2> QED
    BY <2>1, <2>2 DEF Typed
<1> QED
  BY <1>1, <1>2, <1>3, <1>4, <1>5 DEF Next, Outside

\* Every handler of the operator's billing keeps its variables well typed
\* (operator-subscription-events.service.ts, subscription-admin.service.ts).
THEOREM TypeCorrect == Spec => []TypeOK
<1>1. Typed => TypeOK
  BY DEF Typed
<1> QED
  BY <1>1, InitTyped, NextTyped, PTL DEF Spec

-----------------------------------------------------------------------------
(* A purchase is granted once: the ledger insert admits one transaction for *)
(* each event, and its commit closes the event.                             *)

LEMMA TaskLeaves ==
  ASSUME TasksAreOpen, OneTaskEach, NEW t \in flight, flight' = flight \ {t},
         UNCHANGED sent, UNCHANGED ledger \/ Record(t.event)
  PROVE  TasksAreOpen' /\ OneTaskEach'
<1>1. \A u \in flight \ {t} : u.event # t.event
  BY DEF OneTaskEach
<1> QED
  BY <1>1 DEF TasksAreOpen, OneTaskEach, Duplicate, Record

LEMMA TaskJoins ==
  ASSUME TasksAreOpen, OneTaskEach, UNCHANGED <<sent, ledger>>, NEW u,
         u.event \in sent, ~Duplicate(u.event),
         flight' \subseteq {t \in flight : t.event # u.event} \cup {u}
  PROVE  TasksAreOpen' /\ OneTaskEach'
BY DEF TasksAreOpen, OneTaskEach, Duplicate

LEMMA EventRecorded ==
  ASSUME TasksAreOpen, OneTaskEach, UNCHANGED <<sent, flight>>, NEW e, Record(e),
         \A t \in flight : t.event # e
  PROVE  TasksAreOpen' /\ OneTaskEach'
BY DEF TasksAreOpen, OneTaskEach, Duplicate, Record

\* Whatever is honoured stays recorded, and honoured once.
LEMMA HistoryKept ==
  ASSUME Inv, UNCHANGED honoured, sent \subseteq sent', ledger \subseteq ledger',
         mislaid \subseteq mislaid'
  PROVE  HonouredAreRecorded' /\ GrantedOnce'
BY DEF Inv, HonouredAreRecorded, GrantedOnce, Duplicate

LEMMA LossesKept ==
  ASSUME LossesAreMislaid, Traces \/ UNCHANGED <<row, sent, honoured, mislaid>>
  PROVE  LossesAreMislaid'
<1>1. CASE Traces
  BY <1>1 DEF LossesAreMislaid, Traces
<1>2. CASE UNCHANGED <<row, sent, honoured, mislaid>>
  BY <1>2 DEF LossesAreMislaid, Traced
<1> QED
  BY <1>1, <1>2

LEMMA PurchasesStay ==
  ASSUME PurchasesArePaid, UNCHANGED <<sent, agreement>>
  PROVE  PurchasesArePaid'
BY DEF PurchasesArePaid

\* A new checkout is a purchase of a session, or repeats one that was sent.
NewEvents ==
  /\ \A e \in sent' \ sent :
       IsCheckout(e) => \/ agreement[e.of] = "session" /\ agreement'[e.of] = "running"
                        \/ \E d \in sent : /\ IsCheckout(d)
                                           /\ d.of = e.of /\ d.named = e.named
  /\ \A s \in Agreement :
       agreement[s] \in {"running", "ended"} => agreement'[s] \in {"running", "ended"}

LEMMA OutsideRaises ==
  ASSUME Typed, Outside
  PROVE  NewEvents
<1>1. agreement \in [Agreement -> {"none", "session", "running", "ended"}]
  BY DEF Typed, TypeOK
<1>2. ASSUME NEW s \in Agreement, NEW named \in BOOLEAN, Pay(s, named)
      PROVE  NewEvents
  <2>1. /\ agreement[s] = "session" /\ agreement' = [agreement EXCEPT ![s] = "running"]
        /\ \A e \in sent' \ sent : e.of = s
    BY <1>2 DEF Pay, Raise
  <2> QED
    BY <1>1, <2>1 DEF NewEvents
<1>3. ASSUME NEW s \in Agreement, Resend(s)
      PROVE  NewEvents
  <2>1. PICK e \in sent :
          /\ e.type = "checkout" /\ e.of = s
          /\ Raise({Resent(e)})
    BY <1>3 DEF Resend
  <2> DEFINE again == Resent(e)
  <2>2. again.of = e.of /\ again.named = e.named /\ IsCheckout(e)
    BY <2>1, ResentTyped DEF Typed, TypeOK, IsCheckout
  <2>3. sent' \ sent \subseteq {again}
    BY <2>1 DEF Raise
  <2> HIDE DEF again
  <2>4. \A d \in sent' \ sent :
          \E c \in sent : IsCheckout(c) /\ c.of = d.of /\ c.named = d.named
    BY <2>2, <2>3
  <2>5. UNCHANGED agreement
    BY <1>3 DEF Resend
  <2> QED
    BY <2>4, <2>5 DEF NewEvents
<1>4. ASSUME NEW s \in Agreement, StartCheckout(s) PROVE NewEvents
  BY <1>1, <1>4 DEF StartCheckout, NewEvents
<1>5. ASSUME NEW s \in Agreement, Report(s) PROVE NewEvents
  <2>1. UNCHANGED agreement /\ \E e : ~IsCheckout(e) /\ sent' = sent \cup {e}
    BY <1>5 DEF Report, Raise, Updated, IsCheckout
  <2> QED
    BY <2>1 DEF NewEvents
<1>6. ASSUME NEW s \in Agreement, EndAgreement(s) \/ CancelAtProvider(s) PROVE NewEvents
  <2>1. /\ \A e \in sent' \ sent : ~IsCheckout(e)
        /\ \/ UNCHANGED agreement
           \/ agreement' = [agreement EXCEPT ![s] = "ended"]
    BY <1>6 DEF EndAgreement, CancelAtProvider, Raise, Deleted, IsCheckout
  <2> QED
    BY <1>1, <2>1 DEF NewEvents
<1>7. ASSUME \/ Tick \/ \E p \in Plan : CountSubscribers(p) \/ ArchivePlan(p)
      PROVE  NewEvents
  <2>1. UNCHANGED <<sent, agreement>>
    BY <1>7 DEF Tick, CountSubscribers, ArchivePlan, provider
  <2> QED
    BY <2>1 DEF NewEvents
<1> QED
  BY <1>2, <1>3, <1>4, <1>5, <1>6, <1>7 DEF Outside

LEMMA OutsideInv ==
  ASSUME Inv, Outside
  PROVE  Inv'
<1>1. Typed' /\ NewEvents
  BY OutsideTyped, OutsideRaises DEF Inv
<1>2. /\ UNCHANGED <<row, flight, admin, honoured, mislaid>>
      /\ sent \subseteq sent' /\ ledger \subseteq ledger'
      /\ \A e \in sent : Duplicate(e)' = Duplicate(e)
  <2>1. UNCHANGED <<row, flight, admin, honoured, mislaid>>
    BY DEF history, Outside, Resend, Tick, StartCheckout, Report, EndAgreement,
           CancelAtProvider, Pay, CountSubscribers, ArchivePlan
  <2>2. UNCHANGED <<sent, ledger>> \/ \E events : Raise(events)
    BY DEF Outside, Resend, Tick, StartCheckout, Report, EndAgreement, CancelAtProvider,
           Pay, CountSubscribers, ArchivePlan, provider
  <2>3. ASSUME NEW events, Raise(events)
        PROVE  /\ sent \subseteq sent' /\ ledger \subseteq ledger'
               /\ \A e \in sent : Duplicate(e)' = Duplicate(e)
    BY <2>3 DEF Raise, Duplicate
  <2>4. CASE UNCHANGED <<sent, ledger>>
    BY <2>1, <2>4 DEF Duplicate
  <2> QED
    BY <2>1, <2>2, <2>3, <2>4
<1>3. TasksAreOpen' /\ OneTaskEach' /\ OneLockHolder'
  BY <1>2 DEF Inv, TasksAreOpen, OneTaskEach, OneLockHolder
<1>4. HonouredAreRecorded' /\ GrantedOnce'
  BY <1>2, HistoryKept
<1>5. \A e \in sent : e.of \in Agreement
  BY EventFields DEF Inv, Typed, TypeOK
<1>6. PurchasesArePaid'
  BY <1>1, <1>5 DEF Inv, PurchasesArePaid, NewEvents
<1>7. LossesAreMislaid'
  <2> SUFFICES ASSUME NEW e \in honoured, e.of \in Traced
               PROVE  e.of \in Traced'
    BY <1>2 DEF Inv, LossesAreMislaid
  <2>1. agreement[e.of] \in {"running", "ended"}
    BY DEF Inv, HonouredAreRecorded, PurchasesArePaid
  <2>2. ASSUME NEW d \in sent', IsCheckout(d), d.of = e.of
        PROVE  d.named
    BY <1>1, <2>1, <2>2 DEF Traced, NewEvents
  <2> QED
    BY <1>2, <2>2 DEF Traced
<1> QED
  BY <1>1, <1>3, <1>4, <1>6, <1>7 DEF Inv

\* A purchase that a row names can only be written to that row: the unique index.
LEMMA OwnRow ==
  ASSUME Typed, NEW t \in flight, t.event.named, NEW fresh \in Fresh,
         row' = Granted(t.id, Supersedes(t), fresh, Purchase(t)), UniqueIndexes(row'),
         NEW r \in Row, row[r].bill = t.event.of
  PROVE  t.id = r /\ ~Supersedes(t)
<1>1. /\ TypeOK /\ t.event.of \in Agreement /\ t.id \in Row \cup {None}
      /\ t.id # None => row[t.id] # Absent
  BY TaskFields, EventFields DEF Typed, TypeOK, TasksAreJustified
<1>2. row \in [Row -> Subscription \cup {Absent}] /\ fresh \in Row /\ fresh # r
  BY <1>1, FreshIsAbsent, NoneAssumption DEF TypeOK, Absent
<1>3. Purchase(t).bill = t.event.of /\ t.event.of # None
  BY <1>1, NoneAssumption DEF Purchase
<1>4. CASE ~(t.id # None /\ ~Supersedes(t))
  <2> DEFINE id == t.id
             old == [plan |-> row[id].plan, status |-> "CANCELLED",
                     bill |-> row[id].bill, mark |-> row[id].mark]
  <2>1. row' = [Retired(id) EXCEPT ![fresh] = Purchase(t)]
    BY <1>4 DEF Granted
  <2>2. Retired(id) = IF id = None THEN row ELSE [row EXCEPT ![id] = old]
    BY DEF Retired
  <2>3. old.bill = row[id].bill /\ id \in Row \cup {None}
    BY <1>1
  <2> HIDE DEF id, old
  <2>4. row'[r].bill = row[r].bill
    BY <1>2, <2>1, <2>2, <2>3
  <2>5. row'[fresh] = Purchase(t)
    BY <1>2, <2>1, <2>2, <2>3
  <2> QED
    BY <1>2, <1>3, <2>4, <2>5 DEF UniqueIndexes
<1>5. CASE t.id # None /\ ~Supersedes(t)
  <2> DEFINE new == Purchase(t)
             id == t.id
  <2>1. row' = [row EXCEPT ![id] = new] /\ id \in Row /\ new.bill = t.event.of
    BY <1>1, <1>3, <1>5 DEF Granted
  <2> HIDE DEF new, id
  <2>2. id # r => row'[r] = row[r] /\ row'[id] = new
    BY <1>2, <2>1
  <2>3. id = r
    BY <1>3, <2>1, <2>2 DEF UniqueIndexes
  <2> QED
    BY <1>5, <2>3 DEF id
<1> QED
  BY <1>4, <1>5

\* A purchase honoured before is honoured again only after its record was mislaid.
LEMMA NotTwice ==
  ASSUME Inv, NEW t \in flight, IsCheckout(t.event), NEW fresh \in Fresh,
         row' = Granted(t.id, Supersedes(t), fresh, Purchase(t)), UniqueIndexes(row'),
         ~Repeats(t), t.event.of \in {e.of : e \in honoured}
  PROVE  t.event.of \in mislaid
<1> SUFFICES ASSUME t.event.of \notin mislaid PROVE FALSE
  OBVIOUS
<1>1. t.event.of \in Traced
  BY DEF Inv, LossesAreMislaid
<1>2. PICK r \in Row : row[r].bill = t.event.of /\ row[r].plan = PlanOf[t.event.of]
  BY <1>1 DEF Traced
<1>3. t.event.named
  BY <1>1 DEF Inv, TasksAreOpen, Traced
<1>4. t.id = r /\ ~Supersedes(t)
  BY <1>2, <1>3, OwnRow DEF Inv
<1> QED
  BY <1>2, <1>3, <1>4, NoneAssumption DEF Repeats

LEMMA CheckoutCommitsInv ==
  ASSUME Inv, NEW t \in flight, CheckoutCommits(t)
  PROVE  Inv'
<1>1. Typed'
  BY CheckoutCommitsTyped DEF Inv
<1>2. /\ flight' = flight \ {t} /\ UNCHANGED <<sent, agreement, admin>>
      /\ IsCheckout(t.event)
  BY DEF CheckoutCommits, provider
<1>3. PICK fresh \in Fresh :
        \/ /\ row' = Granted(t.id, Supersedes(t), fresh, Purchase(t))
           /\ UniqueIndexes(row')
           /\ Record(t.event)
           /\ honoured' = IF Repeats(t) THEN honoured ELSE honoured \cup {t.event}
           /\ Traces
        \/ UNCHANGED <<row, ledger, honoured, mislaid>>
  BY DEF CheckoutCommits, history
<1>4. TasksAreOpen' /\ OneTaskEach'
  BY <1>2, <1>3, TaskLeaves DEF Inv
<1>5. PurchasesArePaid' /\ OneLockHolder'
  BY <1>2, PurchasesStay DEF Inv, OneLockHolder
<1>6. LossesAreMislaid'
  BY <1>2, <1>3, LossesKept DEF Inv
<1>7. HonouredAreRecorded' /\ GrantedOnce'
  <2>1. CASE UNCHANGED <<row, ledger, honoured, mislaid>>
    BY <1>2, <2>1, HistoryKept
  <2>2. CASE /\ row' = Granted(t.id, Supersedes(t), fresh, Purchase(t))
             /\ UniqueIndexes(row')
             /\ Record(t.event)
             /\ honoured' = IF Repeats(t) THEN honoured ELSE honoured \cup {t.event}
             /\ Traces
    <3>1. ledger \subseteq ledger' /\ mislaid \subseteq mislaid'
      BY <2>2 DEF Record, Traces
    <3>2. CASE Repeats(t)
      BY <1>2, <2>2, <3>1, <3>2, HistoryKept
    <3>3. CASE ~Repeats(t)
      <4>1. honoured' = honoured \cup {t.event}
        BY <2>2, <3>3
      <4>2. HonouredAreRecorded'
        <5>1. t.event \in sent /\ <<"operator", t.event>> \in ledger'
          BY <2>2 DEF Inv, TasksAreOpen, Record
        <5>2. IsCheckout(t.event)
          BY <1>2
        <5> QED
          BY <1>2, <3>1, <4>1, <5>1, <5>2
          DEF Inv, HonouredAreRecorded, Duplicate, IsCheckout
      <4>3. t.event.of \in {e.of : e \in honoured} => t.event.of \in mislaid
        BY <1>2, <2>2, <3>3, NotTwice
      <4>4. GrantedOnce'
        BY <3>1, <4>1, <4>3 DEF Inv, GrantedOnce
      <4> QED
        BY <4>2, <4>4
    <3> QED
      BY <3>2, <3>3
  <2> QED
    BY <1>3, <2>1, <2>2
<1> QED
  BY <1>1, <1>4, <1>5, <1>6, <1>7 DEF Inv

\* The other steps of a delivery honour nothing.
LEMMA DeliverInv ==
  ASSUME Inv, Deliver
  PROVE  Inv'
<1>1. ASSUME NEW e \in sent, CheckoutReads(e) \/ EventReads(e) PROVE Inv'
  <2>1. Typed'
    BY <1>1, CheckoutReadsTyped, EventReadsTyped DEF Inv
  <2>2. /\ Arrives(e) /\ UNCHANGED <<row, sent, agreement, admin, honoured, mislaid>>
        /\ ledger \subseteq ledger'
        /\ \/ Record(e) /\ UNCHANGED flight
           \/ UNCHANGED ledger /\ \E u : /\ u.event = e /\ flight' = flight \cup {u}
                                         /\ u.step # "write" \/ ~IsCheckout(u.event)
    <3>1. CASE CheckoutReads(e)
      <4>1. /\ Arrives(e) /\ UNCHANGED <<row, sent, agreement, admin, honoured, mislaid>>
            /\ \/ Record(e) /\ UNCHANGED flight
               \/ /\ flight' = flight \cup
                       {[step |-> "lock", event |-> e, id |-> None, saw |-> Absent]}
                  /\ UNCHANGED ledger
        BY <3>1 DEF CheckoutReads, provider, history
      <4> DEFINE u == [step |-> "lock", event |-> e, id |-> None, saw |-> Absent]
      <4>2. u.event = e /\ u.step # "write"
        OBVIOUS
      <4> HIDE DEF u
      <4> QED
        BY <4>1, <4>2 DEF Record, u
    <3>2. CASE EventReads(e)
      <4>1. /\ Arrives(e) /\ UNCHANGED <<row, sent, agreement, admin, honoured, mislaid>>
            /\ ~IsCheckout(e)
            /\ \/ Record(e) /\ UNCHANGED flight
               \/ UNCHANGED ledger /\ \E u : u.event = e /\ flight' = flight \cup {u}
        BY <3>2 DEF EventReads, provider, history
      <4> QED
        BY <4>1 DEF Record
    <3> QED
      BY <1>1, <3>1, <3>2
  <2>3. TasksAreOpen' /\ OneTaskEach' /\ OneLockHolder'
    <3>1. CASE Record(e) /\ UNCHANGED flight
      BY <2>2, <3>1, EventRecorded DEF Inv, Arrives, OneLockHolder
    <3>2. ASSUME NEW u, u.event = e, flight' = flight \cup {u}, UNCHANGED ledger,
                 u.step # "write" \/ ~IsCheckout(u.event)
          PROVE  TasksAreOpen' /\ OneTaskEach' /\ OneLockHolder'
      BY <2>2, <3>2, TaskJoins DEF Inv, Arrives, OneLockHolder
    <3> QED
      BY <2>2, <3>1, <3>2
  <2>4. PurchasesArePaid' /\ LossesAreMislaid'
    BY <2>2, PurchasesStay, LossesKept DEF Inv
  <2>5. HonouredAreRecorded' /\ GrantedOnce'
    BY <2>2, HistoryKept
  <2> QED
    BY <2>1, <2>3, <2>4, <2>5 DEF Inv
<1>2. ASSUME NEW t \in flight, CheckoutLocks(t) PROVE Inv'
  <2>1. Typed'
    BY <1>2, CheckoutLocksTyped DEF Inv
  <2>2. /\ UNCHANGED <<row, sent, agreement, admin, honoured, mislaid>>
        /\ ledger \subseteq ledger' /\ admin = Idle
        /\ \/ Record(t.event) /\ flight' = flight \ {t}
           \/ UNCHANGED ledger
              /\ \E u : u.event = t.event /\ flight' = (flight \ {t}) \cup {u}
    BY <1>2 DEF CheckoutLocks, LockFree, provider, history, Record
  <2>3. TasksAreOpen' /\ OneTaskEach'
    <3>1. CASE Record(t.event) /\ flight' = flight \ {t}
      BY <2>2, <3>1, TaskLeaves DEF Inv
    <3>2. ASSUME NEW u, u.event = t.event, flight' = (flight \ {t}) \cup {u},
                 UNCHANGED ledger
          PROVE  TasksAreOpen' /\ OneTaskEach'
      <4>1. \A w \in flight \ {t} : w.event # u.event
        BY <3>2 DEF Inv, OneTaskEach
      <4>2. u.event \in sent /\ ~Duplicate(u.event)
        BY <3>2 DEF Inv, TasksAreOpen
      <4> QED
        BY <2>2, <3>2, <4>1, <4>2, TaskJoins DEF Inv
    <3> QED
      BY <2>2, <3>1, <3>2
  <2>4. PurchasesArePaid' /\ LossesAreMislaid' /\ OneLockHolder'
    <3>1. OneLockHolder'
      BY <2>2 DEF OneLockHolder, Idle
    <3> QED
      BY <2>2, <3>1, PurchasesStay, LossesKept DEF Inv
  <2>5. HonouredAreRecorded' /\ GrantedOnce'
    BY <2>2, HistoryKept
  <2> QED
    BY <2>1, <2>3, <2>4, <2>5 DEF Inv
<1>3. ASSUME NEW t \in flight, EventCommits(t) PROVE Inv'
  <2>1. Typed'
    BY <1>3, EventCommitsTyped DEF Inv
  <2>2. /\ UNCHANGED <<sent, agreement, admin, honoured>> /\ ledger \subseteq ledger'
        /\ Traces \/ UNCHANGED <<row, mislaid>>
        /\ flight' = flight \ {t} /\ (UNCHANGED ledger \/ Record(t.event))
    BY <1>3 DEF EventCommits, provider, Record
  <2>3. TasksAreOpen' /\ OneTaskEach' /\ OneLockHolder'
    BY <2>2, TaskLeaves DEF Inv, OneLockHolder
  <2>4. PurchasesArePaid' /\ LossesAreMislaid'
    BY <2>2, PurchasesStay, LossesKept DEF Inv
  <2>5. HonouredAreRecorded' /\ GrantedOnce'
    BY <2>2, HistoryKept DEF Traces
  <2> QED
    BY <2>1, <2>3, <2>4, <2>5 DEF Inv
<1> QED
  BY <1>1, <1>2, <1>3, CheckoutCommitsInv DEF Deliver

LEMMA AdminInv ==
  ASSUME Inv, \/ \E p \in Plan, status \in {"ACTIVE", "CANCELLED"} : AssignLocks(p, status)
              \/ AssignCommits
  PROVE  Inv'
<1>1. Typed'
  BY AssignLocksTyped, AssignCommitsTyped DEF Inv
<1>2. /\ UNCHANGED <<sent, agreement, flight, ledger, honoured>>
      /\ Traces \/ UNCHANGED <<row, mislaid>>
      /\ LockFree \/ admin' = Idle
  BY DEF AssignLocks, AssignCommits, provider, history
<1>3. TasksAreOpen' /\ OneTaskEach' /\ OneLockHolder'
  BY <1>2 DEF Inv, TasksAreOpen, OneTaskEach, Duplicate, OneLockHolder, LockFree, Idle
<1>4. PurchasesArePaid' /\ LossesAreMislaid'
  BY <1>2, PurchasesStay, LossesKept DEF Inv
<1>5. HonouredAreRecorded' /\ GrantedOnce'
  BY <1>2, HistoryKept DEF Traces
<1> QED
  BY <1>1, <1>3, <1>4, <1>5 DEF Inv

LEMMA InitInv == Init => Inv
<1> SUFFICES ASSUME Init PROVE Inv
  OBVIOUS
<1>1. TasksAreOpen /\ OneTaskEach /\ PurchasesArePaid /\ OneLockHolder
  BY DEF Init, TasksAreOpen, OneTaskEach, PurchasesArePaid, OneLockHolder
<1>2. HonouredAreRecorded /\ GrantedOnce /\ LossesAreMislaid
  BY DEF Init, HonouredAreRecorded, GrantedOnce, LossesAreMislaid
<1> QED
  BY <1>1, <1>2, InitTyped DEF Inv

LEMMA NextInv == Inv /\ [Next]_vars => Inv'
<1> SUFFICES ASSUME Inv, [Next]_vars PROVE Inv'
  OBVIOUS
<1>1. CASE UNCHANGED vars
  <2>1. Typed'
    BY NextTyped DEF Inv
  <2>2. UNCHANGED <<row, sent, agreement, flight, ledger, admin, honoured, mislaid>>
    BY <1>1 DEF vars
  <2>3. TasksAreOpen' /\ OneTaskEach' /\ OneLockHolder'
    BY <2>2 DEF Inv, TasksAreOpen, OneTaskEach, Duplicate, OneLockHolder, Idle
  <2>4. PurchasesArePaid' /\ LossesAreMislaid' /\ HonouredAreRecorded' /\ GrantedOnce'
    BY <2>2, HistoryKept, PurchasesStay, LossesKept DEF Inv
  <2> QED
    BY <2>1, <2>3, <2>4 DEF Inv
<1> QED
  BY <1>1, OutsideInv, DeliverInv, AdminInv DEF Next, Outside

\* A purchase is honoured once, whatever the provider delivers again, late or
\* concurrently, and under which event id: a second time only if its record was mislaid
\* (operator-subscription-events: process, applyCheckoutCompleted).
THEOREM PurchaseGrantedOnce == Spec => []GrantedOnce
<1>1. Inv => GrantedOnce
  BY DEF Inv
<1> QED
  BY <1>1, InitInv, NextInv, PTL DEF Spec

-----------------------------------------------------------------------------
(* A write whose row has waited for it.                                     *)

LawfulFor(t) ==
  (t.id # None /\ row[t.id] = t.saw) =>
     /\ (t.saw.status = "CANCELLED" => row'[t.id] = row[t.id])
     /\ (t.saw.bill # None => row'[t.id].bill = t.saw.bill)
     /\ (~IsCheckout(t.event) => row'[t.id].mark >= t.saw.mark)

\* A purchase either replaces the current row, billed by the same agreement or by
\* none, or leaves the replaced agreement its row.
LEMMA CheckoutCommitsLawfully ==
  ASSUME Typed, NEW t \in flight, CheckoutCommits(t)
  PROVE  LawfulFor(t)
<1> SUFFICES ASSUME t.id # None, row[t.id] = t.saw
             PROVE  /\ t.saw.status # "CANCELLED"
                    /\ t.saw.bill # None => row'[t.id].bill = t.saw.bill
  BY DEF LawfulFor, CheckoutCommits
<1>1. /\ t.id \in Row /\ row \in [Row -> Subscription \cup {Absent}]
      /\ t.saw.status \in Live
  BY TaskFields DEF Typed, TypeOK, TasksAreJustified, CheckoutCommits
<1>2. t.saw.status # "CANCELLED"
  BY <1>1 DEF Live
<1>3. PICK fresh \in Fresh :
        row' = Granted(t.id, Supersedes(t), fresh, Purchase(t)) \/ UNCHANGED row
  BY DEF CheckoutCommits
<1>4. ASSUME t.saw.bill # None PROVE row'[t.id].bill = t.saw.bill
  <2>1. CASE UNCHANGED row
    BY <2>1
  <2>2. CASE /\ row' = Granted(t.id, Supersedes(t), fresh, Purchase(t))
             /\ Supersedes(t)
    <3>1. fresh # t.id
      BY <1>1, FreshIsAbsent DEF Absent, Live
    <3>2. row' = [Retired(t.id) EXCEPT ![fresh] = Purchase(t)]
      BY <2>2 DEF Granted
    <3>3. Retired(t.id) = [row EXCEPT ![t.id] =
            [plan |-> row[t.id].plan, status |-> "CANCELLED",
             bill |-> row[t.id].bill, mark |-> row[t.id].mark]]
      BY DEF Retired
    <3>4. Retired(t.id)[t.id].bill = t.saw.bill
      BY <1>1, <3>3
    <3>5. row'[t.id] = Retired(t.id)[t.id]
      BY <1>1, <3>1, <3>2, <3>3
    <3> QED
      BY <3>4, <3>5
  <2>3. CASE /\ row' = Granted(t.id, Supersedes(t), fresh, Purchase(t))
             /\ ~Supersedes(t)
    <3>1. row'[t.id] = Purchase(t)
      BY <1>1, <2>3 DEF Granted
    <3>2. Purchase(t).bill = t.saw.bill
      BY <1>4, <2>3 DEF Purchase, Supersedes, BillNamedBy
    <3> QED
      BY <3>1, <3>2
  <2> QED
    BY <1>3, <2>1, <2>2, <2>3
<1> QED
  BY <1>2, <1>4

\* Any other event was checked against the row it then changes.
LEMMA EventCommitsLawfully ==
  ASSUME Typed, NEW t \in flight, EventCommits(t)
  PROVE  LawfulFor(t)
<1> SUFFICES ASSUME t.id # None, row[t.id] = t.saw
             PROVE  /\ t.saw.status # "CANCELLED"
                    /\ t.saw.bill # None => row'[t.id].bill = t.saw.bill
                    /\ row'[t.id].mark >= t.saw.mark
  BY DEF LawfulFor
<1>1. /\ t.id \in Row /\ row \in [Row -> Subscription \cup {Absent}]
      /\ row[t.id] \in Subscription /\ t.event \in Event
  BY TaskFields, ExistingRow DEF Typed, TypeOK, TasksAreJustified
<1>2. ~IsCheckout(t.event) /\ Applies(t.event, t.saw)
  BY DEF Typed, TasksAreJustified, EventCommits
<1>3. t.saw.status # "CANCELLED" /\ ~(t.saw.mark # 0 /\ t.event.at < t.saw.mark)
  BY <1>2 DEF Applies, isOutOfOrder
<1>4. t.saw.mark \in Nat /\ t.event.at \in Nat
  <2>1. t.saw.mark \in Time \cup {0} /\ t.event.at \in Time
    BY <1>1, EventFields DEF Subscription
  <2> QED
    BY <2>1, BoundAssumption DEF Time
<1>5. CASE UNCHANGED row
  BY <1>3, <1>4, <1>5
<1>6. CASE row' = [row EXCEPT ![t.id] = Applied(t)]
  <2>1. row'[t.id] = Applied(t)
    BY <1>1, <1>6
  <2>2. Applied(t).mark = t.event.at
    BY DEF Applied
  <2>3. t.saw.bill # None => Applied(t).bill = t.saw.bill
    BY DEF Applied
  <2> QED
    BY <1>3, <1>4, <2>1, <2>2, <2>3
<1> QED
  BY <1>5, <1>6 DEF EventCommits

LEMMA StepIsLawful ==
  ASSUME Typed, [Next]_vars
  PROVE  \A t \in flight \ flight' : LawfulFor(t)
<1>1. ASSUME NEW u \in flight, CheckoutLocks(u)
      PROVE  \A t \in flight \ flight' : LawfulFor(t)
  <2>1. flight \ flight' \subseteq {u} /\ u.id = None
    BY <1>1 DEF CheckoutLocks, Typed, TasksAreJustified
  <2> QED
    BY <2>1 DEF LawfulFor
<1>2. ASSUME NEW u \in flight, CheckoutCommits(u)
      PROVE  \A t \in flight \ flight' : LawfulFor(t)
  <2>1. flight \ flight' \subseteq {u}
    BY <1>2 DEF CheckoutCommits
  <2> QED
    BY <1>2, <2>1, CheckoutCommitsLawfully
<1>3. ASSUME NEW u \in flight, EventCommits(u)
      PROVE  \A t \in flight \ flight' : LawfulFor(t)
  <2>1. flight \ flight' \subseteq {u}
    BY <1>3 DEF EventCommits
  <2> QED
    BY <1>3, <2>1, EventCommitsLawfully
<1>4. CASE Outside
  BY <1>4 DEF Outside, Resend, Tick, StartCheckout, Report, EndAgreement,
         CancelAtProvider, Pay, CountSubscribers, ArchivePlan
<1>5. CASE \E e \in sent : CheckoutReads(e) \/ EventReads(e)
  BY <1>5 DEF CheckoutReads, EventReads
<1>6. CASE \/ \E p \in Plan, status \in {"ACTIVE", "CANCELLED"} : AssignLocks(p, status)
           \/ AssignCommits
           \/ UNCHANGED vars
  BY <1>6 DEF AssignLocks, AssignCommits, vars
<1> QED
  BY <1>1, <1>2, <1>3, <1>4, <1>5, <1>6 DEF Next, Outside, Deliver

\* A write whose row has not changed since it was read never reopens a cancelled
\* subscription, never takes a row from the agreement that bills it, and never
\* moves an event mark back: whatever goes wrong in the handlers of
\* operator-subscription-events.service.ts needs a row that changed under them.
THEOREM FreshWritesAreAlwaysLawful == Spec => FreshWritesAreLawful
<1>1. Typed /\ [Next]_vars =>
        [\A t \in flight \ flight' :
           (t.id # None /\ row[t.id] = t.saw) =>
              /\ (t.saw.status = "CANCELLED" => row'[t.id] = row[t.id])
              /\ (t.saw.bill # None => row'[t.id].bill = t.saw.bill)
              /\ (~IsCheckout(t.event) => row'[t.id].mark >= t.saw.mark)]_vars
  BY StepIsLawful DEF LawfulFor
<1> QED
  BY <1>1, InitTyped, NextTyped, PTL DEF Spec, FreshWritesAreLawful

-----------------------------------------------------------------------------
(* Refinement of OnePlan.                                                   *)

BillingStep == [Billing!Next]_(Billing!billing)

\* Of the rows a grant leaves, only the granted one can have another plan or a
\* status that is newly live.
LEMMA OneRowGranted ==
  ASSUME TypeOK, NEW id \in Row \cup {None}, NEW retire \in BOOLEAN,
         NEW fresh \in Fresh, NEW new \in Subscription,
         row' = Granted(id, retire, fresh, new)
  PROVE  \E target \in Row :
           /\ row'[target] = new
           /\ \A r \in Row \ {target} :
                /\ row'[r].plan = row[r].plan
                /\ row'[r].status \in Live => row[r].status \in Live
<1>1. row \in [Row -> Subscription \cup {Absent}] /\ fresh \in Row
  BY FreshIsAbsent DEF TypeOK
<1>2. CASE id # None /\ ~retire
  <2>1. id \in Row /\ row' = [row EXCEPT ![id] = new]
    BY <1>2 DEF Granted
  <2>2. row'[id] = new /\ \A r \in Row \ {id} : row'[r] = row[r]
    BY <1>1, <2>1
  <2> QED
    BY <2>1, <2>2
<1>3. CASE ~(id # None /\ ~retire)
  <2>1. row' = [Retired(id) EXCEPT ![fresh] = new]
    BY <1>3 DEF Granted
  <2>2. /\ DOMAIN Retired(id) = Row
        /\ \A r \in Row : /\ Retired(id)[r].plan = row[r].plan
                          /\ Retired(id)[r].status \in Live => row[r].status \in Live
    <3>1. CASE id = None
      BY <1>1, <3>1 DEF Retired
    <3>2. CASE id # None
      <4> DEFINE old == [plan |-> row[id].plan, status |-> "CANCELLED",
                         bill |-> row[id].bill, mark |-> row[id].mark]
      <4>1. old.plan = row[id].plan /\ old.status \notin Live
        BY DEF Live
      <4>2. id \in Row /\ Retired(id) = [row EXCEPT ![id] = old]
        BY <3>2 DEF Retired
      <4> HIDE DEF old
      <4>3. Retired(id)[id] = old /\ \A r \in Row \ {id} : Retired(id)[r] = row[r]
        BY <1>1, <4>2
      <4> QED
        BY <1>1, <4>1, <4>2, <4>3
    <3> QED
      BY <3>1, <3>2
  <2>3. row'[fresh] = new /\ \A r \in Row \ {fresh} : row'[r] = Retired(id)[r]
    BY <1>1, <2>1, <2>2
  <2> QED
    BY <1>1, <2>2, <2>3
<1> QED
  BY <1>2, <1>3

\* A live row leaves the operator on its plan and no other: the partial index.
LEMMA LiveRowWins ==
  ASSUME NEW target \in Row, row'[target].status \in Live, UniqueIndexes(row')
  PROVE  PlansHeld' = {row'[target].plan}
<1>1. LiveRows' = {target}
  BY DEF LiveRows, UniqueIndexes
<1> QED
  BY <1>1 DEF PlansHeld

LEMMA FilesGrow ==
  ASSUME NEW target \in Row, row'[target].plan # None,
         \A r \in Row \ {target} : row'[r].plan = row[r].plan
  PROVE  PlansOnFile' \subseteq PlansOnFile \cup {row'[target].plan}
BY DEF PlansOnFile

\* A transaction that is not a purchase leaves every row its plan.
LEMMA PlansKept ==
  ASSUME \A r \in Row : row'[r].plan = row[r].plan
  PROVE  PlansOnFile' = PlansOnFile
BY DEF PlansOnFile

LEMMA FewerHeld ==
  ASSUME \A r \in Row : row'[r].status \in Live =>
                          row[r].status \in Live /\ row'[r].plan = row[r].plan
  PROVE  PlansHeld' \subseteq PlansHeld
BY DEF PlansHeld, LiveRows

\* What each step does to the traces of the purchases.
LEMMA TracesHold ==
  ASSUME Inv', Traces \/ UNCHANGED mislaid
  PROVE  Billing!Traces
<1>1. honoured' \subseteq Checkout
  BY EventFields DEF Inv, HonouredAreRecorded, Typed, TypeOK
<1> DEFINE claimedOf == [e \in Checkout |-> e.of]
<1>2. {claimedOf[c] : c \in honoured'} = {e.of : e \in honoured'}
  BY <1>1
<1>3. mislaid' = mislaid \cup ({e.of : e \in honoured'} \ Traced')
  BY DEF Traces, Inv, LossesAreMislaid
<1>4. Traced' \subseteq Agreement
  BY DEF Traced
<1> QED
  BY <1>2, <1>3, <1>4 DEF Billing!Traces

\* A step that touches nothing of all this.
LEMMA Unbilled ==
  ASSUME UNCHANGED <<Bought, Claimed, honoured, Traced, mislaid, admin, row>>
  PROVE  BillingStep
BY DEF BillingStep, Billing!billing, PlansHeld, PlansOnFile, LiveRows

LEMMA NothingSent ==
  ASSUME UNCHANGED <<agreement, sent>>
  PROVE  Bought' = Bought /\ Claimed' = Claimed
BY DEF Bought, Claimed

LEMMA SameTraces ==
  ASSUME UNCHANGED <<row, sent>>
  PROVE  Traced' = Traced
BY DEF Traced

LEMMA PlanIsNamed == \A p \in Plan : p # None
BY NoneAssumption

\* A purchase that repeats leaves its row the plan it has.
LEMMA RepeatChangesNothing ==
  ASSUME Inv, Inv', NEW t \in flight, CheckoutCommits(t), Repeats(t), UNCHANGED honoured,
         NEW fresh \in Fresh, row' = Granted(t.id, Supersedes(t), fresh, Purchase(t)),
         UniqueIndexes(row'), Traces
  PROVE  BillingStep
<1>1. /\ row \in [Row -> Subscription \cup {Absent}] /\ t.event.of \in Agreement
      /\ t.id \in Row /\ row[t.id] \in Subscription
  BY TaskFields, EventFields, ExistingRow DEF Inv, Typed, TypeOK, TasksAreJustified, Repeats
<1> DEFINE p == PlanOf[t.event.of]
           new == Purchase(t)
           id == t.id
<1>2. p \in Plan /\ p # None /\ row[id].plan = p
  BY <1>1, PlanAssumption, PlanIsNamed DEF Repeats
<1>3. new.plan = p /\ new.status \in Live
  BY DEF Purchase, Live
<1>4. row' = [row EXCEPT ![id] = new] /\ id \in Row
  BY <1>1 DEF Granted, Repeats
<1>5. /\ Bought' = Bought /\ Claimed' = Claimed /\ UNCHANGED admin
      /\ Billing!Traces
  BY NothingSent, TracesHold DEF CheckoutCommits, provider
<1> HIDE DEF new, p, id
<1>6. row'[id] = new /\ \A r \in Row \ {id} : row'[r] = row[r]
  BY <1>1, <1>4
<1>7. PlansOnFile' = PlansOnFile
  BY <1>2, <1>3, <1>6, PlansKept
<1>8. PlansHeld' = {p}
  BY <1>3, <1>4, <1>6, LiveRowWins
<1>9. CASE row[id].status \in Live
  <2>1. PlansHeld' \subseteq PlansHeld
    BY <1>2, <1>4, <1>8, <1>9 DEF PlansHeld, LiveRows
  <2>2. Billing!Ends
    BY <1>5, <1>7, <2>1 DEF Billing!Ends, Billing!purchases
  <2> QED
    BY <2>2 DEF BillingStep, Billing!Next
<1>10. CASE row[id].status \notin Live
  <2>1. PlansHeld = {}
    BY <1>3, <1>4, <1>6, <1>10 DEF PlansHeld, LiveRows, UniqueIndexes
  <2>2. p \in PlansOnFile
    BY <1>2, <1>4 DEF PlansOnFile
  <2>3. Billing!Returns(p)
    BY <1>5, <1>7, <1>8, <2>1, <2>2 DEF Billing!Returns, Billing!purchases
  <2> QED
    BY <1>2, <2>3 DEF BillingStep, Billing!Next
<1> QED
  BY <1>9, <1>10

\* The commit of a purchase grants what was paid for, once.
LEMMA PurchaseGrants ==
  ASSUME Inv, Inv', NEW t \in flight, CheckoutCommits(t)
  PROVE  BillingStep
<1>1. /\ TypeOK /\ t.event \in Checkout /\ t.event.of \in Agreement
      /\ t.id \in Row \cup {None} /\ IsCheckout(t.event)
  BY TaskFields, EventFields DEF Inv, Typed, TypeOK, CheckoutCommits
<1> DEFINE s == t.event.of
<1>2. Bought' = Bought /\ Claimed' = Claimed /\ UNCHANGED <<admin, sent>>
  BY NothingSent DEF CheckoutCommits, provider
<1>3. PICK fresh \in Fresh :
        \/ /\ row' = Granted(t.id, Supersedes(t), fresh, Purchase(t))
           /\ UniqueIndexes(row')
           /\ honoured' = IF Repeats(t) THEN honoured ELSE honoured \cup {t.event}
           /\ Traces
        \/ UNCHANGED <<row, honoured, mislaid>>
  BY DEF CheckoutCommits, history
<1>4. CASE UNCHANGED <<row, honoured, mislaid>>
  BY <1>2, <1>4, SameTraces, Unbilled
<1>5. ASSUME row' = Granted(t.id, Supersedes(t), fresh, Purchase(t)), UniqueIndexes(row'),
             Traces, honoured' = honoured \cup {t.event}, ~Repeats(t)
      PROVE  BillingStep
  <2>1. t.event \in Claimed \ honoured /\ Bought[s] = PlanOf[s]
    BY <1>1 DEF Inv, TasksAreOpen, HonouredAreRecorded, PurchasesArePaid, Bought, Claimed
  <2>2. s \in {e.of : e \in honoured} => s \in mislaid
    BY <1>1, <1>5, NotTwice
  <2>3. Supersedes(t) \in BOOLEAN /\ Purchase(t) \in Subscription
    BY PurchaseTyped DEF Inv, Supersedes
  <2>4. PICK target \in Row :
          /\ row'[target] = Purchase(t)
          /\ \A r \in Row \ {target} : row'[r].plan = row[r].plan
    BY <1>1, <1>5, <2>3, OneRowGranted
  <2>5. Purchase(t).plan = PlanOf[s] /\ Purchase(t).status \in Live
    BY DEF Purchase, Live
  <2>6. PlansHeld' = {PlanOf[s]}
    BY <1>5, <2>4, <2>5, LiveRowWins
  <2>7. PlanOf[s] # None
    BY <1>1, PlanAssumption, NoneAssumption
  <2>8. PlansOnFile' \subseteq PlansOnFile \cup {PlanOf[s]}
    BY <2>4, <2>5, <2>7, FilesGrow
  <2>9. admin.plan = None
    BY <1>1 DEF CheckoutCommits, Inv, OneLockHolder, Idle
  <2>10. Billing!Traces
    BY <1>5, TracesHold
  <2>11. honoured \subseteq Checkout
    BY EventFields DEF Inv, HonouredAreRecorded, Typed, TypeOK
  <2> DEFINE claimedOf == [e \in Checkout |-> e.of]
  <2>12. claimedOf[t.event] = s /\ {claimedOf[c] : c \in honoured} = {e.of : e \in honoured}
    BY <1>1, <2>11
  <2>13. Billing!Grants(t.event)
    BY <1>2, <1>5, <2>1, <2>2, <2>6, <2>8, <2>9, <2>10, <2>12
       DEF Billing!Grants, Billing!Names, Billing!purchases
  <2> QED
    BY <1>1, <2>13 DEF BillingStep, Billing!Next
<1>6. ASSUME row' = Granted(t.id, Supersedes(t), fresh, Purchase(t)), UniqueIndexes(row'),
             Traces, UNCHANGED honoured, Repeats(t)
      PROVE  BillingStep
  BY <1>6, RepeatChangesNothing
<1> QED
  BY <1>3, <1>4, <1>5, <1>6

\* The commit of any other event ends the plan, or brings it back where the
\* operator had none.
LEMMA EventEndsOrReturns ==
  ASSUME Inv, Inv', NEW t \in flight, EventCommits(t)
  PROVE  BillingStep
<1>1. /\ row \in [Row -> Subscription \cup {Absent}]
      /\ t.id \in Row /\ row[t.id] \in Subscription
  BY TaskFields, ExistingRow DEF Inv, Typed, TypeOK, TasksAreJustified, EventCommits
<1>2. Bought' = Bought /\ Claimed' = Claimed /\ UNCHANGED <<sent, honoured, admin>>
  BY NothingSent DEF EventCommits, provider
<1>3. CASE UNCHANGED <<row, mislaid>>
  BY <1>2, <1>3, SameTraces, Unbilled
<1>4. CASE row' = [row EXCEPT ![t.id] = Applied(t)] /\ UniqueIndexes(row') /\ Traces
  <2>1. /\ row'[t.id] = Applied(t) /\ Applied(t).plan = row[t.id].plan
        /\ \A r \in Row \ {t.id} : row'[r] = row[r]
    <3>1. Applied(t).plan = row[t.id].plan
      BY DEF Applied
    <3> QED
      BY <1>1, <1>4, <3>1
  <2>2. PlansOnFile' = PlansOnFile /\ Billing!Traces
    BY <1>4, <2>1, PlansKept, TracesHold
  <2>3. CASE row'[t.id].status \in Live => row[t.id].status \in Live
    <3>1. PlansHeld' \subseteq PlansHeld
      BY <2>1, <2>3, FewerHeld
    <3>2. Billing!Ends
      BY <1>2, <2>2, <3>1 DEF Billing!Ends, Billing!purchases
    <3> QED
      BY <3>2 DEF BillingStep, Billing!Next
  <2>4. CASE row'[t.id].status \in Live /\ row[t.id].status \notin Live
    <3> DEFINE p == row[t.id].plan
    <3>1. PlansHeld' = {p}
      BY <1>1, <1>4, <2>1, <2>4, LiveRowWins
    <3>2. PlansHeld = {}
      BY <1>1, <1>4, <2>1, <2>4 DEF PlansHeld, LiveRows, UniqueIndexes
    <3>3. p \in Plan /\ p \in PlansOnFile
      BY <1>1, NoneAssumption DEF Subscription, PlansOnFile
    <3>4. Billing!Returns(p)
      BY <1>2, <2>2, <3>1, <3>2, <3>3 DEF Billing!Returns, Billing!purchases
    <3> QED
      BY <3>3, <3>4 DEF BillingStep, Billing!Next
  <2> QED
    BY <2>3, <2>4
<1> QED
  BY <1>3, <1>4 DEF EventCommits

\* The administrator opens an assignment when nobody holds the lock.
LEMMA AdminOpens ==
  ASSUME Inv, Inv', NEW plan \in Plan, NEW status \in {"ACTIVE", "CANCELLED"},
         AssignLocks(plan, status)
  PROVE  BillingStep
<1>1. /\ UNCHANGED <<row, sent, agreement, honoured, mislaid>>
      /\ admin = Idle /\ admin'.plan = plan
  BY DEF AssignLocks, LockFree, provider, history
<1>2. /\ Bought' = Bought /\ Claimed' = Claimed
      /\ PlansHeld' = PlansHeld /\ PlansOnFile' = PlansOnFile
  BY <1>1, NothingSent DEF PlansHeld, PlansOnFile, LiveRows
<1>3. admin.plan = None /\ Billing!Traces
  BY <1>1, TracesHold DEF Idle
<1>4. Billing!Opens(plan)
  BY <1>1, <1>2, <1>3 DEF Billing!Opens, Billing!purchases
<1> QED
  BY <1>4 DEF BillingStep, Billing!Next

\* The administrator puts the operator on the plan decided on, or takes it off one.
LEMMA AdminDecides ==
  ASSUME Inv, Inv', AssignCommits
  PROVE  BillingStep
<1>1. /\ TypeOK /\ admin \in Assignment /\ admin.id \in Row \cup {None}
      /\ admin.plan \in Plan /\ admin.status \in Status
      /\ admin.id # None => row[admin.id] \in Subscription
  BY ExistingRow DEF Inv, Typed, TypeOK, AdminIsJustified, AssignCommits, Assignment
<1>2. /\ Bought' = Bought /\ Claimed' = Claimed /\ UNCHANGED <<sent, honoured>>
      /\ admin.plan # None /\ admin'.plan = None
  BY <1>1, NothingSent, PlanIsNamed DEF AssignCommits, provider, Idle
<1> DEFINE retire == EndsAgreement(admin) /\ admin.status # "CANCELLED"
           new == Assigned(admin, retire)
<1>3. PICK fresh \in Fresh :
        \/ row' = Granted(admin.id, retire, fresh, new) /\ UniqueIndexes(row') /\ Traces
        \/ UNCHANGED <<row, mislaid>>
  BY DEF AssignCommits
<1>4. Billing!Traces
  BY <1>3, TracesHold
<1>5. ASSUME PlansHeld' = {admin.plan} \/ PlansHeld' \subseteq PlansHeld,
             PlansOnFile' \subseteq PlansOnFile \cup {admin.plan}
      PROVE  BillingStep
  <2>1. Billing!Decides
    BY <1>2, <1>4, <1>5 DEF Billing!Decides, Billing!Names, Billing!purchases
  <2> QED
    BY <2>1 DEF BillingStep, Billing!Next
<1>6. CASE UNCHANGED row
  <2>1. PlansHeld' = PlansHeld /\ PlansOnFile' = PlansOnFile
    BY <1>6 DEF PlansHeld, PlansOnFile, LiveRows
  <2> QED
    BY <1>5, <2>1
<1>7. CASE row' = Granted(admin.id, retire, fresh, new) /\ UniqueIndexes(row')
  <2>1. retire \in BOOLEAN
    BY DEF EndsAgreement
  <2>2. /\ new \in Subscription
        /\ new.plan = admin.plan /\ new.status = admin.status
    BY <1>1 DEF Assigned, Subscription
  <2> HIDE DEF new, retire
  <2>3. PICK target \in Row :
          /\ row'[target] = new
          /\ \A r \in Row \ {target} :
               /\ row'[r].plan = row[r].plan
               /\ row'[r].status \in Live => row[r].status \in Live
    BY <1>1, <1>7, <2>1, <2>2, OneRowGranted
  <2>4. PlansOnFile' \subseteq PlansOnFile \cup {admin.plan}
    BY <1>1, <2>2, <2>3, NoneAssumption, FilesGrow
  <2>5. CASE admin.status \in Live
    <3>1. PlansHeld' = {admin.plan}
      BY <1>7, <2>2, <2>3, <2>5, LiveRowWins
    <3> QED
      BY <1>5, <2>4, <3>1
  <2>6. CASE admin.status \notin Live
    <3>1. PlansHeld' \subseteq PlansHeld
      BY <2>2, <2>3, <2>6, FewerHeld
    <3> QED
      BY <1>5, <2>4, <3>1
  <2> QED
    BY <2>5, <2>6
<1> QED
  BY <1>3, <1>6, <1>7

\* Outside the operator's records, only a payment and its claims count.
LEMMA OutsidePays ==
  ASSUME Inv, Inv', Outside
  PROVE  BillingStep
<1>1. agreement \in [Agreement -> {"none", "session", "running", "ended"}]
  BY DEF Inv, Typed, TypeOK
<1>2. UNCHANGED <<row, admin, honoured, mislaid>>
  BY DEF history, Outside, Resend, Tick, StartCheckout, Report, EndAgreement,
         CancelAtProvider, Pay, CountSubscribers, ArchivePlan
<1>3. PlansHeld' = PlansHeld /\ PlansOnFile' = PlansOnFile /\ Billing!Traces
  BY <1>2, TracesHold DEF PlansHeld, PlansOnFile, LiveRows
<1> DEFINE claimedOf == [e \in Checkout |-> e.of]
<1>4. ASSUME NEW s \in Agreement, NEW named \in BOOLEAN, Pay(s, named)
      PROVE  BillingStep
  <2> DEFINE c == [type |-> "checkout", of |-> s, named |-> named, at |-> now,
                   status |-> "ACTIVE"]
  <2>1. Bought[s] = None /\ Bought' = [Bought EXCEPT ![s] = PlanOf[s]]
    BY <1>1, <1>4 DEF Pay, Bought
  <2>2. c \in Checkout /\ c.of = s /\ IsCheckout(c)
    BY CheckoutEventTyped, EventFields DEF Inv, Typed, IsCheckout
  <2>3. sent' = sent \cup {c}
    BY <1>4 DEF Pay, Raise
  <2> HIDE DEF c
  <2>4. Claimed' = Claimed \cup {c} /\ claimedOf[c] = s
    BY <2>2, <2>3 DEF Claimed
  <2>5. Billing!Pays(PlanOf[s], c)
    BY <1>2, <1>3, <2>1, <2>4 DEF Billing!Pays
  <2> QED
    BY <2>2, <2>5, PlanAssumption DEF BillingStep, Billing!Next
<1>5. ASSUME NEW s \in Agreement, Resend(s)
      PROVE  BillingStep
  <2>1. PICK e \in sent :
          /\ e.type = "checkout" /\ e.of = s
          /\ Raise({Resent(e)})
    BY <1>5 DEF Resend
  <2> DEFINE c == Resent(e)
  <2>2. c \in Checkout /\ c.of = s /\ IsCheckout(c) /\ IsCheckout(e)
    BY <2>1, ResentTyped, EventFields DEF Inv, Typed, TypeOK, IsCheckout
  <2>3. sent' = sent \cup {c}
    BY <2>1 DEF Raise
  <2> HIDE DEF c
  <2>4. Claimed' = Claimed \cup {c} /\ claimedOf[c] = s
    BY <2>2, <2>3 DEF Claimed
  <2>5. Bought' = Bought /\ Bought[s] = PlanOf[s] /\ PlanOf[s] # None
    BY <1>5, <2>1, <2>2, PlanAssumption, NoneAssumption
       DEF Resend, Inv, PurchasesArePaid, Bought
  <2>6. Billing!ClaimsAgain(c)
    BY <1>2, <1>3, <2>4, <2>5 DEF Billing!ClaimsAgain
  <2> QED
    BY <2>2, <2>6 DEF BillingStep, Billing!Next
<1>6. ASSUME Bought' = Bought, Claimed' = Claimed
      PROVE  BillingStep
  <2>1. Billing!Ends
    BY <1>2, <1>3, <1>6 DEF Billing!Ends, Billing!purchases
  <2> QED
    BY <2>1 DEF BillingStep, Billing!Next
<1>7. ASSUME NEW s \in Agreement,
             StartCheckout(s) \/ Report(s) \/ EndAgreement(s) \/ CancelAtProvider(s)
      PROVE  BillingStep
  <2>1. Claimed' = Claimed
    BY <1>7 DEF StartCheckout, Report, EndAgreement, CancelAtProvider, Raise, Updated,
                Deleted, IsCheckout, Claimed
  <2>2. Bought' = Bought
    BY <1>1, <1>7 DEF StartCheckout, Report, EndAgreement, CancelAtProvider, Bought
  <2> QED
    BY <1>6, <2>1, <2>2
<1>8. ASSUME \/ Tick
             \/ \E p \in Plan : CountSubscribers(p) \/ ArchivePlan(p)
      PROVE  BillingStep
  BY <1>6, <1>8, NothingSent DEF Tick, CountSubscribers, ArchivePlan, provider
<1> QED
  BY <1>4, <1>5, <1>7, <1>8 DEF Outside

LEMMA StepBills ==
  ASSUME Inv, Inv', [Next]_vars
  PROVE  BillingStep
<1>1. CASE UNCHANGED <<agreement, sent, row, admin, honoured, mislaid>>
  BY <1>1, NothingSent, SameTraces, Unbilled
<1>2. ASSUME \/ \E e \in sent : CheckoutReads(e) \/ EventReads(e)
             \/ \E t \in flight : CheckoutLocks(t)
             \/ UNCHANGED vars
      PROVE  UNCHANGED <<agreement, sent, row, admin, honoured, mislaid>>
  BY <1>2 DEF CheckoutReads, EventReads, CheckoutLocks, vars, provider, history
<1> QED
  BY <1>1, <1>2, OutsidePays, PurchaseGrants, EventEndsOrReturns, AdminOpens, AdminDecides
     DEF Next, Outside, Deliver

\* The operator's subscriptions implement OnePlan: however the deliveries, the
\* administrator and the provider interleave, the operator is on one plan at most; only
\* the plan an administrator is deciding on, at the decision, and a purchase that was paid
\* for replace one plan by another, the purchase once however often it is sent again
\* (until its record is mislaid); a late report ends a plan or revives one
\* (operator-subscription-events.service.ts, subscription-admin.service.ts).
THEOREM SubscriptionKeepsOnePlan == Spec => KeepsOnePlan
<1>1. Init => Billing!Init
  BY NoneAssumption DEF Init, Billing!Init, Bought, Claimed, Traced, Idle, PlansHeld,
     PlansOnFile, LiveRows, Live, Absent
<1>2. Inv /\ Inv' /\ [Next]_vars => BillingStep
  BY StepBills
<1> QED
  BY <1>1, <1>2, InitInv, NextInv, PTL DEF Spec, KeepsOnePlan, Billing!Spec,
     BillingStep
=============================================================================
