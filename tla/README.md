# Verification of the sPark parking API

TLA+ models of the parts of the sPark API in which something can go wrong between
two steps: who holds a parking slot, what became of the money, what a scanned code
may do, which plan a tenant or a rider is billed for, who belongs to which operator
and in which role, what may be deleted and when, what a stay costs, where the
catalogue of facilities comes from, and which sessions and links still work. Every
definition is translated from
the TypeScript under `src/`; `PROJECT.json` names the lines each one stands for
(`map`). Path names below are relative to `src/src` unless they say otherwise.

- [The system](#the-system)
- [The modules](#the-modules)
- [The runs](#the-runs)
- [What is proved](#what-is-proved)
- [Where the code departs from what it says](#where-the-code-departs-from-what-it-says)
- [What is not modelled](#what-is-not-modelled)
- [Plan](#plan)

## The system

A NestJS application over one Postgres database (Prisma), a Redis, two payment-side
providers (one for bookings, one for subscriptions) and an identity provider.
Several replicas may run; nothing but Postgres and Redis is shared between them.
Three BullMQ jobs run on a clock: the cleanup of expired holds (every minute), the
purge of archived resources (hourly) and the drivers' savings report (daily); the importer
of the public catalogue has queues of its own.

The transactions run at Read Committed. That is the single most important fact
about this code: a read in a transaction says nothing about the same row at the
time of the write, unless the row was locked first. Locks are taken on one
`Facility` row (`inventory.service.ts:75`), on `ParkingOperator` rows (facility
and tariff creation, member changes, invites, restores, subscription changes) and
on `User` rows. Booking and payment rows are never locked: their handlers read,
decide and later write by id. So the models split such a handler into a read step
and a write step, with every other actor free to move in between.

| component | state it keeps | operations | what is hard | what makes it correct |
|---|---|---|---|---|
| inventory (`inventory/`) | `Booking.status`, `expiresAt`; `Facility.onlineQuota` and flags | `holdSlot`, `releaseExpiredHolds`, the overlap counts | two holds for the last slot; a hold that lapses while it is being paid; a quota that shrinks | no more cars entitled to a place than places; abandoned holds end |
| booking (`booking/booking.service.ts`) | `Booking`, `Payment`, `Refund` | create, replay, confirm, cancel and refund, check in, check out | idempotency keys; crashes between the hold, the provider and the row; the two-phase refund | one booking per key; books that never claim money that has not moved |
| payment events (`booking/payment-events.service.ts`) | `WebhookEvent` ledger, and the rows above | succeeded, failed, refunded, refund failed | late, repeated, reordered deliveries against the booking handlers | each fact applied once; nobody confirmed who has not paid |
| tickets (`booking/ticket.service.ts`, `qr-ticket.ts`, `qr-replay.cache.ts`) | `qrSecret`, access code, a nonce in Redis | issue, verify QR, verify access code, claim, settle | two gates and one code; clock skew and drift; Redis without its keys | a code is redeemed once; an invalid one burns nothing |
| operator subscriptions (`subscriptions/operator-*`, `subscription-admin.service.ts`) | `OperatorSubscription`, the ledger per surface | checkout, four webhook events, assign, override, archive a plan | events out of order over unlocked rows; agreements replaced while their events are under way | a purchase is granted once; no event acts on another agreement |
| driver subscriptions (`subscriptions/driver-*`) | `DriverSubscription` | the same for riders | the same, under a `User` lock | the same |
| entitlements (`subscriptions/entitlement.service.ts`) | none of its own: counts of facilities, tariff plans, seats | the assertions other services run under the operator lock | every create, restore and invite must take the same lock | usage never passes the quota by a create |
| tariffs (`tariff/`) | `TariffPlan`, its version and schedule | create, update, restore, quote | a version computed from an unlocked read; a pricing loop with caps and rounding | a version names one schedule; a price does not depend on the route to it |
| facilities (`facilities/`) | `Facility`, media, the cluster index in memory | create, edit, shut down, search | the shutdown check against holds in flight; a cache rebuilt during a write | nobody is left without a place who was promised one |
| lifecycle (`lifecycle/`) | `lifecycleStatus`, `purgeAfter`, `PendingApproval` | archive, restore, purge, two-person approval | references counted outside the purging transaction; approvals that outlive the approver | nothing purged that is still referenced, and only on two decisions |
| invites and memberships (`invite/`, `operators/`, `managers/`) | `OperatorInvite`, `OperatorMembership`, `User.role` | invite, resend, revoke, accept, remove, change role | accept against revoke; a role derived from rows that two locks protect | a VERIFIED operator keeps an administrator; the role follows the memberships |
| identity (`identity/`, `auth/`) | `User`, approvals, reset tokens | grant and withdraw platform roles, reset a password, delete an account | two approvals at once | a SUPER_ADMIN remains |
| ingestion (`ingestion/`) | `RawPlace`, ingestion runs | sweep, fetch, normalise, promote | a transient failure taken for a bad place | a place is promoted once |
| audit, notifications, analytics, maps, profile, throttling, health | append-only rows, mail, counters | reports and proxies | best effort by design | not part of any guarantee above |

How they meet: `booking` calls `inventory` for the hold, the payment provider for
intents, captures and refunds, and `tariff` for a quote; the provider calls back
through `payment-events`; `ticket` and `booking` both write the check-in; the
cleanup job writes bookings that `booking` is confirming; `facilities` and
`lifecycle` close what `booking` sells; `subscription` changes the quotas that
`facilities`, `tariff` and `invite` assert.

## The modules

All the modules that have requests of several people write them the same way: a
request is a slot of `flight` (or of `handler`, `conf`, `canc`, `hook`), which
remembers what an earlier statement has read; every later statement is a step of its
own, and everybody else may move in between. A lock is a slot that the others wait
for. Variables marked "history" in a module are written and never read by its actions:
they name the cases a property sets apart, so that a run shows both that the property
holds without them and, in [the departures](#where-the-code-departs-from-what-it-says),
what they do to it.

### Holds

One facility, its quota and its flags, and a set of attempts to book it. A hold is
the transaction of `holdSlot` in three steps: `LockFacility` (the `FOR UPDATE`),
`CountFree` or `Refuse` (flags, then the overlap count against the quota),
`InsertHold`; `RollBackHold` is the crash or the unique violation. Every other
writer of the booking (`captureAndConfirm`, the success and failure webhooks,
`cancelBooking`, the gate) is an entry of `handler`: it reads the row without a
lock and writes later, whatever the row has become. `SetQuota`, `ShutdownChecks`,
`ShutdownWrites` and `Reopen` are the administrator, `ReleaseExpiredHolds` the job,
`Tick` the database clock. The history variable `peak` is the largest quota there
has been, `revived` the bookings confirmed after they had lost their slot.

### Checkout

`createBooking` up to the answer, for several requests and idempotency keys: the
pre-read, the quote (prices may move between requests), the hold with its loop of
access codes, the payment intent, the payment row, the answer. A crash (`Fail`) can
come between any two; the client then tries again and is answered by
`replayBookingResult`, which returns the stored intent, refuses one that does not
match, or heals a booking whose payment row is missing. The provider remembers an
idempotency key for a while (`WindowLapses`) and then opens a new intent for it.

### Settlement and MoneyTrail

The money of one booking. `conf`, `canc`, `hook` and `gate` are what each
confirmer, canceller, webhook delivery and gate has decided from what it read and is
about to do: `captureAndConfirm` in its read, its capture, its fresh read and its
write; `cancelBooking` with the marker, the provider call and the settlement of
`refundAndCancel`; `payment-events` with the ledger insert and the plan it made. The
provider knows the truth: `funds` (unpaid, authorised, captured), `back` (who had the
money returned) and `reply`, the answer it stored under the refund's idempotency key
and will give again. `AutoCapture` and `StatusOnRefunds` set the two ways in which
the Stripe adapter may differ from what the handlers are written for: who captures, and
whether the provider's refund events carry a status. `payment-events.service.spec.ts:32-34`
feeds events that do, and the mock adapter passes on any status it is handed;
`StripeProvider.ts:155-164` drops it. `Settlement_pays` takes TRUE, where the refund
handlers have something to do; FALSE is the Stripe adapter; the theorems hold for both.

`MoneyTrail` is the abstract promise: money is with the customer, taken, or
returned; this system asks for a return only after writing down that it will; and
the books, the status of the booking among them, never show a movement that has not
happened. `Settlement!KeepsTheTrail`
is its specification under the refinement mapping defined beside it.

### Ticket

One booking's codes. A QR code is a pair of secret and minute, genuine when it was
issued; a scan judges it (signature, window, status), claims its nonce in Redis and
settles by a compare-and-set on the booking. Time is a counter of minutes; each
instance reads a clock at most `Drift` away from it, and `Latency` bounds the delay
from the window check to the claim. `CacheRestarts` empties Redis.

### Subscription

The billing of one operator. Its rows (`row`) have the two unique indexes of the
migration: one live row per operator, one row per provider agreement. The provider
raises events about `agreement`s; a delivery is a transaction (`flight`) that
inserts the ledger row, reads, for a checkout waits for the operator lock and reads
again, and then writes by id or rolls back. A completed checkout may not name the
subscription it opened (`named`), and it may be sent once more under another event id
(`Resend`), which the ledger cannot recognise and the lookup by agreement has to
(`operator-subscription-events.service.ts:249-258`). `AssignLocks` and `AssignCommits`
are the administrator's transaction, `CancelAtProvider` the best-effort call after a
commit. `CountSubscribers` and `ArchivePlan` are the two unlocked halves of `archivePlan`.
The provider serves the driver endpoint of the same account first, whose ledger row
must not hide the operator's. TRIALING is merged with ACTIVE: no handler tells them
apart. An update always carries the period's end, as Stripe's does, so the branch
that drops one with neither status nor period is not reached. `Reported` bounds the
statuses an update carries. `honoured` (the checkouts that put the operator on their plan)
and `mislaid` (agreements honoured whose purchase no row names any more, or never did) are
history.

### OnePlan

The abstract promise of a customer's billing, which `Subscription` (of operators) and
`DriverBilling` (of riders) both implement. `bought` is what each agreement was paid for,
`claims` what the provider has sent of a purchase, `honoured` the claims that were acted on,
`traced` the agreements whose purchase the records name and `mislaid` those honoured that
were not always traced since; `desk` is the plan the administrator is deciding on, `held`
the plans the customer is on and `onFile` those their rows name.

The customer's plan changes in two ways only. A claim `Grants` the plan that was paid for,
over whatever is held, never while the administrator is deciding, and once: another claim
of the same purchase (`ClaimsAgain`) counts for nothing unless the record of the purchase was
mislaid. And the administrator `Opens` a decision on a plan and `Decides`: the customer
is put on that plan and no other, or what they hold is ended, or nothing changes.
Whatever else the provider reports `Ends` what is held or, where nothing is held, brings
a plan on file back (`Returns`); no report swaps one plan for another, and no action
leaves two. `Returns` is there because the code does it: a renewal that read its row before
the row was cancelled reopens it (see
[the departures](#where-the-code-departs-from-what-it-says)), and what bounds the damage is
the partial unique index, not the handlers. `desk` is the transaction that holds the
customer's row (`admin` in `Subscription`, the rider's `lock` without an event in
`DriverBilling`), so a step of a webhook handler cannot pass for the administrator's.

### Membership

Who belongs to which operator (`invite.service.ts`, `operator-members.service.ts`,
`identity.service.ts`, `auth` for registration, the seats of
`entitlement.service.ts`, `resource-managers.service.ts`). Variables: `status` of each
operator, the seats its plan includes (`limit`), the role of the `account` at each
address, `member`, `manager`, `invite`, and the requests in `flight`. An acceptance is
its unlocked read, the identity it provisions at the provider, the transaction that
claims the invite by a compare-and-set and upserts the membership, and the clean-up
when that fails; a resend, a revocation, a supersession, a healing of a lapsed link, a
removal or change of role under the operator's lock, a registration, a purge and the
platform's verification run beside it. The plan changes under the operator's lock when it
is assigned (`AssignPlan`) or bought (`BuyPlan`), and without it when the provider ends or
updates it (`EndPlan`) and when the plan itself is edited (`EditReads`, `EditWrites`), so
that it can change between a count and an insert. `unpaid`, `bereft`, `astray` and, of the
latter, `recast` are history.

### Lifecycle

Archive, tombstone, restore and purge of a facility, an operator and people
(`lifecycle.service.ts`, `lifecycle-admin`, `lifecycle-approval`, `lifecycle-purge`),
the demotion of a super administrator (`identity-approval.service.ts`) and the deletion
of one's own account. `life` is the status, `trash` the tombstones in the order the
sweep reads them, `due` those whose window has passed, `approval` the
`PendingApproval` rows, `sweep` the run of the hourly job, which looks at a batch of
each kind, checks what still refers to an item outside the purging transaction and
then purges it under the status it read. `booking` is what the customer has at each
facility, with the refund that closing one sets off, and `paying` the bookings with a
confirmation at work: it has read the deadline (`Pay`) and confirms (`Confirm`) whatever
the booking has become, one that lapsed or was cancelled meanwhile included. A
tombstone's window is one of days, so it does not pass over a hold or a capture of that
customer (`Paused`); a purge on two administrators' word waits for neither.
`recycled`, `crossed` and `late` (bookings confirmed so after their customer was checked)
are history.

### Catalogue

What one operator sells (`tariff.service.ts`, `facilities.service.ts`,
`entitlement.service.ts`, the plans and facilities of `lifecycle.service.ts`, the quote
and check-out of `booking.service.ts`). `plan` rows have a version, a default mark and
a schedule; `facility` rows a kind, their flags and the plan `assigned` to them;
`quota` is what the subscription allows, `lock` the operator's row. Additions count and
insert under the lock; an edit reads first, computes version + 1 and hands the default
on, and locks only when it adds to the count. `pin` is what a booking was quoted, and
`bill` the schedule it is charged by at check-out, which reads the plan again in two
statements. `tangled` and `astray` are history.

### Pricing

One request: a draft is validated (`schedule-validation.ts`), then one stay is priced by
it (`pricing-engine.ts`), one iteration of the loop per step: the minutes rounded up,
the grace, the increments, the window of the minute on the wall clock, the tier, the
blocks, the caps, the rider's discount and the commission. The clocks may change under
the stay. A week is `Days` days of `DayMinutes` minutes, so that a small stay meets
every edge of a real one. `Due` is the reference: what the schedule says of a stay,
stated over its set of minutes and without a loop.

### DriverBilling

The billing of one rider. `taps` are checkouts that have passed their checks and will
open a `session` under a key of ten minutes (`bucket`); a paid session is an
`agreement`, about which the provider raises events (`sent`) and delivers them until
the `ledger` has them. The checkout event and an assignment hold the rider's row
(`lock`); the other events read without it (`flight`) and write later. `due` are
agreements to be cancelled after the commit, `audit` what a reconciliation would find,
`counted` the plans whose archiving has counted no subscriber. A checkout may be sent again
under another event id; one whose agreement no row names waits in `queue` for the rider's
row. `lost`, `odd`, `honoured` and `mislaid` are history.

### Ingestion

The importer of the public catalogue. A region is cut into `tile`s per source; a fetch
`job` of a BullMQ `queue` marks its tile, asks the source (`world`), lands what it got
as `raw` places, or splits a tile that overflows into quadrants with jobs of their own;
it is retried after a failure and comes back after a stall. The `sweep` enqueues the
tiles, waits for them up to a ceiling and promotes what landed; a promote `drain` can
run beside it. Promotion reads a batch, looks for a facility (`fac`) of the same lot,
and links, creates, merges or rejects. `refresh` is the daily re-read of one Google
facility, with its answer from the source between its read and its write. An
administrator may `Archive` an imported facility and `Restore` it; the deduplication query
still finds it, the read that follows does not return it, and the place is created. At the
start the catalogue may hold rows from before the classification, of unknown kind, some of
them synced with Google already. `raced`, `doubled` and `inherited` are history.

### Accounts

Passwords, sessions and the invitations of platform administrators, for one address,
whose account may be deleted and followed by another. `account` carries its role,
password and the watermark `validFrom` before which a token is refused; `session` is
every token ever issued; `invite` counts the links mailed for it; `grant` is a request
to reset a password. Sign-in (with its rehash), refresh, sign-out, a change of role,
the redemption of an invitation with the account it creates and the clean-up of a
failed one, a request for a reset (its lookup, and the mint in a later transaction), and
a reset's consume, search, write and revocation are `flight`s of several steps. A reset
writes to whoever holds the address its grant was read with: of a grant of a deleted
account that is the address the deletion left behind, so the password lands on the
tombstone (`Bearers`). A watermark is `Taken` when the change starts to write, up to a
second before it commits. A redemption whose undoing failed leaves the account LOGGED, one
whose process died leaves it ABANDONED, with no line in any log. `dead`, `worn`, `newest`
and `torn` are history.

### MC modules and proof modules

Each module `M` that is run has an `MCM` that gives its constants values TLC can
enumerate. `HoldsProofs`, `CheckoutProofs`, `SettlementProofs`, `TicketProofs`,
`SubscriptionProofs`, `MembershipProofs`, `AccountsProofs` and `TariffProofs` hold the
theorems; each extends the component it is named for. Four also extend a second one,
with which it shares no name: `HoldsProofs` extends `Ingestion`, `CheckoutProofs`
`DriverBilling`, `SettlementProofs` `Lifecycle`, and `TariffProofs` `Catalogue` and
`Pricing`. So `Ingestion`, `DriverBilling`, `Lifecycle` and `Pricing` carry their names in
front of `Init`, `Next`, `Spec` and `TypeOK`. An operator whose comment starts with
"Mutant of" is the form of a definition a plausible bug would give it; replacing the
definition by it must break the property `PROJECT.json` pairs it with.

`TypeOK` is the type invariant of each module, and is proved of all twelve. To see it
checked on the instances below, add it (or the name it has there) to the cfg, under
INVARIANTS.

## The runs

All twelve finish without an error. `Holds_facility`, `Checkout_replay` and
`Subscription_billing` run their `FairSpec`; `Ingestion_sweep` runs `MCSpec`, which is
`IngestionSpec` from the initial states its row names; the others run `Spec`, which states fairness where it says so below.

| run | asks | instance |
|---|---|---|
| `Holds_facility` | Are holds serialised, do they respect the facility, do abandoned ones end? | three stays of which the third overlaps both others, quotas 1 and 2, a hold of 1 tick, a clock to 3, one handler between its read and its write |
| `Checkout_replay` | One creator per key, tracked secrets, healing after a crash | three requests of one key, two access codes, two prices, one crash, one lapse of the provider's memory |
| `Settlement_pays` | Is whoever is confirmed paid for, do the books keep the trail? | one confirm, one cancel, the gate, one fault, a provider that captures by itself and reports refunds |
| `Ticket_barriers` | Are codes redeemed once and bookings checked in once? | two scans, skew 1, drift 1, latency 1, TTL 5, six minutes, a cache that may restart |
| `Subscription_billing` | Is a purchase granted once, are unraced writes lawful, is every event acknowledged in the end, is the operator on one plan (`OnePlan`)? | two agreements for two plans, checkouts that name their subscription or not and are sent again, four rows, two deliveries at once, two moves (assignments, archived plans, updates) |
| `Membership_seats` | Who belongs where, in which role, on whose seat and under which administrator? | two people, two operators, two invites of two links each, plans of one seat (the default) and of two that are assigned, bought, edited and ended, two requests at once, six in all |
| `Lifecycle_retention` | What is removed, when, and on whose word? | a facility, its operator, three people of whom two are super administrators, two approvals, a booking whose capture may outlast it, two requests at once, batches of 1, four moves |
| `Catalogue_plans` | Do quota, default, assignments and pinned versions survive overlapping edits? | three plans, two facilities, one stay, four kinds of draft, quotas to 2, two requests at once, four in all |
| `Pricing_schedule` | Is every stay priced, and priced as the schedule says? | drafts of 10 tierings, 6 week plans, rising and falling prices, 3 sets of caps, 2 graces and 2 increments, and some broken grids; 39 stays; a week of two days of three minutes, 6 billable minutes |
| `DriverBilling_rider` | Is anything charged unseen, does an ended agreement leave a plan, is the rider on one plan (`OnePlan`)? | two plans, two checkouts that may be sent again, three rows, two buckets, a clock to 2, two deliveries at once, two moves |
| `Ingestion_sweep` | Is a region promoted whole, a lot once, Google's word last, and does a sweep end? | 2 × 2 cells, one OSM and one Google tile with its quadrants, a result cap of 1, three places on two lots, imported before the classification or not at all, an OSM element that is free of charge at the start and whose tags may change, batches of 2, two attempts, two events (of which archiving and restoring are some) |
| `Accounts_address` | What do sessions, passwords and links still give after the account has changed? | two accounts in turn, two invitations, two grants, two requests at once, a clock to 2, six moves |

Four sentences of the repository are stated as properties, and the code does not keep them.
They are in no run: TLC refutes each within seconds when it takes the place of
the properties in the cfg named (for the first, with `FairSpec`, `StatusOnRefunds = FALSE`
and `MaxFaults = 0`).

| property | in place of those of | the sentence | what TLC shows |
|---|---|---|---|
| `PendingRefundSettles` | `Settlement_pays` | "Anything not terminal … keeps the in-flight marker; the refund webhook settles it." (`booking.service.ts:628-629`, and 674-675 of a refund recorded as failed) | with the Stripe adapter, whose refund events carry no status, a refund that the provider accepted as pending and then made is never settled, though every webhook is delivered |
| `PlanStands` | `Membership_seats` | "the plan is read under the ParkingOperator lock the mutation already holds, so a concurrent plan change cannot land between the check and the write" (`operator-members.service.ts:198-200`) | the provider's events and an edit of the plan take no such lock; a plan ends between the count of the seats and the insert |
| `NobodyIsStrandedLate` | `Lifecycle_retention` | what the purge counts is "money mid-flight, a bay still being held, or a car currently inside one" (`lifecycle-purge.service.ts:456-458`) | a hold past its deadline is not counted, and its capture, under way since before, confirms it for the account that was anonymised |
| `ArchivedNotDoubled` | `Ingestion_sweep` | "the ingestion dedup query deliberately matches archived facilities so a re-import cannot resurrect a duplicate" (`lifecycle.extension.ts:96-97`) | the match is read again through the extension, which answers null for it, and the place is created a second time |

What the properties say:

- `HeldWithinQuota`: bookings that kept the slot they were granted never outnumber
  the largest quota so far at any instant. (With the smaller "quota in force" it is
  false by design: lowering a quota keeps the promises made.)
- `HoldRespectsFacility`: a hold commits only at an open facility with a free place
  as of that very step; a quota change or a shutdown cannot slip in between, because
  both need the row that is locked. It is about the grant: a hold granted before a
  shutdown may be confirmed after it.
- `AbandonedHoldsEnd`: a pending hold past its deadline leaves PENDING_PAYMENT.
- `AtMostOneCreator`: requests that share a key yield one booking.
- `SecretsAreTracked`: a payment secret handed to a client belongs to the intent on
  record, whose amount is that of the payment row and of the booking.
- `CrashedCheckoutHeals`: a booking left without a payment row gets one, or ends, if
  the client goes on asking.
- `KeepsTheTrail`: Settlement implements MoneyTrail. What the books show includes the
  status of the booking, so the property contains that nobody is confirmed, parked or
  refunded without a capture (`ConfirmedIsPaid`, stated by a theorem).
- `RedeemedOnce`, `PerformedOnce`: a code is redeemed at most once unless Redis loses
  its keys; even then the booking is checked in by a scan at most once per confirmation.
  The operator's own check-in (`booking.service.ts:958-979`) is not counted: it writes by id
  what it decided on an earlier reading, and may repeat one.
- `FreshWritesAreLawful`: a webhook write whose row has not changed since the
  transaction read it reopens nothing, takes no row from another agreement and never
  moves the event mark back. What can go wrong in these handlers therefore needs a
  row that changed under them, which is the window a lock would close.
- `EventsAreAcknowledged`: no unique index and no foreign ledger row poisons an event
  for good.
- `KeepsOnePlan`, `RiderKeepsOnePlan`: Subscription and DriverBilling implement OnePlan:
  a customer is on one plan, and goes from one to another only by a purchase that was paid
  for or by the decision of the administrator who holds the customer's row. A purchase is
  honoured once, under whichever event id its checkout comes, until the rows no longer
  name it (`GrantedOnce`, stated by a theorem).
- `OneOperatorEach`: no account belongs to two operators, however many invites
  reach its address and however redemptions and registrations overlap; except one whose fresh
  identity was given a role by an administrator before the request that created it had
  attached it (`recast`).
- `RoleFollowsMembership`: an account's role is the one its memberships give it,
  unless a platform role outranks it, its identity is still being attached, or a role
  assignment under another lock, a crash or the deletion of its operator left it behind
  (`astray`).
- `SeatsArePaid`: a step that adds a seat leaves the operator within its plan, unless
  the seat is one that nobody counted, or was counted against a plan that was ended or edited
  between the count and the write; each of those is one seat (`unpaid`).
- `LastAdminStays`: no handler takes the last administrator of a verified operator, unless
  a purge, which does not look, has taken one of its administrators (`bereft`).
- `NobodyIsStranded`: an anonymised customer has no booking that is still to be paid
  for or honoured, except one that had lapsed or been cancelled with its capture under way
  and was confirmed after the check (`late`).
- `SuperAdminSurvives`: demotions, purges and deletions that do not overlap leave a
  super administrator; those that do are set apart (`crossed`).
- `RetentionOrTwo`: nothing is removed before its retention window has passed unless
  two different administrators decided on it (for an account also: on its demotion).
- `DueTombstonesGo`: a tombstone whose window has passed is in the end removed,
  restored, pinned by what refers to it, or behind whole batches of pinned ones.
- `QuotaKept`: creating, restoring and reactivating never lead past the quota they
  were counted against, in any interleaving.
- `DefaultSurvives`: editing or deleting the default of an operator with two active plans
  hands it on, unless what the request had read was overtaken, the plan names itself as its
  successor, or an inactive draft is made the default.
- `AssignmentsAreSellable`: a facility that is not for sale carries no schedule, unless an
  assignment and a change of its kind overlapped (`astray`).
- `SameScheduleBothEnds`: a stay is charged by the schedule it was quoted from,
  however the plan was edited, archived or restored meanwhile, unless two edits of the plan
  overlapped (`tangled`) or one fell between the two reads of the check-out (`torn`).
- `EveryStayIsPriced`: a draft the validation accepts has a tier, a window and a rate
  for each minute the loop can reach, so `NoApplicableTariffError` is never thrown for
  one. (The model has no step for the error; this property is why none is needed.)
- `BillIsTheSchedule`: the loop charges what the reference says, the lines add up to the
  total, and the commission is within it.
- `LongerCostsNoLess`: leaving later never makes a stay cheaper.
- `NothingChargesUnseen`: an agreement that runs after its checkout was acknowledged
  is the one the live row names, or is about to be cancelled, or on record.
- `EndedIsCancelled`: once an agreement has ended no live row names it for ever.
- `GoogleWins`: a facility with a Google id shows Google's fields and is a business, unless
  a writer's reading of its lot was overtaken (`raced`); the kind of one synced before the
  classification is not claimed until Google is asked again (`inherited`).
- `OneFacilityPerLot`: no second import of a lot, archived ones included, none beside an
  operator's own, unless two drains created it at once (`raced`) or the duplicate found was
  archived (`doubled`).
- `WholeRegionLanded`: a sweep that ends its wait before the ceiling finds every place
  of its region landed, also those of tiles that were split after it started; except under
  a tile at the depth floor that holds more than Google shows (`Crowded`) and under a tile
  whose fetch failed.
- `SweepEnds`: whatever became of its tiles.
- `SessionsFollowAccount`: a session the guard lets through carries the account's role
  and was signed in with its password; except a token issued on an earlier reading, or in a
  later second than the watermark of a change that had not committed yet (`late`), and a
  reset that stopped halfway (`torn`).
- `NewestPasswordStands`: no rehash puts back a password that was replaced meanwhile.
- `NoOrphanAdmins`: a platform administrator was confirmed, or its invitation is still
  being redeemed or undone, or undoing it failed and was logged (LOGGED), or the process died
  between signing it up and the end of the redemption (ABANDONED), which nothing logs.
- `GrantsSetOnce`: a reset grant sets a password once. It says nothing of lapsed grants.
- `DeadLinksGrantNothing`: a link that was withdrawn, replaced or redeemed confirms no
  administrator. What it may leave behind before that is `NoOrphanAdmins`'.

Where a property sets a case apart by a history variable, its comment in the module
names the case and the next but one section says how it comes about.

**Bounds and why they are enough.** Two actors and one fault are what it takes for
each race here, since every handler reads once or twice and writes once; a third
booking makes overlap non-transitive; a second quota lets it shrink under a hold; a
clock of three lets a hold start, lapse and be resold; two agreements let one replace
the other while both have events under way; two links let one be replaced; a second
operator lets an invite compete with another's; a batch smaller than the tombstones lets
one stand behind another; three plans leave one when a default hands over to
another; a result cap of 1 makes a Google tile overflow; six minutes of a stay reach
past two windows, two caps and a grace. Each bound is a CONSTANT described where it is
declared (`MaxTime`, `MaxInFlight`, `MaxFaults`, `MaxAttempts`, `MaxFailures`,
`MaxLapses`, `MaxIssued`, `MaxMoves`, `MaxMove`, `MaxLink`, `MaxQuota`, `MaxBucket`,
`MaxEvent`, `MaxDepth`, `MaxResults`, `Attempts`, `Batch`, `BatchSize`, `MaxBillable`,
and the sets of ids that are used up), and the theorems hold for every value of it.
`Attempts`, `Batch`, `BatchSize`, `MaxDepth`, `MaxResults` and `MaxBillable` are limits of
the code, the others of the model. Deadlock is off where a system of bounded attempts
really ends (every booking closed, every request used up); `Checkout` never stops and
keeps the check. `Settlement_pays` has the provider that captures by itself; that a
provider with manual capture and silent refunds keeps the same books is proved, not run.

**Fairness.** `Holds`: the clock runs and the cleanup job fires, because BullMQ
repeats it every minute; no customer is obliged to anything. `Checkout`: a request
that runs takes its next step, and a client that got an error asks again, which is
what an idempotency key is for; crashes are bounded. `Settlement`: a webhook is
delivered until acknowledged, and the provider decides on a refund it accepted;
nobody has to confirm or cancel (no run uses it: with the Stripe adapter not even that settles a
pending refund, which is what it is stated for). `Subscription`: some delivery or open transaction
moves while there is one; a rolled-back delivery is sent again by the provider.
`Lifecycle`: the purge job, which BullMQ repeats hourly (`jobs.module.ts:47-63`), takes
its next step; nobody has to approve or restore. `DriverBilling`: the provider sends an
event until it is acknowledged. `Ingestion`: the sweep's worker and some tile's worker go
on, as BullMQ hands a waiting or stalled job to the queue's worker; neither the source
nor the promote queue owes anything. The other modules have safety properties only.

## What is proved

TLAPS checks these for every value of the constants.

| theorem | statement |
|---|---|
| `HoldsProofs!TypeCorrect`, `HeldWithinQuotaAlways`, `HoldsRespectFacility` | for any bookings, stays, quotas and handlers in flight |
| `SettlementProofs!TypeCorrect`, `RefundIntentAlwaysFirst`, `ConfirmedIsAlwaysPaid`, `BooksAlwaysFollowMoney` | for any number of confirmers, cancellers, copies of events and faults, and both providers |
| `SettlementProofs!SettlementKeepsTheTrail` | Settlement implements MoneyTrail |
| `CheckoutProofs!TypeCorrect`, `OneCreatorPerKey`, `SecretsAlwaysTracked` | for any number of requests, keys, prices, access codes, crashes and lapses |
| `TicketProofs!TypeCorrect`, `OnlyIssuedCodesBurnAlways`, `CodeRedeemedOnce` | for any number of scans and any skew, drift and latency with TTL > Skew + 2 Drift + Latency |
| `TicketProofs!CheckInPerformedOnce` | for any number of scans, any TTL, and whatever Redis forgets |
| `SubscriptionProofs!TypeCorrect`, `PurchaseGrantedOnce`, `FreshWritesAreAlwaysLawful` | for any number of agreements, plans, rows and deliveries |
| `SubscriptionProofs!SubscriptionKeepsOnePlan`, `CheckoutProofs!RiderAlwaysKeepsOnePlan` | Subscription and DriverBilling implement OnePlan, for any number of agreements, plans, rows and deliveries |
| `CheckoutProofs!NothingEverChargesUnseen`, `DriverBillingTypes` | NothingChargesUnseen and the types of DriverBilling, for any number of plans, sessions, rows and deliveries at once |
| `MembershipProofs!TypeCorrect`, `OneOperatorAlways`, `RoleAlwaysFollows`, `SeatsAlwaysPaid`, `LastAdminAlwaysStays` | for any number of people, operators, invites, links and requests at once, and any plans |
| `AccountsProofs!TypeCorrect`, `SessionsAlwaysFollow`, `NewestPasswordAlways`, `NoAdminIsOrphaned`, `GrantsAlwaysSetOnce`, `DeadLinksNeverGrant` | for any number of accounts, sessions, invitations, grants and requests at once |
| `SettlementProofs!SuperAdminAlwaysSurvives`, `RetentionOrTwoAlways`, `NobodyIsEverStranded`, `LifecycleTypes` | the three safety properties of Lifecycle and its types, for any number of facilities, operators, people, approvals and requests at once, and any batch |
| `TariffProofs!CatalogueTypes`, `ScheduleAlwaysTheSame`, `AssignmentsAlwaysSellable`, `QuotaAlwaysKept`, `DefaultAlwaysSurvives` | for any number of plans, facilities, bookings and requests at once, any schedules and any quotas |
| `TariffProofs!PricingTypes`, `EveryStayIsAlwaysPriced` | for any drafts, stays, clock changes, and any week and day |
| `TariffProofs!BillIsAlwaysTheSchedule`, `LongerNeverCostsLess` | the two properties of Pricing's sums, for the same: whatever the tiers, the rates, the caps, the increments, the discount and the shares, and however long the stay |
| `HoldsProofs!GoogleAlwaysWins`, `OneFacilityAlways` | the two invariants of Ingestion's catalogue, for any places, lots, tiles, batches, attempts, crashes and drains at once |
| `HoldsProofs!IngestionTypes`, `WholeRegionAlwaysLands` | for any regions, overlapping ones included, of natural coordinates, any finite set of places, any tile sizes, depth, result cap, attempts and crashes |

`RefundIntentFirst` and `MarkerHasRow` (money this system returned has a refund row, and so has a booking
marked as in refund), `BooksFollowMoney` (the books never claim a movement that has not
happened) and `OnlyIssuedCodesBurn` (a nonce is spent only by a code that was issued) are
stated in their modules and proved; no run repeats them.

The assumptions are the named ASSUMEs of each module (finiteness of the bookings, plans
and facilities, stays that end after they start, bounds that are naturals, `None` outside the sets it marks)
and, for `CodeRedeemedOnce`, that the TTL outlives the window and that Redis keeps its
keys. The code keeps a nonce for 600 s (`qr-replay.cache.ts:14`) and accepts two minutes of
skew either way (`qr-ticket.ts:14`), so in minutes 10 > 2 + 2 Drift + Latency: twice the
drift and the delay may take anything short of eight minutes. The run has those figures
scaled down.

The arguments:

- **Holds.** `HeldWithinQuota` alone is not inductive: a hold that was counted is about
  to be inserted. `Inv` adds `LockHeld` (only the attempt that holds the row is between
  its lock and its commit), `CountStands` (what it counted is still free: nobody else
  can insert, and every other step only releases slots or revives a booking that is
  no longer entitled) and `quota <= peak`. Inserting adds one booking to each instant of
  a stay where fewer than `quota` overlapped, so cardinality stays within `peak`.
- **Settlement.** `Inv` is `Recorded` (the refund row exists wherever a refund is
  claimed, called or settled), `Paid` (whoever is confirmed or about to be has a
  capture behind it, read from the handlers' plans as well as from the rows) and
  `Repaid` (what the books call returned has been returned). Each handler is one
  lemma. The refinement maps a step to a movement of the money, a promise, a booking or
  a stutter, and needs the same invariant.
- **Ticket.** `SpentStaysSpent`: a spent nonce is in the cache, or so much time has
  passed that no scan of that code can still reach it (`LastClaim`). `ClaimIsTimely`
  bounds how late a scan that passed the window check may claim; `NonceIsRecent` how
  early a nonce can have been set. The check-in does not rest on the cache:
  `ConfirmationIsWorthOne` weighs the check-ins made, and the confirmation that is still
  on the row, against the confirmations given; the compare-and-set from CONFIRMED spends
  one for one.
- **Checkout.** While a request of a key is past its insert, the provider still
  remembers the key, so all of them learn one intent. The invariant has four parts:
  before the booking's row exists nothing of the key does (`NothingBeforeTheRow`), what
  is recorded and remembered was minted for that row at its price (`IntentsMatchRows`),
  what each request carries agrees with both (`RequestsAgree`), and a secret that was
  handed out is the recorded one (`HandedAreRecorded`).
- **Accounts.** `ReadStands` says of a sign-in at work that what it has read is still
  so unless the watermark has moved, counted by `era`; a session is then admitted only
  if nothing changed after its reading, or is marked. `Trials` keeps an unconfirmed
  administrator (TRIAL) in the hands of the request that created it; a clean-up that fails
  and a process that dies take it out of TRIAL, under two different names. `GrantsSpent` is the conditional update of a
  grant: whoever is past it is alone, and the grant has set nothing yet. `DeadLinks`
  says that a link that was given up is an older one than its invitation's, or the
  invitation is closed, which is what the redemption checks under its lock.
- **Lifecycle.** Two invariants. `AdminsStand`: until two changes of administrators have
  overlapped there is one of them at most, and an administrator besides the one it is
  about; a step starts such a change, ends one, or takes no administrator. `RemovalInv`
  says what a request or the sweep rests on: a removal on an approval that two gave
  (`Sound`; approvals given are final, and one being redeemed is in one request's hands),
  an item of the sweep on being due, already gone or restored in its hands (`SweepKnown`,
  with `DueBuried`), and the removal of a customer on a check that nothing can undo
  while the tombstone stands but a confirmation already at work (`CustomerSettled`: a booking
  starts only for an active one, and after the check only a `late` one is PENDING or PAID).
  The types rest on `TrashSound` (the order of the tombstones has each of them once, and
  nothing else): burying appends what was not there, and restoring or removing takes out
  the one place of what was.
- **Membership.** Eight conjuncts, each kept by one lemma for the steps that do not
  touch what it is about. `Identities`: an identity is created once, and is nobody's
  until it is attached; with `OneHome` (of accounts not `recast`) and the second look under
  the account's lock that gives one operator each, and `RoleFollowsMembership` goes through the same steps.
  `Exclusive`: an operator's row has one holder, so `ChangesGuarded` (whoever removes an
  administrator leaves another) and `Room` (what was counted still fits) survive the
  steps of everybody else. `Newcomers`: nothing is promised on behalf of an operator that
  has no administrator yet, so the first one fits any plan. `SeatsArePaid` and
  `LastAdminStays` then need one step each: `Paid` is proved of the four handlers that
  add a member or an invite, and every other one shrinks both sets (`Shrinks`).
- **Subscription.** `TasksAreJustified` ties what a transaction will write to what it
  read; `OneTaskEach` and `TasksAreOpen` are the ledger insert: one open transaction for
  an event, and none for a recorded one. `PurchasesArePaid` is the provider's side: no
  checkout before its agreement runs. `HonouredAreRecorded` says that what was honoured is
  in the ledger, so the same event is not honoured again, and `LossesAreMislaid` that an
  honoured purchase has a row to its name or lost it once, so neither is another event of it:
  the lookup finds the row, or, of one created since, the unique index refuses the insert.
  `OneLockHolder` keeps a purchase and the administrator apart.
- **OnePlan.** The refinement of `Subscription` needs that same invariant for `Grants`: what
  is granted was paid for, not honoured already unless mislaid, and not while the
  administrator's transaction holds the row. That transaction is the abstract `Opens` and
  `Decides`; its commit puts its own plan, and no other, on a live row. For the rest it needs
  no fact about the rows, because every write checks the partial index: a write that leaves
  its row live leaves no other live row, so the plans held are the one of that row. If the
  row was live already that ends what else was held; if it was not, nothing was held before
  (`Returns`), since any other live row would still be there. An event leaves each row its
  plan, so none is swapped. `RidingInv` is the invariant of the rider's side: `BillingInv`
  (the one of NothingChargesUnseen), `OfficeTyped`, `Waiting` (a purchase that waits for the
  lock, or holds it, is not acknowledged and is for the plan that was paid for),
  `HonouredAreAcknowledged` and `NoneUnnoticed`, the two halves of "once".
- **DriverBilling.** `ChargeSeen`: an agreement that runs is seen from the moment its
  checkout is acknowledged or a row names it. Two things could lose sight of it: a row
  that stops naming it, and a row that stops being live. The first is the write under the
  rider's lock, which ends the agreement it replaces in the same step (`LockSound`: what it
  ends is the agreement the locked row had). The second takes an event that says
  CANCELLED, and `EventSound` with `DeliverySound` says that only an ended agreement
  raises one. `DealsSound` (a billed agreement was paid for) keeps a new agreement from
  starting under a row that already names it.
- **Catalogue.** `CatalogueInv` adds to the types and the two invariants what each
  request at work may rely on. `ReadsStand`: an addition holds the operator's row, and
  what it counted is still under the quota; an edit or a quote knows no newer version
  than the plan has, and while the version is the same so is the active flag. `PinsStand`:
  a pin of the plan's version has the plan's schedule. Both except a plan that two edits
  have `tangled`, which is the departure listed below. It rests on `PlansForward`
  (versions never go back, and a kept version is a kept schedule) and on `ChargedStep`
  (nothing is added except by the holder of the row, or by a step that frees it).
  `QuotaKept` follows from `ReadsStand` and the step; `DefaultSurvives` needs only
  that there is never more than one default, which `OneDefault` keeps.
- **Pricing.** A draft that is past validation has tiers that follow each other from
  minute 0 to an open last one, windows that cover each minute of each day, and a rate in
  each cell. The first gives a tier for any elapsed minute, the second a window for any
  minute of the week, which the wall clock's modulus never leaves, whatever the shift;
  the third a rate for both. The invariant is that the draft of a stay under way is such
  a draft and that the cursor stays inside the billable minutes.

  The bill needs more. `LoopInv` says of a stay in its loop that the charges made so far
  (`Booked`) are one for each start before the cursor, at the rate of that start's
  window and tier, and that the cursor is `Aligned`: it stands at a start of the schedule
  or past the last minute. A start is charged once because nothing starts between the
  cursor and its next place (`OneStart`). At the end every start has its charge, so the sum
  over charges is the sum over starts (`SumReindex`), and so is each cap's share of
  it (`SumByClass`: the days, the whole stay). That longer never costs less follows from
  `Due` alone: more minutes have more starts, a sum of naturals over more starts is no
  smaller, and the caps, the discount and the shares are all monotone. The lemmas on
  finite sums are proved here, by induction over finite sets: the library's induction rules
  take operators, so these (`PartsInduct`, `InductSet`) say it of a set, by its least
  element outside.

- **Ingestion.** `Resolved` is what a drain that has looked up its target still relies on
  at the write: a target that existed exists (nothing deletes a facility), and a creation
  found no facility on the lot but the one it creates, or found an archived one that the
  second read hid (`hidden`), and then marks the lot `doubled`. Somebody else who writes to
  the lot in between marks it `raced` or finds the same. `RefreshSound` is the same of a refresh
  in flight. With them each write either keeps `Shows` (Google's fields, a business) and
  `OneEach` for its own lot, or the lot is raced. `Shows` leaves out the kind
  of an `inherited` facility; every merge or refresh that asks Google takes it out of there.
  `ArchivedKnown` says that what is archived exists.

  That a sweep promotes a whole region needs the whole pipeline. `PipeSound` says where a
  job is: a source fetches one tile at a time; the queue holds each waiting job at most once, so
  that what a worker takes does wait; and the depth a job carries is a level of the tree its
  tile is on. `Covered` says of every place under a tile that has a row that it has landed,
  is under a crowded tile at the depth floor, or is under a tile still to be fetched or
  failed; it is inductive only with `FetchSound`, the same of a fetch under way, its own
  row apart: the place may be among what it has found and not yet stored, or in a quadrant it
  has yet to enqueue. So marking the tile closes a row only after everything under it is
  accounted for elsewhere, and no other fetch relied on that row, since two tiles over one place
  are of one source. A split loses no place (`QuadrantOver`), the first cut of a region
  neither (`RegionCovered`); a tile too small to be cut is its own quadrant, and then it is
  on the depth floor too (`OwnQuadrant`). The tree is a recursive function, unfolded by a
  lemma (`TreeLevels`) that builds it level by level.

Liveness (`AbandonedHoldsEnd`, `CrashedCheckoutHeals`,
`EventsAreAcknowledged`, `DueTombstonesGo`, `EndedIsCancelled`, `SweepEnds`) is
model-checked only, since the prover has no rules for fairness and ENABLED. Every other
property of a run is proved.

Four faults of the models came to light in the proofs. `Accounts` left a request that had
no next step in its slot, where the handler returns. And `SeatsArePaid` used to compare
with the plan in force alone: it failed once a plan ended by the provider leaves an
operator two or more seats above its default plan and a seat nobody counted follows, which an instance
whose default was its largest plan could not reach; the property now says so, and the
instance has the smaller plan as its default. `RetentionOrTwo` used to except super
administrators instead of counting what two decided on their demotion: an account whose
demotion is claimed as a purge, and that is demoted by a second approval and buried
before that purge goes on, was no longer excepted; it takes five moves, one more than
the instance has. And `Crowded`, which `WholeRegionLanded` excepts, used to ask for a tile that has
no quadrants in the tree: where two regions overlap, a tile of the depth floor of one may be a tile of a
higher level of the other, so the property failed of two places in such a cell; it now
asks for a tile of the deepest level, and the theorem covers regions that overlap, which
the instance does not have.

## Where the code departs from what it says

Each of these is a behaviour of a model, reached by legal steps only. Four of them break
a sentence that is stated as a property, named in brackets; otherwise the properties set
them apart, or say something they do not break.

**Bookings and money**

- `booking.service.ts:373` checks the hold's expiry, captures, and confirms by id; the
  hold may lapse and be resold meanwhile, so two cars are entitled to one place
  (`payment-events.service.ts:203-205` says the lapsed hold is never confirmed).
- `lifecycle.service.ts:50` and `facilities.service.ts:921`, `966-968`: closing a
  facility counts the stays it owes, unlocked and without the pending ones, one of which
  is confirmed afterwards.
- `booking.service.ts:523` cancels by id a booking read as PENDING_PAYMENT; it may have
  been paid meanwhile, and is then not refunded (462 says a paid one is).
- With manual capture (`StripeProvider.ts:77`) only the client captures: one that pays
  and disconnects is dropped, where `payment-events.service.ts:59-60` counts on the webhook.
- `payment-events.service.ts:228` and `:269` write by id after an unlocked read, so a
  success can confirm a booking cancelled meanwhile (line 190 says it must "never
  resurrect the booking"), and a failure can cancel one confirmed meanwhile (255-256
  says a stale failure "must not unwind a confirmed booking").
- `booking.service.ts:677` writes a refund as FAILED over a settlement recorded while
  the call timed out; the comment above it (672-675) counts on the webhook to come later.
- `booking.service.ts:973` lets a gate overwrite REFUND_PENDING with CHECKED_IN, after
  which the failed refund cannot be resumed.
- `booking.service.ts:405`: a confirm that loses to the webhook during its capture is
  answered an error, where line 336 says it is idempotent.
- `StripeProvider.ts:155-164` gives refund events no status and `classify` answers
  unknown, so with Stripe a refund that is pending, or was made although its call failed, is
  settled by nothing, where `booking.service.ts:628-629` and `674-675` count on the webhook
  [`PendingRefundSettles`].
- `inventory.service.ts:97` compares the number of bookings that overlap the stay
  anywhere with the quota: two stays that never coincide can make a third, which
  spans both, unsellable. Safe, but stricter than lines 137-138 say.
- `ticket.service.ts:192` answers from the snapshot read before the nonce was claimed,
  so a booking cancelled since is answered valid, with nothing consumed.

**Operator subscriptions**

- `operator-subscription-events.service.ts:253`: an update that overtakes its checkout
  adopts the agreement, and the checkout is then taken for a replay: the purchase is
  acknowledged and not granted (250-251).
- `:514`: an event of an agreement without a row is applied to the live row of
  another (310-313).
- `:364-439` write by id after an unlocked read: two deliveries can together reopen a
  cancelled row or move its mark back. And 154-156: after a crash between the commit and
  the call, the replaced agreement is billed on.
- The lookup that recognises a checkout sent again under another event id
  (`:249-258`) needs the agreement on a row. A checkout that names no subscription leaves
  none: sent again it is granted again, over whatever the operator is on by then. So may one
  whose agreement a row no longer names with its plan (`mislaid`).

**Driver subscriptions**

- The same two, and the crash between the commit and the cancellation (`lost`).
- A deletion that overtakes its checkout, or the update that adopts it, leaves a plan
  nobody pays for. An update or an assignment that had read the row before the deletion
  resurrects it, and a purchase that had read it before an adoption loses that
  agreement. An update adopted into a row an administrator granted makes the later
  checkout "already applied".
- An administrator's cancellation of a row without a provider id cancels nothing there.

**Memberships**

- `resource-managers.service.ts:58-63`: managers are "validated INSIDE the transaction",
  at Read Committed and without a lock, so a member removed meanwhile manages on.
- `invite.service.ts:239-249`: a lapsed invite takes no seat while it is redeemed or
  resent on a reading of it as live; and an invite of an operator that was verified
  before its first administrator came adds a seat nothing counts (`unpaid`).
- `:372-379` deletes the operator of a revoked onboarding by id, after having read it
  PENDING; the comment expects a cascade to take the invite row along, which the schema
  keeps (SetNull).
- `:426-432` writes EXPIRED by id, over an acceptance or a resend.
- A supersession revokes PENDING invites only, so a lapsed one that is resent afterwards
  makes two live links; so do two onboardings created at once.
- `operator-members.service.ts:326-329`: the role is reconciled from a reading under one
  operator's lock; a role assigned meanwhile, or a fresh identity re-roled in the middle
  of its acceptance, stays behind (`astray`), in the latter case with two operators (`recast`).
- `operator-subscription-events.service.ts:339-411` and `subscription-admin.service.ts:101-150`:
  the provider's updates and deletions and the edit of a plan change what an operator may use
  without its row lock, between a count of seats and the insert it allows;
  `operator-members.service.ts:198-200` says they cannot [`PlanStands`].
- `lifecycle-purge.service.ts:368` takes memberships without the guard of the last
  administrator (`bereft`). And an operator can lose its last one while PENDING and be
  verified afterwards.

**Lifecycle**

- `lifecycle-approval.service.ts:151-158` does not look at the action of the request: one
  for a demotion can be claimed at the purge endpoint, which spends it with the role
  unchanged (`identity-approval.service.ts:167-173` knows of no such window) or purges
  an account that was promoted while tombstoned. A purge's administrator may reject it.
- `lifecycle-purge.service.ts:397` takes the first hundred that are due; pinned ones stay
  in front, where 20 and 419-421 say the backlog drains (`Crowded`).
- `identity-approval.service.ts:305`: two overlapping demotions may leave no super
  administrator, in spite of 278-279 (`crossed`).
- `lifecycle-purge.service.ts:469` does not count a hold past its deadline, which a
  confirmation that had read the deadline before its capture still confirms
  (`booking.service.ts:373-400`, `payment-events.service.ts:228`): a booking is confirmed for
  an account that is no more [`NobodyIsStrandedLate`].
- A tombstone that is restored and buried again between the reading and the purge is
  purged at once (`recycled`). An approval outlives its tombstone, and is spent when the
  purge is refused.
- `restoreFacility` does not look at its operator's lifecycle, and the counts of
  `archiveOperator` and `archiveFacility` take no lock. `unsettledWhere` looks past
  overstays and past lapsed holds that are refunded later.

**Catalogue**

- `tariff.service.ts:659`: two overlapping edits both write version + 1, under which the
  schedules of both may be stored (`tangled`). An edit between the two readings of a
  check-out bills the new rates under the old version (`torn`).
- `:493-500`: a plan created inactive and default takes the mark from an active one;
  `newDefaultPlanId` may name the plan itself; the archiving of a default by an
  administrator hands nothing on.
- `:616`: the edit of a plan that was deactivated meanwhile reactivates it uncounted.
- An update can restrict the vehicles of a plan that facilities use. `assignTariff` and
  the change of a facility's kind read each other's row without a lock (`astray`). A
  partial update passes by `assertPublishable`.
- A change of subscription plan changes the quotas without the operator's lock: QuotaKept
  is about the quota a create was counted against.

**Ingestion**

- The sweep's drain and a promote drain can overlap, and so can a promotion and a
  reclassification, which `ingestion.constants.ts:83-84` says must not (`raced`).
- `promotion.service.ts:215-219`: the duplicate the query finds is read again through the
  lifecycle extension; of an archived one the answer is null, and the place is created a
  second time, where `lifecycle.extension.ts:96-97` says it cannot [`ArchivedNotDoubled`].
- `promotion.service.ts:112` reclassifies what is of unknown kind without looking for a Google
  id: a facility synced before the classification is given OSM's kind until Google is asked
  again (`inherited`; `refresh.service.ts:102-103` knows of such rows).
- A tile that failed counts as terminal while its retry is due. Rows that land after
  the drain wait for a promotion by hand.
- `linkRaw` marks a raw place PROCESSED over content fetched meanwhile. A transient
  failure, or a collision on a unique index, rejects a place for good, and so is the
  Google place whose facility another has taken over.
- An older raw place may overwrite a newer refresh.

**Accounts**

- `admin-invite.service.ts:346-357` says there is never more than one live link; the resend
  of a lapsed invitation beside a newer one makes two, as do overlapping creates, and a
  resend that overlaps a revocation or an acceptance revives it. The healing of a lapsed
  one by id may overwrite ACCEPTED. Overlapping requests for a reset make two grants.
- The accept's check under the lock does not look at `deletedAt`, so a tombstoned account
  can become an administrator.
- `password-reset.service.ts:40-73` reads the account and mints the grant in a later
  transaction, so a grant may be minted for an account deleted in between; a reset finds its
  account by the address it read with the grant (`:179`): the tombstone's, or, when the
  deletion comes between that reading and the search, the next owner's.
- `signUp` creates the identity as an administrator before the transaction that redeems
  the link; when that fails and its clean-up fails too, it stays, with a log line; when the
  process dies in between, it stays without one.
- A token whose account was read before a change and which is issued in a later second
  passes the watermark, and so does one issued between the watermark's `new Date()` and the
  commit of its change, in a later second (`late`); a crash between `updatePassword` and `revokeSessions`
  leaves the old sessions (`torn`).

## What is not modelled

- Wording, logging, audit rows, mail and report queries: no handler reads them back.
  The quota-threshold mails remember what they sent; nothing else depends on it.
- Search, media and bookmarks, the drivers' savings, analytics, maps and the profile:
  queries, proxies, and loops of one read and one write.
- The cluster index of the map: a cache in each replica's memory (in the plan).
- Platform plumbing: start-up, configuration, throttling, probes.
- The Firebase provider, `bootstrap-admin` (which counts administrators and creates one,
  unlocked), the change of a subscription's provider, and the mock provider's confirm,
  which loses an event when processing it throws.
- The scopes of a member and the managers of a plan, written exactly as a facility's;
  overrides of a driver's entitlements; the purge of a plan; the ownership periods and
  promotion plans that also pin an operator; the purge of an imported facility, and the
  archiving of a real operator's facility that an import has matched; the reconcile script. Migrations, seeds and
  the other scripts are run once, by hand.

Abstracted away inside what is modelled: the HMAC of a ticket is "issued or not"; the
engine's floats, currencies, ISO dates and refusal of an unknown time zone; TRIALING is
ACTIVE; the validity window of a plan is open and vehicles are of one class or another;
coordinates are integers and a circle is the box around it; each queue of the importer
has one process; the release of an identity at the provider is best effort; a watermark is
taken at most a second before its commit.

## Plan

Done: the core (Holds, Checkout, Settlement, Ticket, Subscription), then Membership,
Lifecycle, Catalogue with the quotas, Pricing, DriverBilling, Ingestion and Accounts, and
OnePlan over the two billings.

Left, in order:

1. **ClusterIndex**: the cache, its version and its in-flight builds; how stale an
   answer may be.
2. The change of a subscription's provider.
3. The quota-threshold mails: one warning per threshold and period.
