------------------------------ MODULE Checkout ------------------------------
(***************************************************************************)
(* Phase one of checkout, BookingService.createBooking: a client sends the  *)
(* same idempotency key again after an error, a time-out or a crash, and    *)
(* several of its requests may be running at once.  The slot itself is one  *)
(* atomic insert here; Holds opens it up.                                   *)
(***************************************************************************)
EXTENDS Naturals, Sequences, FiniteSets

CONSTANTS Request,      \* createBooking calls, each retried for ever
          Key, KeyOf,   \* the idempotency key each request carries
          Price,        \* totals computeQuote may answer
          Code,         \* access codes the generator may draw
          MaxAttempts,  \* ACCESS_CODE_ATTEMPTS
          MaxFailures,  \* bound on crashes, provider errors and refusals
          MaxLapses     \* bound on lapses of the provider's 24h window

ASSUME KeyAssumption == KeyOf \in [Request -> Key]
ASSUME AttemptAssumption == MaxAttempts \in Nat \ {0}
ASSUME BoundAssumption == IsFiniteSet(Key) /\ MaxFailures \in Nat /\ MaxLapses \in Nat

NoCode == "none"
ASSUME CodeAssumption == NoCode \notin Code

VARIABLES status,    \* Booking.status of the key's row: none, pending or left
          code,      \* Booking.accessCode
          price,     \* Booking.quotedPriceCents
          payment,   \* Payment.providerPaymentId of the row, 0 without a row
          amount,    \* Payment.amountCents
          intents,   \* provider: the intents it minted, in order
          cached,    \* provider: the intent it replays for pi_<bookingId>
          req,       \* each request's progress and local values
          handed,    \* history: intents whose secret a client received
          failures, lapses

rowVars      == <<status, code, price>>
paymentVars  == <<payment, amount>>
providerVars == <<intents, cached>>
vars == <<rowVars, paymentVars, providerVars, req, handed, failures, lapses>>

Step == {"lookup", "quote", "hold", "intent", "record", "audit", "replay",
         "heal", "created", "replayed", "base", "conflict", "failed"}
Answer == {"created", "replayed", "base", "conflict", "failed"}
Intent == 1..(Cardinality(Key) + MaxLapses)

TypeOK ==
  /\ status \in [Key -> {"none", "PENDING_PAYMENT", "left"}]
  /\ code \in [Key -> Code \cup {NoCode}]
  /\ price \in [Key -> Price \cup {0}]
  /\ payment \in [Key -> Intent \cup {0}]
  /\ amount \in [Key -> Price \cup {0}]
  /\ intents \in Seq([key : Key, amount : Price])
  /\ Len(intents) \in Intent \cup {0}
  /\ cached \in [Key -> Intent \cup {0}]
  /\ req \in [Request -> [at : Step, price : Price \cup {0},
                          tries : 0..MaxAttempts, intent : Intent \cup {0}]]
  /\ handed \subseteq (Key \X Intent)
  /\ failures \in 0..MaxFailures
  /\ lapses \in 0..MaxLapses

Fresh == [at |-> "lookup", price |-> 0, tries |-> 0, intent |-> 0]

At(r, s) == req[r].at = s

-----------------------------------------------------------------------------
(* The provider: createPaymentIntent under the key pi_<bookingId>.          *)

CreateIntent(k, cents, i) ==
  IF cached[k] # 0
  THEN i = cached[k] /\ UNCHANGED providerVars
  ELSE /\ i = Len(intents) + 1
       /\ intents' = Append(intents, [key |-> k, amount |-> cents])
       /\ cached' = [cached EXCEPT ![k] = i]

\* The idempotency window outlives any request by hours.
WindowLapses(k) ==
  /\ lapses < MaxLapses
  /\ cached[k] # 0
  /\ \A r \in Request : KeyOf[r] = k => req[r].at \in Answer \cup {"lookup"}
  /\ cached' = [cached EXCEPT ![k] = 0]
  /\ lapses' = lapses + 1
  /\ UNCHANGED <<rowVars, paymentVars, intents, req, handed, failures>>

-----------------------------------------------------------------------------
(* The first request of a key.                                              *)

\* The pre-read: nothing there yet, a row past PENDING_PAYMENT, or a replay.
Lookup(r) ==
  LET k == KeyOf[r] IN
  /\ At(r, "lookup")
  /\ req' = [req EXCEPT ![r] =
       CASE status[k] = "none" -> [@ EXCEPT !.at = "quote"]
         [] status[k] = "left" -> [@ EXCEPT !.at = "base"]
         [] OTHER -> [@ EXCEPT !.at = "replay", !.intent = payment[k],
                               !.price = price[k]]]
  /\ UNCHANGED <<rowVars, paymentVars, providerVars, handed, failures, lapses>>

Quote(r) ==
  /\ At(r, "quote")
  /\ \E p \in Price : req' = [req EXCEPT ![r].at = "hold", ![r].price = p]
  /\ UNCHANGED <<rowVars, paymentVars, providerVars, handed, failures, lapses>>

\* Mutant of Unclaimed: the pre-read is trusted, no unique index.
UnclaimedAssumed(k) == TRUE

Unclaimed(k) == status[k] = "none"

\* holdSlot inserts the row: both columns are unique.
HoldSlot(r) ==
  LET k == KeyOf[r] IN
  /\ At(r, "hold")
  /\ Unclaimed(k)
  /\ \E c \in Code \ {code[o] : o \in Key} : code' = [code EXCEPT ![k] = c]
  /\ status' = [status EXCEPT ![k] = "PENDING_PAYMENT"]
  /\ price' = [price EXCEPT ![k] = req[r].price]
  /\ req' = [req EXCEPT ![r].at = "intent"]
  /\ UNCHANGED <<paymentVars, providerVars, handed, failures, lapses>>

\* P2002 on idempotencyKey: another request of this key inserted first.
KeyTaken(r) ==
  /\ At(r, "hold")
  /\ status[KeyOf[r]] # "none"
  /\ req' = [req EXCEPT ![r].at = "conflict"]
  /\ UNCHANGED <<rowVars, paymentVars, providerVars, handed, failures, lapses>>

LastAttempt(r) == req[r].tries + 1 = MaxAttempts

\* P2002 on accessCode: draw again, at most ACCESS_CODE_ATTEMPTS times.
CodeTaken(r) ==
  /\ At(r, "hold")
  /\ \E c \in Code, o \in Key : code[o] = c
  /\ req' = [req EXCEPT ![r].tries = @ + 1,
                        ![r].at = IF LastAttempt(r) THEN "failed" ELSE "hold"]
  /\ UNCHANGED <<rowVars, paymentVars, providerVars, handed, failures, lapses>>

RequestIntent(r) ==
  /\ At(r, "intent")
  /\ \E i \in Intent :
       /\ CreateIntent(KeyOf[r], req[r].price, i)
       /\ req' = [req EXCEPT ![r].at = "record", ![r].intent = i]
  /\ UNCHANGED <<rowVars, paymentVars, handed, failures, lapses>>

WritePayment(r) ==
  LET k == KeyOf[r] IN
  /\ payment' = [payment EXCEPT ![k] = req[r].intent]
  /\ amount' = [amount EXCEPT ![k] = req[r].price]

\* payment.create: bookingId is unique, so a row a replay healed refuses it.
RecordPayment(r) ==
  LET k == KeyOf[r] IN
  /\ At(r, "record")
  /\ IF payment[k] = 0
     THEN WritePayment(r) /\ req' = [req EXCEPT ![r].at = "audit"]
     ELSE UNCHANGED paymentVars /\ req' = [req EXCEPT ![r].at = "failed"]
  /\ UNCHANGED <<rowVars, providerVars, handed, failures, lapses>>

HandOut(r) == handed' = handed \cup {<<KeyOf[r], req[r].intent>>}

AnswerCreated(r) ==
  /\ At(r, "audit")
  /\ HandOut(r)
  /\ req' = [req EXCEPT ![r].at = "created"]
  /\ UNCHANGED <<rowVars, paymentVars, providerVars, failures, lapses>>

-----------------------------------------------------------------------------
(* replayBookingResult, on the row and payment the pre-read saw.            *)

\* Mutant of Matches: the intent is not compared with the row.
TrustAnyIntent(r, i) == TRUE

\* The intent is the one the booking is recorded against, or none is recorded.
Matches(r, i) == req[r].intent \in {0, i}

Replay(r) ==
  /\ At(r, "replay")
  /\ \E i \in Intent :
       /\ CreateIntent(KeyOf[r], req[r].price, i)
       /\ \/ /\ ~Matches(r, i)
             /\ req' = [req EXCEPT ![r].at = "base"]
             /\ UNCHANGED handed
          \/ /\ Matches(r, i) /\ req[r].intent = 0
             /\ req' = [req EXCEPT ![r].at = "heal", ![r].intent = i]
             /\ UNCHANGED handed
          \/ /\ Matches(r, i) /\ req[r].intent # 0
             /\ req' = [req EXCEPT ![r].at = "replayed"]
             /\ handed' = handed \cup {<<KeyOf[r], i>>}
  /\ UNCHANGED <<rowVars, paymentVars, failures, lapses>>

\* Mutant of Heal: it answers without the upsert.
HealWithoutWriting(r) ==
  /\ At(r, "heal")
  /\ HandOut(r)
  /\ req' = [req EXCEPT ![r].at = "replayed"]
  /\ UNCHANGED <<rowVars, paymentVars, providerVars, failures, lapses>>

\* The upsert whose update is empty: it creates the missing row or leaves it.
Heal(r) ==
  /\ At(r, "heal")
  /\ IF payment[KeyOf[r]] = 0 THEN WritePayment(r) ELSE UNCHANGED paymentVars
  /\ HandOut(r)
  /\ req' = [req EXCEPT ![r].at = "replayed"]
  /\ UNCHANGED <<rowVars, providerVars, failures, lapses>>

-----------------------------------------------------------------------------
(* The surroundings: failures, the client's retry, the rest of the booking. *)

\* The process dies, a call throws or the inventory refuses; what was already
\* written stays.
Fail(r) ==
  /\ failures < MaxFailures
  /\ req[r].at \notin Answer
  /\ req' = [req EXCEPT ![r].at = "failed"]
  /\ failures' = failures + 1
  /\ UNCHANGED <<rowVars, paymentVars, providerVars, handed, lapses>>

Retry(r) ==
  /\ req[r].at \in Answer
  /\ req' = [req EXCEPT ![r] = Fresh]
  /\ UNCHANGED <<rowVars, paymentVars, providerVars, handed, failures, lapses>>

\* Confirmed, cancelled or expired by a handler of Holds or Settlement.
LeavePending(k) ==
  /\ status[k] = "PENDING_PAYMENT"
  /\ status' = [status EXCEPT ![k] = "left"]
  /\ UNCHANGED <<code, price, paymentVars, providerVars, req, handed, failures,
                 lapses>>

-----------------------------------------------------------------------------
Init == /\ status = [k \in Key |-> "none"]
        /\ code = [k \in Key |-> NoCode]
        /\ price = [k \in Key |-> 0]
        /\ payment = [k \in Key |-> 0]
        /\ amount = [k \in Key |-> 0]
        /\ intents = <<>>
        /\ cached = [k \in Key |-> 0]
        /\ req = [r \in Request |-> Fresh]
        /\ handed = {}
        /\ failures = 0
        /\ lapses = 0

Progress(r) == \/ Lookup(r) \/ Quote(r) \/ HoldSlot(r) \/ KeyTaken(r)
               \/ CodeTaken(r) \/ RequestIntent(r) \/ RecordPayment(r)
               \/ AnswerCreated(r) \/ Replay(r) \/ Heal(r) \/ Retry(r)

Next == \/ \E r \in Request : Progress(r) \/ Fail(r)
        \/ \E k \in Key : WindowLapses(k) \/ LeavePending(k)

Spec == Init /\ [][Next]_vars

\* A running request takes its next step, and a client keeps asking.
FairSpec == Spec /\ \A r \in Request : WF_vars(Progress(r))

-----------------------------------------------------------------------------
(* Properties.                                                              *)

\* What a client is asked to pay is what its booking says: every payment secret handed
\* out is of the intent the booking is recorded against, and the row, the booking and
\* that intent name one price, although racing requests of one key may have been quoted
\* different ones.  Creates, replays, heals, crashes and a lapsed window all lead to one
\* intent.  (booking.service.ts:294)
SecretsAreTracked ==
  \A k \in Key, i \in Intent :
    <<k, i>> \in handed => /\ payment[k] = i /\ amount[k] = price[k]
                           /\ intents[i] = [key |-> k, amount |-> price[k]]

\* However many requests a client fires, one key is answered as newly created
\* by at most one of them between two of its retries.
AtMostOneCreator ==
  \A r, s \in Request :
    KeyOf[r] = KeyOf[s] /\ req[r].at \in {"intent", "record", "audit", "created"}
      /\ req[s].at \in {"intent", "record", "audit", "created"} => r = s

\* The crash window between the hold and payment.create heals: a pending
\* booking without a payment row gets one as soon as a client retries for long
\* enough, unless the booking leaves PENDING_PAYMENT first.
CrashedCheckoutHeals ==
  \A k \in Key :
    status[k] = "PENDING_PAYMENT" /\ payment[k] = 0
      ~> status[k] = "left" \/ payment[k] # 0
=============================================================================
