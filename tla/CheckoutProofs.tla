--------------------------- MODULE CheckoutProofs ---------------------------
(*************************************************************************)
(* Proofs about the checkout of a booking (Checkout), for every number of *)
(* requests, keys, prices and access codes, and every bound on failures  *)
(* and lapses; and about what charges a rider and which plan they are on *)
(* (DriverBilling, which implements OnePlan), for any number of sessions, *)
(* plans, rows and deliveries.  The two share no state and no name.      *)
(*                                                                       *)
(* While a request of a key is at work the provider remembers the key, so *)
(* all of them learn the same intent; and the unique row of the booking  *)
(* makes one price and one payment row of whatever they were quoted.     *)
(*                                                                       *)
(* An agreement of a rider is seen from the moment its checkout is       *)
(* acknowledged or a row names it; the invariant is about the two ways to *)
(* lose sight of one.                                                    *)
(*************************************************************************)
EXTENDS Checkout, DriverBilling, FiniteSetTheorems, TLAPS

\* From the insert of the booking to the answer that it is new.
Creating == {"intent", "record", "audit", "created"}
\* Past the booking's row, and still to reach the provider or the payment row.
AtWork == {"intent", "record", "audit", "replay", "heal"}

\* Prices are real ones as soon as there is a quote, or a row.
Priced ==
  /\ \A r \in Request : req[r].at \in AtWork \cup {"hold"} => req[r].price \in Price
  /\ \A k \in Key : status[k] # "none" => price[k] \in Price

\* Without a row nothing is known of the key: no request of it is past the insert.
NothingBeforeTheRow ==
  \A k \in Key :
    status[k] = "none" =>
      /\ payment[k] = 0 /\ cached[k] = 0
      /\ \A r \in Request : KeyOf[r] = k => req[r].at \in {"lookup", "quote", "hold", "failed"}

\* Intent i was minted for the booking of k, at the price on its row.
MintedFor(k, i) == /\ i \in 1..Len(intents)
                   /\ intents[i] = [key |-> k, amount |-> price[k]]

IntentsMatchRows ==
  \A k \in Key : /\ payment[k] # 0 => amount[k] = price[k] /\ MintedFor(k, payment[k])
                 /\ cached[k] # 0 => MintedFor(k, cached[k])

\* What the requests of a key carry agrees with its rows and with the provider.
RequestAgrees(r) ==
  LET k == KeyOf[r]
      t == req[r]
  IN /\ t.at \in AtWork => t.price = price[k]
     /\ (t.at = "intent" \/ (t.at = "replay" /\ t.intent = 0)) /\ payment[k] # 0
          => payment[k] = cached[k]
     /\ t.at = "replay" /\ t.intent # 0 => t.intent = payment[k]
     /\ t.at \in {"record", "heal"} => /\ t.intent # 0 /\ t.intent = cached[k]
                                       /\ payment[k] \in {0, t.intent}
     /\ t.at = "audit" => t.intent # 0 /\ t.intent = payment[k]
RequestsAgree == \A r \in Request : RequestAgrees(r)

\* A request that has yet to hold the slot has attempts left.
AttemptsLeft ==
  \A r \in Request : req[r].at \in {"lookup", "quote", "hold"} => req[r].tries < MaxAttempts

HandedAreRecorded ==
  \A k \in Key, i \in Intent : <<k, i>> \in handed => payment[k] = i

Inv == /\ TypeOK /\ Priced /\ NothingBeforeTheRow /\ IntentsMatchRows /\ RequestsAgree
       /\ AttemptsLeft /\ HandedAreRecorded /\ AtMostOneCreator

Record == [at : Step, price : Price \cup {0}, tries : 0..MaxAttempts, intent : Intent \cup {0}]

-----------------------------------------------------------------------------
(* What the actions are built from.                                         *)

LEMMA IntentsAreNumbers == Intent \subseteq Nat \ {0}
<1>1. Cardinality(Key) \in Nat
  BY FS_CardinalityType, BoundAssumption
<1> QED
  BY <1>1, BoundAssumption DEF Intent

\* A row keeps the intents that were minted for it.
LEMMA MintedStay ==
  ASSUME NEW k, NEW i, MintedFor(k, i), price'[k] = price[k],
         intents' = intents \/ \E e : intents' = Append(intents, e),
         intents \in Seq([key : Key, amount : Price])
  PROVE  MintedFor(k, i)'
BY DEF MintedFor

\* The provider answers with the intent it remembers, or with a new one.
Answered(k, cents, i) ==
  /\ intents' \in Seq([key : Key, amount : Price])
  /\ Len(intents') \in Intent \cup {0}
  /\ cached' = [cached EXCEPT ![k] = i]
  /\ cached[k] # 0 => i = cached[k]
  /\ intents' = intents \/ \E e : intents' = Append(intents, e)
  /\ cached[k] = 0 => /\ i \in 1..Len(intents')
                      /\ intents'[i] = [key |-> k, amount |-> cents]

LEMMA IntentCreated ==
  ASSUME TypeOK, NEW k \in Key, NEW cents \in Price, NEW i \in Intent,
         CreateIntent(k, cents, i)
  PROVE  Answered(k, cents, i)
<1>1. intents \in Seq([key : Key, amount : Price]) /\ cached \in [Key -> Intent \cup {0}]
  BY DEF TypeOK
<1>2. CASE cached[k] # 0
  BY <1>1, <1>2 DEF CreateIntent, providerVars, TypeOK, Answered
<1>3. CASE cached[k] = 0
  <2> DEFINE e == [key |-> k, amount |-> cents]
  <2>1. i = Len(intents) + 1 /\ intents' = Append(intents, e)
        /\ cached' = [cached EXCEPT ![k] = i]
    BY <1>3 DEF CreateIntent
  <2>2. e \in [key : Key, amount : Price]
    OBVIOUS
  <2> HIDE DEF e
  <2>3. Len(intents') = i /\ i \in 1..Len(intents') /\ intents'[i] = e
    BY <1>1, <2>1, <2>2
  <2> QED
    BY <1>1, <1>3, <2>1, <2>2, <2>3 DEF e, Answered
<1> QED
  BY <1>2, <1>3

\* A request that moves by itself, and agrees with what it finds, disturbs nothing.
LEMMA OneRequestMoves ==
  ASSUME Inv, NEW r \in Request, NEW x \in Record, req' = [req EXCEPT ![r] = x],
         UNCHANGED <<rowVars, paymentVars, providerVars>>,
         \/ handed' = handed
         \/ /\ payment[KeyOf[r]] # 0
            /\ handed' = handed \cup {<<KeyOf[r], payment[KeyOf[r]]>>},
         failures' \in 0..MaxFailures, lapses' = lapses,
         x.at \in Creating => req[r].at \in Creating,
         x.at \in AtWork \cup {"hold"} => x.price \in Price,
         status[KeyOf[r]] = "none" => x.at \in {"lookup", "quote", "hold", "failed"},
         x.at \in {"lookup", "quote", "hold"} => x.tries < MaxAttempts,
         RequestAgrees(r)'
  PROVE  Inv'
<1> USE DEF rowVars, paymentVars, providerVars
<1>1. \A s \in Request : req'[s] = IF s = r THEN x ELSE req[s]
  BY DEF Inv, TypeOK
<1>2. TypeOK'
  <2>1. req' \in [Request -> Record]
    BY DEF Inv, TypeOK, Record
  <2>2. handed' \subseteq Key \X Intent
    <3>1. handed \subseteq Key \X Intent /\ KeyOf[r] \in Key
      BY KeyAssumption DEF Inv, TypeOK
    <3>2. payment[KeyOf[r]] # 0 => payment[KeyOf[r]] \in Intent
      BY <3>1 DEF Inv, TypeOK
    <3> QED
      BY <3>1, <3>2
  <2> QED
    BY <2>1, <2>2 DEF Inv, TypeOK, Record
<1>3. Priced'
  BY <1>1 DEF Inv, Priced
<1>4. NothingBeforeTheRow'
  BY <1>1 DEF Inv, NothingBeforeTheRow
<1>5. IntentsMatchRows'
  BY DEF Inv, IntentsMatchRows, MintedFor
<1>6. RequestsAgree'
  BY <1>1 DEF Inv, RequestsAgree, RequestAgrees
<1>7. HandedAreRecorded'
  BY DEF Inv, HandedAreRecorded
<1>8. AtMostOneCreator'
  BY <1>1 DEF Inv, AtMostOneCreator, Creating
<1>9. AttemptsLeft'
  BY <1>1 DEF Inv, AttemptsLeft
<1> QED
  BY <1>2, <1>3, <1>4, <1>5, <1>6, <1>7, <1>8, <1>9 DEF Inv

-----------------------------------------------------------------------------
(* Each action preserves the invariant.                                     *)

LEMMA LookupStep == ASSUME Inv, NEW r \in Request, Lookup(r) PROVE Inv'
<1> DEFINE k == KeyOf[r]
           x == CASE status[k] = "none" -> [req[r] EXCEPT !.at = "quote"]
                  [] status[k] = "left" -> [req[r] EXCEPT !.at = "base"]
                  [] OTHER -> [req[r] EXCEPT !.at = "replay", !.intent = payment[k],
                                             !.price = price[k]]
<1>1. k \in Key /\ req[r] \in Record /\ req[r].at = "lookup"
  BY KeyAssumption DEF Lookup, At, Inv, TypeOK, Record
<1>2. req' = [req EXCEPT ![r] = x]
  BY DEF Lookup
<1>3. x \in Record
  BY <1>1 DEF Record, Step, Inv, TypeOK
<1>4. \/ x.at = "quote" /\ status[k] = "none"
      \/ x.at = "base" /\ status[k] = "left"
      \/ /\ x.at = "replay" /\ x.intent = payment[k] /\ x.price = price[k]
         /\ status[k] # "none"
  BY <1>1 DEF Record
<1> HIDE DEF x
<1>5. UNCHANGED <<rowVars, paymentVars, providerVars, handed, failures, lapses>>
  BY DEF Lookup
<1>6. req'[r] = x
  BY <1>2 DEF Inv, TypeOK
<1>7. RequestAgrees(r)'
  BY <1>4, <1>5, <1>6 DEF RequestAgrees, AtWork, rowVars, paymentVars, providerVars
<1>8. x.at \in AtWork \cup {"hold"} => x.price \in Price
  BY <1>1, <1>4 DEF AtWork, Inv, Priced
<1>9. x.tries = req[r].tries /\ req[r].tries < MaxAttempts
  BY <1>1 DEF x, Record, Inv, AttemptsLeft
<1> QED
  BY <1>2, <1>3, <1>4, <1>5, <1>7, <1>8, <1>9, OneRequestMoves DEF Creating, Inv, TypeOK

LEMMA QuoteStep == ASSUME Inv, NEW r \in Request, Quote(r) PROVE Inv'
<1>1. PICK p \in Price : req' = [req EXCEPT ![r].at = "hold", ![r].price = p]
  BY DEF Quote
<1> DEFINE x == [req[r] EXCEPT !.at = "hold", !.price = p]
<1>2. req[r] \in Record
  BY DEF Inv, TypeOK, Record
<1>3. x \in Record /\ x.at = "hold" /\ x.price = p /\ x.tries < MaxAttempts
  BY <1>2 DEF Record, Step, Quote, At, Inv, AttemptsLeft
<1>4. req' = [req EXCEPT ![r] = x]
  BY <1>1, <1>2 DEF Inv, TypeOK
<1> HIDE DEF x
<1>5. RequestAgrees(r)'
  BY <1>3, <1>4 DEF RequestAgrees, AtWork, Inv, TypeOK
<1> QED
  BY <1>3, <1>4, <1>5, OneRequestMoves DEF Quote, Creating, Inv, TypeOK

LEMMA KeyTakenStep == ASSUME Inv, NEW r \in Request, KeyTaken(r) PROVE Inv'
<1> DEFINE x == [req[r] EXCEPT !.at = "conflict"]
<1>1. x \in Record /\ x.at = "conflict" /\ req' = [req EXCEPT ![r] = x]
  BY DEF KeyTaken, Inv, TypeOK, Record, Step
<1> HIDE DEF x
<1>2. RequestAgrees(r)'
  BY <1>1 DEF RequestAgrees, AtWork, Inv, TypeOK
<1> QED
  BY <1>1, <1>2, OneRequestMoves DEF KeyTaken, Creating, AtWork, Inv, TypeOK

LEMMA CodeTakenStep == ASSUME Inv, NEW r \in Request, CodeTaken(r) PROVE Inv'
<1> DEFINE x == [req[r] EXCEPT !.tries = @ + 1, !.at = IF LastAttempt(r) THEN "failed" ELSE "hold"]
<1>1. /\ req[r] \in Record /\ req[r].at = "hold" /\ req[r].price \in Price
      /\ req[r].tries < MaxAttempts
  BY DEF CodeTaken, At, Inv, TypeOK, Record, Priced, AttemptsLeft
<1>2. req' = [req EXCEPT ![r] = x]
  BY DEF CodeTaken
<1>3. /\ x \in Record /\ x.price = req[r].price
      /\ x.at \in {"failed", "hold"}
      /\ x.at = "hold" => x.tries < MaxAttempts
  <2>1. req[r].tries + 1 \in 0..MaxAttempts /\ req[r].tries \in Nat
    BY <1>1, AttemptAssumption DEF Record
  <2>2. x.tries = req[r].tries + 1 /\ x.price = req[r].price
        /\ x.at = IF LastAttempt(r) THEN "failed" ELSE "hold"
    BY <1>1 DEF Record
  <2>3. x \in Record
    BY <1>1, <2>1 DEF Record, Step
  <2> HIDE DEF x
  <2> QED
    BY <2>1, <2>2, <2>3, AttemptAssumption DEF LastAttempt
<1> HIDE DEF x
<1>4. RequestAgrees(r)'
  BY <1>2, <1>3 DEF RequestAgrees, AtWork, Inv, TypeOK
<1> QED
  BY <1>1, <1>2, <1>3, <1>4, OneRequestMoves DEF CodeTaken, Creating, Inv, TypeOK

LEMMA FailStep == ASSUME Inv, NEW r \in Request, Fail(r) PROVE Inv'
<1> DEFINE x == [req[r] EXCEPT !.at = "failed"]
<1>1. x \in Record /\ x.at = "failed" /\ req' = [req EXCEPT ![r] = x]
  BY DEF Fail, Inv, TypeOK, Record, Step
<1> HIDE DEF x
<1>2. RequestAgrees(r)'
  BY <1>1 DEF RequestAgrees, AtWork, Inv, TypeOK
<1>3. failures' \in 0..MaxFailures
  BY BoundAssumption DEF Fail, Inv, TypeOK
<1> QED
  BY <1>1, <1>2, <1>3, OneRequestMoves DEF Fail, Creating, AtWork

LEMMA RetryStep == ASSUME Inv, NEW r \in Request, Retry(r) PROVE Inv'
<1>1. Fresh \in Record /\ Fresh.at = "lookup" /\ Fresh.tries < MaxAttempts
  BY AttemptAssumption DEF Fresh, Record, Step
<1>2. req' = [req EXCEPT ![r] = Fresh]
  BY DEF Retry
<1>3. RequestAgrees(r)'
  BY <1>1, <1>2 DEF RequestAgrees, AtWork, Inv, TypeOK
<1> QED
  BY <1>1, <1>2, <1>3, OneRequestMoves DEF Retry, Creating, AtWork, Inv, TypeOK

\* The insert of the row: the one step that makes a request a creator.
LEMMA HoldSlotStep == ASSUME Inv, NEW r \in Request, HoldSlot(r) PROVE Inv'
<1> DEFINE k == KeyOf[r]
<1>1. /\ k \in Key /\ status[k] = "none" /\ req[r].at = "hold" /\ req[r].price \in Price
      /\ payment[k] = 0 /\ cached[k] = 0
      /\ \A s \in Request : KeyOf[s] = k => req[s].at \in {"lookup", "quote", "hold", "failed"}
  BY KeyAssumption DEF HoldSlot, Unclaimed, At, Inv, Priced, NothingBeforeTheRow, AtWork
<1>2. /\ status' = [status EXCEPT ![k] = "PENDING_PAYMENT"]
      /\ price' = [price EXCEPT ![k] = req[r].price]
      /\ req' = [req EXCEPT ![r].at = "intent"]
      /\ UNCHANGED <<payment, amount, intents, cached, handed, failures, lapses>>
  BY DEF HoldSlot, paymentVars, providerVars
<1>3. \A s \in Request : /\ s # r => req'[s] = req[s]
                         /\ req'[r].at = "intent" /\ req'[r].price = req[r].price
  BY <1>2 DEF Inv, TypeOK
<1>4. TypeOK'
  <2>1. code' \in [Key -> Code \cup {NoCode}]
    BY DEF HoldSlot, Inv, TypeOK
  <2>2. req' \in [Request -> Record]
    BY <1>2 DEF Inv, TypeOK, Record, Step
  <2> QED
    BY <1>1, <1>2, <2>1, <2>2 DEF Inv, TypeOK, Record
<1>5. Priced'
  BY <1>1, <1>2, <1>3 DEF Inv, Priced, TypeOK
<1>6. NothingBeforeTheRow'
  BY <1>1, <1>2, <1>3 DEF Inv, NothingBeforeTheRow, TypeOK
<1>7. IntentsMatchRows'
  BY <1>1, <1>2 DEF Inv, IntentsMatchRows, MintedFor, TypeOK
<1>8. RequestsAgree'
  <2> SUFFICES ASSUME NEW s \in Request PROVE RequestAgrees(s)'
    BY DEF RequestsAgree
  <2>1. CASE KeyOf[s] = k /\ s # r
    BY <1>1, <1>3, <2>1 DEF RequestAgrees, AtWork
  <2>2. CASE s = r
    <3>1. price'[k] = req[r].price /\ payment'[k] = 0
      BY <1>1, <1>2 DEF Inv, TypeOK
    <3> QED
      BY <1>3, <2>2, <3>1 DEF RequestAgrees, AtWork
  <2>3. CASE KeyOf[s] # k
    <3>1. req'[s] = req[s] /\ price'[KeyOf[s]] = price[KeyOf[s]]
      BY <1>1, <1>2, <1>3, <2>3 DEF Inv, TypeOK
    <3> QED
      BY <1>2, <3>1 DEF Inv, RequestsAgree, RequestAgrees
  <2> QED
    BY <2>1, <2>2, <2>3
<1>9. HandedAreRecorded' /\ AttemptsLeft'
  BY <1>2, <1>3 DEF Inv, HandedAreRecorded, AttemptsLeft
<1>10. AtMostOneCreator'
  BY <1>1, <1>3 DEF Inv, AtMostOneCreator
<1> QED
  BY <1>4, <1>5, <1>6, <1>7, <1>8, <1>9, <1>10 DEF Inv

\* The provider learns of a key, or answers what it knows; the row is there already.
LEMMA IntentKnown ==
  ASSUME Inv, NEW r \in Request, NEW i \in Intent, req[r].at \in {"intent", "replay"},
         CreateIntent(KeyOf[r], req[r].price, i), UNCHANGED <<rowVars, paymentVars>>
  PROVE  /\ intents' \in Seq([key : Key, amount : Price])
         /\ Len(intents') \in Intent \cup {0}
         /\ cached' = [cached EXCEPT ![KeyOf[r]] = i]
         /\ cached[KeyOf[r]] # 0 => i = cached[KeyOf[r]]
         /\ i # 0
         /\ IntentsMatchRows'
<1> USE DEF rowVars, paymentVars
<1> DEFINE k == KeyOf[r]
<1>1. /\ k \in Key /\ req[r].price \in Price /\ req[r].price = price[k]
      /\ payment \in [Key -> Intent \cup {0}] /\ cached \in [Key -> Intent \cup {0}]
      /\ intents \in Seq([key : Key, amount : Price])
  BY KeyAssumption DEF Inv, Priced, AtWork, RequestsAgree, RequestAgrees, TypeOK
<1>a. TypeOK /\ CreateIntent(k, req[r].price, i)
  BY DEF Inv
<1> HIDE DEF k
<1>2. Answered(k, req[r].price, i)
  BY <1>1, <1>a, IntentCreated
<1> USE DEF Answered, k
<1>3. \A o \in Key, j \in Intent : MintedFor(o, j) => MintedFor(o, j)'
  BY <1>1, <1>2, MintedStay
<1>4. MintedFor(k, i)'
  <2>1. CASE cached[k] = 0
    BY <1>1, <1>2, <2>1 DEF MintedFor
  <2>2. CASE cached[k] # 0
    BY <1>1, <1>2, <1>3, <2>2 DEF Inv, IntentsMatchRows
  <2> QED
    BY <2>1, <2>2
<1>5. IntentsMatchRows'
  BY <1>1, <1>2, <1>3, <1>4 DEF Inv, IntentsMatchRows
<1> QED
  BY <1>2, <1>5, IntentsAreNumbers

\* A request that has asked the provider moves on with the intent it was told.
LEMMA ProviderAnswered ==
  ASSUME Inv, NEW r \in Request, NEW i \in Intent, req[r].at \in {"intent", "replay"},
         CreateIntent(KeyOf[r], req[r].price, i), UNCHANGED <<rowVars, paymentVars>>,
         UNCHANGED <<failures, lapses>>,
         NEW x \in Record, req' = [req EXCEPT ![r] = x],
         x.at \in {"record", "base", "heal", "replayed"}, x.price = req[r].price,
         x.at = "record" => req[r].at = "intent",
         handed' \subseteq handed \cup {<<KeyOf[r], payment[KeyOf[r]]>>},
         payment[KeyOf[r]] = 0 => handed' = handed,
         i # 0 => RequestAgrees(r)'
  PROVE  Inv'
<1> USE DEF rowVars, paymentVars
<1> DEFINE k == KeyOf[r]
<1>1. /\ intents' \in Seq([key : Key, amount : Price])
      /\ Len(intents') \in Intent \cup {0}
      /\ cached' = [cached EXCEPT ![k] = i]
      /\ cached[k] # 0 => i = cached[k]
      /\ i # 0
      /\ IntentsMatchRows'
  BY IntentKnown
<1>2. k \in Key /\ cached \in [Key -> Intent \cup {0}] /\ payment \in [Key -> Intent \cup {0}]
  BY KeyAssumption DEF Inv, TypeOK
<1>3. \A s \in Request : req'[s] = IF s = r THEN x ELSE req[s]
  BY DEF Inv, TypeOK
<1>4. TypeOK'
  <2>1. req' \in [Request -> Record]
    BY DEF Inv, TypeOK, Record
  <2>2. handed' \subseteq Key \X Intent
    BY <1>2 DEF Inv, TypeOK
  <2>3. cached' \in [Key -> Intent \cup {0}]
    BY <1>1, <1>2
  <2> QED
    BY <1>1, <2>1, <2>2, <2>3 DEF Inv, TypeOK, Record
<1>5. Priced'
  BY <1>3 DEF Inv, Priced, AtWork
<1>6. NothingBeforeTheRow'
  <2>1. status[k] # "none"
    BY <1>2 DEF Inv, NothingBeforeTheRow
  <2> QED
    BY <1>1, <1>2, <1>3, <2>1 DEF Inv, NothingBeforeTheRow
<1>7. RequestsAgree'
  <2> SUFFICES ASSUME NEW s \in Request PROVE RequestAgrees(s)'
    BY DEF RequestsAgree
  <2>1. CASE s = r
    BY <1>1, <2>1
  <2>2. CASE s # r /\ KeyOf[s] # k
    <3>1. req'[s] = req[s] /\ cached'[KeyOf[s]] = cached[KeyOf[s]]
      BY <1>1, <1>2, <1>3, <2>2, KeyAssumption
    <3> QED
      BY <3>1 DEF Inv, RequestsAgree, RequestAgrees
  <2>3. CASE s # r /\ KeyOf[s] = k
    <3>1. req'[s] = req[s] /\ cached'[k] = i
      BY <1>1, <1>2, <1>3, <2>3
    <3>2. payment[k] # 0 /\ cached[k] = 0 => req[s].at \notin {"intent", "record", "heal"}
      BY <2>3 DEF Inv, RequestsAgree, RequestAgrees
    <3> QED
      BY <1>1, <2>3, <3>1, <3>2 DEF Inv, RequestsAgree, RequestAgrees
  <2> QED
    BY <2>1, <2>2, <2>3
<1>8. HandedAreRecorded'
  BY <1>2 DEF Inv, HandedAreRecorded
<1>9. AttemptsLeft'
  BY <1>3 DEF Inv, AttemptsLeft
<1>10. AtMostOneCreator'
  BY <1>3 DEF Inv, AtMostOneCreator
<1> QED
  BY <1>1, <1>4, <1>5, <1>6, <1>7, <1>8, <1>9, <1>10 DEF Inv

LEMMA RequestIntentStep == ASSUME Inv, NEW r \in Request, RequestIntent(r) PROVE Inv'
<1> DEFINE k == KeyOf[r]
<1>1. PICK i \in Intent : /\ CreateIntent(k, req[r].price, i)
                          /\ req' = [req EXCEPT ![r].at = "record", ![r].intent = i]
  BY DEF RequestIntent
<1> DEFINE x == [req[r] EXCEPT !.at = "record", !.intent = i]
<1>2. req[r] \in Record /\ req[r].at = "intent" /\ k \in Key
  BY KeyAssumption DEF RequestIntent, At, Inv, TypeOK, Record
<1>3. x \in Record /\ x.at = "record" /\ x.price = req[r].price /\ x.intent = i
  BY <1>2 DEF Record, Step
<1>4. req' = [req EXCEPT ![r] = x] /\ req'[r] = x
  BY <1>1, <1>2 DEF Inv, TypeOK
<1> HIDE DEF x
<1>5. UNCHANGED <<status, code, price, payment, amount, handed, failures, lapses>>
  BY DEF RequestIntent, rowVars, paymentVars
<1>6. i # 0 => RequestAgrees(r)'
  <2>1. cached'[k] = i /\ (cached[k] # 0 => i = cached[k])
    BY <1>1, <1>2, <1>5, IntentKnown DEF rowVars, paymentVars, Inv, TypeOK
  <2>2. req[r].price = price[k] /\ (payment[k] # 0 => payment[k] = cached[k])
    BY <1>2 DEF Inv, RequestsAgree, RequestAgrees, AtWork
  <2> QED
    BY <1>3, <1>4, <1>5, <2>1, <2>2 DEF RequestAgrees
<1> QED
  BY <1>1, <1>2, <1>3, <1>4, <1>5, <1>6, ProviderAnswered DEF rowVars, paymentVars

\* The first payment row of a booking: its intent is the one the provider remembers.
LEMMA PaymentWritten ==
  ASSUME Inv, NEW r \in Request, req[r].at \in {"record", "heal"}, payment[KeyOf[r]] = 0,
         WritePayment(r), UNCHANGED <<rowVars, providerVars, failures, lapses>>,
         NEW x \in Record, req' = [req EXCEPT ![r] = x], x.at \in {"audit", "replayed"},
         x.intent = req[r].intent, x.price = req[r].price,
         x.at = "audit" => req[r].at = "record",
         handed' \subseteq handed \cup {<<KeyOf[r], req[r].intent>>}
  PROVE  Inv'
<1> USE DEF rowVars, providerVars
<1> DEFINE k == KeyOf[r]
<1>1. /\ k \in Key /\ req[r].intent \in Intent /\ req[r].intent = cached[k]
      /\ req[r].price \in Price /\ req[r].price = price[k]
  BY KeyAssumption DEF Inv, TypeOK, Priced, RequestsAgree, RequestAgrees, AtWork
<1>2. /\ payment' = [payment EXCEPT ![k] = req[r].intent]
      /\ amount' = [amount EXCEPT ![k] = req[r].price]
  BY DEF WritePayment
<1>3. /\ payment'[k] = req[r].intent /\ amount'[k] = req[r].price
      /\ \A o \in Key \ {k} : payment'[o] = payment[o] /\ amount'[o] = amount[o]
  BY <1>1, <1>2 DEF Inv, TypeOK
<1>4. \A s \in Request : req'[s] = IF s = r THEN x ELSE req[s]
  BY DEF Inv, TypeOK
<1>5. TypeOK'
  <2>1. req' \in [Request -> Record]
    BY DEF Inv, TypeOK, Record
  <2>2. payment' \in [Key -> Intent \cup {0}] /\ amount' \in [Key -> Price \cup {0}]
    BY <1>1, <1>2 DEF Inv, TypeOK
  <2>3. handed' \subseteq Key \X Intent
    BY <1>1 DEF Inv, TypeOK
  <2> QED
    BY <2>1, <2>2, <2>3 DEF Inv, TypeOK, Record
<1>6. Priced'
  BY <1>4 DEF Inv, Priced, AtWork
<1>7. NothingBeforeTheRow'
  <2>1. status[k] # "none"
    BY <1>1 DEF Inv, NothingBeforeTheRow
  <2> QED
    BY <1>1, <1>3, <1>4, <2>1 DEF Inv, NothingBeforeTheRow
<1>8. IntentsMatchRows'
  <2>1. \A o \in Key, i \in Intent : MintedFor(o, i) => MintedFor(o, i)'
    BY DEF MintedFor
  <2>2. req[r].intent # 0 /\ MintedFor(k, req[r].intent)
    BY <1>1, IntentsAreNumbers DEF Inv, IntentsMatchRows
  <2> QED
    BY <1>1, <1>3, <2>1, <2>2 DEF Inv, IntentsMatchRows, TypeOK
<1>9. RequestsAgree'
  <2> SUFFICES ASSUME NEW s \in Request PROVE RequestAgrees(s)'
    BY DEF RequestsAgree
  <2>1. CASE s = r
    BY <1>1, <1>3, <1>4, <2>1, IntentsAreNumbers DEF RequestAgrees, AtWork
  <2>2. CASE s # r /\ KeyOf[s] = k
    BY <1>1, <1>3, <1>4, <2>2 DEF Inv, RequestsAgree, RequestAgrees
  <2>3. CASE KeyOf[s] # k
    <3>1. req'[s] = req[s] /\ payment'[KeyOf[s]] = payment[KeyOf[s]]
      BY <1>3, <1>4, <2>3, KeyAssumption
    <3> QED
      BY <3>1 DEF Inv, RequestsAgree, RequestAgrees
  <2> QED
    BY <2>1, <2>2, <2>3
<1>10. HandedAreRecorded'
  BY <1>1, <1>3, IntentsAreNumbers DEF Inv, HandedAreRecorded
<1>11. AttemptsLeft'
  BY <1>4 DEF Inv, AttemptsLeft
<1>12. AtMostOneCreator'
  BY <1>4 DEF Inv, AtMostOneCreator
<1> QED
  BY <1>5, <1>6, <1>7, <1>8, <1>9, <1>10, <1>11, <1>12 DEF Inv

LEMMA RecordPaymentStep == ASSUME Inv, NEW r \in Request, RecordPayment(r) PROVE Inv'
<1>1. req[r].at = "record" /\ req[r] \in Record /\ req \in [Request -> Record]
  BY DEF RecordPayment, At, Inv, TypeOK, Record
<1>2. CASE payment[KeyOf[r]] = 0
  <2> DEFINE x == [req[r] EXCEPT !.at = "audit"]
  <2>1. x \in Record /\ x.at = "audit" /\ x.intent = req[r].intent /\ x.price = req[r].price
    BY <1>1 DEF Record, Step
  <2>2. req' = [req EXCEPT ![r] = x] /\ WritePayment(r)
    BY <1>1, <1>2 DEF RecordPayment
  <2> HIDE DEF x
  <2> QED
    BY <1>1, <1>2, <2>1, <2>2, PaymentWritten DEF RecordPayment
<1>3. CASE payment[KeyOf[r]] # 0
  <2> DEFINE x == [req[r] EXCEPT !.at = "failed"]
  <2>1. x \in Record /\ x.at = "failed"
    BY <1>1 DEF Record, Step
  <2>2. req' = [req EXCEPT ![r] = x] /\ req'[r] = x
    BY <1>1, <1>3 DEF RecordPayment
  <2> HIDE DEF x
  <2>3. RequestAgrees(r)'
    BY <2>1, <2>2 DEF RequestAgrees, AtWork
  <2> QED
    BY <1>3, <2>1, <2>2, <2>3, OneRequestMoves
    DEF RecordPayment, Creating, AtWork, Inv, TypeOK
<1> QED
  BY <1>2, <1>3

LEMMA AnswerCreatedStep == ASSUME Inv, NEW r \in Request, AnswerCreated(r) PROVE Inv'
<1> DEFINE x == [req[r] EXCEPT !.at = "created"]
<1>1. /\ req[r].at = "audit" /\ req[r].intent # 0 /\ req[r].intent = payment[KeyOf[r]]
      /\ status[KeyOf[r]] # "none" /\ KeyOf[r] \in Key
  BY KeyAssumption
  DEF AnswerCreated, At, Inv, RequestsAgree, RequestAgrees, NothingBeforeTheRow
<1>2. x \in Record /\ x.at = "created" /\ req' = [req EXCEPT ![r] = x] /\ req'[r] = x
  BY DEF AnswerCreated, Inv, TypeOK, Record, Step
<1> HIDE DEF x
<1>3. RequestAgrees(r)'
  BY <1>2 DEF RequestAgrees, AtWork
<1>4. handed' = handed \cup {<<KeyOf[r], payment[KeyOf[r]]>>}
  BY <1>1 DEF AnswerCreated, HandOut
<1> QED
  BY <1>1, <1>2, <1>3, <1>4, OneRequestMoves DEF AnswerCreated, Creating, AtWork, Inv, TypeOK

LEMMA HealStep == ASSUME Inv, NEW r \in Request, Heal(r) PROVE Inv'
<1> DEFINE x == [req[r] EXCEPT !.at = "replayed"]
<1>1. /\ req[r].at = "heal" /\ req[r].intent # 0 /\ payment[KeyOf[r]] \in {0, req[r].intent}
      /\ status[KeyOf[r]] # "none" /\ KeyOf[r] \in Key /\ req[r] \in Record
      /\ req \in [Request -> Record]
  BY KeyAssumption
  DEF Heal, At, Inv, RequestsAgree, RequestAgrees, NothingBeforeTheRow, TypeOK, Record
<1>2. x \in Record /\ x.at = "replayed" /\ x.intent = req[r].intent /\ x.price = req[r].price
  BY <1>1 DEF Record, Step
<1>3. req' = [req EXCEPT ![r] = x] /\ req'[r] = x
  BY <1>1 DEF Heal
<1> HIDE DEF x
<1>4. CASE payment[KeyOf[r]] = 0
  BY <1>1, <1>2, <1>3, <1>4, PaymentWritten DEF Heal, HandOut
<1>5. CASE payment[KeyOf[r]] # 0
  <2>1. RequestAgrees(r)'
    BY <1>2, <1>3 DEF RequestAgrees, AtWork
  <2>2. handed' = handed \cup {<<KeyOf[r], payment[KeyOf[r]]>>}
    BY <1>1, <1>5 DEF Heal, HandOut
  <2> QED
    BY <1>1, <1>2, <1>3, <1>5, <2>1, <2>2, OneRequestMoves
    DEF Heal, Creating, AtWork, Inv, TypeOK
<1> QED
  BY <1>4, <1>5

LEMMA ReplayStep == ASSUME Inv, NEW r \in Request, Replay(r) PROVE Inv'
<1> DEFINE k == KeyOf[r]
<1>1. PICK i \in Intent :
        /\ CreateIntent(k, req[r].price, i)
        /\ \/ req' = [req EXCEPT ![r].at = "base"] /\ handed' = handed
           \/ /\ req[r].intent = 0 /\ handed' = handed
              /\ req' = [req EXCEPT ![r].at = "heal", ![r].intent = i]
           \/ /\ req[r].intent = i /\ i # 0
              /\ req' = [req EXCEPT ![r].at = "replayed"]
              /\ handed' = handed \cup {<<k, i>>}
  BY DEF Replay, Matches
<1>2. /\ req[r] \in Record /\ req \in [Request -> Record] /\ req[r].at = "replay" /\ k \in Key
      /\ req[r].price = price[k]
      /\ req[r].intent # 0 => req[r].intent = payment[k]
      /\ req[r].intent = 0 /\ payment[k] # 0 => payment[k] = cached[k]
  BY KeyAssumption
  DEF Replay, At, Inv, TypeOK, Record, RequestsAgree, RequestAgrees, AtWork
<1>3. UNCHANGED <<status, code, price, payment, amount, failures, lapses>>
  BY DEF Replay, rowVars, paymentVars
<1>4. cached'[k] = i /\ (cached[k] # 0 => i = cached[k])
  BY <1>1, <1>2, <1>3, IntentKnown DEF rowVars, paymentVars, Inv, TypeOK
<1>5. CASE req' = [req EXCEPT ![r].at = "base"] /\ handed' = handed
  <2> DEFINE x == [req[r] EXCEPT !.at = "base"]
  <2>1. x \in Record /\ x.at = "base" /\ x.price = req[r].price
    BY <1>2 DEF Record, Step
  <2>2. req' = [req EXCEPT ![r] = x] /\ req'[r] = x
    BY <1>2, <1>5
  <2> HIDE DEF x
  <2>3. RequestAgrees(r)'
    BY <2>1, <2>2 DEF RequestAgrees, AtWork
  <2> QED
    BY <1>1, <1>2, <1>3, <1>5, <2>1, <2>2, <2>3, ProviderAnswered DEF rowVars, paymentVars
<1>6. CASE /\ req[r].intent = 0 /\ handed' = handed
           /\ req' = [req EXCEPT ![r].at = "heal", ![r].intent = i]
  <2> DEFINE x == [req[r] EXCEPT !.at = "heal", !.intent = i]
  <2>1. x \in Record /\ x.at = "heal" /\ x.price = req[r].price /\ x.intent = i
    BY <1>2 DEF Record, Step
  <2>2. req' = [req EXCEPT ![r] = x] /\ req'[r] = x
    BY <1>2, <1>6
  <2> HIDE DEF x
  <2>3. i # 0 => RequestAgrees(r)'
    BY <1>2, <1>3, <1>4, <1>6, <2>1, <2>2 DEF RequestAgrees
  <2> QED
    BY <1>1, <1>2, <1>3, <1>6, <2>1, <2>2, <2>3, ProviderAnswered DEF rowVars, paymentVars
<1>7. CASE /\ req[r].intent = i /\ i # 0
           /\ req' = [req EXCEPT ![r].at = "replayed"]
           /\ handed' = handed \cup {<<k, i>>}
  <2> DEFINE x == [req[r] EXCEPT !.at = "replayed"]
  <2>1. x \in Record /\ x.at = "replayed" /\ x.price = req[r].price
    BY <1>2 DEF Record, Step
  <2>2. req' = [req EXCEPT ![r] = x] /\ req'[r] = x
    BY <1>2, <1>7
  <2> HIDE DEF x
  <2>3. RequestAgrees(r)'
    BY <2>1, <2>2 DEF RequestAgrees, AtWork
  <2>4. payment[k] # 0 /\ handed' \subseteq handed \cup {<<k, payment[k]>>}
    BY <1>2, <1>7
  <2> QED
    BY <1>1, <1>2, <1>3, <2>1, <2>2, <2>3, <2>4, ProviderAnswered DEF rowVars, paymentVars
<1> QED
  BY <1>1, <1>5, <1>6, <1>7

\* The window lapses only when no request of the key can still depend on it.
LEMMA WindowLapsesStep == ASSUME Inv, NEW k \in Key, WindowLapses(k) PROVE Inv'
<1> USE DEF rowVars, paymentVars
<1>1. /\ cached' = [cached EXCEPT ![k] = 0] /\ lapses' = lapses + 1 /\ lapses < MaxLapses
      /\ \A r \in Request : KeyOf[r] = k => req[r].at \in Answer \cup {"lookup"}
      /\ UNCHANGED <<status, code, price, payment, amount, intents, req, handed, failures>>
  BY DEF WindowLapses
<1>2. cached'[k] = 0 /\ \A o \in Key \ {k} : cached'[o] = cached[o]
  BY <1>1 DEF Inv, TypeOK
<1>3. TypeOK'
  BY <1>1, BoundAssumption DEF Inv, TypeOK
<1>4. Priced' /\ NothingBeforeTheRow' /\ AttemptsLeft' /\ HandedAreRecorded' /\ AtMostOneCreator'
  BY <1>1, <1>2
  DEF Inv, Priced, NothingBeforeTheRow, AttemptsLeft, HandedAreRecorded, AtMostOneCreator
<1>5. IntentsMatchRows'
  BY <1>1, <1>2 DEF Inv, IntentsMatchRows, MintedFor
<1>6. RequestsAgree'
  <2> SUFFICES ASSUME NEW s \in Request PROVE RequestAgrees(s)'
    BY DEF RequestsAgree
  <2>1. CASE KeyOf[s] = k
    BY <1>1, <2>1 DEF RequestAgrees, AtWork, Answer
  <2>2. CASE KeyOf[s] # k
    BY <1>1, <1>2, <2>2, KeyAssumption DEF Inv, RequestsAgree, RequestAgrees
  <2> QED
    BY <2>1, <2>2
<1> QED
  BY <1>3, <1>4, <1>5, <1>6 DEF Inv

LEMMA LeavePendingStep == ASSUME Inv, NEW k \in Key, LeavePending(k) PROVE Inv'
<1> USE DEF paymentVars, providerVars
<1>1. /\ status' = [status EXCEPT ![k] = "left"] /\ status[k] = "PENDING_PAYMENT"
      /\ UNCHANGED <<code, price, payment, amount, intents, cached, req, handed, failures, lapses>>
  BY DEF LeavePending
<1>2. \A o \in Key : status'[o] = "none" <=> status[o] = "none"
  BY <1>1 DEF Inv, TypeOK
<1>3. TypeOK' /\ Priced' /\ NothingBeforeTheRow'
  BY <1>1, <1>2 DEF Inv, TypeOK, Priced, NothingBeforeTheRow
<1>4. IntentsMatchRows' /\ HandedAreRecorded' /\ AttemptsLeft' /\ AtMostOneCreator'
  BY <1>1 DEF Inv, IntentsMatchRows, MintedFor, HandedAreRecorded, AttemptsLeft, AtMostOneCreator
<1>5. RequestsAgree'
  BY <1>1 DEF Inv, RequestsAgree, RequestAgrees
<1> QED
  BY <1>3, <1>4, <1>5 DEF Inv

-----------------------------------------------------------------------------
LEMMA InvInit == Init => Inv
<1> SUFFICES ASSUME Init PROVE Inv
  OBVIOUS
<1>1. TypeOK
  <2>1. Cardinality(Key) \in Nat
    BY FS_CardinalityType, BoundAssumption
  <2>2. intents \in Seq([key : Key, amount : Price]) /\ Len(intents) = 0
    BY DEF Init
  <2>3. Fresh \in Record
    BY AttemptAssumption DEF Fresh, Record, Step
  <2> QED
    BY <2>1, <2>2, <2>3, BoundAssumption DEF Init, TypeOK, Record
<1>2. \A r \in Request : req[r].at = "lookup" /\ req[r].tries = 0
  BY DEF Init, Fresh
<1>3. \A k \in Key : status[k] = "none" /\ payment[k] = 0 /\ cached[k] = 0
  BY DEF Init
<1>4. Priced /\ NothingBeforeTheRow /\ IntentsMatchRows
  BY <1>2, <1>3 DEF Priced, AtWork, NothingBeforeTheRow, IntentsMatchRows
<1>5. RequestsAgree
  BY <1>2 DEF RequestsAgree, RequestAgrees, AtWork
<1>6. AttemptsLeft /\ HandedAreRecorded /\ AtMostOneCreator
  BY <1>2, AttemptAssumption DEF AttemptsLeft, HandedAreRecorded, AtMostOneCreator, Init
<1> QED
  BY <1>1, <1>4, <1>5, <1>6 DEF Inv

LEMMA InvStep == Inv /\ [Next]_vars => Inv'
<1> SUFFICES ASSUME Inv, [Next]_vars PROVE Inv'
  OBVIOUS
<1>1. CASE \E r \in Request : Progress(r)
  BY <1>1, LookupStep, QuoteStep, HoldSlotStep, KeyTakenStep, CodeTakenStep, RequestIntentStep,
     RecordPaymentStep, AnswerCreatedStep, ReplayStep, HealStep, RetryStep DEF Progress
<1>2. CASE \E r \in Request : Fail(r)
  BY <1>2, FailStep
<1>3. CASE \E k \in Key : WindowLapses(k) \/ LeavePending(k)
  BY <1>3, WindowLapsesStep, LeavePendingStep
<1>4. CASE UNCHANGED vars
  BY <1>4 DEF vars, rowVars, paymentVars, providerVars, Inv, TypeOK, Priced,
              NothingBeforeTheRow, IntentsMatchRows, MintedFor, RequestsAgree, RequestAgrees,
              AttemptsLeft, HandedAreRecorded, AtMostOneCreator
<1> QED
  BY <1>1, <1>2, <1>3, <1>4 DEF Next

THEOREM Invariant == Spec => []Inv
<1>1. Init => Inv
  BY InvInit
<1>2. Inv /\ [Next]_vars => Inv'
  BY InvStep
<1> QED
  BY <1>1, <1>2, PTL DEF Spec

-----------------------------------------------------------------------------
\* Every reachable state of a checkout is well typed: in particular no request draws an
\* access code more often than ACCESS_CODE_ATTEMPTS, and the provider never mints more
\* intents than there are bookings and lapsed windows.
THEOREM TypeCorrect == Spec => []TypeOK
<1>1. Inv => TypeOK
  BY DEF Inv
<1> QED
  BY <1>1, Invariant, PTL

\* However many requests carry one idempotency key, at most one of them is on its way to
\* the answer that the booking was created.
THEOREM OneCreatorPerKey == Spec => []AtMostOneCreator
<1>1. Inv => AtMostOneCreator
  BY DEF Inv
<1> QED
  BY <1>1, Invariant, PTL

\* Every payment secret a client holds is of the intent its booking is recorded against,
\* at the one price of the row, the payment and the intent.
THEOREM SecretsAlwaysTracked == Spec => []SecretsAreTracked
<1>1. Inv => SecretsAreTracked
  BY IntentsAreNumbers DEF Inv, HandedAreRecorded, IntentsMatchRows, MintedFor, SecretsAreTracked
<1> QED
  BY <1>1, Invariant, PTL
-----------------------------------------------------------------------------
(* DriverBilling: what charges a rider.                                     *)

BillingTyped ==
  /\ session \in [Session -> Checkout \cup {None}]
  /\ agreement \in [Session -> {"none", "running", "ended"}]
  /\ now \in Time /\ taps \subseteq Plan
  /\ bucket \in 0 .. MaxBucket
  /\ sent \subseteq Event /\ ledger \subseteq sent
  /\ flight \subseteq Task /\ lock \in Lock \cup {None}
  /\ row \in [Row -> Subscription \cup {None}]
  /\ UniqueIndexes(row)

\* What an event tells of its agreement.
EventSound(e) ==
  /\ agreement[e.of] # "none"
  /\ IsCheckout(e) => e.status = "ACTIVE"
  /\ e.type \in {"updated", "failed"} => e.status # "CANCELLED"
  /\ e.type = "deleted" => agreement[e.of] = "ended"

\* An agreement is a session that was paid; a row is billed by one of them.
DealsSound ==
  \A s \in Session :
    /\ agreement[s] # "none" => session[s] # None /\ session[s].status # "open"
    /\ BilledTo(s) # {} => agreement[s] # "none"

\* What a delivery, or the holder of the row lock, still means to write.
DeliverySound(t) == t.event \in sent /\ ~ IsCheckout(t.event) /\ row[t.id] # None
QueueSound == \A e \in queue : e \in sent /\ IsCheckout(e)
LockSound ==
  lock # None =>
    /\ lock.id # None => row[lock.id] # None
    /\ lock.event # None =>
         /\ lock.event \in sent /\ IsCheckout(lock.event) /\ lock.status = "ACTIVE"
         /\ lock.ended = {lock.bill} \ {lock.event.of, None}
    /\ lock.event = None => \/ lock.ended = {lock.bill} \ {None}
                            \/ lock.ended = {} /\ lock.status # "CANCELLED"

\* An agreement that runs is seen once its checkout is acknowledged or a row names it.
Acknowledged(s) == \E e \in ledger : IsCheckout(e) /\ e.of = s
Seen(s) ==
  \/ \E r \in LiveRows : row[r].bill = s
  \/ s \in due \cup lost \cup odd
  \/ \E what \in {"unmatched_plan", "provider_cancel_failed"} : <<what, s>> \in audit
ChargeSeen(s) == agreement[s] = "running" /\ (Acknowledged(s) \/ BilledTo(s) # {}) => Seen(s)

Sound == /\ \A e \in sent : EventSound(e)
         /\ DealsSound
         /\ \A t \in flight : DeliverySound(t)
         /\ QueueSound /\ LockSound
BillingInv == BillingTyped /\ Sound /\ \A s \in Session : ChargeSeen(s)

(* The types. *)

LEMMA RowTypes ==
  ASSUME BillingTyped
  PROVE  /\ LiveRows \subseteq Row
         /\ \A r \in Row : row[r] # None =>
              /\ row[r] \in Subscription
              /\ row[r].bill \in Session \cup {None} /\ row[r].status \in Status
              /\ row[r].mark \in Time \cup {0}
         /\ \A r, q \in LiveRows : r = q
BY DEF BillingTyped, LiveRows, Subscription, UniqueIndexes

LEMMA EventTypes ==
  ASSUME BillingTyped, NEW e \in sent
  PROVE  /\ e \in Event /\ e # None
         /\ e.of \in Session /\ e.at \in Time /\ e.status \in Status \cup {"UNKNOWN"}
         /\ e.type \in {"checkout", "resent", "updated", "failed", "deleted"}
BY NoneAssumption DEF BillingTyped, Event

\* The live row, as the holder of the rider's lock reads it.
LEMMA LockReads ==
  ASSUME BillingTyped, NEW e, NEW p, NEW st, NEW ended, Locks(e, p, st, ended)
  PROVE  /\ lock'.event = e /\ lock'.plan = p /\ lock'.status = st /\ lock'.ended = ended
         /\ lock'.id \in Row \cup {None} /\ lock'.bill \in Session \cup {None}
         /\ lock'.id # None => row[lock'.id] # None
         /\ {row[r].bill : r \in LiveRows} \ {None} = {lock'.bill} \ {None}
<1>1. CASE LiveRows = {}
  BY <1>1 DEF Locks
<1>2. CASE LiveRows # {}
  <2>1. PICK r \in LiveRows : r = CHOOSE q \in LiveRows : TRUE
    BY <1>2
  <2>2. lock'.id = r /\ lock'.bill = row[r].bill
    BY <1>2, <2>1 DEF Locks
  <2>3. LiveRows = {r} /\ r \in Row /\ row[r] # None /\ row[r].bill \in Session \cup {None}
    BY <2>1, RowTypes DEF LiveRows
  <2>4. {row[q].bill : q \in LiveRows} = {row[r].bill}
    BY <2>3
  <2> QED BY <2>2, <2>3, <2>4 DEF Locks
<1> QED BY <1>1, <1>2

\* A step of the provider or of the rider's page: agreements only move on, and every
\* event that is added is about one that was bought.
ProviderMoves ==
  /\ session' \in [Session -> Checkout \cup {None}]
  /\ agreement' \in [Session -> {"none", "running", "ended"}]
  /\ now' \in Time /\ taps' \subseteq Plan /\ bucket' \in 0 .. MaxBucket
  /\ sent \subseteq sent' /\ sent' \subseteq Event
  /\ \A s \in Session :
       /\ agreement[s] = "ended" => agreement'[s] = "ended"
       /\ agreement[s] # "none" => agreement'[s] # "none"
       /\ agreement'[s] # "none" => session'[s] # None /\ session'[s].status # "open"
  /\ \A e \in sent' \ sent : EventSound(e)'
  /\ UNCHANGED <<ledger, row, queue, flight, lock, lost, odd, audit>>

LEMMA ProviderMovesKeep ==
  ASSUME BillingInv, ProviderMoves,
         \A s \in Session : /\ agreement'[s] = "running" => agreement[s] # "ended"
                            /\ s \in due \ due' => agreement'[s] # "running"
  PROVE  BillingInv'
<1> USE DEF BillingInv, ProviderMoves
<1>1. BillingTyped'
  BY DEF BillingTyped, UniqueIndexes
<1>2. \A s \in Session : BilledTo(s)' = BilledTo(s)
  BY DEF BilledTo
<1>3. Sound'
  <2>1. ASSUME NEW e \in sent PROVE EventSound(e)'
    BY EventTypes DEF Sound, EventSound, IsCheckout
  <2>2. DealsSound'
    BY <1>2 DEF Sound, DealsSound
  <2>3. (\A t \in flight : DeliverySound(t))' /\ LockSound' /\ QueueSound'
    BY DEF Sound, DeliverySound, LockSound, QueueSound, IsCheckout
  <2> QED BY <2>1, <2>2, <2>3 DEF Sound
<1>4. ASSUME NEW s \in Session PROVE ChargeSeen(s)'
  <2>1. Acknowledged(s)' = Acknowledged(s) /\ LiveRows' = LiveRows
    BY DEF Acknowledged, LiveRows, IsCheckout
  <2>2. SUFFICES ASSUME agreement'[s] = "running", Acknowledged(s) \/ BilledTo(s) # {}
                 PROVE  Seen(s)'
    BY <1>2, <2>1 DEF ChargeSeen
  <2>3. agreement[s] # "none"
    BY <2>2, EventTypes DEF Sound, DealsSound, EventSound, Acknowledged, BillingTyped, IsCheckout
  <2>4. Seen(s)
    BY <2>2, <2>3 DEF ChargeSeen, BillingTyped
  <2> QED BY <2>1, <2>2, <2>4 DEF Seen
<1> QED BY <1>1, <1>3, <1>4

\* An event is raised about an agreement as that stands.
LEMMA RaiseTypes ==
  ASSUME BillingTyped, NEW type \in {"checkout", "resent", "updated", "failed", "deleted"},
         NEW s \in Session, NEW st \in Status \cup {"UNKNOWN"}, Raise(type, s, st)
  PROVE  /\ sent \subseteq sent' /\ sent' \subseteq Event
         /\ \A e \in sent' \ sent : e.type = type /\ e.of = s /\ e.status = st
BY DEF BillingTyped, Raise, Event, Status, Live

LEMMA ProviderStep ==
  ASSUME BillingInv, NEW s \in Session,
         Pay(s) \/ Abandon(s) \/ Resend(s) \/ Report(s) \/ Lapse(s) \/ Cancels(s)
  PROVE  BillingInv'
<1> USE DEF BillingInv, books, office, history
<1>0. /\ BillingTyped /\ Sound /\ DealsSound
      /\ session[s] # None => session[s] \in Checkout
  BY DEF Sound, BillingTyped
<1>1. CASE Pay(s)
  <2>1. session' = [session EXCEPT ![s].status = "completed"] /\ session[s] \in Checkout
        /\ agreement[s] = "none" /\ agreement' = [agreement EXCEPT ![s] = "running"]
    BY <1>0, <1>1 DEF Pay, DealsSound, BillingTyped
  <2>2. session'[s] \in Checkout /\ session'[s] # None /\ session'[s].status # "open"
    BY <1>0, <2>1, NoneAssumption DEF BillingTyped, Checkout
  <2>3. /\ sent \subseteq sent' /\ sent' \subseteq Event
        /\ \A e \in sent' \ sent : e.type = "checkout" /\ e.of = s /\ e.status = "ACTIVE"
    BY <1>1, RaiseTypes DEF Pay, Status, Live
  <2>4. ProviderMoves
    BY <1>0, <1>1, <2>1, <2>2, <2>3
    DEF Pay, ProviderMoves, BillingTyped, DealsSound, EventSound, IsCheckout
  <2> QED BY <1>0, <1>1, <2>1, <2>4, ProviderMovesKeep DEF Pay, BillingTyped
<1>2. CASE Abandon(s)
  <2>1. session' = [session EXCEPT ![s].status = "cancelled"] /\ session[s] \in Checkout
        /\ agreement[s] = "none" /\ agreement' = agreement
    BY <1>0, <1>2 DEF Abandon, DealsSound, BillingTyped
  <2>2. session'[s] \in Checkout
    BY <1>0, <2>1 DEF BillingTyped, Checkout
  <2>4. ProviderMoves
    BY <1>0, <1>2, <2>1, <2>2 DEF Abandon, ProviderMoves, BillingTyped, DealsSound
  <2> QED BY <1>0, <1>2, <2>1, <2>4, ProviderMovesKeep DEF Abandon
<1>3. CASE Report(s)
  <2>1. PICK type \in {"updated", "failed"}, st \in {"ACTIVE", "UNKNOWN", "PAST_DUE"} :
          Raise(type, s, st)
    BY <1>3 DEF Report
  <2>2. /\ sent \subseteq sent' /\ sent' \subseteq Event
        /\ \A e \in sent' \ sent : e.type = type /\ e.of = s /\ e.status = st
    BY <1>0, <2>1, RaiseTypes DEF Status, Live
  <2>3. ProviderMoves
    BY <1>0, <1>3, <2>1, <2>2
    DEF Report, ProviderMoves, BillingTyped, DealsSound, EventSound, IsCheckout
  <2> QED BY <1>0, <1>3, <2>3, ProviderMovesKeep DEF Report
<1>4. CASE Lapse(s) \/ Cancels(s)
  <2>1. /\ agreement[s] = "running" /\ agreement' = [agreement EXCEPT ![s] = "ended"]
        /\ Raise("deleted", s, "CANCELLED")
    BY <1>4 DEF Lapse, Cancels
  <2>2. /\ sent \subseteq sent' /\ sent' \subseteq Event
        /\ \A e \in sent' \ sent : e.type = "deleted" /\ e.of = s /\ e.status = "CANCELLED"
    BY <1>0, <2>1, RaiseTypes DEF Status, Live
  <2>3. ProviderMoves
    BY <1>0, <1>4, <2>1, <2>2
    DEF Lapse, Cancels, ProviderMoves, BillingTyped, DealsSound, EventSound, IsCheckout
  <2> QED BY <1>0, <1>4, <2>1, <2>3, ProviderMovesKeep DEF Lapse, Cancels, BillingTyped
<1>5. CASE Resend(s)
  <2>1. Raise("resent", s, "ACTIVE") /\ agreement[s] # "none"
    BY <1>0, <1>5 DEF Resend, Sound, EventSound
  <2>2. /\ sent \subseteq sent' /\ sent' \subseteq Event
        /\ \A e \in sent' \ sent : e.type = "resent" /\ e.of = s /\ e.status = "ACTIVE"
    BY <1>0, <2>1, RaiseTypes DEF Status, Live
  <2>3. ProviderMoves
    BY <1>0, <1>5, <2>1, <2>2
    DEF Resend, ProviderMoves, BillingTyped, DealsSound, EventSound, IsCheckout
  <2> QED BY <1>0, <1>5, <2>3, ProviderMovesKeep DEF Resend
<1> QED BY <1>1, <1>2, <1>3, <1>4, <1>5

LEMMA PageStep ==
  ASSUME BillingInv,
         \/ \E p \in Plan : CheckoutReads(p) \/ CheckoutOpens(p)
         \/ NextBucket \/ Tick
  PROVE  BillingInv'
<1> USE DEF BillingInv, books, office, history, provider
<1>0. BillingTyped /\ Sound /\ DealsSound /\ MaxTime \in Nat /\ MaxBucket \in Nat
  BY NumberAssumption DEF Sound
<1>1. ASSUME NEW p \in Plan, CheckoutReads(p) PROVE ProviderMoves /\ UNCHANGED <<agreement, due>>
  BY <1>0, <1>1 DEF CheckoutReads, ProviderMoves, BillingTyped, DealsSound
<1>2. ASSUME NEW p \in Plan, CheckoutOpens(p) PROVE ProviderMoves /\ UNCHANGED <<agreement, due>>
  <2>1. /\ session' \in [Session -> Checkout \cup {None}]
        /\ \A s \in Session : session[s] # None => session'[s] = session[s]
    BY <1>0, <1>2 DEF CheckoutOpens, NewSession, Checkout, BillingTyped
  <2> QED BY <1>0, <1>2, <2>1 DEF CheckoutOpens, ProviderMoves, BillingTyped, DealsSound
<1>3. ASSUME NextBucket PROVE ProviderMoves /\ UNCHANGED <<agreement, due>>
  BY <1>0, <1>3 DEF NextBucket, ProviderMoves, BillingTyped, DealsSound
<1>4. ASSUME Tick PROVE ProviderMoves /\ UNCHANGED <<agreement, due>>
  BY <1>0, <1>4 DEF Tick, ProviderMoves, BillingTyped, DealsSound, Time
<1>5. ProviderMoves /\ UNCHANGED <<agreement, due>>
  BY <1>1, <1>2, <1>3, <1>4
<1> QED BY <1>5, ProviderMovesKeep

\* A step that reads, acknowledges or files, and writes no row.
OfficeMoves ==
  /\ UNCHANGED <<session, agreement, now, sent, taps, bucket, row>>
  /\ ledger \subseteq ledger' /\ ledger' \subseteq sent
  /\ flight' \subseteq Task /\ lock' \in Lock \cup {None}
  /\ \A t \in flight' \ flight : DeliverySound(t)
  /\ \A e \in queue' \ queue : e \in sent /\ IsCheckout(e)
  /\ lock' = lock \/ LockSound'
  /\ lost \subseteq lost' /\ odd \subseteq odd' /\ audit \subseteq audit'
  /\ \A s \in due \ due' : s \in lost' \/ <<"provider_cancel_failed", s>> \in audit'
  /\ \A e \in ledger' \ ledger :
       IsCheckout(e) => \/ BilledTo(e.of) # {}
                        \/ <<"unmatched_plan", e.of>> \in audit'

LEMMA OfficeMovesKeep ==
  ASSUME BillingInv, OfficeMoves
  PROVE  BillingInv'
<1> USE DEF BillingInv, OfficeMoves
<1>1. BillingTyped'
  BY DEF BillingTyped, UniqueIndexes
<1>2. /\ LiveRows' = LiveRows
      /\ \A s \in Session : BilledTo(s)' = BilledTo(s)
  BY DEF BilledTo, LiveRows
<1>3. Sound'
  <2>1. (\A e \in sent : EventSound(e))' /\ DealsSound' /\ QueueSound'
    BY <1>2 DEF Sound, EventSound, DealsSound, QueueSound, IsCheckout
  <2>2. (\A u \in flight : DeliverySound(u))'
    BY DEF Sound, DeliverySound, IsCheckout
  <2>3. LockSound'
    BY DEF Sound, LockSound, IsCheckout
  <2> QED BY <2>1, <2>2, <2>3 DEF Sound
<1>4. ASSUME NEW s \in Session, agreement[s] = "running", Acknowledged(s)' \/ BilledTo(s) # {}
      PROVE  Seen(s)'
  <2>1. Acknowledged(s) \/ BilledTo(s) # {} \/ <<"unmatched_plan", s>> \in audit'
    BY <1>4 DEF Acknowledged, IsCheckout
  <2>2. Seen(s) \/ <<"unmatched_plan", s>> \in audit'
    BY <1>4, <2>1 DEF ChargeSeen
  <2> QED BY <1>2, <2>2 DEF Seen
<1> QED BY <1>1, <1>2, <1>3, <1>4 DEF ChargeSeen

LEMMA LockOpens ==
  ASSUME BillingTyped, NEW e \in Event \cup {None}, NEW p \in Plan,
         NEW st \in Status, NEW ended, Locks(e, p, st, ended),
         ended \subseteq {row[r].bill : r \in LiveRows} \ {None}
  PROVE  lock' \in Lock
<1>1. lock' = [event |-> e, plan |-> p, status |-> st, ended |-> ended,
               id |-> lock'.id, bill |-> lock'.bill]
  BY DEF Locks
<1>2. ended \subseteq Session /\ lock'.id \in Row \cup {None} /\ lock'.bill \in Session \cup {None}
  BY LockReads
<1> QED BY <1>1, <1>2 DEF Lock

LEMMA PurchaseStep ==
  ASSUME BillingInv, NEW e \in sent,
         \/ PurchaseRepeated(e) \/ PurchaseQueues(e) \/ PurchaseUnmatched(e)
         \/ PurchaseReads(e)
  PROVE  BillingInv'
<1> USE DEF BillingInv, books, office, history, provider
<1>0. BillingTyped /\ e \in Event /\ e # None /\ EventSound(e) /\ e.of \in Session
  BY EventTypes DEF Sound
<1>1. CASE PurchaseRepeated(e)
  BY <1>0, <1>1, OfficeMovesKeep DEF PurchaseRepeated, OfficeMoves, BillingTyped, IsCheckout
<1>2. CASE PurchaseUnmatched(e)
  BY <1>0, <1>2, OfficeMovesKeep DEF PurchaseUnmatched, OfficeMoves, BillingTyped, IsCheckout
<1>3. CASE PurchaseReads(e)
  <2>1. /\ IsCheckout(e) /\ e.status = "ACTIVE" /\ session[e.of].plan \in Plan
        /\ Locks(e, session[e.of].plan, "ACTIVE", Superseded(e.of))
    <3>1. session[e.of] \in Checkout
      BY <1>0 DEF EventSound, Sound, DealsSound, BillingTyped
    <3> QED BY <1>0, <1>3, <3>1 DEF PurchaseReads, Checkout, EventSound, Sound, QueueSound
  <2>2. lock' \in Lock
    BY <1>0, <2>1, LockOpens DEF Superseded, Status, Live
  <2>3. LockSound'
    <3>1. Superseded(e.of) = {lock'.bill} \ {e.of, None}
      BY <1>0, <2>1, LockReads DEF Superseded
    <3> QED BY <1>0, <1>3, <2>1, <3>1, LockReads DEF PurchaseReads, LockSound, IsCheckout
  <2> QED BY <1>0, <1>3, <2>2, <2>3, OfficeMovesKeep DEF PurchaseReads, OfficeMoves, BillingTyped
<1>4. CASE PurchaseQueues(e)
  BY <1>0, <1>4, OfficeMovesKeep DEF PurchaseQueues, OfficeMoves, BillingTyped, IsCheckout
<1> QED BY <1>1, <1>2, <1>3, <1>4

LEMMA AssignStep ==
  ASSUME BillingInv, NEW p \in Plan, NEW st \in Status, Assign(p, st)
  PROVE  BillingInv'
<1> USE DEF BillingInv, books, office, history, provider
<1>1. Locks(None, p, st, EndedBy(p, st))
  BY DEF Assign
<1>2. \/ EndedBy(p, st) = {row[r].bill : r \in LiveRows} \ {None}
      \/ EndedBy(p, st) = {} /\ st # "CANCELLED"
  <2>1. CASE st = "CANCELLED"
    BY <2>1 DEF EndedBy
  <2>2. CASE st # "CANCELLED" /\ \E r \in LiveRows : row[r].plan # p
    BY <2>2, RowTypes DEF EndedBy
  <2>3. CASE st # "CANCELLED" /\ ~ \E r \in LiveRows : row[r].plan # p
    BY <2>3 DEF EndedBy
  <2> QED BY <2>1, <2>2, <2>3
<1>3. lock' \in Lock
  BY <1>1, <1>2, LockOpens
<1>4. LockSound'
  BY <1>1, <1>2, LockReads DEF Assign, LockSound
<1> QED BY <1>3, <1>4, OfficeMovesKeep DEF Assign, OfficeMoves, BillingTyped

LEMMA OtherEventStep ==
  ASSUME BillingInv, NEW e \in sent, Acknowledge(e) \/ EventReads(e)
  PROVE  BillingInv'
<1> USE DEF BillingInv, books, office, history, provider
<1>1. CASE Acknowledge(e)
  BY <1>1, OfficeMovesKeep DEF Acknowledge, OfficeMoves, BillingTyped, IsCheckout
<1>2. CASE EventReads(e)
  <2>1. PICK r \in Found(e) :
          flight' = flight \cup {[event |-> e, id |-> r, adopts |-> row[r].bill = None]}
    BY <1>2 DEF EventReads
  <2>2. r \in Row /\ row[r] # None
    BY <2>1 DEF Found, BilledTo, LiveRows
  <2>3. [event |-> e, id |-> r, adopts |-> row[r].bill = None] \in Task
    BY <2>2, EventTypes DEF Task
  <2> QED BY <1>2, <2>1, <2>2, <2>3, OfficeMovesKeep
          DEF EventReads, OfficeMoves, BillingTyped, DeliverySound, IsCheckout
<1> QED BY <1>1, <1>2

LEMMA OfficeStep ==
  ASSUME BillingInv,
         \/ LockFails
         \/ \E t \in flight : EventFails(t)
         \/ \E s \in Session : CancelFails(s) \/ Crash(s)
         \/ \E p \in Plan : Publish(p) \/ ArchiveCounts(p) \/ ArchiveWrites(p)
  PROVE  BillingInv'
<1> USE DEF BillingInv, books, office, history, provider
<1>1. ASSUME LockFails PROVE OfficeMoves
  BY <1>1 DEF LockFails, OfficeMoves, BillingTyped, LockSound
<1>2. ASSUME NEW t \in flight, EventFails(t) PROVE OfficeMoves
  BY <1>2 DEF EventFails, OfficeMoves, BillingTyped
<1>3. ASSUME NEW s \in Session, CancelFails(s) \/ Crash(s) PROVE OfficeMoves
  BY <1>3 DEF CancelFails, Crash, OfficeMoves, BillingTyped
<1>4. ASSUME NEW p \in Plan, Publish(p) \/ ArchiveCounts(p) \/ ArchiveWrites(p)
      PROVE  OfficeMoves
  BY <1>4 DEF Publish, ArchiveCounts, ArchiveWrites, OfficeMoves, BillingTyped
<1>5. OfficeMoves
  BY <1>1, <1>2, <1>3, <1>4
<1> QED BY <1>5, OfficeMovesKeep

\* A step that writes rows: none disappears, and each is billed as it was or by an
\* agreement that was bought.
RowsMove ==
  /\ UNCHANGED <<session, agreement, now, sent, taps, bucket, queue, lost, audit>>
  /\ row' \in [Row -> Subscription \cup {None}] /\ UniqueIndexes(row')
  /\ \A r \in Row :
       /\ row[r] # None => row'[r] # None
       /\ row'[r] # None => \/ row'[r].bill = None
                              \/ agreement[row'[r].bill] # "none"
  /\ ledger \subseteq ledger' /\ ledger' \subseteq sent
  /\ flight' \subseteq flight /\ lock' \in {lock, None}
  /\ due \subseteq due' /\ odd \subseteq odd'

LEMMA RowsMoveKeep ==
  ASSUME BillingInv, RowsMove, \A s \in Session : ChargeSeen(s)'
  PROVE  BillingInv'
<1> USE DEF BillingInv, RowsMove
<1>1. BillingTyped'
  BY DEF BillingTyped, UniqueIndexes
<1>2. DealsSound'
  BY NumberAssumption DEF Sound, DealsSound, BilledTo
<1>3. LockSound' /\ QueueSound' /\ (\A t \in flight : DeliverySound(t))'
  <2>1. LockSound'
    BY DEF Sound, LockSound, BillingTyped, Lock, IsCheckout
  <2>2. (\A t \in flight : DeliverySound(t))'
    BY DEF Sound, DeliverySound, BillingTyped, Task, IsCheckout
  <2>3. QueueSound'
    BY DEF Sound, QueueSound, IsCheckout
  <2> QED BY <2>1, <2>2, <2>3
<1> QED BY <1>1, <1>2, <1>3 DEF Sound, EventSound, IsCheckout

\* What the holder of the row lock writes, row by row.
LEMMA LockRows ==
  ASSUME BillingInv, lock # None, NEW n \in NewRow(lock),
         row' = Outcome(lock, n)
  PROVE  \E w \in Row :
           /\ row'[w] \in Subscription /\ row'[w].status = lock.status /\ row'[w].plan = lock.plan
           /\ lock.event # None => row'[w].bill = lock.event.of
           /\ \A q \in Row \ {w} :
                row'[q] = IF q = lock.id THEN Cancelled(row[q]) ELSE row[q]
           /\ \/ /\ TakesOver(lock) /\ w = lock.id /\ row[w] # None
                 /\ lock.event = None => row'[w].bill = row[w].bill
              \/ /\ ~ TakesOver(lock) /\ row[w] = None
                 /\ lock.event = None => row'[w].bill = None
<1> USE DEF BillingInv
<1>1. BillingTyped /\ LockSound /\ lock \in Lock
  BY DEF Sound, BillingTyped
<1>2. lock.event # None => lock.event.of \in Session /\ lock.event.at \in Time
  BY <1>1, EventTypes DEF LockSound
<1>3. /\ lock.plan \in Plan /\ lock.status \in Status /\ lock.id \in Row \cup {None}
  BY <1>1 DEF Lock
<1>4. CASE TakesOver(lock)
  <2>1. lock.id \in Row /\ row[lock.id] # None /\ row[lock.id] \in Subscription
    BY <1>1, <1>3, <1>4, RowTypes DEF TakesOver, LockSound
  <2>2. row' = [row EXCEPT ![lock.id] = Granted(lock, row[lock.id])]
    BY <1>4 DEF Outcome
  <2>3. /\ Granted(lock, row[lock.id]) \in Subscription
        /\ Granted(lock, row[lock.id]).status = lock.status
        /\ Granted(lock, row[lock.id]).plan = lock.plan
        /\ lock.event # None => Granted(lock, row[lock.id]).bill = lock.event.of
        /\ lock.event = None => Granted(lock, row[lock.id]).bill = row[lock.id].bill
    BY <1>2, <1>3, <2>1 DEF Granted, Subscription
  <2> lock.id \in Row
    BY <2>1
  <2> WITNESS lock.id \in Row
  <2> QED BY <1>1, <1>4, <2>1, <2>2, <2>3 DEF BillingTyped
<1>5. CASE ~ TakesOver(lock)
  <2>1. n \in Row /\ row[n] = None
    BY <1>5 DEF NewRow, FreshRow
  <2>2. n # lock.id
    BY <1>1, <2>1, <1>3, NumberAssumption DEF LockSound
  <2>3. row' = [r \in Row |-> IF r = n THEN Granted(lock, None)
                                ELSE IF r = lock.id THEN Cancelled(row[r])
                                ELSE row[r]]
    BY <1>5 DEF Outcome
  <2>4. /\ Granted(lock, None) \in Subscription
        /\ Granted(lock, None).status = lock.status
        /\ Granted(lock, None).plan = lock.plan
        /\ lock.event # None => Granted(lock, None).bill = lock.event.of
        /\ lock.event = None => Granted(lock, None).bill = None
    BY <1>2, <1>3 DEF Granted, Subscription
  <2> n \in Row
    BY <2>1
  <2> WITNESS n \in Row
  <2> QED BY <1>5, <2>1, <2>2, <2>3, <2>4
<1> QED BY <1>4, <1>5

LEMMA CancelledRow ==
  ASSUME NEW x \in Subscription
  PROVE  /\ Cancelled(x) \in Subscription
         /\ Cancelled(x).bill = x.bill /\ Cancelled(x).status = "CANCELLED"
         /\ Cancelled(x).plan = x.plan
BY DEF Cancelled, Subscription, Status

\* What the write under the lock takes from an agreement, it ends or races with.
LEMMA LockTakes ==
  ASSUME BillingInv, LockWrites, NEW s \in Session,
         lock.id # None, row[lock.id].bill = s,
         lock.event # None => lock.event.of # s,
         ~ (TakesOver(lock) /\ lock.event = None /\ lock.status \in Live)
  PROVE  s \in due' \cup odd'
<1>1. LockSound /\ lock # None /\ lock \in Lock
  BY DEF BillingInv, BillingTyped, Sound, LockWrites
<1>2. CASE lock.bill # s
  BY <1>2 DEF LockWrites, Overtaken
<1>3. CASE lock.bill = s
  <2>1. s # None
    BY NumberAssumption
  <2>2. lock.ended # {} => s \in lock.ended
    BY <1>1, <1>3 DEF LockSound
  <2>3. lock.ended # {}
    <3>1. CASE lock.event # None
      BY <1>1, <1>3, <2>1, <3>1 DEF LockSound
    <3>2. CASE lock.event = None /\ TakesOver(lock)
      BY <1>1, <1>3, <2>1, <3>2 DEF LockSound, Lock, Status
    <3>3. CASE lock.event = None /\ ~ TakesOver(lock)
      BY <3>3 DEF TakesOver
    <3> QED BY <3>1, <3>2, <3>3
  <2> QED BY <2>2, <2>3 DEF LockWrites
<1> QED BY <1>2, <1>3

LEMMA LockStep ==
  ASSUME BillingInv, LockWrites
  PROVE  BillingInv'
<1> USE DEF BillingInv
<1>1. /\ BillingTyped /\ LockSound /\ Sound /\ DealsSound /\ lock # None /\ lock \in Lock
      /\ None \notin Session \cup Row /\ None \notin Subscription
  BY NumberAssumption, NoneAssumption DEF Sound, BillingTyped, LockWrites
<1>2. PICK n \in NewRow(lock) : UniqueIndexes(row') /\ row' = Outcome(lock, n)
  BY DEF LockWrites
<1>3. PICK w \in Row :
           /\ row'[w] \in Subscription /\ row'[w].status = lock.status
           /\ lock.event # None => row'[w].bill = lock.event.of
           /\ \A q \in Row \ {w} :
                row'[q] = IF q = lock.id THEN Cancelled(row[q]) ELSE row[q]
           /\ \/ /\ TakesOver(lock) /\ w = lock.id /\ row[w] # None
                 /\ lock.event = None => row'[w].bill = row[w].bill
              \/ /\ ~ TakesOver(lock) /\ row[w] = None
                 /\ lock.event = None => row'[w].bill = None
  BY <1>1, <1>2, LockRows
<1>4. lock.event # None => /\ lock.event \in sent /\ lock.event.of \in Session
                           /\ IsCheckout(lock.event) /\ lock.status = "ACTIVE"
                           /\ agreement[lock.event.of] # "none"
  BY <1>1, EventTypes DEF LockSound, Sound, EventSound
<1>5. ASSUME NEW q \in Row \ {w}, row[q] # None
      PROVE  /\ row'[q] \in Subscription /\ row'[q].bill = row[q].bill
             /\ q # lock.id => row'[q] = row[q]
  BY <1>1, <1>3, <1>5, RowTypes, CancelledRow
<1>6. ASSUME NEW q \in Row \ {w}, row[q] = None PROVE row'[q] = None
  BY <1>1, <1>3, <1>6 DEF LockSound
<1>7. RowsMove
  <2>1. row' \in [Row -> Subscription \cup {None}]
    <3>1. DOMAIN row' = Row /\ row' = [r \in Row |-> row'[r]]
      BY <1>1, <1>2 DEF Outcome, BillingTyped
    <3> QED BY <1>1, <1>3, <1>5, <1>6, <3>1
  <2>2. ASSUME NEW r \in Row
        PROVE  /\ row[r] # None => row'[r] # None
               /\ row'[r] # None => row'[r].bill = None \/ agreement[row'[r].bill] # "none"
    <3>1. row[r] # None => row[r].bill = None \/ agreement[row[r].bill] # "none"
      BY <1>1, RowTypes DEF DealsSound, BilledTo
    <3> QED BY <1>1, <1>3, <1>4, <1>5, <1>6, <3>1
  <2> QED BY <1>1, <1>2, <1>4, <2>1, <2>2
          DEF RowsMove, LockWrites, provider, office, BillingTyped
<1>8. ASSUME NEW s \in Session, agreement[s] = "running", Acknowledged(s)' \/ BilledTo(s)' # {}
      PROVE  Seen(s)'
  <2>1. CASE lock.event # None /\ lock.event.of = s
    <3>1. w \in LiveRows' /\ row'[w].bill = s
      BY <1>1, <1>3, <1>4, <2>1 DEF LiveRows, Live
    <3> QED BY <3>1 DEF Seen
  <2>2. CASE lock.event # None => lock.event.of # s
    <3>1. Acknowledged(s) \/ BilledTo(s) # {}
      BY <1>1, <1>3, <1>5, <1>6, <1>8, <2>2 DEF Acknowledged, BilledTo, LockWrites, IsCheckout
    <3>2. Seen(s)
      BY <1>8, <3>1 DEF ChargeSeen
    <3>3. CASE s \in due \cup lost \cup odd
               \/ \E what \in {"unmatched_plan", "provider_cancel_failed"} : <<what, s>> \in audit
      BY <1>7, <3>3 DEF RowsMove, Seen
    <3>4. ASSUME NEW r \in LiveRows, row[r].bill = s PROVE Seen(s)'
      <4>1. r \in Row /\ row[r] # None
        BY <3>4 DEF LiveRows
      <4>2. CASE r # lock.id
        <5>1. r # w /\ row'[r] = row[r]
          BY <1>3, <1>5, <4>1, <4>2
        <5> QED BY <3>4, <5>1 DEF LiveRows, Seen
      <4>3. CASE /\ r = lock.id
                 /\ ~ (TakesOver(lock) /\ lock.event = None /\ lock.status \in Live)
        <5>1. s \in due' \cup odd'
          BY <1>1, <2>2, <3>4, <4>1, <4>3, LockTakes, NumberAssumption
        <5> QED BY <5>1 DEF Seen
      <4>4. CASE r = lock.id /\ TakesOver(lock) /\ lock.event = None /\ lock.status \in Live
        <5>1. r = w /\ row'[r].bill = s /\ r \in LiveRows'
          BY <1>1, <1>3, <3>4, <4>1, <4>4 DEF LiveRows
        <5> QED BY <5>1 DEF Seen
      <4> QED BY <4>2, <4>3, <4>4
    <3> QED BY <3>2, <3>3, <3>4 DEF Seen
  <2> QED BY <2>1, <2>2
<1> QED BY <1>7, <1>8, RowsMoveKeep DEF ChargeSeen, RowsMove

LEMMA EventWriteStep ==
  ASSUME BillingInv, NEW t \in flight, EventWrites(t)
  PROVE  BillingInv'
<1> USE DEF BillingInv
<1> DEFINE x == row[t.id]
<1> DEFINE y == Written(t, x)
<1>1. /\ BillingTyped /\ Sound /\ DealsSound /\ DeliverySound(t) /\ EventSound(t.event)
      /\ t.event \in sent /\ t.event.of \in Session /\ t.event.at \in Time
      /\ t.event.type \in {"updated", "failed", "deleted"}
      /\ t.event.status \in Status \cup {"UNKNOWN"}
      /\ None \notin Session \cup Row /\ None \notin Subscription
  BY EventTypes, NumberAssumption, NoneAssumption DEF Sound, DeliverySound, IsCheckout
<1>2. t.id \in Row /\ x \in Subscription /\ x # None
  BY <1>1, RowTypes DEF DeliverySound, BillingTyped, Task
<1>3. row' = [row EXCEPT ![t.id] = y] /\ UniqueIndexes(row')
  BY DEF EventWrites
<1>4. /\ y \in Subscription
      /\ y.status = IF t.event.status = "UNKNOWN" THEN x.status ELSE t.event.status
      /\ y.bill = IF t.adopts /\ t.event.type = "updated" THEN t.event.of ELSE x.bill
  BY <1>1, <1>2 DEF Written, Subscription
<1>5. row'[t.id] = y /\ \A q \in Row \ {t.id} : row'[q] = row[q]
  BY <1>1, <1>2, <1>3 DEF BillingTyped
<1> HIDE DEF y
<1>6. RowsMove
  <2>1. row' \in [Row -> Subscription \cup {None}]
    BY <1>1, <1>3, <1>4 DEF BillingTyped
  <2>2. ASSUME NEW r \in Row
        PROVE  /\ row[r] # None => row'[r] # None
               /\ row'[r] # None => row'[r].bill = None \/ agreement[row'[r].bill] # "none"
    <3>1. row[r] # None => row[r].bill = None \/ agreement[row[r].bill] # "none"
      BY <1>1, RowTypes DEF DealsSound, BilledTo
    <3> QED BY <1>1, <1>2, <1>4, <1>5, <3>1 DEF EventSound
  <2> QED BY <1>1, <1>3, <2>1, <2>2
          DEF RowsMove, EventWrites, provider, office, BillingTyped
<1>7. ASSUME NEW s \in Session, agreement[s] = "running", Acknowledged(s)' \/ BilledTo(s)' # {}
      PROVE  Seen(s)'
  <2>1. Raced(t, x) \subseteq odd'
    BY DEF EventWrites
  <2>2. t.event.of = s => t.event.type \in {"updated", "failed"} /\ t.event.status # "CANCELLED"
    BY <1>1, <1>7 DEF EventSound
  <2>3. CASE Acknowledged(s) \/ BilledTo(s) # {}
    <3>1. Seen(s)
      BY <1>7, <2>3 DEF ChargeSeen
    <3>2. CASE s \in due \cup lost \cup odd
               \/ \E what \in {"unmatched_plan", "provider_cancel_failed"} : <<what, s>> \in audit
      BY <1>6, <3>2 DEF RowsMove, Seen
    <3>3. ASSUME NEW r \in LiveRows, row[r].bill = s PROVE Seen(s)'
      <4>1. r \in Row /\ row[r] # None /\ row[r].status \in Live
        BY <3>3 DEF LiveRows
      <4>2. CASE r # t.id
        BY <1>5, <3>3, <4>1, <4>2 DEF LiveRows, Seen
      <4>3. CASE r = t.id /\ t.event.of # s
        <5>1. s \in Raced(t, x)
          BY <1>1, <3>3, <4>3 DEF Raced
        <5> QED BY <2>1, <5>1 DEF Seen
      <4>4. CASE r = t.id /\ t.event.of = s
        <5>1. y.bill = s /\ y.status \in Live
          BY <1>1, <1>4, <2>2, <3>3, <4>1, <4>4 DEF Status
        <5> QED BY <1>1, <1>2, <1>4, <1>5, <5>1 DEF LiveRows, Seen
      <4> QED BY <4>2, <4>3, <4>4
    <3> QED BY <3>1, <3>2, <3>3 DEF Seen
  <2>4. CASE ~ Acknowledged(s) /\ BilledTo(s) = {}
    <3>1. Acknowledged(s)' = Acknowledged(s)
      BY <1>1 DEF Acknowledged, EventWrites, IsCheckout
    <3>2. y.bill = s /\ x.bill # s
      BY <1>2, <1>5, <1>7, <2>4, <3>1 DEF BilledTo
    <3>3. t.adopts /\ t.event.of = s
      BY <1>4, <3>2
    <3>4. CASE x.status = "CANCELLED"
      BY <2>1, <3>3, <3>4 DEF Raced, Seen
    <3>5. CASE x.status # "CANCELLED"
      <4>1. y.status \in Live
        BY <1>1, <1>2, <1>4, <2>2, <3>3, <3>5 DEF Status, Subscription
      <4> QED BY <1>1, <1>2, <1>4, <1>5, <3>2, <4>1 DEF LiveRows, Seen
    <3> QED BY <3>4, <3>5
  <2> QED BY <2>3, <2>4
<1> QED BY <1>6, <1>7, RowsMoveKeep DEF ChargeSeen, RowsMove

LEMMA BillingInit == ASSUME DriverBillingInit PROVE BillingInv
<1>1. BillingTyped /\ Sound
  BY NumberAssumption DEF DriverBillingInit, BillingTyped, UniqueIndexes, Time, Sound,
     DealsSound, LockSound, QueueSound, BilledTo
<1>2. \A s \in Session : ChargeSeen(s)
  BY DEF DriverBillingInit, ChargeSeen
<1> QED BY <1>1, <1>2 DEF BillingInv

LEMMA BillingStep == ASSUME BillingInv, [DriverBillingNext]_driverBillingVars PROVE BillingInv'
<1>1. ASSUME NEW e \in sent,
             \/ PurchaseRepeated(e) \/ PurchaseQueues(e) \/ PurchaseUnmatched(e)
             \/ PurchaseReads(e) \/ Acknowledge(e) \/ EventReads(e)
      PROVE  BillingInv'
  BY <1>1, PurchaseStep, OtherEventStep
<1>2. ASSUME NEW t \in flight, EventWrites(t) PROVE BillingInv'
  BY <1>2, EventWriteStep
<1>3. ASSUME NEW p \in Plan, NEW st \in Status, Assign(p, st) PROVE BillingInv'
  BY <1>3, AssignStep
<1>4. ASSUME NEW s \in Session,
             Pay(s) \/ Abandon(s) \/ Resend(s) \/ Report(s) \/ Lapse(s) \/ Cancels(s)
      PROVE  BillingInv'
  BY <1>4, ProviderStep
<1>5. CASE \/ LockFails
           \/ \E t \in flight : EventFails(t)
           \/ \E s \in Session : CancelFails(s) \/ Crash(s)
           \/ \E p \in Plan : Publish(p) \/ ArchiveCounts(p) \/ ArchiveWrites(p)
  BY <1>5, OfficeStep
<1>6. CASE \/ \E p \in Plan : CheckoutReads(p) \/ CheckoutOpens(p)
           \/ NextBucket \/ Tick
  BY <1>6, PageStep
<1>7. CASE UNCHANGED driverBillingVars
  <2>1. OfficeMoves
    BY <1>7 DEF BillingInv, BillingTyped, driverBillingVars, OfficeMoves
  <2> QED BY <2>1, OfficeMovesKeep
<1> QED BY <1>1, <1>2, <1>3, <1>4, <1>5, <1>6, <1>7, LockStep DEF DriverBillingNext, Deliver

LEMMA BillingHolds == DriverBillingSpec => []BillingInv
<1>1. DriverBillingInit => BillingInv
  BY BillingInit
<1>2. BillingInv /\ [DriverBillingNext]_driverBillingVars => BillingInv'
  BY BillingStep
<1> QED BY <1>1, <1>2, PTL DEF DriverBillingSpec

\* An agreement that runs and whose checkout was acknowledged is named by the live row,
\* about to be cancelled, or on record, whatever the order of its events.
THEOREM NothingEverChargesUnseen == DriverBillingSpec => []NothingChargesUnseen
<1>1. BillingInv => NothingChargesUnseen
  BY DEF BillingInv, ChargeSeen, Seen, Acknowledged, NothingChargesUnseen, IsCheckout
<1> QED BY <1>1, BillingHolds, PTL

\* The plans, the bound, and what is kept beside the rows about agreements.
OfficeTyped ==
  /\ plan \in [Plan -> [active : BOOLEAN, public : BOOLEAN]]
  /\ moves \in 0 .. MaxMove /\ counted \subseteq Plan
  /\ due \subseteq Session /\ lost \subseteq Session /\ odd \subseteq Session
  /\ audit \subseteq {"unmatched_plan", "provider_cancel_failed"} \X Session
  /\ queue \subseteq Event /\ honoured \subseteq Event /\ mislaid \subseteq Session

LEMMA HonouredOf ==
  ASSUME honoured' \subseteq Event, Traces, mislaid \subseteq Session
  PROVE  mislaid' \subseteq Session
BY DEF Traces, Event

LEMMA OfficeTypedStep ==
  ASSUME BillingInv, OfficeTyped, [DriverBillingNext]_driverBillingVars
  PROVE  OfficeTyped'
<1> USE DEF OfficeTyped
<1>0. /\ BillingTyped /\ Sound /\ MaxMove \in Nat
      /\ moves < MaxMove => moves + 1 \in 0 .. MaxMove
  BY NumberAssumption DEF BillingInv
<1>1. CASE LockWrites
  <2>1. lock.ended \subseteq Session
    BY <1>0, <1>1 DEF BillingTyped, LockWrites, Lock
  <2>2. honoured' \subseteq Event
    BY <1>0, <1>1, EventTypes DEF LockWrites, BillingTyped, Sound, LockSound
  <2>3. mislaid' \subseteq Session
    BY <1>1, <2>2, HonouredOf DEF LockWrites
  <2> QED BY <1>1, <2>1, <2>2, <2>3 DEF LockWrites, Overtaken, office
<1>2. ASSUME NEW t \in flight, EventWrites(t) PROVE OfficeTyped'
  <2>1. Raced(t, row[t.id]) \subseteq Session
    <3>1. t.event.of \in Session
      BY <1>0, EventTypes DEF Sound, DeliverySound
    <3>2. row[t.id].bill \in Session \cup {None}
      BY <1>0, RowTypes DEF Sound, DeliverySound, BillingTyped, Task
    <3> QED BY <3>1, <3>2 DEF Raced
  <2>2. honoured' \subseteq Event
    BY <1>2 DEF EventWrites
  <2>3. mislaid' \subseteq Session
    BY <1>2, <2>2, HonouredOf DEF EventWrites
  <2> QED BY <1>2, <2>1, <2>2, <2>3 DEF EventWrites, office
<1>3. ASSUME NEW e \in sent,
             \/ PurchaseRepeated(e) \/ PurchaseQueues(e) \/ PurchaseUnmatched(e)
             \/ PurchaseReads(e) \/ Acknowledge(e) \/ EventReads(e)
      PROVE  OfficeTyped'
  <2>1. e.of \in Session
    BY <1>0, EventTypes
  <2>2. e \in Event
    BY <1>0, EventTypes
  <2> QED BY <1>3, <2>1, <2>2 DEF PurchaseRepeated, PurchaseQueues, PurchaseUnmatched,
                                 PurchaseReads, Acknowledge, EventReads, office, history
<1>4. ASSUME NEW p \in Plan,
             \/ CheckoutReads(p) \/ CheckoutOpens(p) \/ \E st \in Status : Assign(p, st)
      PROVE  OfficeTyped'
  BY <1>0, <1>4 DEF CheckoutReads, CheckoutOpens, Assign, office, history, books
<1>5. ASSUME NEW p \in Plan, Publish(p) \/ ArchiveCounts(p) \/ ArchiveWrites(p)
      PROVE  OfficeTyped'
  <2>1. plan' \in [Plan -> [active : BOOLEAN, public : BOOLEAN]]
    <3>1. CASE Publish(p)
      BY <3>1 DEF Publish
    <3>2. CASE ArchiveCounts(p)
      BY <3>2 DEF ArchiveCounts
    <3>3. CASE ArchiveWrites(p)
      BY <3>3 DEF ArchiveWrites
    <3> QED BY <1>5, <3>1, <3>2, <3>3
  <2> QED BY <1>0, <1>5, <2>1 DEF Publish, ArchiveCounts, ArchiveWrites, history, books
<1>6. ASSUME NEW s \in Session, Pay(s) \/ Abandon(s) \/ Resend(s) \/ Report(s) \/ Lapse(s)
      PROVE  OfficeTyped'
  BY <1>0, <1>6 DEF Pay, Abandon, Resend, Report, Lapse, office, history, books
<1>7. ASSUME NEW s \in Session, Cancels(s) \/ CancelFails(s) \/ Crash(s)
      PROVE  OfficeTyped'
  BY <1>0, <1>7 DEF Cancels, CancelFails, Crash, office, history, books
<1>8. CASE \/ LockFails \/ NextBucket \/ Tick \/ UNCHANGED driverBillingVars
           \/ \E t \in flight : EventFails(t)
  BY <1>0, <1>8 DEF LockFails, NextBucket, Tick, EventFails, driverBillingVars, office, history,
                     books
<1> QED BY <1>1, <1>2, <1>3, <1>4, <1>5, <1>6, <1>7, <1>8 DEF DriverBillingNext, Deliver

\* The rows, the sessions, the events and what is kept about them are of their types, and
\* a rider has one live row at most.
THEOREM DriverBillingTypes == DriverBillingSpec => []DriverBillingTypeOK
<1>1. DriverBillingInit => OfficeTyped
  BY NumberAssumption DEF DriverBillingInit, OfficeTyped
<1>2. BillingInv /\ OfficeTyped /\ [DriverBillingNext]_driverBillingVars => OfficeTyped'
  BY OfficeTypedStep
<1>3. BillingInv /\ OfficeTyped => DriverBillingTypeOK
  BY DEF BillingInv, BillingTyped, OfficeTyped, DriverBillingTypeOK
<1> QED BY <1>1, <1>2, <1>3, BillingHolds, PTL DEF DriverBillingSpec
-----------------------------------------------------------------------------
(* DriverBilling: refinement of OnePlan.                                    *)

\* A purchase that waits, for the row lock or for its write, is not acknowledged, and the
\* lock is for the plan that was paid for.
Waiting ==
  /\ \A e \in queue : e \notin ledger /\ (lock # None => lock.event # e)
  /\ lock # None /\ lock.event # None =>
       lock.event \notin ledger /\ lock.plan = session[lock.event.of].plan

\* A purchase that was honoured is in the ledger.
HonouredAreAcknowledged == \A e \in honoured : e \in ledger /\ IsCheckout(e)

\* Of a purchase that was honoured a row names the plan, or the record was mislaid.
NoneUnnoticed == {e.of : e \in honoured} \subseteq Traced \cup mislaid

RidingInv ==
  BillingInv /\ OfficeTyped /\ Waiting /\ HonouredAreAcknowledged /\ NoneUnnoticed

RidingStep == [Riding!Next]_(Riding!billing)

\* A session that was paid for keeps its plan, and its agreement stays bought.
LEMMA BoughtStays ==
  ASSUME BillingInv, [DriverBillingNext]_driverBillingVars
  PROVE  /\ \A s \in Session : agreement[s] # "none" =>
              agreement'[s] # "none" /\ session'[s].plan = session[s].plan
         /\ (\A s \in Session : ~ Pay(s)) =>
              \A s \in Session : agreement[s] = "none" => agreement'[s] = "none"
<1>0. /\ session \in [Session -> Checkout \cup {None}]
      /\ agreement \in [Session -> {"none", "running", "ended"}]
      /\ \A s \in Session : agreement[s] # "none" =>
           session[s] # None /\ session[s].status # "open"
  BY DEF BillingInv, BillingTyped, Sound, DealsSound
<1> DEFINE Stays ==
      \A s \in Session : agreement[s] # "none" =>
        agreement'[s] # "none" /\ session'[s].plan = session[s].plan
<1> DEFINE Waits == \A s \in Session : agreement[s] = "none" => agreement'[s] = "none"
<1>1. ASSUME NEW s \in Session, Pay(s) PROVE Stays
  BY <1>0, <1>1 DEF Pay
<1>2. ASSUME NEW s \in Session, Abandon(s) PROVE Stays /\ Waits
  BY <1>0, <1>2 DEF Abandon
<1>3. ASSUME NEW s \in Session, Lapse(s) \/ Cancels(s) PROVE Stays /\ Waits
  BY <1>0, <1>3 DEF Lapse, Cancels
<1>4. ASSUME NEW p \in Plan, CheckoutOpens(p) PROVE Stays /\ Waits
  BY <1>0, <1>4 DEF CheckoutOpens, NewSession
<1>5. ASSUME UNCHANGED <<session, agreement>> PROVE Stays /\ Waits
  BY <1>5
<1>6. ASSUME NEW s \in Session, Resend(s) \/ Report(s) \/ CancelFails(s) \/ Crash(s)
      PROVE  UNCHANGED <<session, agreement>>
  BY <1>6 DEF Resend, Report, CancelFails, Crash, provider
<1>7. ASSUME NEW p \in Plan,
             \/ CheckoutReads(p) \/ Publish(p) \/ ArchiveCounts(p) \/ ArchiveWrites(p)
             \/ \E st \in Status : Assign(p, st)
      PROVE  UNCHANGED <<session, agreement>>
  BY <1>7 DEF CheckoutReads, Publish, ArchiveCounts, ArchiveWrites, Assign, provider
<1>8. ASSUME NEW e \in sent,
             \/ PurchaseRepeated(e) \/ PurchaseQueues(e) \/ PurchaseUnmatched(e)
             \/ PurchaseReads(e) \/ Acknowledge(e) \/ EventReads(e)
      PROVE  UNCHANGED <<session, agreement>>
  BY <1>8 DEF PurchaseRepeated, PurchaseQueues, PurchaseUnmatched, PurchaseReads,
              Acknowledge, EventReads, provider
<1>9. ASSUME \/ \E t \in flight : EventWrites(t) \/ EventFails(t)
             \/ LockWrites \/ LockFails \/ NextBucket \/ Tick \/ UNCHANGED driverBillingVars
      PROVE  UNCHANGED <<session, agreement>>
  BY <1>9 DEF EventWrites, EventFails, LockWrites, LockFails, NextBucket, Tick, provider,
              driverBillingVars
<1> HIDE DEF Stays, Waits
<1>10. Stays /\ ((\A s \in Session : ~ Pay(s)) => Waits)
  BY <1>1, <1>2, <1>3, <1>4, <1>5, <1>6, <1>7, <1>8, <1>9 DEF DriverBillingNext, Deliver
<1> QED BY <1>10 DEF Stays, Waits

\* The steps that write no row.
Writes == LockWrites \/ \E t \in flight : EventWrites(t)

LEMMA NothingWritten ==
  ASSUME [DriverBillingNext]_driverBillingVars, ~ Writes
  PROVE  UNCHANGED <<row, honoured, mislaid>>
<1>1. ASSUME NEW s \in Session,
             \/ Pay(s) \/ Abandon(s) \/ Resend(s) \/ Report(s) \/ Lapse(s) \/ Cancels(s)
             \/ CancelFails(s) \/ Crash(s)
      PROVE  UNCHANGED <<row, honoured, mislaid>>
  BY <1>1 DEF Pay, Abandon, Resend, Report, Lapse, Cancels, CancelFails, Crash, books, history
<1>2. ASSUME NEW p \in Plan,
             \/ CheckoutReads(p) \/ CheckoutOpens(p) \/ Publish(p) \/ ArchiveCounts(p)
             \/ ArchiveWrites(p) \/ \E st \in Status : Assign(p, st)
      PROVE  UNCHANGED <<row, honoured, mislaid>>
  BY <1>2 DEF CheckoutReads, CheckoutOpens, Publish, ArchiveCounts, ArchiveWrites, Assign,
              books, history
<1>3. ASSUME NEW e \in sent,
             \/ PurchaseRepeated(e) \/ PurchaseQueues(e) \/ PurchaseUnmatched(e)
             \/ PurchaseReads(e) \/ Acknowledge(e) \/ EventReads(e)
      PROVE  UNCHANGED <<row, honoured, mislaid>>
  BY <1>3 DEF PurchaseRepeated, PurchaseQueues, PurchaseUnmatched, PurchaseReads,
              Acknowledge, EventReads, history
<1>4. CASE \/ LockFails \/ NextBucket \/ Tick \/ UNCHANGED driverBillingVars
           \/ \E t \in flight : EventFails(t)
  BY <1>4 DEF LockFails, NextBucket, Tick, EventFails, books, history, driverBillingVars
<1> QED BY <1>1, <1>2, <1>3, <1>4 DEF DriverBillingNext, Deliver, Writes

\* While a purchase waits, nothing else acknowledges its event.
LEMMA WaitingStays ==
  ASSUME RidingInv, [DriverBillingNext]_driverBillingVars
  PROVE  Waiting'
<1>0. /\ BillingInv /\ BillingTyped /\ Sound /\ LockSound /\ QueueSound /\ Waiting
      /\ None \notin Event
  BY NoneAssumption DEF RidingInv, BillingInv, Sound
<1>1. lock # None /\ lock.event # None =>
        session'[lock.event.of].plan = session[lock.event.of].plan
  BY <1>0, BoughtStays, EventTypes DEF LockSound, Sound, EventSound
<1> DEFINE Kept == /\ lock' \in {lock, None} /\ queue' \subseteq queue
                   /\ \A e \in ledger' \ ledger :
                        e \notin queue' /\ (lock' # None => lock'.event # e)
<1>2. ASSUME Kept PROVE Waiting'
  BY <1>0, <1>1, <1>2 DEF Waiting
<1>3. ASSUME NEW e \in sent, PurchaseRepeated(e) \/ Acknowledge(e) PROVE Kept
  BY <1>3 DEF PurchaseRepeated, Acknowledge, Pending
<1>4. ASSUME NEW e \in sent, PurchaseUnmatched(e) PROVE Kept
  BY <1>4 DEF PurchaseUnmatched
<1>5. ASSUME NEW t \in flight, EventWrites(t) \/ EventFails(t) PROVE Kept
  <2>1. \A e \in queue : t.event # e
    BY <1>0 DEF Sound, DeliverySound, QueueSound, IsCheckout
  <2>2. lock # None => lock.event # t.event
    BY <1>0, EventTypes DEF Sound, DeliverySound, LockSound, IsCheckout
  <2> QED BY <1>5, <2>1, <2>2 DEF EventWrites, EventFails
<1>6. ASSUME NEW e \in sent, PurchaseQueues(e) PROVE Waiting'
  <2>1. /\ e \notin ledger /\ (lock # None => lock.event # e)
        /\ queue' = queue \cup {e} /\ UNCHANGED <<lock, ledger, session>>
    BY <1>6 DEF PurchaseQueues, Pending, provider
  <2> QED BY <1>0, <2>1 DEF Waiting
<1>7. ASSUME NEW e \in sent, PurchaseReads(e) PROVE Waiting'
  <2>1. e \notin ledger /\ lock'.event = e /\ lock'.plan = session[e.of].plan
    BY <1>0, <1>7, LockReads DEF PurchaseReads, Waiting
  <2>2. UNCHANGED <<session, ledger>> /\ queue' = queue \ {e}
    BY <1>7 DEF PurchaseReads, provider
  <2> QED BY <1>0, <2>1, <2>2 DEF Waiting
<1>8. ASSUME NEW p \in Plan, NEW st \in Status, Assign(p, st) PROVE Waiting'
  <2>1. lock'.event = None /\ UNCHANGED <<ledger, queue>>
    BY <1>0, <1>8, LockReads DEF Assign
  <2>2. \A e \in queue : e # None
    BY <1>0, EventTypes DEF QueueSound
  <2> QED BY <1>0, <2>1, <2>2 DEF Waiting
<1>9. CASE LockWrites
  <2>1. lock' = None /\ queue' = queue /\ ledger' = ledger \cup ({lock.event} \ {None})
        /\ lock # None
    BY <1>9 DEF LockWrites
  <2> QED BY <1>0, <2>1 DEF Waiting
<1>10. ASSUME \/ LockFails \/ NextBucket \/ Tick \/ UNCHANGED driverBillingVars
              \/ \E e \in sent : EventReads(e)
       PROVE  Kept
  BY <1>10 DEF LockFails, NextBucket, Tick, EventReads, books, driverBillingVars
<1>11. ASSUME NEW s \in Session,
              \/ Pay(s) \/ Abandon(s) \/ Resend(s) \/ Report(s) \/ Lapse(s) \/ Cancels(s)
              \/ CancelFails(s) \/ Crash(s)
       PROVE  Kept
  BY <1>11 DEF Pay, Abandon, Resend, Report, Lapse, Cancels, CancelFails, Crash, books
<1>12. ASSUME NEW p \in Plan,
              \/ CheckoutReads(p) \/ CheckoutOpens(p) \/ Publish(p) \/ ArchiveCounts(p)
              \/ ArchiveWrites(p)
       PROVE  Kept
  BY <1>12 DEF CheckoutReads, CheckoutOpens, Publish, ArchiveCounts, ArchiveWrites, books
<1> HIDE DEF Kept
<1> QED BY <1>2, <1>3, <1>4, <1>5, <1>6, <1>7, <1>8, <1>9, <1>10, <1>11, <1>12
        DEF DriverBillingNext, Deliver

\* The ledger only grows.
LEMMA LedgerGrows ==
  ASSUME BillingInv, [DriverBillingNext]_driverBillingVars
  PROVE  ledger \subseteq ledger'
<1>1. ASSUME NEW e \in sent,
             \/ PurchaseRepeated(e) \/ PurchaseQueues(e) \/ PurchaseUnmatched(e)
             \/ PurchaseReads(e) \/ Acknowledge(e) \/ EventReads(e)
      PROVE  ledger \subseteq ledger'
  BY <1>1 DEF PurchaseRepeated, PurchaseQueues, PurchaseUnmatched, PurchaseReads,
              Acknowledge, EventReads
<1>2. ASSUME \/ \E t \in flight : EventWrites(t) \/ EventFails(t)
             \/ LockWrites \/ LockFails \/ NextBucket \/ Tick \/ UNCHANGED driverBillingVars
      PROVE  ledger \subseteq ledger'
  BY <1>2 DEF EventWrites, EventFails, LockWrites, LockFails, NextBucket, Tick, books,
              driverBillingVars
<1>3. ASSUME NEW s \in Session,
             \/ Pay(s) \/ Abandon(s) \/ Resend(s) \/ Report(s) \/ Lapse(s) \/ Cancels(s)
             \/ CancelFails(s) \/ Crash(s)
      PROVE  ledger \subseteq ledger'
  BY <1>3 DEF Pay, Abandon, Resend, Report, Lapse, Cancels, CancelFails, Crash, books
<1>4. ASSUME NEW p \in Plan,
             \/ CheckoutReads(p) \/ CheckoutOpens(p) \/ Publish(p) \/ ArchiveCounts(p)
             \/ ArchiveWrites(p) \/ \E st \in Status : Assign(p, st)
      PROVE  ledger \subseteq ledger'
  BY <1>4 DEF CheckoutReads, CheckoutOpens, Publish, ArchiveCounts, ArchiveWrites, Assign,
              books
<1> QED BY <1>1, <1>2, <1>3, <1>4 DEF DriverBillingNext, Deliver

LEMMA HonouredStay ==
  ASSUME RidingInv, [DriverBillingNext]_driverBillingVars
  PROVE  HonouredAreAcknowledged' /\ NoneUnnoticed'
<1>0. BillingInv /\ HonouredAreAcknowledged /\ NoneUnnoticed /\ ledger \subseteq ledger'
  BY LedgerGrows DEF RidingInv
<1>1. CASE ~ Writes
  <2>1. UNCHANGED <<row, honoured, mislaid>>
    BY <1>1, NothingWritten
  <2>2. ASSUME NEW e \in honoured, e.of \in Traced PROVE e.of \in Traced'
    <3>1. e.of \in Session /\ agreement[e.of] # "none"
      BY <1>0, EventTypes
      DEF HonouredAreAcknowledged, BillingInv, BillingTyped, Sound, EventSound
    <3>2. Bought'[e.of] = Bought[e.of]
      BY <1>0, <3>1, BoughtStays DEF Bought
    <3> QED BY <2>1, <2>2, <3>1, <3>2 DEF Traced, BilledTo
  <2>3. NoneUnnoticed'
    BY <1>0, <2>1, <2>2 DEF NoneUnnoticed
  <2> QED BY <1>0, <2>1, <2>3 DEF HonouredAreAcknowledged, IsCheckout
<1>2. CASE LockWrites
  <2>1. NoneUnnoticed'
    BY <1>2 DEF LockWrites, Traces, NoneUnnoticed
  <2>2. /\ lock # None /\ ledger' = ledger \cup ({lock.event} \ {None})
        /\ \/ honoured' = honoured
           \/ lock.event # None /\ honoured' = honoured \cup {lock.event}
    BY <1>2 DEF LockWrites
  <2>3. lock.event # None => IsCheckout(lock.event)
    BY <1>0, <2>2 DEF BillingInv, Sound, LockSound
  <2>4. HonouredAreAcknowledged'
    BY <1>0, <2>2, <2>3 DEF HonouredAreAcknowledged, IsCheckout
  <2> QED BY <2>1, <2>4
<1>3. ASSUME NEW t \in flight, EventWrites(t)
      PROVE  HonouredAreAcknowledged' /\ NoneUnnoticed'
  <2>1. NoneUnnoticed' /\ honoured' = honoured
    BY <1>3 DEF EventWrites, Traces, NoneUnnoticed
  <2> QED BY <1>0, <2>1 DEF HonouredAreAcknowledged, IsCheckout
<1> QED BY <1>1, <1>2, <1>3 DEF Writes

LEMMA RidingInductive ==
  ASSUME RidingInv, [DriverBillingNext]_driverBillingVars
  PROVE  RidingInv'
BY BillingStep, OfficeTypedStep, WaitingStays, HonouredStay DEF RidingInv

\* What a step does to the records of the purchases is as OnePlan has it.
LEMMA RecordsHold ==
  ASSUME RidingInv', Traces \/ UNCHANGED mislaid
  PROVE  Riding!Traces
<1>1. honoured' \subseteq Purchase
  BY DEF RidingInv, OfficeTyped, HonouredAreAcknowledged, Purchase
<1> DEFINE purchaseOf == [e \in Purchase |-> e.of]
<1>2. {purchaseOf[c] : c \in honoured'} = {e.of : e \in honoured'}
  BY <1>1
<1>3. mislaid' = mislaid \cup ({e.of : e \in honoured'} \ Traced')
  BY DEF Traces, RidingInv, NoneUnnoticed
<1>4. Traced' \subseteq Session
  BY DEF Traced
<1> QED BY <1>2, <1>3, <1>4 DEF Riding!Traces

LEMMA SameDeals ==
  ASSUME UNCHANGED <<session, agreement, sent>>
  PROVE  Bought' = Bought /\ Claimed' = Claimed
BY DEF Bought, Claimed, IsCheckout

\* A live row leaves the rider on its plan and no other: the partial index.
LEMMA LiveRowWins ==
  ASSUME NEW w \in Row, row'[w] # None, row'[w].status \in Live, UniqueIndexes(row')
  PROVE  PlansHeld' = {row'[w].plan}
<1>1. LiveRows' = {w}
  BY DEF LiveRows, UniqueIndexes
<1> QED BY <1>1 DEF PlansHeld

\* What the write under the row lock leaves behind, in one row and in the others.
LEMMA LockLeaves ==
  ASSUME RidingInv, LockWrites
  PROVE  \E w \in Row :
           /\ UniqueIndexes(row') /\ row'[w] \in Subscription
           /\ row'[w].status = lock.status /\ row'[w].plan = lock.plan
           /\ lock.event # None => row'[w].bill = lock.event.of
           /\ row[w] # None => w = lock.id
           /\ \A q \in Row \ {w} :
                /\ row'[q] # None <=> row[q] # None
                /\ row[q] # None => /\ row'[q].plan = row[q].plan
                                    /\ row'[q].bill = row[q].bill
                                    /\ row'[q].status \in Live => row[q].status \in Live
                /\ w = lock.id => row'[q] = row[q]
<1>1. /\ BillingInv /\ BillingTyped /\ LockSound /\ lock # None /\ lock \in Lock
      /\ None \notin Session \cup Row /\ None \notin Subscription
  BY NumberAssumption, NoneAssumption
     DEF RidingInv, BillingInv, Sound, BillingTyped, LockWrites
<1>2. PICK n \in NewRow(lock) : UniqueIndexes(row') /\ row' = Outcome(lock, n)
  BY DEF LockWrites
<1>3. PICK w \in Row :
           /\ row'[w] \in Subscription /\ row'[w].status = lock.status
           /\ row'[w].plan = lock.plan
           /\ lock.event # None => row'[w].bill = lock.event.of
           /\ row[w] # None => w = lock.id
           /\ \A q \in Row \ {w} :
                row'[q] = IF q = lock.id THEN Cancelled(row[q]) ELSE row[q]
  BY <1>1, <1>2, LockRows
<1>4. ASSUME NEW q \in Row \ {w}
      PROVE  /\ row'[q] # None <=> row[q] # None
             /\ row[q] # None => /\ row'[q].plan = row[q].plan
                                 /\ row'[q].bill = row[q].bill
                                 /\ row'[q].status \in Live => row[q].status \in Live
             /\ w = lock.id => row'[q] = row[q]
  <2>1. CASE q = lock.id
    <3>1. row[q] \in Subscription
      BY <1>1, <2>1, RowTypes DEF LockSound
    <3>2. row'[q] = Cancelled(row[q])
      BY <1>3, <2>1
    <3> QED BY <1>1, <2>1, <3>1, <3>2, CancelledRow DEF Live
  <2>2. CASE q # lock.id
    BY <1>3, <2>2
  <2> QED BY <2>1, <2>2
<1> QED BY <1>2, <1>3, <1>4

\* A purchase whose record a row has is written to that row: the unique index.
LEMMA OwnRowOnly ==
  ASSUME RidingInv, LockWrites, lock.event # None,
         NEW w \in Row, UniqueIndexes(row'), row'[w] \in Subscription,
         row'[w].bill = lock.event.of,
         \A q \in Row \ {w} : row[q] # None => row'[q] # None /\ row'[q].bill = row[q].bill,
         NEW r \in BilledTo(lock.event.of)
  PROVE  r = w
<1>1. /\ row[r] # None /\ row[r].bill = lock.event.of /\ r \in Row
      /\ lock.event.of # None /\ None \notin Subscription
  BY EventTypes, NumberAssumption, NoneAssumption
     DEF BilledTo, LockWrites, RidingInv, BillingInv, Sound, LockSound
<1>2. row'[w] # None
  BY <1>1
<1> QED BY <1>1, <1>2 DEF UniqueIndexes

\* The write of a purchase.
LEMMA PurchaseGrants ==
  ASSUME RidingInv, RidingInv', LockWrites, lock.event # None
  PROVE  RidingStep
<1> DEFINE s == lock.event.of
<1>1. /\ BillingInv /\ LockSound /\ lock # None
      /\ None \notin Session \cup Row \cup Plan /\ None \notin Subscription
  BY NumberAssumption, NoneAssumption DEF RidingInv, BillingInv, Sound, LockWrites
<1>2. /\ s \in Session /\ lock.event \in sent \ ledger /\ lock.event \in Event
      /\ IsCheckout(lock.event)
      /\ lock.status \in Live /\ lock.plan = session[s].plan /\ agreement[s] # "none"
  BY <1>1, EventTypes
     DEF LockSound, Waiting, RidingInv, Live, BillingInv, Sound, EventSound
<1>3. PICK w \in Row :
           /\ UniqueIndexes(row') /\ row'[w] \in Subscription
           /\ row'[w].status = lock.status /\ row'[w].plan = lock.plan
           /\ row'[w].bill = s
           /\ row[w] # None => w = lock.id
           /\ \A q \in Row \ {w} :
                /\ row'[q] # None <=> row[q] # None
                /\ row[q] # None => /\ row'[q].plan = row[q].plan
                                    /\ row'[q].bill = row[q].bill
                /\ w = lock.id => row'[q] = row[q]
  BY LockLeaves
<1>4. /\ Bought' = Bought /\ Claimed' = Claimed /\ Desk = None /\ Desk' = None
      /\ Riding!Traces
  BY SameDeals, RecordsHold DEF LockWrites, provider, Desk
<1>5. Bought[s] = lock.plan /\ lock.plan \in Plan
  <2>1. session[s] \in Checkout
    BY <1>1, <1>2 DEF BillingInv, BillingTyped, Sound, DealsSound
  <2> QED BY <1>2, <2>1 DEF Bought, Checkout
<1>6. row'[w] # None /\ PlansHeld' = {lock.plan}
  BY <1>1, <1>2, <1>3, LiveRowWins
<1>7. CASE Repeats(lock)
  <2>1. lock.id \in BilledTo(s)
    <3>1. lock.id \in Row /\ row[lock.id] # None /\ row[lock.id].bill = s
      BY <1>1, <1>7 DEF Repeats, LockSound, BillingInv, BillingTyped, Lock
    <3> QED BY <3>1 DEF BilledTo
  <2>2. lock.id = w
    BY <1>3, <2>1, OwnRowOnly
  <2>3. row[w] # None /\ row[w].plan = lock.plan /\ honoured' = honoured
    BY <1>7, <2>1, <2>2 DEF Repeats, BilledTo, LockWrites
  <2>4. PlansOnFile' = PlansOnFile
    <3>1. {q \in Row : row'[q] # None} = {q \in Row : row[q] # None}
      BY <1>3, <1>6, <2>3
    <3>2. \A q \in Row : row[q] # None => row'[q].plan = row[q].plan
      BY <1>3, <2>3
    <3> QED BY <3>1, <3>2 DEF PlansOnFile
  <2>5. CASE row[w].status \in Live
    <3>1. PlansHeld' \subseteq PlansHeld
      BY <1>6, <2>3, <2>5 DEF PlansHeld, LiveRows
    <3>2. Riding!Ends
      BY <1>4, <2>3, <2>4, <3>1 DEF Riding!Ends, Riding!purchases
    <3> QED BY <3>2 DEF RidingStep, Riding!Next
  <2>6. CASE row[w].status \notin Live
    <3>1. \A q \in Row \ {w} : row'[q] = row[q]
      BY <1>3, <2>2
    <3>2. LiveRows = {}
      BY <1>2, <1>3, <1>6, <2>6, <3>1 DEF LiveRows, UniqueIndexes
    <3>3. PlansHeld = {} /\ lock.plan \in PlansOnFile
      BY <2>3, <3>2 DEF PlansHeld, PlansOnFile
    <3>4. Riding!Returns(lock.plan)
      BY <1>4, <1>6, <2>3, <2>4, <3>3 DEF Riding!Returns, Riding!purchases
    <3> QED BY <1>5, <3>4 DEF RidingStep, Riding!Next
  <2> QED BY <2>5, <2>6
<1>8. CASE ~ Repeats(lock)
  <2> DEFINE purchaseOf == [e \in Purchase |-> e.of]
  <2>1. /\ honoured' = honoured \cup {lock.event}
        /\ lock.event \in Claimed \ honoured /\ lock.event \in Purchase
    BY <1>2, <1>8 DEF LockWrites, Claimed, Purchase, RidingInv, HonouredAreAcknowledged
  <2>2. s \in {e.of : e \in honoured} => s \in mislaid
    <3> SUFFICES ASSUME s \in {e.of : e \in honoured}, s \notin mislaid PROVE FALSE
      OBVIOUS
    <3>1. s \in Traced
      BY DEF RidingInv, NoneUnnoticed
    <3>2. PICK r \in BilledTo(s) : row[r].plan = lock.plan
      BY <1>5, <3>1 DEF Traced
    <3>3. r = w
      BY <1>3, OwnRowOnly
    <3>4. r = lock.id /\ lock.id # None /\ row[lock.id].bill = s
      BY <1>1, <1>3, <3>3 DEF BilledTo
    <3> QED BY <1>8, <3>2, <3>4 DEF Repeats
  <2>3. Riding!Names(lock.plan)
    BY <1>3 DEF Riding!Names, PlansOnFile
  <2>4. honoured \subseteq Purchase
    BY DEF RidingInv, OfficeTyped, HonouredAreAcknowledged, Purchase
  <2>5. purchaseOf[lock.event] = s
        /\ {purchaseOf[d] : d \in honoured} = {e.of : e \in honoured}
    BY <2>1, <2>4
  <2>6. Riding!Grants(lock.event)
    BY <1>4, <1>5, <1>6, <2>1, <2>2, <2>3, <2>5 DEF Riding!Grants, Riding!purchases
  <2> QED BY <2>1, <2>6 DEF RidingStep, Riding!Next
<1> QED BY <1>7, <1>8

\* The write of an assignment.
LEMMA AssignmentDecides ==
  ASSUME RidingInv, RidingInv', LockWrites, lock.event = None
  PROVE  RidingStep
<1>1. /\ lock # None /\ lock \in Lock /\ None \notin Plan /\ None \notin Subscription
  BY NumberAssumption, NoneAssumption DEF RidingInv, BillingInv, BillingTyped, LockWrites
<1>2. PICK w \in Row :
           /\ UniqueIndexes(row') /\ row'[w] \in Subscription
           /\ row'[w].status = lock.status /\ row'[w].plan = lock.plan
           /\ \A q \in Row \ {w} :
                /\ row'[q] # None <=> row[q] # None
                /\ row[q] # None => /\ row'[q].plan = row[q].plan
                                    /\ row'[q].status \in Live => row[q].status \in Live
  BY LockLeaves
<1>3. /\ Bought' = Bought /\ Claimed' = Claimed /\ honoured' = honoured
      /\ Desk = lock.plan /\ Desk # None /\ Desk' = None /\ Riding!Traces
  BY <1>1, SameDeals, RecordsHold DEF LockWrites, provider, Desk, Lock
<1>4. Riding!Names(lock.plan)
  BY <1>2 DEF Riding!Names, PlansOnFile
<1>5. PlansHeld' = {lock.plan} \/ PlansHeld' \subseteq PlansHeld
  <2>1. CASE lock.status \in Live
    BY <1>1, <1>2, <2>1, LiveRowWins
  <2>2. CASE lock.status \notin Live
    BY <1>2, <2>2 DEF PlansHeld, LiveRows
  <2> QED BY <2>1, <2>2
<1>6. Riding!Decides
  BY <1>3, <1>4, <1>5 DEF Riding!Decides, Riding!purchases
<1> QED BY <1>6 DEF RidingStep, Riding!Next

\* The write of any other event ends the plan, or brings it back where the rider had none.
LEMMA EventEndsOrReturns ==
  ASSUME RidingInv, RidingInv', NEW t \in flight, EventWrites(t)
  PROVE  RidingStep
<1> DEFINE x == row[t.id]
<1> DEFINE y == Written(t, x)
<1>1. BillingTyped /\ DeliverySound(t) /\ row \in [Row -> Subscription \cup {None}]
  BY DEF RidingInv, BillingInv, BillingTyped, Sound
<1>2. t.id \in Row /\ x \in Subscription /\ x # None
  BY <1>1, RowTypes DEF DeliverySound, BillingTyped, Task
<1>3. row' = [row EXCEPT ![t.id] = y] /\ UniqueIndexes(row')
  BY DEF EventWrites
<1>4. y # None /\ y.plan = x.plan
  <2>1. EventSound(t.event) /\ t.event.of \in Session /\ t.event.at \in Time
        /\ t.event.status \in Status \cup {"UNKNOWN"}
    BY <1>1, EventTypes DEF DeliverySound, RidingInv, BillingInv, Sound
  <2>2. y \in Subscription /\ y.plan = x.plan
    BY <1>2, <2>1 DEF Written, Subscription
  <2> QED BY <2>2, NoneAssumption
<1>5. row'[t.id] = y /\ \A q \in Row \ {t.id} : row'[q] = row[q]
  BY <1>1, <1>2, <1>3
<1> HIDE DEF y
<1>6. /\ Bought' = Bought /\ Claimed' = Claimed /\ honoured' = honoured
      /\ Desk' = Desk /\ Riding!Traces /\ PlansOnFile' = PlansOnFile
  <2>1. PlansOnFile' = PlansOnFile
    BY <1>2, <1>4, <1>5 DEF PlansOnFile
  <2> QED BY <2>1, SameDeals, RecordsHold DEF EventWrites, provider, Desk
<1>7. CASE y.status \in Live => x.status \in Live
  <2>1. PlansHeld' \subseteq PlansHeld
    BY <1>2, <1>4, <1>5, <1>7 DEF PlansHeld, LiveRows
  <2>2. Riding!Ends
    BY <1>6, <2>1 DEF Riding!Ends, Riding!purchases
  <2> QED BY <2>2 DEF RidingStep, Riding!Next
<1>8. CASE y.status \in Live /\ x.status \notin Live
  <2>1. PlansHeld' = {x.plan}
    BY <1>2, <1>3, <1>4, <1>5, <1>8, LiveRowWins
  <2>2. PlansHeld = {}
    BY <1>2, <1>3, <1>4, <1>5, <1>8 DEF PlansHeld, LiveRows, UniqueIndexes
  <2>3. x.plan \in Plan /\ x.plan \in PlansOnFile
    BY <1>2 DEF Subscription, PlansOnFile
  <2>4. Riding!Returns(x.plan)
    BY <1>6, <2>1, <2>2, <2>3 DEF Riding!Returns, Riding!purchases
  <2> QED BY <2>3, <2>4 DEF RidingStep, Riding!Next
<1> QED BY <1>7, <1>8

LEMMA StepRides ==
  ASSUME RidingInv, RidingInv', [DriverBillingNext]_driverBillingVars
  PROVE  RidingStep
<1>0. /\ BillingInv /\ session \in [Session -> Checkout \cup {None}]
      /\ agreement \in [Session -> {"none", "running", "ended"}] /\ now \in Time
  BY DEF RidingInv, BillingInv, BillingTyped
<1>1. ASSUME ~ Writes
      PROVE  /\ honoured' = honoured /\ Riding!Traces
             /\ PlansHeld' = PlansHeld /\ PlansOnFile' = PlansOnFile
  <2>1. UNCHANGED <<row, honoured, mislaid>>
    BY <1>1, NothingWritten
  <2> QED BY <2>1, RecordsHold DEF PlansHeld, PlansOnFile, LiveRows
<1> DEFINE Quiet == UNCHANGED <<Bought, Claimed, Desk>>
<1>2. ASSUME Quiet, ~ Writes PROVE RidingStep
  <2>1. UNCHANGED <<row, honoured, mislaid>> /\ Traced' = Traced
    BY <1>2, NothingWritten DEF Traced, BilledTo
  <2> QED BY <1>1, <1>2, <2>1 DEF RidingStep, Riding!billing
<1>3. ASSUME NEW s \in Session, Pay(s), ~ Writes PROVE RidingStep
  <2> DEFINE c == [type |-> "checkout", of |-> s, at |-> now, status |-> "ACTIVE"]
             purchaseOf == [e \in Purchase |-> e.of]
  <2>1. agreement[s] = "none" /\ session[s] \in Checkout
    BY <1>0, <1>3 DEF Pay, BillingInv, Sound, DealsSound
  <2>2. Bought' = [Bought EXCEPT ![s] = session[s].plan]
    <3>1. /\ session'[s].plan = session[s].plan /\ agreement'[s] = "running"
          /\ \A q \in Session \ {s} : session'[q] = session[q] /\ agreement'[q] = agreement[q]
      BY <1>0, <1>3, <2>1 DEF Pay, Checkout
    <3> QED BY <3>1 DEF Bought
  <2>3. session[s].plan \in Plan /\ Bought[s] = None
    BY <2>1 DEF Checkout, Bought
  <2>4. c \in Purchase /\ c.of = s
    BY <1>0 DEF Purchase, Event, IsCheckout, Status, Live
  <2>5. Claimed' = Claimed \cup {c} /\ Desk' = Desk
    BY <1>3 DEF Pay, Raise, Claimed, IsCheckout, Desk, books
  <2>6. purchaseOf[c] = s
    BY <2>4
  <2> HIDE DEF c
  <2>7. Riding!Pays(session[s].plan, c)
    BY <1>1, <1>3, <2>2, <2>3, <2>5, <2>6 DEF Riding!Pays
  <2> QED BY <2>3, <2>4, <2>7 DEF RidingStep, Riding!Next
<1>4. ASSUME NEW s \in Session, Resend(s), ~ Writes PROVE RidingStep
  <2> DEFINE c == [type |-> "resent", of |-> s, at |-> now, status |-> "ACTIVE"]
             purchaseOf == [e \in Purchase |-> e.of]
  <2>1. agreement[s] # "none" /\ session[s] \in Checkout
    BY <1>0, <1>4 DEF Resend, BillingInv, Sound, EventSound, DealsSound
  <2>2. Bought[s] # None /\ Bought' = Bought
    BY <1>4, <2>1, NumberAssumption DEF Checkout, Bought, Resend
  <2>3. c \in Purchase /\ c.of = s
    BY <1>0 DEF Purchase, Event, IsCheckout, Status, Live
  <2>4. Claimed' = Claimed \cup {c} /\ Desk' = Desk
    BY <1>4 DEF Resend, Raise, Claimed, IsCheckout, Desk, books
  <2>5. purchaseOf[c] = s
    BY <2>3
  <2> HIDE DEF c
  <2>6. Riding!ClaimsAgain(c)
    BY <1>1, <1>4, <2>2, <2>4, <2>5 DEF Riding!ClaimsAgain
  <2> QED BY <2>3, <2>6 DEF RidingStep, Riding!Next
<1>5. ASSUME NEW p \in Plan, NEW st \in Status, Assign(p, st), ~ Writes PROVE RidingStep
  <2>1. lock = None /\ lock' # None /\ lock'.event = None /\ lock'.plan = p
    <3>1. Locks(None, p, st, EndedBy(p, st)) /\ BillingTyped
      BY <1>0, <1>5 DEF Assign, BillingInv
    <3>2. EndedBy(p, st) \subseteq {row[r].bill : r \in LiveRows} \ {None}
      BY DEF EndedBy
    <3>3. lock' \in Lock
      BY <3>1, <3>2, LockOpens
    <3> QED BY <3>1, <3>3, LockReads, NoneAssumption DEF Locks
  <2>2. Desk = None /\ Desk' = p
    BY <2>1 DEF Desk
  <2>3. Bought' = Bought /\ Claimed' = Claimed
    BY <1>5, SameDeals DEF Assign, provider
  <2>4. Riding!Opens(p)
    BY <1>1, <1>5, <2>2, <2>3 DEF Riding!Opens, Riding!purchases
  <2> QED BY <2>4 DEF RidingStep, Riding!Next
<1>6. ASSUME LockFails, ~ Writes PROVE RidingStep
  <2>1. Bought' = Bought /\ Claimed' = Claimed /\ Desk' = None
    BY <1>6, SameDeals DEF LockFails, provider, Desk
  <2>2. CASE Desk = None
    BY <1>2, <1>6, <2>1, <2>2
  <2>3. CASE Desk # None
    <3>1. Riding!Names(Desk)
      BY <1>1, <1>6 DEF Riding!Names
    <3>2. Riding!Decides
      BY <1>1, <1>6, <2>1, <2>3, <3>1 DEF Riding!Decides, Riding!purchases
    <3> QED BY <3>2 DEF RidingStep, Riding!Next
  <2> QED BY <2>2, <2>3
<1>7. ASSUME NEW s \in Session,
             Report(s) \/ Lapse(s) \/ Cancels(s)
      PROVE  Quiet
  <2>1. Claimed' = Claimed /\ Desk' = Desk
    BY <1>7 DEF Report, Lapse, Cancels, Raise, Claimed, IsCheckout, Desk, books
  <2>2. Bought' = Bought
    BY <1>0, <1>7 DEF Report, Lapse, Cancels, Bought
  <2> QED BY <2>1, <2>2
<1>8. ASSUME NEW s \in Session, Abandon(s) PROVE Quiet
  <2>1. Claimed' = Claimed /\ Desk' = Desk
    BY <1>8 DEF Abandon, Claimed, IsCheckout, Desk, books
  <2>2. \A q \in Session : agreement[q] # "none" => session'[q] = session[q]
    BY <1>0, <1>8 DEF Abandon, BillingInv, Sound, DealsSound
  <2>3. Bought' = Bought
    BY <1>8, <2>2 DEF Abandon, Bought
  <2> QED BY <2>1, <2>3
<1>9. ASSUME NEW p \in Plan, CheckoutOpens(p) PROVE Quiet
  <2>1. Claimed' = Claimed /\ Desk' = Desk
    BY <1>9 DEF CheckoutOpens, Claimed, IsCheckout, Desk, books
  <2>2. \A q \in Session : session[q] # None => session'[q] = session[q]
    BY <1>0, <1>9 DEF CheckoutOpens, NewSession
  <2>3. Bought' = Bought
    BY <1>0, <1>9, <2>2 DEF CheckoutOpens, Bought, BillingInv, Sound, DealsSound
  <2> QED BY <2>1, <2>3
<1>10. ASSUME UNCHANGED <<provider, lock>> PROVE Quiet
  BY <1>10, SameDeals DEF provider, Desk
<1>11. ASSUME NEW s \in Session, CancelFails(s) \/ Crash(s) PROVE UNCHANGED <<provider, lock>>
  BY <1>11 DEF CancelFails, Crash, books
<1>12. ASSUME NEW p \in Plan,
              CheckoutReads(p) \/ Publish(p) \/ ArchiveCounts(p) \/ ArchiveWrites(p)
       PROVE  UNCHANGED <<provider, lock>>
  BY <1>12 DEF CheckoutReads, Publish, ArchiveCounts, ArchiveWrites, books
<1>13. ASSUME NEW e \in sent,
              \/ PurchaseRepeated(e) \/ PurchaseQueues(e) \/ PurchaseUnmatched(e)
              \/ Acknowledge(e) \/ EventReads(e)
       PROVE  UNCHANGED <<provider, lock>>
  BY <1>13 DEF PurchaseRepeated, PurchaseQueues, PurchaseUnmatched, Acknowledge, EventReads
<1>14. ASSUME NEW e \in sent, PurchaseReads(e) PROVE Quiet
  <2>1. lock = None /\ lock'.event = e /\ e # None
    BY <1>0, <1>14, LockReads, EventTypes DEF PurchaseReads, Locks, BillingInv
  <2>2. Desk = None /\ Desk' = None
    BY <2>1 DEF Desk
  <2> QED BY <1>14, <2>2, SameDeals DEF PurchaseReads, provider
<1>15. ASSUME \/ NextBucket \/ UNCHANGED driverBillingVars \/ \E t \in flight : EventFails(t)
       PROVE  UNCHANGED <<provider, lock>>
  BY <1>15 DEF NextBucket, EventFails, books, provider, driverBillingVars
<1>16. ASSUME Tick PROVE Quiet
  BY <1>16, SameDeals DEF Tick, books, Desk
<1>17. ASSUME Writes PROVE RidingStep
  BY <1>17, PurchaseGrants, AssignmentDecides, EventEndsOrReturns DEF Writes
<1> HIDE DEF Quiet
<1> QED BY <1>2, <1>3, <1>4, <1>5, <1>6, <1>7, <1>8, <1>9, <1>10, <1>11, <1>12, <1>13,
           <1>14, <1>15, <1>16, <1>17
        DEF DriverBillingNext, Deliver, Writes

\* The rider's subscriptions implement OnePlan: however the events, the administrator and
\* the provider interleave, the rider is on one plan at most; a purchase is honoured after
\* it was paid for, never while an administrator is deciding, and once, however often its
\* checkout is delivered or sent again, until its record is mislaid; and what else the
\* provider reports ends a plan or revives one where there is none, and never takes the
\* rider from one plan to another (driver-subscription-events.service.ts,
\* driver-subscription-admin.service.ts).
THEOREM RiderAlwaysKeepsOnePlan == DriverBillingSpec => RiderKeepsOnePlan
<1>1. DriverBillingInit => Riding!Init
  BY DEF DriverBillingInit, Riding!Init, Bought, Claimed, Traced, BilledTo, Desk, PlansHeld,
         PlansOnFile, LiveRows
<1>2. DriverBillingInit => RidingInv
  BY BillingInit, NumberAssumption
     DEF DriverBillingInit, RidingInv, OfficeTyped, Waiting, HonouredAreAcknowledged,
         NoneUnnoticed
<1>3. RidingInv /\ [DriverBillingNext]_driverBillingVars => RidingInv' /\ RidingStep
  BY RidingInductive, StepRides
<1> QED BY <1>1, <1>2, <1>3, PTL
        DEF DriverBillingSpec, RiderKeepsOnePlan, Riding!Spec, RidingStep
=============================================================================
