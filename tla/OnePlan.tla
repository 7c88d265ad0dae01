------------------------------ MODULE OnePlan ------------------------------
(***************************************************************************)
(* What the billing of one customer promises about the plan they are on,   *)
(* operator or rider, whichever of the webhook handlers and the            *)
(* administrator does the work: one plan at a time, put there by a         *)
(* purchase that was paid for, or by the administrator's own decision.     *)
(* What the provider reports besides may end the plan, or bring back one   *)
(* that is on file where there is none, but never swaps one for another.   *)
(*                                                                         *)
(* The provider may claim one purchase more than once.  A claim is         *)
(* honoured once, and a second claim of a purchase only if its record was  *)
(* mislaid: the records no longer say which plan the agreement bought.     *)
(***************************************************************************)
CONSTANTS Agreement, Plan, None,
          Claim,    \* what the provider sends of a purchase
          Of        \* the agreement each claim is of

VARIABLES bought,    \* the plan each agreement was paid for, or None
          claims,    \* the claims the provider has made
          honoured,  \* those that put the customer on the plan they bought
          traced,    \* the agreements whose purchase the records name
          mislaid,   \* history: those honoured that were not always traced since
          desk,      \* the plan the administrator is deciding on, or None
          held,      \* the plans the customer is on
          onFile     \* the plans its records name, those that ended included

purchases == <<bought, claims>>
billing == <<bought, claims, honoured, traced, mislaid, desk, held, onFile>>

Init == /\ bought = [s \in Agreement |-> None] /\ claims = {} /\ honoured = {}
        /\ traced = {} /\ mislaid = {}
        /\ desk = None /\ held = {} /\ onFile = {}

\* Records are replaced and added; p is what they may newly name.
Names(p) == onFile' \subseteq onFile \cup {p}

\* What becomes of the records of the purchases, whatever else a step does.
Traces == /\ traced' \subseteq Agreement
          /\ mislaid' = mislaid \cup ({Of[c] : c \in honoured'} \ traced')

Pays(p, c) ==
  /\ bought[Of[c]] = None
  /\ bought' = [bought EXCEPT ![Of[c]] = p]
  /\ claims' = claims \cup {c}
  /\ Traces
  /\ UNCHANGED <<honoured, desk, held, onFile>>

\* The same purchase, claimed once more.
ClaimsAgain(c) ==
  /\ bought[Of[c]] # None
  /\ claims' = claims \cup {c}
  /\ Traces
  /\ UNCHANGED <<bought, honoured, desk, held, onFile>>

\* A purchase is honoured even over a plan the customer is on already, but not while the
\* administrator is deciding.
Grants(c) ==
  /\ c \in claims \ honoured
  /\ Of[c] \in {Of[d] : d \in honoured} => Of[c] \in mislaid
  /\ desk = None
  /\ honoured' = honoured \cup {c}
  /\ held' = {bought[Of[c]]} /\ Names(bought[Of[c]])
  /\ Traces
  /\ UNCHANGED <<purchases, desk>>

Opens(p) ==
  /\ desk = None /\ desk' = p
  /\ Traces
  /\ UNCHANGED <<purchases, honoured, held, onFile>>

\* The administrator puts the customer on the plan, ends the one they are on, or gives up.
Decides ==
  /\ desk # None /\ desk' = None
  /\ held' = {desk} \/ held' \subseteq held
  /\ Names(desk)
  /\ Traces
  /\ UNCHANGED <<purchases, honoured>>

Ends == /\ held' \subseteq held
        /\ Traces
        /\ UNCHANGED <<purchases, honoured, desk, onFile>>

\* A report, or a repeated claim, that had read the record before it was closed.
Returns(p) == /\ held = {} /\ p \in onFile
              /\ held' = {p}
              /\ Traces
              /\ UNCHANGED <<purchases, honoured, desk, onFile>>

Next == \/ Ends \/ Decides
        \/ \E p \in Plan : Opens(p) \/ Returns(p)
        \/ \E c \in Claim : Grants(c) \/ ClaimsAgain(c) \/ \E p \in Plan : Pays(p, c)

Spec == Init /\ [][Next]_billing
=============================================================================
