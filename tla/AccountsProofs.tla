--------------------------- MODULE AccountsProofs ---------------------------
(*************************************************************************)
(* Proofs about Accounts, for any number of accounts of the address,     *)
(* invitations, reset grants and requests at work, and every bound.      *)
(*************************************************************************)
EXTENDS Accounts, Sequences, TLAPS

-----------------------------------------------------------------------------
(* What a request at work has read: Base holds of every state by itself.    *)

About == {"rehash", "issue", "mint", "delete", "redeem", "cleanUp",
          "consume", "burn", "find", "write", "revoke"}
Resetting == {"consume", "burn", "find", "write", "revoke"}

\* A request at a stage, or on its way there once the hash is replaced.
BoundFor(t, stage) == t.do = stage \/ (t.do = "rehash" /\ t.next = stage)

TaskOK(t) ==
  /\ t.do \in About => t.of \in Account /\ account[t.of].state # "UNUSED"
  /\ t.do = "rehash" => t.next \in {"issue", "delete", "mint", "redeem"} /\ ~t.fresh
  /\ t.do = "write" => t.next = "revoke"
  /\ t.do \notin {"rehash", "write"} => t.next = "idle"
  /\ t.do \in Resetting => t.id \in Grant /\ t.word = t.id + 1
  /\ t.do \in {"resend", "heal"} => t.id \in Invite
  /\ t.do = "signUp" => t.fresh
  /\ t.do = "signUp" \/ BoundFor(t, "redeem")
       => t.id \in Invite /\ t.link \in Link /\ t.link[1] = t.id

\* A row that was never used is still blank, and nothing refers to it.
Unused ==
  /\ \A a \in Account : account[a].state = "UNUSED" => account[a] = Nobody
  /\ \A t \in session : account[t.of].state # "UNUSED"
  /\ \A g \in Grant : grant[g].state \in {"LIVE", "LAPSED"}
                        => grant[g].of \in Account /\ account[grant[g].of].state # "UNUSED"

Base == TypeOK /\ Unused /\ \A s \in Slot : TaskOK(flight[s])

-----------------------------------------------------------------------------
(* The strengthenings, each inductive on top of Base.                       *)

\* The sessions of an account are about to end: its password was just reset.
Ending(a) == \E s \in Slot : flight[s].do = "revoke" /\ flight[s].of = a
WordStands(a, w) == w = account[a].word \/ a \in torn \/ Ending(a)

\* What a sign-in read is what the row says, as long as the watermark has not moved since.
ReadStands(t) ==
  /\ t.era <= account[t.of].era
  /\ t.era = account[t.of].era /\ account[t.of].state = "LIVE"
       => t.role = account[t.of].role /\ WordStands(t.of, t.word)
ReadsStand == \A s \in Slot : BoundFor(flight[s], "issue") => ReadStands(flight[s])

Sessions ==
  /\ \A t \in session : t.iat <= now
  /\ ReadsStand
  /\ \A t \in session : Admitted(t) /\ ~t.late
                          => t.role = account[t.of].role /\ WordStands(t.of, t.word)

\* A fresh administrator that nobody confirmed is in the hands of the request that made it.
Trials ==
  \A a \in Account :
    account[a].state = "LIVE" /\ account[a].warrant = "TRIAL" =>
      \E s \in Slot : flight[s].do \in {"redeem", "cleanUp"} /\ flight[s].of = a
                      /\ flight[s].fresh

\* The grant of a request that consumed it is spent, is nobody else's, and set nothing yet.
Spent(g) == grant[g].state \in {"USED", "GONE"}
Consumed == {"burn", "find", "write"}
GrantsSpent ==
  /\ \A s \in Slot : flight[s].do \in Consumed
                       => Spent(flight[s].id) /\ \A a \in Account : flight[s].word \notin worn[a]
  /\ \A r, s \in Slot : flight[r].do \in Consumed /\ flight[s].do \in Consumed
                          /\ flight[r].id = flight[s].id => r = s
  /\ \A a \in Account, g \in Grant : g + 1 \in worn[a] => Spent(g)

\* A dead link is an older one, or its invitation is no longer open.
DeadLinks ==
  /\ \A l \in dead : l[2] <= invite[l[1]].token /\ (l[2] = invite[l[1]].token => ~Pending(l[1]))
  /\ \A i \in Invite : invite[i].status = "UNUSED" => invite[i].token = 0

Inv == Base /\ Sessions /\ Trials /\ GrantsSpent /\ DeadLinks /\ NewestPasswordStands

-----------------------------------------------------------------------------
(* What the actions are built from.                                         *)

LEMMA OneTask ==
  ASSUME TypeOK, NEW s \in Slot, NEW x \in Task, flight' = [flight EXCEPT ![s] = x]
  PROVE  /\ flight' \in [Slot -> Task]
         /\ \A r \in Slot : flight'[r] = IF r = s THEN x ELSE flight[r]
BY DEF TypeOK

LEMMA OneRow ==
  ASSUME TypeOK, NEW a \in Account, NEW x \in Row, account' = [account EXCEPT ![a] = x]
  PROVE  /\ account' \in [Account -> Row]
         /\ \A b \in Account : account'[b] = IF b = a THEN x ELSE account[b]
BY DEF TypeOK

LEMMA IdleOK == /\ Idle \in Task /\ TaskOK(Idle)
                /\ Idle.do = "idle" /\ Idle.next = "idle" /\ Idle.fresh = FALSE
BY DEF Idle, Task, TaskOK, Stage, Role, Word, About, Resetting, BoundFor

\* What a request that asks for proof of person carries.
Carries(x, a, w, next, link, id) ==
  /\ x \in Task /\ x.of = a /\ x.role = account[a].role /\ x.era = account[a].era
  /\ x.word = w /\ x.link = link /\ x.id = id /\ x.fresh = FALSE
  /\ \/ x.do = "rehash" /\ x.next = next
     \/ x.do = next /\ x.next = "idle"

LEMMA VerifiedCarries ==
  ASSUME TypeOK, NEW a \in Account, NEW w \in Word, NEW next \in {"issue", "mint", "delete", "redeem"},
         NEW link \in Link \cup {NoLink}, NEW id \in Invite \cup Grant \cup {0},
         NEW x, x = Verified(a, w, next, link, id)
  PROVE  Carries(x, a, w, next, link, id)
<1>1. account[a] \in Row
  BY DEF TypeOK
<1>2. account[a].role \in Role /\ account[a].era \in Nat
  BY <1>1 DEF Row
<1>3. next \in Stage /\ "rehash" \in Stage /\ "idle" \in Stage
  BY DEF Stage
<1>4. CASE account[a].weak
  <2>1. x = [do |-> "rehash", next |-> next, of |-> a, role |-> account[a].role,
             era |-> account[a].era, word |-> w, link |-> link, fresh |-> FALSE, grave |-> FALSE, id |-> id]
    BY <1>4 DEF Verified, Idle
  <2> QED
    BY <1>2, <1>3, <2>1 DEF Task, Carries
<1>5. CASE ~account[a].weak
  <2>1. x = [do |-> next, next |-> "idle", of |-> a, role |-> account[a].role,
             era |-> account[a].era, word |-> w, link |-> link, fresh |-> FALSE, grave |-> FALSE, id |-> id]
    BY <1>5 DEF Verified, Idle
  <2> QED
    BY <1>2, <1>3, <2>1 DEF Task, Carries
<1> QED
  BY <1>4, <1>5

-----------------------------------------------------------------------------
(* Enough for each part of the invariant to survive a step.                 *)

LEMMA BaseKept ==
  ASSUME Base, TypeOK',
         \A a \in Account : account'[a].state = "UNUSED" => account'[a] = account[a],
         \A r \in Slot : flight'[r] = flight[r] \/ TaskOK(flight[r])',
         \A t \in session' : t \in session \/ account[t.of].state # "UNUSED",
         \A g \in Grant : grant'[g].state \in {"LIVE", "LAPSED"} =>
           \/ grant[g].state \in {"LIVE", "LAPSED"} /\ grant'[g].of = grant[g].of
           \/ grant'[g].of \in Account /\ account[grant'[g].of].state # "UNUSED"
  PROVE  Base'
<1>1. \A r \in Slot : TaskOK(flight[r])'
  BY DEF Base, TaskOK, BoundFor
<1>2. Unused'
  BY DEF Base, Unused, Nobody, TypeOK, Token
<1> QED
  BY <1>1, <1>2 DEF Base

\* The tokens stay as they are, but for those a watermark taken too early lets through.
SameTokens ==
  \A u \in session' : \/ u \in session
                      \/ u.late /\ \E t \in session : t.of = u.of /\ t.iat = u.iat

\* What a step may do to an account that sessions and sign-ins refer to.
RowStep(a) ==
  /\ account'[a].era >= account[a].era
  /\ \/ account[a].state = "UNUSED"
     \/ account'[a].state # "LIVE"
     \/ /\ account'[a].era > account[a].era
        /\ \A u \in session' : u.of = a => u.late \/ u.iat <= account'[a].validFrom
     \/ /\ account[a].state = "LIVE" /\ account'[a].role = account[a].role
        /\ account'[a].era = account[a].era /\ account'[a].validFrom = account[a].validFrom
        /\ account'[a].word = account[a].word \/ Ending(a)'
        /\ Ending(a) => Ending(a)' \/ a \in torn'
        /\ torn \subseteq torn'

SameRead(r) ==
  /\ BoundFor(flight[r], "issue")
  /\ flight'[r].of = flight[r].of /\ flight'[r].era = flight[r].era
  /\ flight'[r].role = flight[r].role /\ flight'[r].word = flight[r].word

LEMMA SessionsKept ==
  ASSUME Base, TypeOK', Sessions, now' \in {now, now + 1}, SameTokens,
         \A a \in Account : RowStep(a),
         \A r \in Slot : \/ flight'[r] = flight[r] \/ ~BoundFor(flight'[r], "issue")
                         \/ SameRead(r)
  PROVE  Sessions'
<1>1. /\ now \in Nat /\ \A t \in session : t.iat \in Nat /\ t.of \in Account
      /\ \A t \in session : account[t.of].state # "UNUSED" /\ t.iat <= now
  BY BoundAssumption DEF Base, TypeOK, Token, Unused, Sessions
<1>2. \A a \in Account : /\ account[a].era \in Nat /\ account'[a].era \in Nat
                         /\ account[a].validFrom \in Nat /\ account'[a].validFrom \in Nat
  BY BoundAssumption DEF Base, TypeOK, Row
<1>3. \A a \in Account : \A w : WordStands(a, w) /\ account[a].state # "UNUSED" /\ account'[a].state = "LIVE"
                            /\ account'[a].era = account[a].era => WordStands(a, w)'
  BY <1>2 DEF RowStep, WordStands
<1>4. \A u \in session' : u.iat <= now'
  BY <1>1 DEF SameTokens
<1>5. ReadsStand'
  <2> SUFFICES ASSUME NEW r \in Slot, BoundFor(flight[r], "issue")'
               PROVE  ReadStands(flight[r])'
    BY DEF ReadsStand
  <2>1. PICK t : t = flight[r]
    OBVIOUS
  <2>2. /\ BoundFor(t, "issue") /\ flight'[r].of = t.of /\ flight'[r].era = t.era
        /\ flight'[r].role = t.role /\ flight'[r].word = t.word
    BY <2>1 DEF SameRead, BoundFor
  <2>3. t.of \in Account /\ account[t.of].state # "UNUSED" /\ t.era \in Nat
    BY <2>1, <2>2 DEF Base, TypeOK, Task, TaskOK, BoundFor, About
  <2>4. ReadStands(t) /\ RowStep(t.of)
    BY <2>1, <2>2, <2>3 DEF Sessions, ReadsStand
  <2>5. t.era <= account'[t.of].era
    BY <1>2, <2>3, <2>4 DEF RowStep, ReadStands
  <2>6. ASSUME t.era = account'[t.of].era, account'[t.of].state = "LIVE"
        PROVE  t.role = account'[t.of].role /\ WordStands(t.of, t.word)'
    <3>1. account[t.of].era = t.era /\ account[t.of].state = "LIVE"
          /\ account'[t.of].role = account[t.of].role
      BY <1>2, <2>3, <2>4, <2>6 DEF RowStep, ReadStands
    <3>2. t.role = account[t.of].role /\ WordStands(t.of, t.word)
      BY <2>4, <3>1 DEF ReadStands
    <3> QED
      BY <1>3, <2>3, <2>6, <3>1, <3>2
  <2> QED
    BY <2>2, <2>5, <2>6 DEF ReadStands, WordStands, Ending
<1>6. ASSUME NEW t \in session', Admitted(t)', ~t.late
      PROVE  t.role = account'[t.of].role /\ WordStands(t.of, t.word)'
  <2>0. t \in session
    BY <1>6 DEF SameTokens
  <2>1. RowStep(t.of) /\ account'[t.of].state = "LIVE" /\ ~(t.iat <= account'[t.of].validFrom)
    BY <1>1, <1>6, <2>0 DEF Admitted, Revoked
  <2>2. /\ account[t.of].state = "LIVE" /\ account'[t.of].role = account[t.of].role
        /\ account'[t.of].era = account[t.of].era
        /\ account'[t.of].validFrom = account[t.of].validFrom
    BY <1>1, <1>6, <2>0, <2>1 DEF RowStep
  <2>3. t.role = account[t.of].role /\ WordStands(t.of, t.word)
    BY <1>6, <2>0, <2>1, <2>2 DEF Sessions, Admitted, Revoked
  <2> QED
    BY <1>1, <1>3, <2>0, <2>1, <2>2, <2>3
<1> QED
  BY <1>4, <1>5, <1>6 DEF Sessions

Redeeming(r, a) == /\ flight[r].do \in {"redeem", "cleanUp"} /\ flight[r].of = a
                   /\ flight[r].fresh

LEMMA TrialsKept ==
  ASSUME Trials,
         \A a \in Account :
           account'[a].state = "LIVE" /\ account'[a].warrant = "TRIAL" =>
             \/ /\ account[a].state = "LIVE" /\ account[a].warrant = "TRIAL"
                /\ \A r \in Slot : Redeeming(r, a) => Redeeming(r, a)'
             \/ \E r \in Slot : Redeeming(r, a)'
  PROVE  Trials'
BY DEF Trials, Redeeming

LEMMA GrantsKept ==
  ASSUME Base, GrantsSpent, \A g \in Grant : Spent(g) => Spent(g)',
         \A a \in Account : worn'[a] \subseteq worn[a] \cup {1},
         \A r \in Slot : \/ flight'[r] = flight[r] \/ flight'[r].do \notin Consumed
                         \/ /\ flight[r].do \in Consumed
                            /\ flight'[r].id = flight[r].id /\ flight'[r].word = flight[r].word
  PROVE  GrantsSpent'
<1>1. \A g \in Grant : g \in Nat \ {0}
  BY IdAssumption
<1>2. \A r \in Slot : flight[r].do \in Consumed => flight[r].id \in Grant /\ flight[r].word = flight[r].id + 1
  BY DEF Base, TaskOK, Consumed, Resetting
<1>3. \A r \in Slot : flight'[r].do \in Consumed =>
        flight[r].do \in Consumed /\ flight'[r].id = flight[r].id /\ flight'[r].word = flight[r].word
  OBVIOUS
<1>4. \A r \in Slot : flight'[r].do \in Consumed
                        => Spent(flight[r].id)' /\ \A a \in Account : flight'[r].word \notin worn'[a]
  <2> SUFFICES ASSUME NEW r \in Slot, flight'[r].do \in Consumed
               PROVE  Spent(flight[r].id)' /\ \A a \in Account : flight'[r].word \notin worn'[a]
    OBVIOUS
  <2>1. flight[r].id \in Grant /\ Spent(flight[r].id) /\ flight'[r].id = flight[r].id
    BY <1>2, <1>3 DEF GrantsSpent
  <2>2. Spent(flight[r].id)'
    BY <2>1 DEF Spent
  <2>3. flight'[r].word # 1 /\ \A a \in Account : flight'[r].word \notin worn[a]
    BY <1>1, <1>2, <1>3 DEF GrantsSpent
  <2> QED
    BY <2>2, <2>3
<1>5. \A a \in Account, g \in Grant : g + 1 \in worn'[a] => Spent(g)'
  BY <1>1 DEF GrantsSpent
<1> QED
  BY <1>3, <1>4, <1>5 DEF GrantsSpent

LEMMA NewestKept ==
  ASSUME NewestPasswordStands,
         \A a \in Account : Exists(a)' => \/ account'[a].word = newest'[a]
                                          \/ /\ Exists(a) /\ account'[a].word = account[a].word
                                             /\ newest'[a] = newest[a]
  PROVE  NewestPasswordStands'
BY DEF NewestPasswordStands

LEMMA DeadLinksKept == DeadLinks /\ UNCHANGED <<invite, dead>> => DeadLinks'
BY DEF DeadLinks, Pending

-----------------------------------------------------------------------------
(* The steps that only move a request on.                                   *)

Rows == <<account, invite, grant, session, now, history>>

LEMMA RequestMovesOn ==
  ASSUME Inv, NEW s \in Slot, NEW x \in Task, flight' = [flight EXCEPT ![s] = x],
         moves' \in 0..MaxMove, UNCHANGED Rows, TaskOK(x),
         flight[s].do # "revoke",
         flight[s].do \in {"redeem", "cleanUp"} /\ flight[s].fresh
           => x.do \in {"redeem", "cleanUp"} /\ x.of = flight[s].of /\ x.fresh,
         BoundFor(x, "issue") => ReadStands(x),
         x.do \in Consumed => /\ flight[s].do \in Consumed
                              /\ x.id = flight[s].id /\ x.word = flight[s].word
  PROVE  Inv'
<1> USE DEF Rows, history
<1>1. flight' \in [Slot -> Task] /\ \A r \in Slot : flight'[r] = IF r = s THEN x ELSE flight[r]
  BY OneTask DEF Inv, Base
<1>2. TypeOK'
  BY <1>1 DEF Inv, Base, TypeOK
<1>3. Base'
  <2>1. \A r \in Slot : TaskOK(flight[r])'
    BY <1>1 DEF Inv, Base, TaskOK
  <2> QED
    BY <1>2, <2>1 DEF Inv, Base, Unused
<1>4. Sessions'
  <2>1. \A a \in Account : \A w : WordStands(a, w) => WordStands(a, w)'
    BY <1>1 DEF WordStands, Ending
  <2>2. \A r \in Slot : BoundFor(flight'[r], "issue") => ReadStands(flight'[r])
    BY <1>1 DEF Inv, Sessions, ReadsStand
  <2>3. ASSUME NEW t, t.of \in Account, ReadStands(t) PROVE ReadStands(t)'
    BY <2>1, <2>3 DEF ReadStands
  <2>4. ReadsStand'
    <3> SUFFICES ASSUME NEW r \in Slot, BoundFor(flight[r], "issue")' PROVE ReadStands(flight[r])'
      BY DEF ReadsStand
    <3>1. PICK t : t = flight'[r]
      OBVIOUS
    <3>2. t.of \in Account
      BY <1>1, <1>3, <3>1 DEF Base, TaskOK, BoundFor, About
    <3>3. ReadStands(t)'
      BY <2>2, <2>3, <3>1, <3>2 DEF BoundFor
    <3> QED
      BY <3>1, <3>3 DEF ReadStands, WordStands, Ending
  <2>5. ASSUME NEW t \in session, Admitted(t), ~t.late
        PROVE  t.role = account'[t.of].role /\ WordStands(t.of, t.word)'
    BY <2>1, <2>5 DEF Inv, Base, TypeOK, Token, Sessions
  <2> QED
    BY <2>4, <2>5 DEF Inv, Sessions, Admitted, Revoked
<1>5. Trials'
  <2>1. \A a \in Account, r \in Slot : Redeeming(r, a) => Redeeming(r, a)'
    BY <1>1 DEF Redeeming
  <2> QED
    BY <2>1, TrialsKept DEF Inv
<1>6. GrantsSpent'
  <2>1. \A g \in Grant : Spent(g) => Spent(g)'
    BY DEF Spent
  <2> QED
    BY <1>1, <2>1, GrantsKept DEF Inv
<1>7. DeadLinks' /\ NewestPasswordStands'
  BY DeadLinksKept DEF Inv, NewestPasswordStands, Exists
<1> QED
  BY <1>3, <1>4, <1>5, <1>6, <1>7 DEF Inv

\* A request starts in a slot that was idle.
LEMMA RequestStarts ==
  ASSUME Inv, NEW s \in Slot, NEW x, x \in Task, Start(s, x), UNCHANGED Rows, TaskOK(x),
         BoundFor(x, "issue") => ReadStands(x), x.do \notin Consumed
  PROVE  Inv'
<1>1. flight[s].do = "idle" /\ flight' = [flight EXCEPT ![s] = x] /\ moves' \in 0..MaxMove
  BY BoundAssumption, IdleOK DEF Start, Move, FirstFree, Inv, Base, TypeOK
<1> QED
  BY <1>1, RequestMovesOn

\* A proof of person is about an account that is in use, and says what its row says.
LEMMA VerifiedStarts ==
  ASSUME Inv, NEW s \in Slot, NEW a \in Holders, NEW w \in Word, account[a].word = w,
         NEW next \in {"issue", "mint", "delete", "redeem"},
         NEW link \in Link \cup {NoLink}, NEW id \in Invite \cup Grant \cup {0},
         next = "redeem" => id \in Invite /\ link \in Link /\ link[1] = id,
         Start(s, Verified(a, w, next, link, id)), UNCHANGED Rows
  PROVE  Inv'
<1> DEFINE x == Verified(a, w, next, link, id)
<1>1. a \in Account /\ account[a].state = "LIVE" /\ TypeOK
  BY DEF Holders, Inv, Base
<1>2. Carries(x, a, w, next, link, id)
  BY <1>1, VerifiedCarries
<1> HIDE DEF x
<1> USE DEF Carries
<1>3. TaskOK(x)
  BY <1>1, <1>2 DEF TaskOK, BoundFor, About, Resetting
<1>4. ReadStands(x)
  BY <1>1, <1>2 DEF ReadStands, WordStands, TypeOK, Row
<1>5. x.do \notin Consumed
  BY <1>2 DEF Consumed
<1>6. Start(s, x)
  BY DEF x
<1> QED
  BY <1>2, <1>3, <1>4, <1>5, <1>6, RequestStarts

LEMMA SignInStep ==
  ASSUME Inv, NEW s \in Slot, NEW a \in Account, NEW w \in Word, SignIn(s, a, w) PROVE Inv'
<1>1. UNCHANGED Rows
  BY DEF SignIn, Rows
<1> QED
  BY <1>1, VerifiedStarts DEF SignIn, Knows

LEMMA DeleteReadsStep ==
  ASSUME Inv, NEW s \in Slot, NEW t \in session, NEW w \in Word, DeleteReads(s, t, w) PROVE Inv'
<1>1. UNCHANGED Rows
  BY DEF DeleteReads, Rows
<1> QED
  BY <1>1, VerifiedStarts DEF DeleteReads, Knows

LEMMA RequestChangeStep ==
  ASSUME Inv, NEW s \in Slot, NEW t \in session, NEW w \in Word, RequestChange(s, t, w) PROVE Inv'
<1>1. UNCHANGED Rows
  BY DEF RequestChange, Rows
<1> QED
  BY <1>1, VerifiedStarts DEF RequestChange, Knows

LEMMA RefreshStep ==
  ASSUME Inv, NEW s \in Slot, NEW t \in session, Refresh(s, t) PROVE Inv'
<1> DEFINE x == [Idle EXCEPT !.do = "issue", !.of = t.of, !.role = account[t.of].role,
                             !.era = account[t.of].era, !.word = account[t.of].word]
<1>1. t.of \in Account /\ account[t.of].state # "UNUSED" /\ account[t.of] \in Row
  BY DEF Inv, Base, TypeOK, Token, Unused
<1>2. /\ account[t.of].role \in Role /\ account[t.of].era \in Nat
      /\ account[t.of].word \in Word
  BY <1>1 DEF Row
<1>3. x \in Task
  BY <1>1, <1>2, IdleOK DEF Task, Stage
<1>4. /\ x.do = "issue" /\ x.next = "idle" /\ x.of = t.of /\ x.role = account[t.of].role
      /\ x.era = account[t.of].era /\ x.word = account[t.of].word
  BY IdleOK DEF Task
<1>5. Start(s, x) /\ UNCHANGED Rows
  BY DEF Refresh, Rows
<1> HIDE DEF x
<1>6. TaskOK(x) /\ x.do \notin Consumed
  BY <1>1, <1>4 DEF TaskOK, BoundFor, About, Resetting, Consumed
<1>7. ReadStands(x)
  BY <1>1, <1>4 DEF ReadStands, WordStands, Row
<1> QED
  BY <1>3, <1>5, <1>6, <1>7, RequestStarts

LEMMA ResetStep == ASSUME Inv, NEW s \in Slot, NEW g \in Grant, Reset(s, g) PROVE Inv'
<1> DEFINE x == [Idle EXCEPT !.do = "consume", !.of = grant[g].of, !.word = g + 1, !.id = g,
                             !.grave = account[grant[g].of].state = "DELETED"]
<1>1. grant[g].of \in Account /\ account[grant[g].of].state # "UNUSED"
  BY DEF Reset, Inv, Base, Unused
<1>2. g + 1 \in Word
  BY DEF Word
<1>3. x \in Task
  BY <1>1, <1>2, IdleOK DEF Task, Stage
<1>4. x.do = "consume" /\ x.next = "idle" /\ x.of = grant[g].of /\ x.word = g + 1 /\ x.id = g
  BY IdleOK DEF Task
<1>5. Start(s, x) /\ UNCHANGED Rows
  BY DEF Reset, Rows
<1> HIDE DEF x
<1>6. TaskOK(x) /\ x.do \notin Consumed /\ ~BoundFor(x, "issue")
  BY <1>1, <1>4 DEF TaskOK, BoundFor, About, Resetting, Consumed
<1> QED
  BY <1>3, <1>5, <1>6, RequestStarts

LEMMA RequestStep == ASSUME Inv, NEW s \in Slot, NEW a \in Account, Request(s, a) PROVE Inv'
<1> DEFINE x == [Idle EXCEPT !.do = "mint", !.of = a]
<1>1. account[a].state = "LIVE"
  BY DEF Request, Holders
<1>2. x \in Task
  BY IdleOK DEF Task, Stage
<1>3. x.do = "mint" /\ x.next = "idle" /\ x.of = a
  BY IdleOK DEF Task
<1>4. Start(s, x) /\ UNCHANGED Rows
  BY DEF Request, Rows
<1> HIDE DEF x
<1>5. TaskOK(x) /\ x.do \notin Consumed /\ ~BoundFor(x, "issue")
  BY <1>1, <1>3 DEF TaskOK, BoundFor, About, Resetting, Consumed
<1> QED
  BY <1>2, <1>4, <1>5, RequestStarts

\* A request about an invitation alone.
LEMMA InviteRequestStarts ==
  ASSUME Inv, NEW s \in Slot, NEW i \in Invite, NEW do \in {"resend", "heal"},
         Start(s, [Idle EXCEPT !.do = do, !.id = i]), UNCHANGED Rows
  PROVE  Inv'
<1> DEFINE x == [Idle EXCEPT !.do = do, !.id = i]
<1>2. x \in Task
  BY IdleOK DEF Task, Stage
<1>3. x.do = do /\ x.next = "idle" /\ x.id = i
  BY IdleOK DEF Task
<1>4. Start(s, x)
  OBVIOUS
<1> HIDE DEF x
<1>5. TaskOK(x) /\ x.do \notin Consumed /\ ~BoundFor(x, "issue")
  BY <1>3 DEF TaskOK, BoundFor, About, Resetting, Consumed
<1> QED
  BY <1>2, <1>4, <1>5, RequestStarts

LEMMA ResendReadsStep == ASSUME Inv, NEW s \in Slot, NEW i \in Invite, ResendReads(s, i) PROVE Inv'
<1>1. UNCHANGED Rows
  BY DEF ResendReads, Rows
<1> QED
  BY <1>1, InviteRequestStarts DEF ResendReads

LEMMA LinksAreLinks == ASSUME TypeOK, NEW i \in Invite PROVE LinkOf(i) \in Link /\ LinkOf(i)[1] = i
BY DEF LinkOf, Link, TypeOK

LEMMA AcceptReadsStep == ASSUME Inv, NEW s \in Slot, NEW i \in Invite, AcceptReads(s, i) PROVE Inv'
<1>1. UNCHANGED Rows
  BY DEF AcceptReads, Rows
<1>2. LinkOf(i) \in Link /\ LinkOf(i)[1] = i
  BY LinksAreLinks DEF Inv, Base
<1>3. CASE Start(s, [Idle EXCEPT !.do = "heal", !.id = i])
  BY <1>1, <1>3, InviteRequestStarts
<1>4. CASE Start(s, [Idle EXCEPT !.do = "signUp", !.link = LinkOf(i), !.fresh = TRUE, !.id = i])
  <2> DEFINE x == [Idle EXCEPT !.do = "signUp", !.link = LinkOf(i), !.fresh = TRUE, !.id = i]
  <2>2. x \in Task
    BY <1>2, IdleOK DEF Task, Stage
  <2>3. x.do = "signUp" /\ x.next = "idle" /\ x.id = i /\ x.link = LinkOf(i) /\ x.fresh
    BY IdleOK DEF Task
  <2>4. Start(s, x)
    BY <1>4
  <2> HIDE DEF x
  <2>5. TaskOK(x) /\ x.do \notin Consumed /\ ~BoundFor(x, "issue")
    BY <1>2, <2>3 DEF TaskOK, BoundFor, About, Resetting, Consumed
  <2> QED
    BY <1>1, <2>2, <2>4, <2>5, RequestStarts
<1>5. CASE \E a \in Holders : Start(s, Verified(a, account[a].word, "redeem", LinkOf(i), i))
  <2>1. PICK a \in Holders : Start(s, Verified(a, account[a].word, "redeem", LinkOf(i), i))
    BY <1>5
  <2>2. account[a].word \in Word
    BY DEF Holders, Inv, Base, TypeOK, Row
  <2> QED
    BY <1>1, <1>2, <2>1, <2>2, VerifiedStarts
<1> QED
  BY <1>3, <1>4, <1>5 DEF AcceptReads

\* The row is found by the address.
LEMMA FindStep == ASSUME Inv, NEW s \in Slot, Find(s) PROVE Inv'
<1>1. /\ UNCHANGED Rows /\ flight[s].do = "find" /\ moves' \in 0..MaxMove
      /\ flight[s] \in Task /\ TaskOK(flight[s])
  BY DEF Find, Rows, Done, Go, Inv, Base, TypeOK
<1>2. CASE Done(s)
  BY <1>1, <1>2, IdleOK, RequestMovesOn DEF Done, Go, BoundFor, Consumed
<1>3. CASE \E a \in Bearers(flight[s]) :
             Go(s, [flight[s] EXCEPT !.do = "write", !.of = a, !.next = "revoke"])
  <2>1. PICK a \in Bearers(flight[s]) : Go(s, [flight[s] EXCEPT !.do = "write", !.of = a, !.next = "revoke"])
    BY <1>3
  <2> DEFINE x == [flight[s] EXCEPT !.do = "write", !.of = a, !.next = "revoke"]
  <2>2. a \in Account /\ account[a].state # "UNUSED"
    BY <1>1 DEF Bearers, Holders, Exists, TaskOK, About
  <2>3. x \in Task
    BY <1>1, <2>2 DEF Task, Stage
  <2>4. /\ x.do = "write" /\ x.next = "revoke" /\ x.of = a /\ x.id = flight[s].id
        /\ x.word = flight[s].word
    BY <1>1 DEF Task
  <2>5. flight' = [flight EXCEPT ![s] = x]
    BY <2>1 DEF Go
  <2> HIDE DEF x
  <2>6. TaskOK(x) /\ ~BoundFor(x, "issue")
    BY <1>1, <2>2, <2>4 DEF TaskOK, BoundFor, About, Resetting
  <2> QED
    BY <1>1, <2>3, <2>4, <2>5, <2>6, RequestMovesOn DEF Consumed
<1> QED
  BY <1>2, <1>3 DEF Find, First

-----------------------------------------------------------------------------
(* The steps that change invitations or grants, and leave the accounts.     *)

\* A request that is neither ending sessions nor holding a fresh administrator.
Quiet(r) == /\ TaskOK(flight'[r]) /\ ~BoundFor(flight'[r], "issue")
            /\ flight[r].do \notin {"revoke", "redeem", "cleanUp"}

LEMMA AccountsUntouched ==
  ASSUME Inv, TypeOK', UNCHANGED <<account, session, worn, newest, torn>>,
         now' \in {now, now + 1},
         \A r \in Slot : flight'[r] = flight[r] \/ Quiet(r),
         \A g \in Grant : grant'[g].state \in {"LIVE", "LAPSED"} =>
           \/ grant[g].state \in {"LIVE", "LAPSED"} /\ grant'[g].of = grant[g].of
           \/ grant'[g].of \in Account /\ account[grant'[g].of].state # "UNUSED",
         GrantsSpent', DeadLinks'
  PROVE  Inv'
<1>1. Base'
  <2>1. \A r \in Slot : flight'[r] = flight[r] \/ TaskOK(flight[r])'
    BY DEF Quiet, TaskOK
  <2> QED
    BY <2>1, BaseKept DEF Inv, Base, Unused
<1>2. \A a \in Account : RowStep(a)
  <2> SUFFICES ASSUME NEW a \in Account PROVE RowStep(a)
    OBVIOUS
  <2>1. account[a].era \in Nat
    BY DEF Inv, Base, TypeOK, Row
  <2>2. Ending(a) => Ending(a)'
    BY DEF Ending, Quiet
  <2> QED
    BY <2>1, <2>2 DEF RowStep
<1>3. Sessions'
  BY <1>2, SessionsKept DEF Quiet, Inv, SameTokens
<1>4. Trials'
  <2>1. \A a \in Account, r \in Slot : Redeeming(r, a) => Redeeming(r, a)'
    BY DEF Redeeming, Quiet
  <2> QED
    BY <2>1, TrialsKept DEF Inv
<1> QED
  BY <1>1, <1>3, <1>4 DEF Inv, NewestPasswordStands, Exists

\* The end of a request.
LEMMA DoneMeans ==
  ASSUME TypeOK, NEW s \in Slot, Done(s)
  PROVE  /\ flight' \in [Slot -> Task] /\ moves' = moves
         /\ flight'[s] = Idle /\ \A r \in Slot : flight'[r] = IF r = s THEN Idle ELSE flight[r]
BY IdleOK, OneTask DEF Done, Go

LEMMA SpendTypes ==
  ASSUME TypeOK, NEW gs
  PROVE  /\ Spend(gs) \in [Grant -> [of : Account \cup {0},
                                     state : {"UNUSED", "LIVE", "LAPSED", "USED", "GONE"}]]
         /\ \A g \in Grant : /\ Spend(gs)[g].of = grant[g].of
                             /\ Spend(gs)[g].state = IF g \in gs THEN "USED" ELSE grant[g].state
BY DEF Spend, TypeOK

\* Minting a grant spends what is left of the account's others.
LEMMA MintedGrants ==
  ASSUME Inv, NEW a \in Account, account[a].state # "UNUSED", NEW g \in NewGrant,
         grant' = Minted(a, g)
  PROVE  /\ grant' \in [Grant -> [of : Account \cup {0},
                                  state : {"UNUSED", "LIVE", "LAPSED", "USED", "GONE"}]]
         /\ \A h \in Grant : Spent(h) => Spent(h)'
         /\ \A h \in Grant : grant'[h].state \in {"LIVE", "LAPSED"} =>
              \/ grant[h].state \in {"LIVE", "LAPSED"} /\ grant'[h].of = grant[h].of
              \/ grant'[h].of \in Account /\ account[grant'[h].of].state # "UNUSED"
<1>1. g \in Grant /\ grant[g].state = "UNUSED" /\ TypeOK
  BY DEF NewGrant, Inv, Base
<1> DEFINE sp == Spend(Unspent(a))
           x == [of |-> a, state |-> "LIVE"]
<1>2. /\ sp \in [Grant -> [of : Account \cup {0},
                           state : {"UNUSED", "LIVE", "LAPSED", "USED", "GONE"}]]
      /\ \A h \in Grant : /\ sp[h].of = grant[h].of
                          /\ sp[h].state = IF h \in Unspent(a) THEN "USED" ELSE grant[h].state
  BY <1>1, SpendTypes
<1>3. x \in [of : Account \cup {0}, state : {"UNUSED", "LIVE", "LAPSED", "USED", "GONE"}]
      /\ x.of = a /\ x.state = "LIVE"
  OBVIOUS
<1>4. grant' = [sp EXCEPT ![g] = x]
  BY DEF Minted
<1> HIDE DEF sp, x
<1>5. \A h \in Grant : grant'[h] = IF h = g THEN x ELSE sp[h]
  BY <1>2, <1>4
<1>6. grant' \in [Grant -> [of : Account \cup {0},
                            state : {"UNUSED", "LIVE", "LAPSED", "USED", "GONE"}]]
  BY <1>2, <1>3, <1>4
<1>7. \A h \in Grant : Spent(h) => Spent(h)'
  BY <1>1, <1>2, <1>5 DEF Spent
<1>8. \A h \in Grant : grant'[h].state \in {"LIVE", "LAPSED"} =>
        \/ grant[h].state \in {"LIVE", "LAPSED"} /\ grant'[h].of = grant[h].of
        \/ grant'[h].of \in Account /\ account[grant'[h].of].state # "UNUSED"
  BY <1>2, <1>3, <1>5
<1> QED
  BY <1>6, <1>7, <1>8

LEMMA MintStep == ASSUME Inv, NEW s \in Slot, Mint(s) PROVE Inv'
<1>1. /\ flight[s].do = "mint" /\ flight[s].of \in Account
      /\ account[flight[s].of].state # "UNUSED" /\ Done(s)
      /\ UNCHANGED <<account, invite, session, now, dead, worn, newest, torn>>
  BY DEF Mint, history, Inv, Base, TaskOK, About
<1>2. /\ flight' \in [Slot -> Task] /\ moves' = moves
      /\ flight'[s] = Idle /\ \A r \in Slot : flight'[r] = IF r = s THEN Idle ELSE flight[r]
  BY <1>1, DoneMeans DEF Inv, Base
<1>3. /\ grant' \in [Grant -> [of : Account \cup {0},
                               state : {"UNUSED", "LIVE", "LAPSED", "USED", "GONE"}]]
      /\ \A h \in Grant : Spent(h) => Spent(h)'
      /\ \A h \in Grant : grant'[h].state \in {"LIVE", "LAPSED"} =>
           \/ grant[h].state \in {"LIVE", "LAPSED"} /\ grant'[h].of = grant[h].of
           \/ grant'[h].of \in Account /\ account[grant'[h].of].state # "UNUSED"
  <2>1. CASE \E g \in NewGrant : grant' = Minted(flight[s].of, g)
    BY <1>1, <2>1, MintedGrants
  <2>2. CASE grant' = grant
    BY <2>2 DEF Inv, Base, TypeOK, Spent
  <2> QED
    BY <2>1, <2>2 DEF Mint
<1>4. TypeOK'
  BY <1>1, <1>2, <1>3 DEF Inv, Base, TypeOK
<1>5. GrantsSpent'
  BY <1>1, <1>2, <1>3, IdleOK, GrantsKept DEF Inv, Consumed
<1>6. Quiet(s)
  BY <1>1, <1>2, IdleOK DEF Quiet, BoundFor
<1> QED
  BY <1>1, <1>2, <1>3, <1>4, <1>5, <1>6, AccountsUntouched, DeadLinksKept DEF Inv

LEMMA GrantLapsesStep == ASSUME Inv, NEW g \in Grant, GrantLapses(g) PROVE Inv'
<1>1. /\ grant[g].state = "LIVE" /\ grant' = [grant EXCEPT ![g].state = "LAPSED"]
      /\ UNCHANGED <<account, invite, session, flight, now, moves, dead, worn, newest, torn>>
  BY DEF GrantLapses, history
<1>2. TypeOK'
  BY <1>1 DEF Inv, Base, TypeOK
<1>3. \A h \in Grant : /\ grant'[h].of = grant[h].of
                       /\ grant'[h].state = IF h = g THEN "LAPSED" ELSE grant[h].state
  BY <1>1 DEF Inv, Base, TypeOK
<1>4. \A h \in Grant : Spent(h) => Spent(h)'
  BY <1>1, <1>3 DEF Spent
<1>5. GrantsSpent'
  BY <1>1, <1>4, GrantsKept DEF Inv
<1> QED
  BY <1>1, <1>2, <1>3, <1>5, AccountsUntouched, DeadLinksKept DEF Inv

\* The update of usedAt is what makes the grant this request's own.
LEMMA ConsumeStep == ASSUME Inv, NEW s \in Slot, Consume(s) PROVE Inv'
<1> DEFINE t == flight[s]
<1>1. /\ t.do = "consume" /\ t.id \in Grant /\ t.word = t.id + 1 /\ t \in Task /\ TaskOK(t)
      /\ UNCHANGED <<account, invite, session, now, dead, worn, newest, torn>>
  BY DEF Consume, history, Inv, Base, TypeOK, TaskOK, Resetting
<1>2. CASE ~Usable(t.id)
  <2>1. Done(s) /\ UNCHANGED Rows
    BY <1>1, <1>2 DEF Consume, Rows, history
  <2> QED
    BY <1>1, <2>1, IdleOK, RequestMovesOn DEF Done, Go, BoundFor, Consumed, Inv, Base, TypeOK
<1>3. CASE Usable(t.id)
  <2> DEFINE x == [t EXCEPT !.do = "burn"]
  <2>1. grant' = Spend({t.id}) /\ flight' = [flight EXCEPT ![s] = x] /\ moves' = moves
    BY <1>3 DEF Consume, Go
  <2>2. /\ x \in Task /\ x.do = "burn" /\ x.next = t.next /\ x.of = t.of /\ x.id = t.id
        /\ x.word = t.word
    BY <1>1 DEF Task, Stage
  <2>3. TaskOK(x) /\ ~BoundFor(x, "issue")
    BY <1>1, <2>2 DEF TaskOK, BoundFor, About, Resetting
  <2> HIDE DEF x
  <2>4. /\ flight' \in [Slot -> Task] /\ flight'[s] = x
        /\ \A r \in Slot : r # s => flight'[r] = flight[r]
    BY <2>1, <2>2, OneTask DEF Inv, Base
  <2>5. /\ grant' \in [Grant -> [of : Account \cup {0},
                                 state : {"UNUSED", "LIVE", "LAPSED", "USED", "GONE"}]]
        /\ \A g \in Grant : /\ grant'[g].of = grant[g].of
                            /\ grant'[g].state = IF g = t.id THEN "USED" ELSE grant[g].state
    BY <2>1, SpendTypes DEF Inv, Base
  <2>6. TypeOK'
    BY <1>1, <2>1, <2>4, <2>5 DEF Inv, Base, TypeOK
  <2>7. ~Spent(t.id) /\ grant'[t.id].state = "USED" /\ \A g \in Grant : Spent(g) => Spent(g)'
    BY <1>1, <1>3, <2>5 DEF Spent, Usable
  <2>8. \A a \in Account : t.word \notin worn[a]
    BY <1>1, <2>7 DEF Inv, GrantsSpent
  <2>9. \A r \in Slot : flight[r].do \in Consumed => flight[r].id # t.id /\ flight[r].id \in Grant
    BY <2>7 DEF Inv, GrantsSpent, Base, TaskOK, Consumed, Resetting
  <2>10. GrantsSpent'
    <3>1. \A r \in Slot : flight'[r].do \in Consumed
            => Spent(flight[r].id)' /\ \A a \in Account : flight'[r].word \notin worn'[a]
      <4> SUFFICES ASSUME NEW r \in Slot, flight'[r].do \in Consumed
                   PROVE  Spent(flight[r].id)' /\ \A a \in Account : flight'[r].word \notin worn'[a]
        OBVIOUS
      <4>1. CASE r = s
        BY <1>1, <2>2, <2>4, <2>7, <2>8, <4>1 DEF Spent
      <4>2. CASE r # s
        BY <1>1, <2>4, <2>7, <2>9, <4>2 DEF Spent, Inv, GrantsSpent
      <4> QED
        BY <4>1, <4>2
    <3>2. \A q, r \in Slot : flight'[q].do \in Consumed /\ flight'[r].do \in Consumed
                               /\ flight'[q].id = flight'[r].id => q = r
      BY <2>2, <2>4, <2>9 DEF Inv, GrantsSpent
    <3>3. \A a \in Account, g \in Grant : g + 1 \in worn'[a] => Spent(g)'
      BY <1>1, <2>7 DEF Inv, GrantsSpent
    <3> QED
      BY <3>1, <3>2, <3>3 DEF GrantsSpent
  <2>11. Quiet(s)
    BY <1>1, <2>3, <2>4 DEF Quiet
  <2> QED
    BY <1>1, <2>4, <2>5, <2>6, <2>10, <2>11, AccountsUntouched, DeadLinksKept DEF Inv
<1> QED
  BY <1>2, <1>3

LEMMA BurnStep == ASSUME Inv, NEW s \in Slot, Burn(s) PROVE Inv'
<1> DEFINE t == flight[s]
           x == [t EXCEPT !.do = "find"]
<1>1. /\ t.do = "burn" /\ t.id \in Grant /\ t.word = t.id + 1 /\ t \in Task /\ TaskOK(t)
      /\ UNCHANGED <<account, invite, session, now, moves, dead, worn, newest, torn>>
      /\ grant' = Spend(Unspent(t.of)) /\ flight' = [flight EXCEPT ![s] = x]
  BY DEF Burn, Go, history, Inv, Base, TypeOK, TaskOK, Resetting
<1>2. /\ x \in Task /\ x.do = "find" /\ x.next = t.next /\ x.of = t.of /\ x.id = t.id
      /\ x.word = t.word
  BY <1>1 DEF Task, Stage
<1>3. TaskOK(x) /\ ~BoundFor(x, "issue")
  BY <1>1, <1>2 DEF TaskOK, BoundFor, About, Resetting
<1>4. /\ flight' \in [Slot -> Task] /\ flight'[s] = x
      /\ \A r \in Slot : r # s => flight'[r] = flight[r]
  <2> HIDE DEF x
  <2> QED
    BY <1>1, <1>2, OneTask DEF Inv, Base
<1> HIDE DEF x
<1>5. /\ grant' \in [Grant -> [of : Account \cup {0},
                               state : {"UNUSED", "LIVE", "LAPSED", "USED", "GONE"}]]
      /\ \A g \in Grant : /\ grant'[g].of = grant[g].of
                          /\ grant'[g].state = IF g \in Unspent(t.of) THEN "USED" ELSE grant[g].state
  BY <1>1, SpendTypes DEF Inv, Base
<1>6. TypeOK'
  BY <1>1, <1>4, <1>5 DEF Inv, Base, TypeOK
<1>7. \A g \in Grant : Spent(g) => Spent(g)'
  BY <1>5 DEF Spent
<1>8. GrantsSpent'
  BY <1>1, <1>2, <1>4, <1>7, GrantsKept DEF Inv, Consumed
<1>9. Quiet(s)
  BY <1>1, <1>3, <1>4 DEF Quiet
<1> QED
  BY <1>1, <1>4, <1>5, <1>6, <1>8, <1>9, AccountsUntouched, DeadLinksKept DEF Inv

-----------------------------------------------------------------------------
(* Invitations.                                                             *)

LEMMA InvitesMove ==
  ASSUME Inv, UNCHANGED <<account, grant, session, now, worn, newest, torn>>,
         invite' \in [Invite -> [status : {"UNUSED", "PENDING", "ACCEPTED", "REVOKED", "EXPIRED"},
                                 token : Nat, live : BOOLEAN]],
         flight' \in [Slot -> Task], moves' \in 0..MaxMove, dead' \subseteq Link,
         \A r \in Slot : flight'[r] = flight[r] \/ (Quiet(r) /\ flight'[r].do \notin Consumed),
         DeadLinks'
  PROVE  Inv'
<1>1. TypeOK'
  BY DEF Inv, Base, TypeOK
<1>2. GrantsSpent'
  BY GrantsKept DEF Inv, Spent
<1> QED
  BY <1>1, <1>2, AccountsUntouched DEF Inv, Base, Unused

LEMMA InviteLapsesStep == ASSUME Inv, NEW i \in Invite, InviteLapses(i) PROVE Inv'
<1>1. /\ invite' = [invite EXCEPT ![i].live = FALSE]
      /\ UNCHANGED <<account, grant, session, flight, now, moves, dead, worn, newest, torn>>
  BY DEF InviteLapses, history
<1>2. invite' \in [Invite -> [status : {"UNUSED", "PENDING", "ACCEPTED", "REVOKED", "EXPIRED"},
                              token : Nat, live : BOOLEAN]]
  BY <1>1 DEF Inv, Base, TypeOK
<1>3. \A j \in Invite : invite'[j].token = invite[j].token /\ invite'[j].status = invite[j].status
  BY <1>1 DEF Inv, Base, TypeOK
<1>4. DeadLinks'
  BY <1>1, <1>3 DEF Inv, Base, TypeOK, Link, DeadLinks, Pending
<1> QED
  BY <1>1, <1>2, <1>4, InvitesMove DEF Inv, Base, TypeOK

LEMMA RevokeInviteStep == ASSUME Inv, NEW i \in Invite, RevokeInvite(i) PROVE Inv'
<1>1. /\ invite' = [invite EXCEPT ![i].status = "REVOKED"] /\ moves' \in 0..MaxMove
      /\ dead' = dead \cup {LinkOf(i)}
      /\ UNCHANGED <<account, grant, session, flight, now, worn, newest, torn>>
  BY BoundAssumption DEF RevokeInvite, Move, Inv, Base, TypeOK
<1>2. invite' \in [Invite -> [status : {"UNUSED", "PENDING", "ACCEPTED", "REVOKED", "EXPIRED"},
                              token : Nat, live : BOOLEAN]]
  BY <1>1 DEF Inv, Base, TypeOK
<1>3. \A j \in Invite : /\ invite'[j].token = invite[j].token
                        /\ invite'[j].status = IF j = i THEN "REVOKED" ELSE invite[j].status
  BY <1>1 DEF Inv, Base, TypeOK
<1>4. /\ LinkOf(i) \in Link /\ LinkOf(i)[1] = i /\ LinkOf(i)[2] = invite[i].token
      /\ invite[i].token \in Nat
  BY LinksAreLinks DEF Inv, Base, LinkOf, TypeOK
<1>5. DeadLinks'
  BY <1>1, <1>3, <1>4 DEF Inv, Base, TypeOK, Link, DeadLinks, Pending
<1> QED
  BY <1>1, <1>2, <1>4, <1>5, InvitesMove DEF Inv, Base, TypeOK

\* The stale status does no harm: the token moves on whatever came between.
LEMMA ResendStep == ASSUME Inv, NEW s \in Slot, Resend(s) PROVE Inv'
<1>1. PICK i \in Invite : i = flight[s].id
  BY DEF Resend, Inv, Base, TaskOK
<1>2. /\ flight[s].do = "resend" /\ Done(s) /\ dead' = dead \cup {LinkOf(i)}
      /\ invite' = [invite EXCEPT ![i] = [status |-> "PENDING", token |-> @.token + 1, live |-> TRUE]]
      /\ UNCHANGED <<account, grant, session, now, worn, newest, torn>>
  BY <1>1 DEF Resend
<1>3. /\ flight' \in [Slot -> Task] /\ moves' = moves
      /\ flight'[s] = Idle /\ \A r \in Slot : flight'[r] = IF r = s THEN Idle ELSE flight[r]
  BY <1>2, DoneMeans DEF Inv, Base
<1>4. invite[i].token \in Nat
  BY DEF Inv, Base, TypeOK
<1> DEFINE x == [status |-> "PENDING", token |-> invite[i].token + 1, live |-> TRUE]
<1>5. /\ x \in [status : {"UNUSED", "PENDING", "ACCEPTED", "REVOKED", "EXPIRED"},
                token : Nat, live : BOOLEAN]
      /\ x.status = "PENDING" /\ x.token = invite[i].token + 1
      /\ invite' = [invite EXCEPT ![i] = x]
  BY <1>2, <1>4
<1> HIDE DEF x
<1>6. invite' \in [Invite -> [status : {"UNUSED", "PENDING", "ACCEPTED", "REVOKED", "EXPIRED"},
                              token : Nat, live : BOOLEAN]]
  BY <1>5 DEF Inv, Base, TypeOK
<1>7. \A j \in Invite : invite'[j] = IF j = i THEN x ELSE invite[j]
  BY <1>5 DEF Inv, Base, TypeOK
<1>8. LinkOf(i) \in Link /\ LinkOf(i)[1] = i /\ LinkOf(i)[2] = invite[i].token
  BY LinksAreLinks DEF Inv, Base, LinkOf
<1>9. DeadLinks'
  <2>1. \A l \in dead : l[1] \in Invite /\ l[2] \in Nat
    BY DEF Inv, Base, TypeOK, Link
  <2>2. \A l \in dead' : l[1] \in Invite /\ l[2] \in Nat /\ l[2] <= invite[l[1]].token
                         /\ (l[1] # i => l \in dead)
    BY <1>2, <1>4, <1>8, <2>1 DEF Inv, DeadLinks
  <2>3. \A l \in dead' : l[2] <= invite'[l[1]].token /\ (l[2] = invite'[l[1]].token => l[1] # i)
    BY <1>4, <1>5, <1>7, <2>2
  <2>4. \A l \in dead' : l[2] = invite'[l[1]].token => invite'[l[1]].status # "PENDING"
    BY <1>7, <2>2, <2>3 DEF Inv, DeadLinks, Pending
  <2>5. \A j \in Invite : invite'[j].status = "UNUSED" => invite'[j].token = 0
    BY <1>5, <1>7 DEF Inv, DeadLinks
  <2> QED
    BY <2>3, <2>4, <2>5 DEF DeadLinks, Pending
<1>10. Quiet(s) /\ flight'[s].do \notin Consumed
  BY <1>2, <1>3, IdleOK DEF Quiet, BoundFor, Consumed
<1> QED
  BY <1>2, <1>3, <1>6, <1>8, <1>9, <1>10, InvitesMove DEF Inv, Base, TypeOK

LEMMA HealStep == ASSUME Inv, NEW s \in Slot, Heal(s) PROVE Inv'
<1>1. PICK i \in Invite : i = flight[s].id
  BY DEF Heal, Inv, Base, TaskOK
<1>2. /\ flight[s].do = "heal" /\ Done(s) /\ invite' = [invite EXCEPT ![i].status = "EXPIRED"]
      /\ UNCHANGED <<account, grant, session, now, dead, worn, newest, torn>>
  BY <1>1 DEF Heal, history
<1>3. /\ flight' \in [Slot -> Task] /\ moves' = moves
      /\ flight'[s] = Idle /\ \A r \in Slot : flight'[r] = IF r = s THEN Idle ELSE flight[r]
  BY <1>2, DoneMeans DEF Inv, Base
<1>4. invite' \in [Invite -> [status : {"UNUSED", "PENDING", "ACCEPTED", "REVOKED", "EXPIRED"},
                              token : Nat, live : BOOLEAN]]
  BY <1>2 DEF Inv, Base, TypeOK
<1>5. \A j \in Invite : /\ invite'[j].token = invite[j].token
                        /\ invite'[j].status = IF j = i THEN "EXPIRED" ELSE invite[j].status
  BY <1>2 DEF Inv, Base, TypeOK
<1>6. DeadLinks'
  BY <1>2, <1>5 DEF Inv, Base, TypeOK, Link, DeadLinks, Pending
<1>7. Quiet(s) /\ flight'[s].do \notin Consumed
  BY <1>2, <1>3, IdleOK DEF Quiet, BoundFor, Consumed
<1> QED
  BY <1>2, <1>3, <1>4, <1>6, <1>7, InvitesMove DEF Inv, Base, TypeOK

LEMMA CreateInviteStep == ASSUME Inv, CreateInvite PROVE Inv'
<1> DEFINE new == [status |-> "PENDING", token |-> 1, live |-> TRUE]
           old(j) == IF Pending(j) THEN [invite[j] EXCEPT !.status = "REVOKED"] ELSE invite[j]
<1>1. PICK n \in NewInvite : invite' = [i \in Invite |-> IF i = n THEN new ELSE old(i)]
  BY DEF CreateInvite
<1>2. /\ dead' = dead \cup {LinkOf(i) : i \in {j \in Invite : Pending(j)}}
      /\ UNCHANGED <<account, grant, session, flight, now, worn, newest, torn>>
      /\ moves' \in 0..MaxMove /\ n \in Invite /\ invite[n].status = "UNUSED"
  BY BoundAssumption DEF CreateInvite, NewInvite, Move, Inv, Base, TypeOK
<1>3. \A j \in Invite :
        /\ old(j) \in [status : {"UNUSED", "PENDING", "ACCEPTED", "REVOKED", "EXPIRED"},
                       token : Nat, live : BOOLEAN]
        /\ old(j).token = invite[j].token /\ invite[j].token \in Nat
        /\ old(j).status = IF Pending(j) THEN "REVOKED" ELSE invite[j].status
  BY DEF Inv, Base, TypeOK
<1>4. /\ new \in [status : {"UNUSED", "PENDING", "ACCEPTED", "REVOKED", "EXPIRED"},
                  token : Nat, live : BOOLEAN]
      /\ new.token = 1 /\ new.status = "PENDING"
  OBVIOUS
<1> HIDE DEF new, old
<1>5. \A j \in Invite : /\ invite'[j].token = IF j = n THEN 1 ELSE invite[j].token
                        /\ invite'[j].status = IF j = n THEN "PENDING"
                                               ELSE IF Pending(j) THEN "REVOKED" ELSE invite[j].status
  BY <1>1, <1>3, <1>4
<1>6. invite' \in [Invite -> [status : {"UNUSED", "PENDING", "ACCEPTED", "REVOKED", "EXPIRED"},
                              token : Nat, live : BOOLEAN]]
  BY <1>1, <1>3, <1>4
<1>7. \A l \in dead' : l \in Link /\ l[1] \in Invite /\ l[2] \in Nat
                       /\ (l \in dead \/ (Pending(l[1]) /\ l[2] = invite[l[1]].token))
  <2>1. \A l \in dead : l \in Link
    BY DEF Inv, Base, TypeOK
  <2>2. \A i \in Invite : LinkOf(i) \in Link /\ LinkOf(i)[1] = i /\ LinkOf(i)[2] = invite[i].token
    BY LinksAreLinks DEF Inv, Base, LinkOf
  <2>3. \A l \in Link : l[1] \in Invite /\ l[2] \in Nat
    BY DEF Link
  <2> QED
    BY <1>2, <2>1, <2>2, <2>3
<1>8. DeadLinks'
  <2>1. invite[n].token = 0 /\ ~Pending(n)
    BY <1>2 DEF Inv, DeadLinks, Pending
  <2>2. \A l \in dead' : l[2] <= invite[l[1]].token
                         /\ (l[2] = invite[l[1]].token => l \notin dead \/ ~Pending(l[1]))
    BY <1>3, <1>7 DEF Inv, DeadLinks
  <2>3. \A l \in dead' : l[2] <= invite'[l[1]].token
                         /\ (l[2] = invite'[l[1]].token => l[1] # n)
    BY <1>3, <1>5, <1>7, <2>1, <2>2
  <2>4. \A l \in dead' : l[1] # n => invite'[l[1]].status # "PENDING"
    BY <1>5, <1>7 DEF Pending
  <2>5. \A j \in Invite : invite'[j].status = "UNUSED" => invite'[j].token = 0
    BY <1>5 DEF Inv, DeadLinks, Pending
  <2> QED
    BY <2>3, <2>4, <2>5 DEF DeadLinks, Pending
<1> QED
  BY <1>2, <1>6, <1>7, <1>8, InvitesMove DEF Inv, Base, TypeOK

LEMMA TickStep == Inv /\ Tick => Inv'
<1> SUFFICES ASSUME Inv, Tick PROVE Inv'
  OBVIOUS
<1>1. /\ now' = now + 1 /\ now' \in 1..MaxTime
      /\ UNCHANGED <<account, invite, grant, session, flight, moves, dead, worn, newest, torn>>
  BY BoundAssumption DEF Tick, history, Inv, Base, TypeOK
<1>2. TypeOK'
  BY <1>1 DEF Inv, Base, TypeOK
<1>3. GrantsSpent'
  BY <1>1, GrantsKept DEF Inv, Spent
<1> QED
  BY <1>1, <1>2, <1>3, AccountsUntouched, DeadLinksKept DEF Inv, Base, Unused

-----------------------------------------------------------------------------
(* The steps that write an account.                                         *)


\* What a request may do next to a step that writes the row of a.
Advances(r, a) ==
  /\ ~BoundFor(flight'[r], "issue") \/ SameRead(r)
  /\ flight[r].do = "revoke" => flight[r].of = a
  /\ flight[r].do \in {"redeem", "cleanUp"} /\ flight[r].fresh => flight[r].of = a

LEMMA RowWritten ==
  ASSUME Inv, TypeOK', NEW a \in Account, RowStep(a),
         account'[a].state = "UNUSED" => account'[a] = account[a],
         \A b \in Account : b # a => account'[b] = account[b] /\ newest'[b] = newest[b],
         session' = session \/ SameTokens, now' = now, torn \subseteq torn',
         \A r \in Slot : flight'[r] = flight[r] \/ (TaskOK(flight[r])' /\ Advances(r, a)),
         account'[a].state = "LIVE" /\ account'[a].warrant = "TRIAL" =>
           \/ /\ account[a].state = "LIVE" /\ account[a].warrant = "TRIAL"
              /\ \A r \in Slot : Redeeming(r, a) => Redeeming(r, a)'
           \/ \E r \in Slot : Redeeming(r, a)',
         \A g \in Grant : grant'[g] = grant[g] \/ grant'[g].state = "GONE",
         Exists(a)' => \/ account'[a].word = newest'[a]
                       \/ /\ Exists(a) /\ account'[a].word = account[a].word
                          /\ newest'[a] = newest[a],
         GrantsSpent', DeadLinks'
  PROVE  Inv'
<1>0. SameTokens
  BY DEF SameTokens
<1>1. Base'
  <2>1. \A u \in session' : u \in session \/ account[u.of].state # "UNUSED"
    BY <1>0 DEF SameTokens, Inv, Base, Unused
  <2> QED
    BY <2>1, BaseKept DEF Inv
<1>2. Sessions'
  <2>1. ASSUME NEW b \in Account, b # a PROVE RowStep(b)
    <3>1. account'[b] = account[b] /\ account[b].era \in Nat
      BY <2>1 DEF Inv, Base, TypeOK, Row
    <3>2. Ending(b) => Ending(b)'
      BY <2>1 DEF Ending, Advances
    <3> QED
      BY <3>1, <3>2 DEF RowStep
  <2>2. \A b \in Account : RowStep(b)
    BY <2>1
  <2>3. \A r \in Slot : \/ flight'[r] = flight[r] \/ ~BoundFor(flight'[r], "issue") \/ SameRead(r)
    BY DEF Advances
  <2> QED
    BY <1>0, <1>1, <2>2, <2>3, SessionsKept DEF Inv, Base
<1>3. Trials'
  <2>1. ASSUME NEW b \in Account, b # a, account'[b].state = "LIVE", account'[b].warrant = "TRIAL"
        PROVE  /\ account[b].state = "LIVE" /\ account[b].warrant = "TRIAL"
               /\ \A r \in Slot : Redeeming(r, b) => Redeeming(r, b)'
    BY <2>1 DEF Redeeming, Advances
  <2> QED
    BY <2>1, TrialsKept DEF Inv
<1>4. NewestPasswordStands'
  <2>1. \A b \in Account : b # a => (Exists(b)' <=> Exists(b))
    BY DEF Exists
  <2> QED
    BY <2>1, NewestKept DEF Inv
<1> QED
  BY <1>1, <1>2, <1>3, <1>4 DEF Inv


\* The fields of a row that a move of the watermark leaves alone.
LEMMA MovedRow ==
  ASSUME NEW r \in Row, NEW at \in 0..MaxTime
  PROVE  /\ Moved(r, at) \in Row /\ r.era \in Nat
         /\ Moved(r, at).validFrom = at /\ Moved(r, at).era = r.era + 1
         /\ Moved(r, at).state = r.state /\ Moved(r, at).role = r.role /\ Moved(r, at).word = r.word
         /\ Moved(r, at).warrant = r.warrant /\ Moved(r, at).weak = r.weak /\ Moved(r, at).link = r.link
<1>1. r.era \in Nat
  BY DEF Row
<1> DEFINE n == r.era + 1
<1>2. n \in Nat
  BY <1>1
<1>3. Moved(r, at) = [r EXCEPT !.validFrom = at, !.era = n]
  BY DEF Moved
<1> HIDE DEF n
<1>4. [r EXCEPT !.validFrom = at, !.era = n] \in Row
  BY <1>2 DEF Row
<1>5. Moved(r, at) \in Row
  BY <1>3, <1>4
<1> QED
  BY <1>1, <1>5 DEF Moved, Row

LEMMA RowTypes ==
  ASSUME TypeOK, NEW a \in Account
  PROVE  account[a] \in Row /\ account[a].era \in Nat /\ now \in 0..MaxTime /\ 0 \in Word /\ 1 \in Word
BY BoundAssumption DEF TypeOK, Row, Word

LEMMA OvertakenTokens ==
  ASSUME TypeOK, NEW a \in Account, NEW at \in Taken, session' = Overtaken(a, at)
  PROVE  /\ at \in 0..MaxTime /\ session' \subseteq Token /\ SameTokens
         /\ \A u \in session' : u.of = a => u.late \/ u.iat <= at
<1>1. at \in 0..MaxTime /\ session \subseteq Token
  BY BoundAssumption DEF TypeOK, Taken
<1>2. ASSUME NEW u \in session'
      PROVE  /\ u \in Token /\ (u.of = a => u.late \/ u.iat <= at)
             /\ u \in session \/ (u.late /\ \E t \in session : t.of = u.of /\ t.iat = u.iat)
  <2>1. PICK t \in session : u = [t EXCEPT !.late = t.late \/ (t.of = a /\ t.iat > at)]
    BY DEF Overtaken
  <2>2. t \in Token /\ t.iat \in Nat /\ at \in Nat
    BY <1>1, BoundAssumption DEF Token
  <2>3. /\ u \in Token /\ u.of = t.of /\ u.iat = t.iat
        /\ u.late <=> (t.late \/ (t.of = a /\ t.iat > at))
    BY <2>1, <2>2 DEF Token
  <2>4. u \in session \/ u.late
    <3>1. CASE t.late \/ (t.of = a /\ t.iat > at)
      BY <2>3, <3>1
    <3>2. CASE ~(t.late \/ (t.of = a /\ t.iat > at))
      <4>1. u = t
        BY <2>1, <2>2, <3>2 DEF Token
      <4> QED
        BY <4>1
    <3> QED
      BY <3>1, <3>2
  <2> QED
    BY <2>2, <2>3, <2>4
<1> QED
  BY <1>1, <1>2 DEF SameTokens

\* A token's account is in use.
LEMMA SignOutStep == ASSUME Inv, NEW t \in session, SignOut(t) PROVE Inv'
<1> DEFINE a == t.of
<1>0. PICK at \in Taken : /\ account' = [account EXCEPT ![a] = Moved(account[a], at)]
                          /\ session' = Overtaken(a, at)
  BY DEF SignOut, Inv, Base, TypeOK, Token
<1> DEFINE x == Moved(account[a], at)
<1>1. /\ a \in Account /\ Exists(a) /\ TypeOK /\ account' = [account EXCEPT ![a] = x]
      /\ moves' \in 0..MaxMove /\ session' = Overtaken(a, at)
      /\ UNCHANGED <<invite, grant, flight, now, dead, worn, newest, torn>>
  <2>1. /\ a \in Account /\ Exists(a) /\ TypeOK /\ moves' \in 0..MaxMove
        /\ UNCHANGED <<invite, grant, flight, now, dead, worn, newest, torn>>
    BY BoundAssumption DEF SignOut, Move, history, Inv, Base, TypeOK, Token
  <2> QED
    BY <1>0, <2>1
<1>10. /\ at \in 0..MaxTime /\ session' \subseteq Token /\ SameTokens
       /\ \A u \in session' : u.of = a => u.late \/ u.iat <= at
  BY <1>1, OvertakenTokens
<1>2. /\ x \in Row /\ x.era = account[a].era + 1 /\ x.validFrom = at
      /\ x.state = account[a].state /\ x.warrant = account[a].warrant /\ x.word = account[a].word
      /\ account[a].era \in Nat
  BY <1>1, <1>10, RowTypes, MovedRow
<1> HIDE DEF x, a
<1>3. account' \in [Account -> Row] /\ \A b \in Account : account'[b] = IF b = a THEN x ELSE account[b]
  BY <1>1, <1>2, OneRow
<1>4. TypeOK'
  BY <1>1, <1>10, <1>3 DEF TypeOK
<1>5. RowStep(a)
  BY <1>1, <1>10, <1>2, <1>3 DEF RowStep
<1>6. GrantsSpent' /\ DeadLinks'
  BY <1>1, GrantsKept, DeadLinksKept DEF Inv, Spent
<1> QED
  BY <1>1, <1>10, <1>2, <1>3, <1>4, <1>5, <1>6, RowWritten DEF Exists, Redeeming

LEMMA RegradeStep ==
  ASSUME Inv, NEW a \in Account, NEW role \in Role, Regrade(a, role) PROVE Inv'
<1> DEFINE y == [account[a] EXCEPT !.role = role]
           w == IF role = "PLATFORM_ADMIN" THEN "GIVEN" ELSE "NONE"
<1>0. PICK at \in Taken : /\ account' = [account EXCEPT ![a] = [Moved(y, at) EXCEPT !.warrant = w]]
                          /\ session' = Overtaken(a, at)
  BY DEF Regrade, Regraded
<1> DEFINE x == [Moved(y, at) EXCEPT !.warrant = w]
<1>1. /\ account[a].state = "LIVE" /\ TypeOK /\ account' = [account EXCEPT ![a] = x]
      /\ moves' \in 0..MaxMove /\ session' = Overtaken(a, at)
      /\ UNCHANGED <<invite, grant, flight, now, dead, worn, newest, torn>>
  <2>1. /\ account[a].state = "LIVE" /\ TypeOK /\ moves' \in 0..MaxMove
        /\ UNCHANGED <<invite, grant, flight, now, dead, worn, newest, torn>>
    BY BoundAssumption DEF Regrade, Holders, Move, history, Inv, Base, TypeOK
  <2> QED
    BY <1>0, <2>1
<1>2. /\ y \in Row /\ y.era = account[a].era /\ y.state = account[a].state
      /\ y.word = account[a].word /\ account[a].era \in Nat
  BY <1>1 DEF TypeOK, Row
<1>10. /\ at \in 0..MaxTime /\ session' \subseteq Token /\ SameTokens
       /\ \A u \in session' : u.of = a => u.late \/ u.iat <= at
  BY <1>1, OvertakenTokens
<1>3. w \in {"GIVEN", "NONE"}
  OBVIOUS
<1> HIDE DEF y, w
<1>40. /\ Moved(y, at) \in Row /\ Moved(y, at).validFrom = at /\ Moved(y, at).era = y.era + 1
      /\ Moved(y, at).state = y.state /\ Moved(y, at).word = y.word
  BY <1>2, <1>10, MovedRow
<1>4. /\ x \in Row /\ x.era = account[a].era + 1 /\ x.validFrom = at
      /\ x.state = "LIVE" /\ x.warrant # "TRIAL" /\ x.word = account[a].word
  BY <1>1, <1>2, <1>3, <1>40 DEF Row
<1> HIDE DEF x
<1>5. account' \in [Account -> Row] /\ \A b \in Account : account'[b] = IF b = a THEN x ELSE account[b]
  BY <1>1, <1>4, OneRow
<1>6. TypeOK'
  BY <1>1, <1>10, <1>5 DEF TypeOK
<1>7. RowStep(a)
  BY <1>1, <1>10, <1>2, <1>4, <1>5 DEF RowStep
<1>8. GrantsSpent' /\ DeadLinks'
  BY <1>1, GrantsKept, DeadLinksKept DEF Inv, Spent
<1> QED
  BY <1>1, <1>10, <1>4, <1>5, <1>6, <1>7, <1>8, RowWritten DEF Exists

\* A new account is nobody's yet: no token, grant or request refers to it.
LEMMA SignUpStep == Inv /\ SignUp => Inv'
<1> SUFFICES ASSUME Inv, SignUp PROVE Inv'
  OBVIOUS
<1>1. PICK a \in NewAccount : /\ account' = [account EXCEPT ![a].state = "LIVE", ![a].word = 1]
                              /\ worn' = [worn EXCEPT ![a] = {1}]
                              /\ newest' = [newest EXCEPT ![a] = 1]
  BY DEF SignUp
<1> DEFINE x == [account[a] EXCEPT !.state = "LIVE", !.word = 1]
<1>2. /\ a \in Account /\ account[a].state = "UNUSED" /\ account[a] = Nobody /\ TypeOK
      /\ moves' \in 0..MaxMove /\ UNCHANGED <<invite, grant, session, flight, now, dead, torn>>
  BY BoundAssumption DEF SignUp, NewAccount, Move, Inv, Base, Unused, TypeOK
<1>3. /\ x \in Row /\ x.state = "LIVE" /\ x.word = 1 /\ x.era = account[a].era
      /\ x.warrant = account[a].warrant /\ account[a].era \in Nat
  <2>1. account[a] \in Row /\ 1 \in Word /\ account[a].era \in Nat
    BY <1>2, RowTypes
  <2> QED
    BY <2>1 DEF Row
<1>4. x.warrant = "NONE"
  BY <1>2, <1>3 DEF Nobody
<1>5. account' = [account EXCEPT ![a] = x]
  BY <1>1, <1>2 DEF TypeOK
<1> HIDE DEF x
<1>6. account' \in [Account -> Row] /\ \A b \in Account : account'[b] = IF b = a THEN x ELSE account[b]
  BY <1>2, <1>3, <1>5, OneRow
<1>7. /\ worn' \in [Account -> SUBSET Word] /\ newest' \in [Account -> Word]
      /\ \A b \in Account : /\ worn'[b] = IF b = a THEN {1} ELSE worn[b]
                            /\ newest'[b] = IF b = a THEN 1 ELSE newest[b]
  BY <1>1, <1>2 DEF TypeOK, Word
<1>8. TypeOK'
  BY <1>2, <1>6, <1>7 DEF TypeOK
<1>9. RowStep(a)
  BY <1>2, <1>3, <1>6 DEF RowStep
<1>10. GrantsSpent' /\ DeadLinks'
  BY <1>2, <1>7, GrantsKept, DeadLinksKept DEF Inv, Spent
<1> QED
  BY <1>2, <1>3, <1>4, <1>6, <1>7, <1>8, <1>9, <1>10, RowWritten DEF Exists

\* The hash of a verified password is replaced by a better one of the same password.
LEMMA RehashStep == ASSUME Inv, NEW s \in Slot, Rehash(s) PROVE Inv'
<1> DEFINE t == flight[s]
           y == [t EXCEPT !.do = t.next, !.next = "idle"]
<1>0. PICK a \in Account : a = t.of
  BY DEF Rehash, Inv, Base, TaskOK, About
<1> DEFINE x == [account[a] EXCEPT !.weak = FALSE]
<1>1. /\ t.do = "rehash" /\ t.next \in {"issue", "delete", "mint", "redeem"} /\ ~t.fresh
      /\ a = t.of /\ account[a].state # "UNUSED" /\ t \in Task /\ TaskOK(t) /\ TypeOK
      /\ moves' = moves /\ flight' = [flight EXCEPT ![s] = y]
      /\ UNCHANGED <<invite, grant, session, now, dead, worn, newest, torn>>
  BY <1>0 DEF Rehash, Forward, Go, history, Inv, Base, TypeOK, TaskOK, About
<1>2. /\ y \in Task /\ y.do = t.next /\ y.next = "idle" /\ y.of = a /\ y.role = t.role
      /\ y.era = t.era /\ y.word = t.word /\ y.link = t.link /\ y.id = t.id /\ y.fresh = t.fresh
  BY <1>1 DEF Task, Stage
<1> HIDE DEF y
<1>3. flight' \in [Slot -> Task] /\ flight'[s] = y /\ \A r \in Slot : r # s => flight'[r] = flight[r]
  BY <1>1, <1>2, OneTask
<1>4. TaskOK(y) /\ y.do \notin Consumed
  BY <1>1, <1>2 DEF TaskOK, BoundFor, About, Resetting, Consumed
<1>5. CASE account' = account
  <2>1. BoundFor(y, "issue") => ReadStands(y)
    BY <1>1, <1>2 DEF Inv, Sessions, ReadsStand, ReadStands, BoundFor
  <2> QED
    BY <1>1, <1>2, <1>4, <1>5, <2>1, RequestMovesOn DEF Rows, history, TypeOK
<1>6. CASE account' = [account EXCEPT ![a].weak = FALSE]
  <2>1. /\ account[a] \in Row /\ x \in Row /\ x.state = account[a].state /\ x.role = account[a].role
        /\ x.word = account[a].word /\ x.era = account[a].era /\ x.warrant = account[a].warrant
        /\ x.validFrom = account[a].validFrom /\ account[a].era \in Nat
    BY <1>1, RowTypes DEF Row
  <2>2. account' = [account EXCEPT ![a] = x]
    BY <1>1, <1>6 DEF TypeOK
  <2> HIDE DEF x
  <2>3. account' \in [Account -> Row] /\ \A b \in Account : account'[b] = IF b = a THEN x ELSE account[b]
    BY <1>1, <2>1, <2>2, OneRow
  <2>4. TypeOK'
    BY <1>1, <1>3, <2>3 DEF TypeOK
  <2>5. Ending(a) => Ending(a)'
    BY <1>1, <1>3 DEF Ending
  <2>6. RowStep(a)
    BY <1>1, <2>1, <2>3, <2>5 DEF RowStep
  <2>7. TaskOK(flight[s])'
    BY <1>1, <1>2, <1>3, <1>4, <2>1, <2>3 DEF TaskOK
  <2>8. Advances(s, a)
    BY <1>1, <1>2, <1>3 DEF Advances, SameRead, BoundFor
  <2>9. GrantsSpent' /\ DeadLinks'
    BY <1>1, <1>3, <1>4, GrantsKept, DeadLinksKept DEF Inv, Spent
  <2>10. \A r \in Slot : Redeeming(r, a) => Redeeming(r, a)'
    BY <1>1, <1>3 DEF Redeeming
  <2> QED
    BY <1>1, <1>3, <2>1, <2>3, <2>4, <2>6, <2>7, <2>8, <2>9, <2>10, RowWritten DEF Exists
<1> QED
  BY <1>1, <1>5, <1>6 DEF Rehash, Upgraded

\* A token carries what was read; one read before the watermark moved is "late".
LEMMA IssueStep == ASSUME Inv, NEW s \in Slot, Issue(s) PROVE Inv'
<1> DEFINE t == flight[s]
           k == [of |-> t.of, role |-> t.role, word |-> t.word, iat |-> now,
                 late |-> account[t.of].era # t.era]
<1>1. /\ t.do = "issue" /\ t.of \in Account /\ account[t.of].state # "UNUSED" /\ TypeOK
      /\ t \in Task /\ Done(s) /\ session' = session \cup {k}
      /\ UNCHANGED <<account, invite, grant, now, dead, worn, newest, torn>>
  BY DEF Issue, history, Inv, Base, TypeOK, TaskOK, About
<1>2. /\ flight' \in [Slot -> Task] /\ moves' = moves
      /\ flight'[s] = Idle /\ \A r \in Slot : flight'[r] = IF r = s THEN Idle ELSE flight[r]
  BY <1>1, DoneMeans
<1>3. /\ k \in Token /\ k.of = t.of /\ k.role = t.role /\ k.word = t.word /\ k.iat = now
      /\ k.late = (account[t.of].era # t.era)
  BY <1>1 DEF Task, Token, TypeOK
<1>4. ReadStands(t)
  BY <1>1 DEF Inv, Sessions, ReadsStand, BoundFor
<1> HIDE DEF k
<1>5. TypeOK'
  BY <1>1, <1>2, <1>3 DEF TypeOK
<1>6. Base'
  <2>1. TaskOK(flight[s])'
    BY <1>2, IdleOK DEF TaskOK, BoundFor, About, Resetting
  <2> QED
    BY <1>1, <1>2, <1>3, <1>5, <2>1, BaseKept DEF Inv, Base, Unused
<1>7. Sessions'
  <2>1. \A a \in Account : \A w : WordStands(a, w) => WordStands(a, w)'
    BY <1>1, <1>2 DEF WordStands, Ending
  <2>2. \A c \in session' : c.iat <= now'
    BY <1>1, <1>3 DEF Inv, Sessions, TypeOK
  <2>3. ReadsStand'
    <3> SUFFICES ASSUME NEW r \in Slot, BoundFor(flight[r], "issue")' PROVE ReadStands(flight[r])'
      BY DEF ReadsStand
    <3>1. PICK v : v = flight[r] /\ flight'[r] = v /\ BoundFor(v, "issue")
      BY <1>2, IdleOK DEF BoundFor
    <3>2. v.of \in Account /\ ReadStands(v)
      BY <3>1 DEF Inv, Base, TaskOK, About, BoundFor, Sessions, ReadsStand
    <3>3. ReadStands(v)'
      BY <1>1, <2>1, <3>2 DEF ReadStands
    <3> QED
      BY <3>1, <3>3 DEF ReadStands, WordStands, Ending
  <2>4. ASSUME NEW c \in session', Admitted(c)', ~c.late
        PROVE  c.role = account'[c.of].role /\ WordStands(c.of, c.word)'
    <3>1. Admitted(c) /\ c.of \in Account
      BY <1>1, <1>3, <2>4 DEF Admitted, Revoked, TypeOK, Token
    <3>2. c.role = account[c.of].role /\ WordStands(c.of, c.word)
      <4>1. CASE c \in session
        BY <2>4, <3>1, <4>1 DEF Inv, Sessions
      <4>2. CASE c = k
        BY <1>3, <1>4, <2>4, <3>1, <4>2 DEF ReadStands, Admitted
      <4> QED
        BY <1>1, <4>1, <4>2
    <3> QED
      BY <1>1, <2>1, <3>1, <3>2
  <2> QED
    BY <2>2, <2>3, <2>4 DEF Sessions
<1>8. Trials'
  <2>1. \A a \in Account, r \in Slot : Redeeming(r, a) => Redeeming(r, a)'
    BY <1>1, <1>2 DEF Redeeming
  <2> QED
    BY <1>1, <2>1, TrialsKept DEF Inv
<1>9. GrantsSpent' /\ DeadLinks' /\ NewestPasswordStands'
  BY <1>1, <1>2, IdleOK, GrantsKept, DeadLinksKept
  DEF Inv, Spent, Consumed, NewestPasswordStands, Exists
<1> QED
  BY <1>6, <1>7, <1>8, <1>9 DEF Inv

\* The grants of an account that goes away go with it.
LEMMA GrantsGo ==
  ASSUME TypeOK, NEW a \in Account,
         grant' = [g \in Grant |-> IF grant[g].of = a THEN [grant[g] EXCEPT !.state = "GONE"]
                                   ELSE grant[g]]
  PROVE  /\ grant' \in [Grant -> [of : Account \cup {0},
                                  state : {"UNUSED", "LIVE", "LAPSED", "USED", "GONE"}]]
         /\ \A g \in Grant : grant'[g] = grant[g] \/ grant'[g].state = "GONE"
BY DEF TypeOK

LEMMA DeleteStep == ASSUME Inv, NEW s \in Slot, Delete(s) PROVE Inv'
<1>0. PICK a \in Account : a = flight[s].of
  BY DEF Delete, Inv, Base, TaskOK, About
<1>1. /\ flight[s].do = "delete" /\ a = flight[s].of /\ account[a].state # "UNUSED" /\ TypeOK
      /\ Done(s) /\ UNCHANGED <<invite, now, dead, worn, torn>>
  BY <1>0 DEF Delete, Inv, Base, TaskOK, About
<1>2. /\ flight' \in [Slot -> Task] /\ moves' = moves
      /\ flight'[s] = Idle /\ \A r \in Slot : flight'[r] = IF r = s THEN Idle ELSE flight[r]
  BY <1>1, DoneMeans
<1>3. CASE ~Exists(a)
  <2>1. UNCHANGED Rows
    BY <1>1, <1>3 DEF Delete, Rows, history
  <2> QED
    BY <1>1, <1>2, <2>1, IdleOK, RequestMovesOn DEF Done, Go, BoundFor, Consumed, TypeOK
<1>4. CASE Exists(a)
  <2>0. PICK at \in Taken :
          /\ account' = [account EXCEPT ![a] = [Moved(account[a], at) EXCEPT
                                                 !.state = "DELETED", !.word = 0, !.weak = FALSE]]
          /\ session' = Overtaken(a, at)
    BY <1>1, <1>4 DEF Delete, TypeOK
  <2> DEFINE x == [Moved(account[a], at) EXCEPT !.state = "DELETED", !.word = 0, !.weak = FALSE]
  <2>20. /\ at \in 0..MaxTime /\ session' \subseteq Token /\ SameTokens
    BY <1>1, <2>0, OvertakenTokens
  <2>1. /\ account' = [account EXCEPT ![a] = x] /\ newest' = [newest EXCEPT ![a] = 0]
        /\ grant' = [g \in Grant |-> IF grant[g].of = a THEN [grant[g] EXCEPT !.state = "GONE"]
                                     ELSE grant[g]]
    BY <1>1, <1>4, <2>0 DEF Delete
  <2>2. /\ account[a] \in Row /\ account[a].era \in Nat /\ 0 \in Word
        /\ Moved(account[a], at) \in Row /\ Moved(account[a], at).era = account[a].era + 1
    BY <1>1, <2>20, RowTypes, MovedRow
  <2>3. x \in Row /\ x.state = "DELETED" /\ x.word = 0 /\ x.era = account[a].era + 1
    BY <2>2 DEF Row
  <2> HIDE DEF x
  <2>4. account' \in [Account -> Row] /\ \A b \in Account : account'[b] = IF b = a THEN x ELSE account[b]
    BY <1>1, <2>1, <2>3, OneRow
  <2>5. /\ newest' \in [Account -> Word]
        /\ \A b \in Account : newest'[b] = IF b = a THEN 0 ELSE newest[b]
    BY <1>1, <2>1, <2>2 DEF TypeOK
  <2>6. /\ grant' \in [Grant -> [of : Account \cup {0},
                                 state : {"UNUSED", "LIVE", "LAPSED", "USED", "GONE"}]]
        /\ \A g \in Grant : grant'[g] = grant[g] \/ grant'[g].state = "GONE"
    BY <1>1, <2>1, GrantsGo
  <2>7. TypeOK'
    BY <1>1, <1>2, <2>20, <2>4, <2>5, <2>6 DEF TypeOK
  <2>8. RowStep(a)
    BY <1>1, <2>2, <2>3, <2>4 DEF RowStep
  <2>9. TaskOK(flight[s])' /\ Advances(s, a)
    BY <1>1, <1>2, IdleOK DEF TaskOK, BoundFor, About, Resetting, Advances
  <2>10. GrantsSpent' /\ DeadLinks'
    <3>1. \A g \in Grant : Spent(g) => Spent(g)'
      BY <2>6 DEF Spent
    <3> QED
      BY <1>1, <1>2, <3>1, IdleOK, GrantsKept, DeadLinksKept DEF Inv, Consumed
  <2> QED
    BY <1>1, <1>2, <2>20, <2>3, <2>4, <2>5, <2>6, <2>7, <2>8, <2>9, <2>10, RowWritten DEF Exists
<1> QED
  BY <1>3, <1>4

\* The reset's password goes in while its grant is spent and the sessions still stand.
LEMMA WriteStep == ASSUME Inv, NEW s \in Slot, Write(s) PROVE Inv'
<1> DEFINE t == flight[s]
<1>0. PICK a \in Account : a = t.of
  BY DEF Write, Inv, Base, TaskOK, About
<1> DEFINE x == [account[a] EXCEPT !.word = t.word, !.weak = FALSE]
           y == [t EXCEPT !.do = "revoke", !.next = "idle"]
<1>1. /\ t.do = "write" /\ t.next = "revoke" /\ a = t.of /\ account[a].state # "UNUSED" /\ TypeOK
      /\ t \in Task /\ TaskOK(t) /\ t.id \in Grant /\ t.word = t.id + 1 /\ t.word \in Word
      /\ UNCHANGED <<invite, grant, session, now, dead, torn>>
  BY <1>0 DEF Write, Inv, Base, TypeOK, Task, TaskOK, About, Resetting
<1>2. CASE ~Exists(a)
  <2>1. UNCHANGED Rows /\ Done(s)
    BY <1>1, <1>2 DEF Write, Rows, history
  <2> QED
    BY <1>1, <2>1, IdleOK, RequestMovesOn DEF Done, Go, BoundFor, Consumed, TypeOK
<1>3. CASE Exists(a)
  <2>1. /\ account' = [account EXCEPT ![a] = x] /\ moves' = moves
        /\ worn' = [worn EXCEPT ![a] = @ \cup {t.word}] /\ newest' = [newest EXCEPT ![a] = t.word]
        /\ flight' = [flight EXCEPT ![s] = y]
    BY <1>1, <1>3 DEF Write, Forward, Go, TypeOK
  <2>2. /\ account[a] \in Row /\ account[a].era \in Nat
        /\ x \in Row /\ x.state = account[a].state /\ x.role = account[a].role /\ x.word = t.word
        /\ x.era = account[a].era /\ x.warrant = account[a].warrant
        /\ x.validFrom = account[a].validFrom
    BY <1>1, RowTypes DEF Row
  <2>3. /\ y \in Task /\ y.do = "revoke" /\ y.next = "idle" /\ y.of = a /\ y.id = t.id
        /\ y.word = t.word
    BY <1>1 DEF Task, Stage
  <2> HIDE DEF x, y
  <2>4. account' \in [Account -> Row] /\ \A b \in Account : account'[b] = IF b = a THEN x ELSE account[b]
    BY <1>1, <2>1, <2>2, OneRow
  <2>5. flight' \in [Slot -> Task] /\ flight'[s] = y /\ \A r \in Slot : r # s => flight'[r] = flight[r]
    BY <1>1, <2>1, <2>3, OneTask
  <2>6. /\ newest' \in [Account -> Word] /\ worn' \in [Account -> SUBSET Word]
        /\ \A b \in Account : /\ newest'[b] = IF b = a THEN t.word ELSE newest[b]
                              /\ worn'[b] = IF b = a THEN worn[a] \cup {t.word} ELSE worn[b]
    BY <1>1, <2>1 DEF TypeOK
  <2>7. TypeOK'
    BY <1>1, <2>1, <2>4, <2>5, <2>6 DEF TypeOK
  <2>8. Ending(a)'
    BY <2>3, <2>5 DEF Ending
  <2>9. RowStep(a)
    BY <1>1, <1>3, <2>2, <2>4, <2>8 DEF RowStep, Exists
  <2>10. TaskOK(flight[s])'
    BY <1>1, <2>2, <2>3, <2>4, <2>5 DEF TaskOK, BoundFor, About, Resetting
  <2>11. Advances(s, a)
    BY <1>1, <2>3, <2>5 DEF Advances, BoundFor
  <2>12. GrantsSpent'
    <3>1. Spent(t.id) /\ \A g \in Grant : g \in Nat
      BY <1>1, IdAssumption DEF Inv, GrantsSpent, Consumed
    <3>2. \A r \in Slot : flight'[r].do \in Consumed =>
            /\ flight'[r] = flight[r] /\ r # s /\ flight[r].id \in Grant
            /\ flight[r].word = flight[r].id + 1 /\ flight[r].id # t.id
      BY <1>1, <2>3, <2>5 DEF Inv, Base, TaskOK, Resetting, GrantsSpent, Consumed
    <3>3. \A r \in Slot : flight'[r].do \in Consumed
            => Spent(flight[r].id)' /\ \A b \in Account : flight'[r].word \notin worn'[b]
      <4> SUFFICES ASSUME NEW r \in Slot, flight'[r].do \in Consumed
                   PROVE  Spent(flight[r].id)' /\ \A b \in Account : flight'[r].word \notin worn'[b]
        OBVIOUS
      <4>1. flight'[r].word # t.word
        BY <1>1, <3>1, <3>2
      <4>2. Spent(flight[r].id) /\ \A b \in Account : flight[r].word \notin worn[b]
        BY <3>2 DEF Inv, GrantsSpent
      <4> QED
        BY <1>1, <2>6, <3>2, <4>1, <4>2 DEF Spent
    <3>4. \A q, r \in Slot : flight'[q].do \in Consumed /\ flight'[r].do \in Consumed
                               /\ flight'[q].id = flight'[r].id => q = r
      BY <3>2 DEF Inv, GrantsSpent
    <3>5. \A b \in Account, g \in Grant : g + 1 \in worn'[b] => Spent(g)'
      <4> SUFFICES ASSUME NEW b \in Account, NEW g \in Grant, g + 1 \in worn'[b] PROVE Spent(g)'
        OBVIOUS
      <4>1. g + 1 \in worn[b] \/ g = t.id
        BY <1>1, <2>6, <3>1
      <4>2. Spent(g)
        BY <3>1, <4>1 DEF Inv, GrantsSpent
      <4> QED
        BY <1>1, <4>2 DEF Spent
    <3> QED
      BY <3>3, <3>4, <3>5 DEF GrantsSpent
  <2>13. \A r \in Slot : Redeeming(r, a) => Redeeming(r, a)'
    BY <1>1, <2>5 DEF Redeeming
  <2>14. DeadLinks'
    BY <1>1, DeadLinksKept DEF Inv
  <2> QED
    BY <1>1, <2>2, <2>4, <2>5, <2>6, <2>7, <2>9, <2>10, <2>11, <2>12, <2>13, <2>14, RowWritten
    DEF Exists
<1> QED
  BY <1>2, <1>3

LEMMA RevokeStep == ASSUME Inv, NEW s \in Slot, Revoke(s) PROVE Inv'
<1>0. PICK a \in Account : a = flight[s].of
  BY DEF Revoke, Inv, Base, TaskOK, About
<1>1. /\ flight[s].do = "revoke" /\ a = flight[s].of /\ account[a].state # "UNUSED" /\ TypeOK
      /\ Done(s) /\ UNCHANGED <<invite, grant, now, dead, worn, newest, torn>>
  BY <1>0 DEF Revoke, Forward, history, Inv, Base, TypeOK, TaskOK, About
<1>2. /\ flight' \in [Slot -> Task] /\ moves' = moves
      /\ flight'[s] = Idle /\ \A r \in Slot : flight'[r] = IF r = s THEN Idle ELSE flight[r]
  BY <1>1, DoneMeans
<1>3. PICK x \in Row :
        /\ account' = [account EXCEPT ![a] = x] /\ x.state = account[a].state
        /\ x.word = account[a].word /\ x.warrant = account[a].warrant /\ account[a].era \in Nat
        /\ session' \subseteq Token /\ SameTokens
        /\ IF Exists(a) THEN /\ x.era = account[a].era + 1
                             /\ \A u \in session' : u.of = a => u.late \/ u.iat <= x.validFrom
           ELSE x = account[a]
  <2>1. CASE Exists(a)
    <3>1. PICK at \in Taken : /\ account' = [account EXCEPT ![a] = Moved(account[a], at)]
                              /\ session' = Overtaken(a, at)
      BY <1>1, <2>1 DEF Revoke, TypeOK
    <3>2. /\ at \in 0..MaxTime /\ session' \subseteq Token /\ SameTokens
          /\ \A u \in session' : u.of = a => u.late \/ u.iat <= at
      BY <1>1, <3>1, OvertakenTokens
    <3> DEFINE x == Moved(account[a], at)
    <3>3. /\ x \in Row /\ x.state = account[a].state /\ x.word = account[a].word
          /\ x.warrant = account[a].warrant /\ account[a].era \in Nat
          /\ x.era = account[a].era + 1 /\ x.validFrom = at
      BY <1>1, <3>2, RowTypes, MovedRow
    <3>4. account' = [account EXCEPT ![a] = x]
      BY <3>1
    <3> HIDE DEF x
    <3> QED
      BY <2>1, <3>2, <3>3, <3>4
  <2>2. CASE ~Exists(a)
    <3>1. account' = account /\ session' = session
      BY <1>1, <2>2 DEF Revoke
    <3>2. account' = [account EXCEPT ![a] = account[a]]
      BY <1>1, <3>1 DEF TypeOK
    <3> QED
      BY <1>1, <2>2, <3>1, <3>2, RowTypes DEF TypeOK, SameTokens
  <2> QED
    BY <2>1, <2>2
<1>4. account' \in [Account -> Row] /\ \A b \in Account : account'[b] = IF b = a THEN x ELSE account[b]
  BY <1>1, <1>3, OneRow
<1>5. TypeOK'
  BY <1>1, <1>2, <1>3, <1>4 DEF TypeOK
<1>6. RowStep(a)
  BY <1>1, <1>3, <1>4 DEF RowStep, Exists
<1>7. TaskOK(flight[s])' /\ Advances(s, a)
  BY <1>1, <1>2, IdleOK DEF TaskOK, BoundFor, About, Resetting, Advances
<1>8. GrantsSpent' /\ DeadLinks'
  BY <1>1, <1>2, IdleOK, GrantsKept, DeadLinksKept DEF Inv, Spent, Consumed
<1>9. \A r \in Slot : Redeeming(r, a) => Redeeming(r, a)'
  BY <1>1, <1>2 DEF Redeeming
<1> QED
  BY <1>1, <1>2, <1>3, <1>4, <1>5, <1>6, <1>7, <1>8, <1>9, RowWritten DEF Exists

\* The new administrator is in the hands of the request that made it.
LEMMA ProvisionStep == ASSUME Inv, NEW s \in Slot, Provision(s) PROVE Inv'
<1> DEFINE t == flight[s]
<1>1. /\ t.do = "signUp" /\ t.fresh /\ t \in Task /\ TaskOK(t) /\ TypeOK /\ moves' = moves
      /\ UNCHANGED <<invite, grant, session, now, dead, torn>>
  BY DEF Provision, Done, Go, Inv, Base, TypeOK, TaskOK
<1>2. CASE UNCHANGED <<account, worn, newest>> /\ Done(s)
  BY <1>1, <1>2, IdleOK, RequestMovesOn DEF Done, Go, BoundFor, Consumed, TypeOK, Rows, history
<1>3. CASE ~(UNCHANGED <<account, worn, newest>> /\ Done(s))
  <2>1. PICK a \in NewAccount :
          /\ account' = [account EXCEPT ![a].state = "LIVE", ![a].word = 1, ![a].warrant = "TRIAL",
                                        ![a].role = "PLATFORM_ADMIN"]
          /\ worn' = [worn EXCEPT ![a] = {1}] /\ newest' = [newest EXCEPT ![a] = 1]
          /\ Go(s, [t EXCEPT !.do = "redeem", !.of = a])
    BY <1>3 DEF Provision
  <2> DEFINE x == [account[a] EXCEPT !.state = "LIVE", !.word = 1, !.warrant = "TRIAL",
                                     !.role = "PLATFORM_ADMIN"]
             y == [t EXCEPT !.do = "redeem", !.of = a]
  <2>2. a \in Account /\ account[a].state = "UNUSED"
    BY DEF NewAccount
  <2>3. account[a] \in Row /\ 1 \in Word /\ account[a].era \in Nat /\ "PLATFORM_ADMIN" \in Role
    BY <1>1, <2>2, RowTypes DEF Role
  <2>4. x \in Row /\ x.state = "LIVE" /\ x.word = 1 /\ x.era = account[a].era
    BY <2>3 DEF Row
  <2>5. /\ y \in Task /\ y.do = "redeem" /\ y.of = a /\ y.fresh /\ y.next = t.next
        /\ y.link = t.link /\ y.id = t.id
    BY <1>1, <2>2 DEF Task, Stage
  <2>6. account' = [account EXCEPT ![a] = x] /\ flight' = [flight EXCEPT ![s] = y]
    BY <1>1, <2>1, <2>2 DEF TypeOK, Go
  <2> HIDE DEF x, y
  <2>7. account' \in [Account -> Row] /\ \A b \in Account : account'[b] = IF b = a THEN x ELSE account[b]
    BY <1>1, <2>2, <2>4, <2>6, OneRow
  <2>8. flight' \in [Slot -> Task] /\ flight'[s] = y /\ \A r \in Slot : r # s => flight'[r] = flight[r]
    BY <1>1, <2>5, <2>6, OneTask
  <2>9. /\ worn' \in [Account -> SUBSET Word] /\ newest' \in [Account -> Word]
        /\ \A b \in Account : /\ worn'[b] = IF b = a THEN {1} ELSE worn[b]
                              /\ newest'[b] = IF b = a THEN 1 ELSE newest[b]
    BY <1>1, <2>1, <2>2, <2>3 DEF TypeOK
  <2>10. TypeOK'
    BY <1>1, <2>7, <2>8, <2>9 DEF TypeOK
  <2>11. RowStep(a)
    BY <2>2, <2>3, <2>4, <2>7 DEF RowStep
  <2>12. TaskOK(flight[s])'
    BY <1>1, <2>2, <2>4, <2>5, <2>7, <2>8 DEF TaskOK, BoundFor, About, Resetting
  <2>13. Advances(s, a)
    BY <1>1, <2>5, <2>8 DEF Advances, BoundFor
  <2>14. GrantsSpent' /\ DeadLinks'
    BY <1>1, <2>5, <2>8, <2>9, GrantsKept, DeadLinksKept DEF Inv, Spent, Consumed
  <2>15. Redeeming(s, a)'
    BY <2>5, <2>8 DEF Redeeming
  <2> QED
    BY <1>1, <2>2, <2>4, <2>7, <2>8, <2>9, <2>10, <2>11, <2>12, <2>13, <2>14, <2>15, RowWritten
<1> QED
  BY <1>2, <1>3

\* The transaction is conditional on the token, so the link it redeems is not a dead one.
LEMMA RedeemStep == ASSUME Inv, NEW s \in Slot, Redeem(s) PROVE Inv'
<1> DEFINE t == flight[s]
<1>0. PICK a \in Account, i \in Invite : a = t.of /\ i = t.id
  BY DEF Redeem, Inv, Base, TaskOK, About, BoundFor
<1>1. /\ t.do = "redeem" /\ a = t.of /\ account[a].state # "UNUSED" /\ TypeOK /\ t \in Task
      /\ TaskOK(t) /\ i = t.id /\ t.link \in Link /\ t.link[1] = i /\ t.link[2] \in Nat
      /\ UNCHANGED <<grant, now, worn, newest, torn>>
  BY <1>0 DEF Redeem, Inv, Base, TypeOK, TaskOK, About, BoundFor, Link
<1>2. CASE UNCHANGED <<account, invite, session, dead>> /\ Go(s, AfterFailure(t))
  <2>1. UNCHANGED Rows /\ moves' = moves
    BY <1>1, <1>2 DEF Rows, history, Go
  <2>2. CASE ~t.fresh
    <3>1. flight' = [flight EXCEPT ![s] = Idle]
      BY <1>2, <2>2 DEF AfterFailure, Go
    <3> QED
      BY <1>1, <2>1, <2>2, <3>1, IdleOK, RequestMovesOn DEF BoundFor, Consumed, TypeOK
  <2>3. CASE t.fresh
    <3> DEFINE y == [t EXCEPT !.do = "cleanUp"]
    <3>1. flight' = [flight EXCEPT ![s] = y]
      BY <1>2, <2>3 DEF AfterFailure, Go
    <3>2. y \in Task /\ y.do = "cleanUp" /\ y.of = a /\ y.fresh /\ y.next = t.next
      BY <1>1, <2>3 DEF Task, Stage
    <3> HIDE DEF y
    <3>3. TaskOK(y)
      BY <1>1, <3>2 DEF TaskOK, BoundFor, About, Resetting
    <3> QED
      BY <1>1, <2>1, <3>1, <3>2, <3>3, RequestMovesOn DEF BoundFor, Consumed, TypeOK
  <2> QED
    BY <2>2, <2>3
<1>3. CASE /\ Redeemable(t.link) /\ Exists(a) /\ Done(s)
           /\ \E at \in Taken :
                /\ account' = [account EXCEPT ![a] = Confirmed(t, at)]
                /\ session' = IF t.fresh THEN session ELSE Overtaken(a, at)
           /\ invite' = [invite EXCEPT ![i].status = "ACCEPTED"]
           /\ dead' = dead \cup {t.link}
  <2>0. PICK at \in Taken : /\ account' = [account EXCEPT ![a] = Confirmed(t, at)]
                            /\ session' = IF t.fresh THEN session ELSE Overtaken(a, at)
    BY <1>3
  <2>20. /\ at \in 0..MaxTime /\ session' \subseteq Token /\ SameTokens
         /\ ~t.fresh => \A u \in session' : u.of = a => u.late \/ u.iat <= at
    <3>1. CASE t.fresh
      BY <1>1, <2>0, <3>1, BoundAssumption DEF TypeOK, SameTokens, Taken
    <3>2. CASE ~t.fresh
      BY <1>1, <2>0, <3>2, OvertakenTokens
    <3> QED
      BY <3>1, <3>2
  <2> DEFINE z == IF t.fresh THEN account[a] ELSE Regraded(a, "PLATFORM_ADMIN", at)
             x == [z EXCEPT !.warrant = "GIVEN", !.link = t.link]
  <2>1. /\ flight' \in [Slot -> Task] /\ moves' = moves
        /\ flight'[s] = Idle /\ \A r \in Slot : flight'[r] = IF r = s THEN Idle ELSE flight[r]
    BY <1>1, <1>3, DoneMeans
  <2>2. account[a] \in Row /\ account[a].era \in Nat /\ now \in 0..MaxTime /\ "PLATFORM_ADMIN" \in Role
    BY <1>1, RowTypes DEF Role
  <2>3. /\ z \in Row /\ z.state = account[a].state /\ z.word = account[a].word
        /\ IF t.fresh THEN z = account[a]
           ELSE z.era = account[a].era + 1 /\ z.validFrom = at
    <3> DEFINE v == [account[a] EXCEPT !.role = "PLATFORM_ADMIN"]
    <3>1. v \in Row /\ v.state = account[a].state /\ v.word = account[a].word /\ v.era = account[a].era
      BY <2>2 DEF Row
    <3> HIDE DEF v
    <3>2. /\ Moved(v, at) \in Row /\ Moved(v, at).state = v.state /\ Moved(v, at).word = v.word
          /\ Moved(v, at).era = v.era + 1 /\ Moved(v, at).validFrom = at
      BY <2>20, <3>1, MovedRow
    <3>3. Regraded(a, "PLATFORM_ADMIN", at) = Moved(v, at)
      BY DEF Regraded, v
    <3> QED
      BY <2>2, <3>1, <3>2, <3>3
  <2>4. account' = [account EXCEPT ![a] = x]
    BY <1>1, <2>0 DEF Confirmed
  <2> HIDE DEF z
  <2>5. /\ x \in Row /\ x.state = z.state /\ x.word = z.word /\ x.warrant = "GIVEN"
        /\ x.era = z.era /\ x.validFrom = z.validFrom /\ x.role = z.role
    BY <1>1, <2>3 DEF Row
  <2> HIDE DEF x
  <2>6. account' \in [Account -> Row] /\ \A b \in Account : account'[b] = IF b = a THEN x ELSE account[b]
    BY <1>1, <2>4, <2>5, OneRow
  <2>7. /\ invite' \in [Invite -> [status : {"UNUSED", "PENDING", "ACCEPTED", "REVOKED", "EXPIRED"},
                                   token : Nat, live : BOOLEAN]]
        /\ \A j \in Invite : /\ invite'[j].token = invite[j].token
                             /\ invite'[j].status = IF j = i THEN "ACCEPTED" ELSE invite[j].status
    BY <1>1, <1>3 DEF TypeOK
  <2>8. TypeOK'
    BY <1>1, <1>3, <2>1, <2>20, <2>6, <2>7 DEF TypeOK
  <2>9. RowStep(a)
    <3>1. CASE t.fresh
      <4>1. Ending(a) => Ending(a)'
        BY <1>1, <2>1 DEF Ending
      <4> QED
        BY <1>1, <2>2, <2>3, <2>5, <2>6, <3>1, <4>1 DEF RowStep
    <3>2. CASE ~t.fresh
      BY <1>1, <2>2, <2>20, <2>3, <2>5, <2>6, <3>2 DEF RowStep
    <3> QED
      BY <3>1, <3>2
  <2>10. TaskOK(flight[s])' /\ Advances(s, a)
    BY <1>1, <2>1, IdleOK DEF TaskOK, BoundFor, About, Resetting, Advances
  <2>11. GrantsSpent'
    BY <1>1, <2>1, IdleOK, GrantsKept DEF Inv, Spent, Consumed
  <2>12. DeadLinks'
    BY <1>1, <1>3, <2>7 DEF Inv, TypeOK, Link, DeadLinks, Pending, Redeemable
  <2> QED
    BY <1>1, <1>3, <2>1, <2>20, <2>3, <2>5, <2>6, <2>8, <2>9, <2>10, <2>11, <2>12, RowWritten
    DEF Exists
<1> QED
  BY <1>1, <1>2, <1>3 DEF Redeem, StillLinkable

\* A step that ends with the request that held the fresh administrator.
LEMMA FreshEnds ==
  ASSUME Inv, NEW s \in Slot, NEW a \in Account, flight[s].of = a, account[a].state # "UNUSED",
         flight' = [flight EXCEPT ![s] = Idle], moves' \in 0..MaxMove,
         UNCHANGED <<invite, session, now, dead, worn, newest>>,
         NEW x \in Row, account' = [account EXCEPT ![a] = x],
         \/ x.state = "GONE" /\ x.era = account[a].era
         \/ /\ x.state = account[a].state /\ x.role = account[a].role /\ x.word = account[a].word
            /\ x.era = account[a].era /\ x.validFrom = account[a].validFrom
            /\ \/ x.warrant \in {"LOGGED", "ABANDONED"}
               \/ x = account[a] /\ ~(/\ flight[s].do \in {"redeem", "cleanUp"}
                                      /\ flight[s].fresh),
         torn' = torn \/ torn' = torn \cup {a}, flight[s].do = "revoke" => a \in torn',
         grant' \in [Grant -> [of : Account \cup {0},
                               state : {"UNUSED", "LIVE", "LAPSED", "USED", "GONE"}]],
         \A g \in Grant : grant'[g] = grant[g] \/ grant'[g].state = "GONE"
  PROVE  Inv'
<1>1. flight' \in [Slot -> Task] /\ \A r \in Slot : flight'[r] = IF r = s THEN Idle ELSE flight[r]
  BY IdleOK, OneTask DEF Inv, Base
<1>2. account' \in [Account -> Row] /\ \A b \in Account : account'[b] = IF b = a THEN x ELSE account[b]
  BY OneRow DEF Inv, Base
<1>3. TypeOK'
  BY <1>1, <1>2 DEF Inv, Base, TypeOK
<1>4. RowStep(a)
  <2>1. account[a].era \in Nat
    BY RowTypes DEF Inv, Base
  <2>2. Ending(a) => Ending(a)' \/ a \in torn'
    BY <1>1 DEF Ending
  <2> QED
    BY <1>2, <2>1, <2>2 DEF RowStep
<1>5. TaskOK(flight[s])' /\ Advances(s, a)
  BY <1>1, IdleOK DEF TaskOK, BoundFor, About, Resetting, Advances
<1>6. GrantsSpent' /\ DeadLinks'
  <2>1. \A g \in Grant : Spent(g) => Spent(g)'
    BY DEF Spent
  <2> QED
    BY <1>1, <2>1, IdleOK, GrantsKept, DeadLinksKept DEF Inv, Consumed
<1>7. account'[a].state = "LIVE" /\ account'[a].warrant = "TRIAL" =>
        /\ account[a].state = "LIVE" /\ account[a].warrant = "TRIAL"
        /\ \A r \in Slot : Redeeming(r, a) => Redeeming(r, a)'
  BY <1>1, <1>2 DEF Redeeming
<1> QED
  BY <1>1, <1>2, <1>3, <1>4, <1>5, <1>6, <1>7, RowWritten DEF Exists

LEMMA CleanUpStep == ASSUME Inv, NEW s \in Slot, CleanUp(s) PROVE Inv'
<1>0. PICK a \in Account : a = flight[s].of
  BY DEF CleanUp, Inv, Base, TaskOK, About
<1>1. /\ flight[s].do = "cleanUp" /\ a = flight[s].of /\ account[a].state # "UNUSED" /\ TypeOK
      /\ flight' = [flight EXCEPT ![s] = Idle] /\ moves' \in 0..MaxMove
      /\ UNCHANGED <<invite, session, now, dead, worn, newest, torn>>
  BY <1>0 DEF CleanUp, Done, Go, history, Inv, Base, TypeOK, TaskOK, About
<1>2. account[a] \in Row
  BY <1>1, RowTypes
<1>3. CASE /\ account' = [account EXCEPT ![a].state = "GONE"]
           /\ grant' = [g \in Grant |-> IF grant[g].of = a THEN [grant[g] EXCEPT !.state = "GONE"]
                                        ELSE grant[g]]
  <2> DEFINE x == [account[a] EXCEPT !.state = "GONE"]
  <2>1. x \in Row /\ x.state = "GONE" /\ x.era = account[a].era
    BY <1>2 DEF Row
  <2>2. account' = [account EXCEPT ![a] = x]
    BY <1>1, <1>3 DEF TypeOK
  <2> HIDE DEF x
  <2>3. /\ grant' \in [Grant -> [of : Account \cup {0},
                                 state : {"UNUSED", "LIVE", "LAPSED", "USED", "GONE"}]]
        /\ \A g \in Grant : grant'[g] = grant[g] \/ grant'[g].state = "GONE"
    BY <1>1, <1>3, GrantsGo
  <2> QED
    BY <1>1, <2>1, <2>2, <2>3, FreshEnds
<1>4. CASE account' = [account EXCEPT ![a].warrant = "LOGGED"] /\ grant' = grant
  <2> DEFINE x == [account[a] EXCEPT !.warrant = "LOGGED"]
  <2>1. /\ x \in Row /\ x.state = account[a].state /\ x.role = account[a].role
        /\ x.word = account[a].word /\ x.era = account[a].era
        /\ x.validFrom = account[a].validFrom /\ x.warrant = "LOGGED"
    BY <1>2 DEF Row
  <2>2. account' = [account EXCEPT ![a] = x]
    BY <1>1, <1>4 DEF TypeOK
  <2> HIDE DEF x
  <2>3. /\ grant' \in [Grant -> [of : Account \cup {0},
                                 state : {"UNUSED", "LIVE", "LAPSED", "USED", "GONE"}]]
        /\ \A g \in Grant : grant'[g] = grant[g]
    BY <1>1, <1>4 DEF TypeOK
  <2> QED
    BY <1>1, <2>1, <2>2, <2>3, FreshEnds
<1> QED
  BY <1>1, <1>3, <1>4 DEF CleanUp

LEMMA CrashStep == ASSUME Inv, NEW s \in Slot, Crash(s) PROVE Inv'
<1> DEFINE t == flight[s]
<1>1. /\ flight' = [flight EXCEPT ![s] = Idle] /\ moves' \in 0..MaxMove /\ TypeOK
      /\ UNCHANGED <<invite, grant, session, now, dead, worn, newest>>
  BY BoundAssumption DEF Crash, Move, Inv, Base, TypeOK
<1>2. CASE t.do \in {"revoke", "redeem", "cleanUp"}
  <2>1. PICK a \in Account : a = t.of /\ account[a].state # "UNUSED"
    BY <1>2 DEF Inv, Base, TaskOK, About
  <2>2. account[a] \in Row
    BY <1>1, RowTypes
  <2> DEFINE x == IF t.do \in {"redeem", "cleanUp"} /\ t.fresh
                  THEN [account[a] EXCEPT !.warrant = "ABANDONED"] ELSE account[a]
  <2>3. /\ x \in Row /\ x.state = account[a].state /\ x.role = account[a].role
        /\ x.word = account[a].word /\ x.era = account[a].era
        /\ x.validFrom = account[a].validFrom
        /\ x.warrant = "ABANDONED" \/ (x = account[a] /\ ~(t.do \in {"redeem", "cleanUp"} /\ t.fresh))
    BY <2>2 DEF Row
  <2>4. account' = [account EXCEPT ![a] = x]
    BY <1>1, <2>1 DEF Crash, TypeOK
  <2>5. /\ torn' = torn \/ torn' = torn \cup {a}
        /\ t.do = "revoke" => a \in torn'
    BY <2>1 DEF Crash
  <2> HIDE DEF x
  <2> QED
    BY <1>1, <2>1, <2>3, <2>4, <2>5, FreshEnds DEF TypeOK
<1>3. CASE t.do \notin {"revoke", "redeem", "cleanUp"}
  <2>1. UNCHANGED Rows
    BY <1>1, <1>3 DEF Crash, Rows, history
  <2> QED
    BY <1>1, <1>3, <2>1, IdleOK, RequestMovesOn DEF BoundFor, Consumed
<1> QED
  BY <1>2, <1>3

-----------------------------------------------------------------------------
LEMMA InvInit == Init => Inv
<1> SUFFICES ASSUME Init PROVE Inv
  OBVIOUS
<1>1. PICK driver \in SUBSET Account :
        /\ account = [a \in Account |->
                        IF a \in driver THEN [Nobody EXCEPT !.state = "LIVE", !.word = 1, !.weak = TRUE]
                        ELSE Nobody]
        /\ worn = [a \in Account |-> IF a \in driver THEN {1} ELSE {}]
        /\ newest = [a \in Account |-> IF a \in driver THEN 1 ELSE 0]
  BY DEF Init
<1> DEFINE d == [Nobody EXCEPT !.state = "LIVE", !.word = 1, !.weak = TRUE]
<1>2. 0 \in Word /\ 1 \in Word /\ "USER" \in Role /\ 0 \in 0..MaxTime /\ 1 \in 1..MaxTime /\ 0 \in 0..MaxMove
  BY BoundAssumption DEF Word, Role
<1>3. Nobody \in Row /\ Nobody.state = "UNUSED" /\ Nobody.warrant = "NONE" /\ Nobody.word = 0
  BY <1>2 DEF Nobody, Row
<1>4. d \in Row /\ d.state = "LIVE" /\ d.warrant = "NONE" /\ d.word = 1
  BY <1>2, <1>3 DEF Row
<1> HIDE DEF d
<1>5. \A a \in Account : /\ account[a] = IF a \in driver THEN d ELSE Nobody
                         /\ worn[a] = IF a \in driver THEN {1} ELSE {}
                         /\ newest[a] = IF a \in driver THEN 1 ELSE 0
  BY <1>1 DEF d
<1>6. TypeOK
  <2>1. account \in [Account -> Row]
    BY <1>1, <1>3, <1>4 DEF d
  <2>2. worn \in [Account -> SUBSET Word] /\ newest \in [Account -> Word]
    BY <1>1, <1>2
  <2> QED
    BY <1>2, <2>1, <2>2, IdleOK DEF Init, TypeOK
<1>7. Base
  BY <1>3, <1>4, <1>5, <1>6, IdleOK DEF Init, Base, Unused
<1>8. Sessions /\ DeadLinks
  BY IdleOK DEF Init, Sessions, ReadsStand, BoundFor, DeadLinks
<1>9. Trials /\ NewestPasswordStands
  BY <1>3, <1>4, <1>5 DEF Trials, NewestPasswordStands
<1>10. GrantsSpent
  <2>1. \A a \in Account, g \in Grant : g + 1 \notin worn[a]
    BY <1>5, IdAssumption
  <2> QED
    BY <2>1, IdleOK DEF Init, GrantsSpent, Consumed
<1> QED
  BY <1>7, <1>8, <1>9, <1>10 DEF Inv

LEMMA InvStep == Inv /\ [Next]_vars => Inv'
<1> SUFFICES ASSUME Inv, [Next]_vars PROVE Inv'
  OBVIOUS
<1>1. ASSUME NEW s \in Slot,
             \/ \E a \in Account : Request(s, a) \/ \E w \in Word : SignIn(s, a, w)
             \/ \E t \in session : Refresh(s, t)
             \/ \E t \in session, w \in Word : DeleteReads(s, t, w) \/ RequestChange(s, t, w)
             \/ \E g \in Grant : Reset(s, g)
             \/ \E i \in Invite : ResendReads(s, i) \/ AcceptReads(s, i)
      PROVE  Inv'
  BY <1>1, RequestStep, SignInStep, RefreshStep, DeleteReadsStep, RequestChangeStep, ResetStep,
     ResendReadsStep, AcceptReadsStep
<1>2. ASSUME NEW s \in Slot,
             \/ Rehash(s) \/ Issue(s) \/ Delete(s) \/ Mint(s)
             \/ Consume(s) \/ Burn(s) \/ Find(s) \/ Write(s) \/ Revoke(s)
             \/ Resend(s) \/ Heal(s) \/ Provision(s) \/ Redeem(s) \/ CleanUp(s) \/ Crash(s)
      PROVE  Inv'
  BY <1>2, RehashStep, IssueStep, DeleteStep, MintStep, ConsumeStep, BurnStep, FindStep,
     WriteStep, RevokeStep, ResendStep, HealStep, ProvisionStep, RedeemStep, CleanUpStep, CrashStep
<1>3. CASE \/ \E t \in session : SignOut(t)
           \/ \E a \in Account, role \in Role : Regrade(a, role)
           \/ \E g \in Grant : GrantLapses(g)
           \/ \E i \in Invite : InviteLapses(i) \/ RevokeInvite(i)
           \/ SignUp \/ CreateInvite \/ Tick
  BY <1>3, SignOutStep, RegradeStep, GrantLapsesStep, InviteLapsesStep,
     RevokeInviteStep, SignUpStep, CreateInviteStep, TickStep
<1>4. CASE UNCHANGED vars
  <2>1. Base' /\ Trials' /\ DeadLinks' /\ NewestPasswordStands'
    BY <1>4
    DEF vars, Inv, Base, TypeOK, Unused, TaskOK, Trials, DeadLinks, Pending,
        NewestPasswordStands, Exists
  <2>2. Sessions'
    BY <1>4
    DEF vars, Inv, Sessions, ReadsStand, ReadStands, WordStands, Ending, Admitted, Revoked
  <2>3. GrantsSpent'
    BY <1>4 DEF vars, Inv, GrantsSpent, Spent
  <2> QED
    BY <2>1, <2>2, <2>3 DEF Inv
<1> QED
  BY <1>1, <1>2, <1>3, <1>4 DEF Next

THEOREM Invariant == Spec => []Inv
<1>1. Init => Inv
  BY InvInit
<1>2. Inv /\ [Next]_vars => Inv'
  BY InvStep
<1> QED
  BY <1>1, <1>2, PTL DEF Spec

-----------------------------------------------------------------------------
\* Every reachable state of the accounts of an address is well typed.
THEOREM TypeCorrect == Spec => []TypeOK
<1>1. Inv => TypeOK
  BY DEF Inv, Base
<1> QED
  BY <1>1, Invariant, PTL

\* A session the guard admits has the role of its account and was signed in with its
\* password, whatever changed either since, unless it was issued on a stale read or past the
\* second the change took for its watermark, or the reset was torn.
THEOREM SessionsAlwaysFollow == Spec => []SessionsFollowAccount
<1>1. Inv => SessionsFollowAccount
  BY DEF Inv, Sessions, SessionsFollowAccount, WordStands, Ending
<1> QED
  BY <1>1, Invariant, PTL

\* The password of an account is the one chosen last: an upgrade of its hash never undoes a
\* reset or a deletion.
THEOREM NewestPasswordAlways == Spec => []NewestPasswordStands
<1>1. Inv => NewestPasswordStands
  BY DEF Inv
<1> QED
  BY <1>1, Invariant, PTL

\* No administrator is left behind by an invitation that failed: it was confirmed, or a
\* request still has it in hand, or undoing it failed and was logged - unless the process
\* died with the redemption at work, which leaves it behind and logs nothing.
THEOREM NoAdminIsOrphaned == Spec => []NoOrphanAdmins
<1>1. Inv => NoOrphanAdmins
  BY DEF Inv, Trials, NoOrphanAdmins, Holders
<1> QED
  BY <1>1, Invariant, PTL

\* A reset grant sets a password at most once.
THEOREM GrantsAlwaysSetOnce == Spec => GrantsSetOnce
<1>1. Inv /\ [Next]_vars =>
        [\A s \in Slot : flight[s].do = "write" /\ flight'[s].do = "revoke"
           => \A a \in Account : flight[s].word \notin worn[a]]_vars
  BY DEF Inv, GrantsSpent, Consumed
<1> QED
  BY <1>1, Invariant, PTL DEF Spec, GrantsSetOnce


\* No step but a redemption changes the link that made an account an administrator.
LEMMA LinksStay ==
  ASSUME TypeOK, NEW b \in Account, NEW x, x.link = account[b].link,
         account' = [account EXCEPT ![b] = x], NEW a \in Account
  PROVE  account'[a].link = account[a].link
BY DEF TypeOK

LEMMA RequestLinks ==
  ASSUME Inv, NEW s \in Slot, NEW a \in Account,
         Rehash(s) \/ Delete(s) \/ Write(s) \/ Revoke(s) \/ Provision(s) \/ CleanUp(s) \/ Crash(s)
  PROVE  account'[a].link = account[a].link
<1> DEFINE t == flight[s]
<1>1. TypeOK /\ (\A b \in Account : account[b] \in Row) /\ \A at \in Taken : at \in 0..MaxTime
  BY RowTypes, BoundAssumption DEF Inv, Base, TypeOK, Taken
<1>2. CASE account' = account
  BY <1>2
<1>3. CASE Rehash(s) /\ account' # account
  <2>1. PICK b \in Account : b = t.of
    BY <1>3 DEF Rehash, Inv, Base, TaskOK, About
  <2> DEFINE x == [account[b] EXCEPT !.weak = FALSE]
  <2>2. x.link = account[b].link
    BY <1>1 DEF Row
  <2>3. account' = [account EXCEPT ![b] = x]
    BY <1>1, <1>3, <2>1 DEF Rehash, Upgraded, TypeOK
  <2> QED
    BY <1>1, <2>2, <2>3, LinksStay
<1>4. CASE Delete(s) /\ account' # account
  <2>1. PICK b \in Account : b = t.of
    BY <1>4 DEF Delete, Inv, Base, TaskOK, About
  <2>5. PICK at \in Taken :
          account' = [account EXCEPT ![b] = [Moved(account[b], at) EXCEPT
                                               !.state = "DELETED", !.word = 0, !.weak = FALSE]]
    BY <1>1, <1>4, <2>1 DEF Delete, TypeOK
  <2> DEFINE x == [Moved(account[b], at) EXCEPT !.state = "DELETED", !.word = 0, !.weak = FALSE]
  <2>2. Moved(account[b], at) \in Row /\ Moved(account[b], at).link = account[b].link
    BY <1>1, MovedRow
  <2>3. x.link = account[b].link
    BY <2>2 DEF Row
  <2>4. account' = [account EXCEPT ![b] = x]
    BY <2>5
  <2> HIDE DEF x
  <2> QED
    BY <1>1, <2>3, <2>4, LinksStay
<1>5. CASE Write(s) /\ account' # account
  <2>1. PICK b \in Account : b = t.of
    BY <1>5 DEF Write, Inv, Base, TaskOK, About
  <2> DEFINE x == [account[b] EXCEPT !.word = t.word, !.weak = FALSE]
  <2>2. x.link = account[b].link
    BY <1>1 DEF Row
  <2>3. account' = [account EXCEPT ![b] = x]
    BY <1>1, <1>5, <2>1 DEF Write, TypeOK
  <2> HIDE DEF x
  <2> QED
    BY <1>1, <2>2, <2>3, LinksStay
<1>6. CASE Revoke(s) /\ account' # account
  <2>1. PICK b \in Account : b = t.of
    BY <1>6 DEF Revoke, Inv, Base, TaskOK, About
  <2>3. PICK at \in Taken : account' = [account EXCEPT ![b] = Moved(account[b], at)]
    BY <1>1, <1>6, <2>1 DEF Revoke, TypeOK
  <2>2. Moved(account[b], at).link = account[b].link
    BY <1>1, MovedRow
  <2> QED
    BY <1>1, <2>2, <2>3, LinksStay
<1>7. CASE Provision(s) /\ account' # account
  <2>1. PICK b \in NewAccount :
          account' = [account EXCEPT ![b].state = "LIVE", ![b].word = 1, ![b].warrant = "TRIAL",
                                     ![b].role = "PLATFORM_ADMIN"]
    BY <1>7 DEF Provision
  <2>2. b \in Account
    BY DEF NewAccount
  <2> DEFINE x == [account[b] EXCEPT !.state = "LIVE", !.word = 1, !.warrant = "TRIAL",
                                     !.role = "PLATFORM_ADMIN"]
  <2>3. x.link = account[b].link
    BY <1>1, <2>2 DEF Row
  <2>4. account' = [account EXCEPT ![b] = x]
    BY <1>1, <2>1, <2>2 DEF TypeOK
  <2> HIDE DEF x
  <2> QED
    BY <1>1, <2>2, <2>3, <2>4, LinksStay
<1>8. CASE CleanUp(s) /\ account' # account
  <2>1. PICK b \in Account : b = t.of
    BY <1>8 DEF CleanUp, Inv, Base, TaskOK, About
  <2> DEFINE x == [account[b] EXCEPT !.state = "GONE"]
             y == [account[b] EXCEPT !.warrant = "LOGGED"]
  <2>2. x.link = account[b].link /\ y.link = account[b].link
    BY <1>1 DEF Row
  <2>3. account' = [account EXCEPT ![b] = x] \/ account' = [account EXCEPT ![b] = y]
    BY <1>1, <1>8, <2>1 DEF CleanUp, TypeOK
  <2> HIDE DEF x, y
  <2> QED
    BY <1>1, <2>2, <2>3, LinksStay
<1>9. CASE Crash(s) /\ account' # account
  <2>1. PICK b \in Account : b = t.of
    BY <1>9 DEF Crash, Inv, Base, TaskOK, About
  <2> DEFINE y == [account[b] EXCEPT !.warrant = "ABANDONED"]
  <2>2. y.link = account[b].link
    BY <1>1 DEF Row
  <2>3. account' = [account EXCEPT ![b] = y]
    BY <1>1, <1>9, <2>1 DEF Crash, TypeOK
  <2> HIDE DEF y
  <2> QED
    BY <1>1, <2>2, <2>3, LinksStay
<1> QED
  BY <1>2, <1>3, <1>4, <1>5, <1>6, <1>7, <1>8, <1>9

LEMMA OtherLinks ==
  ASSUME Inv, NEW a \in Account,
         \/ \E t \in session : SignOut(t)
         \/ \E b \in Account, role \in Role : Regrade(b, role)
         \/ SignUp
  PROVE  account'[a].link = account[a].link
<1>1. TypeOK /\ (\A b \in Account : account[b] \in Row) /\ \A at \in Taken : at \in 0..MaxTime
  BY RowTypes, BoundAssumption DEF Inv, Base, TypeOK, Taken
<1>2. CASE \E t \in session : SignOut(t)
  <2>1. PICK b \in Account, at \in Taken : account' = [account EXCEPT ![b] = Moved(account[b], at)]
    BY <1>1, <1>2 DEF SignOut, TypeOK, Token
  <2>2. Moved(account[b], at).link = account[b].link
    BY <1>1, MovedRow
  <2> QED
    BY <1>1, <2>1, <2>2, LinksStay
<1>3. CASE \E b \in Account, role \in Role : Regrade(b, role)
  <2>1. PICK b \in Account, role \in Role : Regrade(b, role)
    BY <1>3
  <2> DEFINE y == [account[b] EXCEPT !.role = role]
             w == IF role = "PLATFORM_ADMIN" THEN "GIVEN" ELSE "NONE"
  <2>6. PICK at \in Taken : account' = [account EXCEPT ![b] = [Moved(y, at) EXCEPT !.warrant = w]]
    BY <2>1 DEF Regrade, Regraded
  <2> DEFINE x == [Moved(y, at) EXCEPT !.warrant = w]
  <2>2. y \in Row /\ y.link = account[b].link
    BY <1>1 DEF Row
  <2>3. account' = [account EXCEPT ![b] = x]
    BY <2>6
  <2> HIDE DEF y, w
  <2>4. Moved(y, at) \in Row /\ Moved(y, at).link = y.link
    BY <1>1, <2>2, MovedRow
  <2>5. x.link = account[b].link
    BY <2>2, <2>4 DEF Row
  <2> HIDE DEF x
  <2> QED
    BY <1>1, <2>3, <2>5, LinksStay
<1>4. CASE SignUp
  <2>1. PICK b \in NewAccount : account' = [account EXCEPT ![b].state = "LIVE", ![b].word = 1]
    BY <1>4 DEF SignUp
  <2>2. b \in Account
    BY DEF NewAccount
  <2> DEFINE x == [account[b] EXCEPT !.state = "LIVE", !.word = 1]
  <2>3. x.link = account[b].link
    BY <1>1, <2>2 DEF Row
  <2>4. account' = [account EXCEPT ![b] = x]
    BY <1>1, <2>1, <2>2 DEF TypeOK
  <2> HIDE DEF x
  <2> QED
    BY <1>1, <2>2, <2>3, <2>4, LinksStay
<1> QED
  BY <1>2, <1>3, <1>4

\* A redemption that succeeds found its invitation open and its token the last one.
LEMMA RedeemedLink ==
  ASSUME Inv, NEW s \in Slot, Redeem(s), NEW a \in Account, account'[a].link # account[a].link
  PROVE  account'[a].link \notin dead
<1> DEFINE t == flight[s]
<1>1. PICK b \in Account : b = t.of
  BY DEF Redeem, Inv, Base, TaskOK, About
<1>0. PICK at \in Taken : account' = [account EXCEPT ![b] = Confirmed(t, at)]
  BY <1>1 DEF Redeem
<1>2. /\ Redeemable(t.link) /\ account' = [account EXCEPT ![b] = Confirmed(t, at)]
      /\ account[b] \in Row /\ TypeOK /\ at \in 0..MaxTime
  BY <1>0, <1>1, RowTypes, BoundAssumption DEF Redeem, Inv, Base, TypeOK, Taken
<1> DEFINE z == IF t.fresh THEN account[b] ELSE Regraded(b, "PLATFORM_ADMIN", at)
           x == [z EXCEPT !.warrant = "GIVEN", !.link = t.link]
<1>3. z \in Row
  <2> DEFINE v == [account[b] EXCEPT !.role = "PLATFORM_ADMIN"]
  <2>1. v \in Row
    BY <1>2 DEF Row, Role
  <2> HIDE DEF v
  <2>2. Moved(v, at) \in Row
    BY <1>2, <2>1, MovedRow
  <2>3. Regraded(b, "PLATFORM_ADMIN", at) = Moved(v, at)
    BY DEF Regraded, v
  <2> QED
    BY <1>2, <2>2, <2>3
<1>4. account' = [account EXCEPT ![b] = x]
  BY <1>1, <1>2 DEF Confirmed
<1> HIDE DEF z
<1>5. x.link = t.link
  BY <1>3 DEF Row
<1> HIDE DEF x
<1>6. account'[a].link = t.link
  BY <1>2, <1>4, <1>5 DEF TypeOK
<1>7. t.link \notin dead
  BY <1>2 DEF Redeemable, Inv, DeadLinks
<1> QED
  BY <1>6, <1>7

LEMMA LinkStep ==
  ASSUME Inv, [Next]_vars, NEW a \in Account, account'[a].link # account[a].link
  PROVE  account'[a].link \notin dead
<1>1. account' # account
  OBVIOUS
<1>2. PICK s \in Slot : Redeem(s)
  <2>1. CASE \E s \in Slot : Rehash(s) \/ Delete(s) \/ Write(s) \/ Revoke(s) \/ Provision(s)
                             \/ CleanUp(s) \/ Crash(s)
    BY <2>1, RequestLinks
  <2>2. CASE \/ \E t \in session : SignOut(t)
             \/ \E b \in Account, role \in Role : Regrade(b, role)
             \/ SignUp
    BY <2>2, OtherLinks
  <2>3. CASE \E s \in Slot :
               \/ \E b \in Account : Request(s, b) \/ \E w \in Word : SignIn(s, b, w)
               \/ \E t \in session : Refresh(s, t)
               \/ \E t \in session, w \in Word : DeleteReads(s, t, w) \/ RequestChange(s, t, w)
               \/ \E g \in Grant : Reset(s, g)
               \/ \E i \in Invite : ResendReads(s, i) \/ AcceptReads(s, i)
               \/ Issue(s) \/ Mint(s) \/ Consume(s) \/ Burn(s) \/ Find(s) \/ Resend(s) \/ Heal(s)
    BY <1>1, <2>3
    DEF Request, SignIn, Refresh, DeleteReads, RequestChange, Reset, ResendReads, AcceptReads, Issue,
        Mint, Consume, Burn, Find, Resend, Heal
  <2>4. CASE \/ \E g \in Grant : GrantLapses(g)
             \/ \E i \in Invite : InviteLapses(i) \/ RevokeInvite(i)
             \/ CreateInvite \/ Tick \/ UNCHANGED vars
    BY <1>1, <2>4 DEF GrantLapses, InviteLapses, RevokeInvite, CreateInvite, Tick, vars
  <2> QED
    BY <2>1, <2>2, <2>3, <2>4 DEF Next
<1> QED
  BY <1>2, RedeemedLink

\* A link that was withdrawn, replaced or redeemed confirms nobody as an administrator.
THEOREM DeadLinksNeverGrant == Spec => DeadLinksGrantNothing
<1>1. Inv /\ [Next]_vars =>
        [\A a \in Account : account'[a].link # account[a].link => account'[a].link \notin dead]_vars
  BY LinkStep
<1> QED
  BY <1>1, Invariant, PTL DEF Spec, DeadLinksGrantNothing
=============================================================================
