------------------------------ MODULE Accounts ------------------------------
(***************************************************************************)
(* Passwords, sessions and the invitations of platform administrators:      *)
(* admin-invite.service.ts, password-reset.service.ts, the credential store *)
(* (authjs-user.store.ts), session-revocation.service.ts and the accounts   *)
(* they share with identity.service.ts and account-deletion.service.ts.     *)
(*                                                                          *)
(* Everything here is about ONE address, whose account may be deleted and   *)
(* followed by another.  A slot of "flight" is a request at work: it        *)
(* carries what it read from one await to the next.  The provider is the    *)
(* one in vendor/auth, whose signIn, refreshToken and resetPassword are     *)
(* among the steps.  A password is a number, 0 for none and g + 1 for the   *)
(* one set by grant g; the time is in seconds, as the tokens' iat is.       *)
(***************************************************************************)
EXTENDS Naturals, FiniteSets

CONSTANTS Account,  \* user ids, taken in order; bounds the accounts of the address
          Invite,   \* PlatformAdminInvite ids; bounds the invitations
          Grant,    \* PasswordResetToken ids; bounds the requests for a reset
          Slot,     \* bounds the requests at work at once
          MaxTime,  \* bound on the clock
          MaxMove   \* bound on what people start

ASSUME IdAssumption == /\ Account \subseteq Nat \ {0} /\ Invite \subseteq Nat \ {0}
                       /\ Grant \subseteq Nat \ {0} /\ Slot \subseteq Nat
ASSUME BoundAssumption == MaxTime \in Nat \ {0} /\ MaxMove \in Nat

VARIABLES account,   \* the rows of the address, UNUSED before, GONE after the row is deleted
          invite,    \* PlatformAdminInvite; "token" counts the links mailed for it
          grant,     \* PasswordResetToken
          session,   \* the tokens issued
          flight,    \* the request each slot is working on
          now,       \* the second
          moves,     \* the moves made so far
          dead,      \* history: links replaced, withdrawn or redeemed
          worn,      \* history: the passwords each account has had
          newest,    \* history: the password last chosen for each account
          torn       \* history: accounts whose reset stopped before the sessions ended

vars == <<account, invite, grant, session, flight, now, moves, dead, worn, newest, torn>>
history == <<dead, worn, newest, torn>>

Word == 0..1 \cup {g + 1 : g \in Grant}
Role == {"USER", "OPERATOR", "PLATFORM_ADMIN"}
Link == Invite \X Nat
NoLink == <<0, 0>>
\* "era" counts the moves of the watermark, "link" is the one that made it an
\* administrator, "warrant" says whether that was ever confirmed: history, all three.
Row == [state : {"UNUSED", "LIVE", "DELETED", "GONE"}, role : Role, word : Word, weak : BOOLEAN,
        validFrom : 0..MaxTime, era : Nat, link : Link \cup {NoLink},
        warrant : {"NONE", "TRIAL", "GIVEN", "LOGGED", "ABANDONED"}]
\* "late" is history: no watermark that moved since the claims were read can catch it.
Token == [of : Account, role : Role, word : Word, iat : 1..MaxTime, late : BOOLEAN]
Stage == {"idle", "rehash", "issue", "mint", "delete", "signUp", "redeem", "cleanUp",
          "resend", "heal", "consume", "burn", "find", "write", "revoke"}
\* What a request has read: the account, its role and watermark's era, the password it
\* verified or sets, and the link or grant it is about; "grave" when the address it read
\* was the one a deletion leaves behind.
Task == [do : Stage, next : Stage, of : Account \cup {0}, role : Role, era : Nat, word : Word,
         link : Link \cup {NoLink}, fresh : BOOLEAN, grave : BOOLEAN,
         id : Invite \cup Grant \cup {0}]
Idle == [do |-> "idle", next |-> "idle", of |-> 0, role |-> "USER", era |-> 0, word |-> 0,
         link |-> NoLink, fresh |-> FALSE, grave |-> FALSE, id |-> 0]

TypeOK ==
  /\ account \in [Account -> Row]
  /\ invite \in [Invite -> [status : {"UNUSED", "PENDING", "ACCEPTED", "REVOKED", "EXPIRED"},
                            token : Nat, live : BOOLEAN]]
  /\ grant \in [Grant -> [of : Account \cup {0},
                          state : {"UNUSED", "LIVE", "LAPSED", "USED", "GONE"}]]
  /\ session \subseteq Token
  /\ flight \in [Slot -> Task]
  /\ now \in 1..MaxTime /\ moves \in 0..MaxMove
  /\ dead \subseteq Link
  /\ worn \in [Account -> SUBSET Word] /\ newest \in [Account -> Word]
  /\ torn \subseteq Account

-----------------------------------------------------------------------------
(* Accounts and requests.                                                   *)

Exists(a) == account[a].state \in {"LIVE", "DELETED"}
\* User.email is unique, and a deleted account gives the address up.
Holders == {a \in Account : account[a].state = "LIVE"}
Linkable(a) == account[a].state = "LIVE" /\ account[a].role = "USER"
NewAccount == {a \in Account : account[a].state = "UNUSED"
                               /\ \A b \in Account : account[b].state = "UNUSED" => a <= b}

\* The guard's question (session-revocation.service.ts): ties go to the revocation.
Revoked(a, iat) == iat <= account[a].validFrom
\* And a deleted account is refused whatever its watermark says.
Admitted(t) == account[t.of].state = "LIVE" /\ ~Revoked(t.of, t.iat)

\* The watermark is the time the handler read before its write committed, at most a second
\* ago; a token issued in a later second escapes it, and is marked.
Taken == {at \in 0..now : at + 1 >= now}
Moved(r, at) == [r EXCEPT !.validFrom = at, !.era = @ + 1]
Overtaken(a, at) == {[t EXCEPT !.late = @ \/ (t.of = a /\ t.iat > at)] : t \in session}

Move == moves < MaxMove /\ moves' = moves + 1
FirstFree(s) == flight[s] = Idle /\ \A x \in Slot : flight[x] = Idle => s <= x
Start(s, t) == Move /\ FirstFree(s) /\ flight' = [flight EXCEPT ![s] = t]
Go(s, t) == flight' = [flight EXCEPT ![s] = t] /\ UNCHANGED moves
Done(s) == Go(s, Idle)
\* On to the next stage, or done when there is none.
Forward(s) == IF flight[s].next = "idle" THEN Done(s)
              ELSE Go(s, [flight[s] EXCEPT !.do = flight[s].next, !.next = "idle"])

-----------------------------------------------------------------------------
(* Signing in, by itself and as the proof of person other requests ask for. *)

\* The row is read and the password verified against it; a weak hash is replaced first.
Verified(a, w, next, link, id) ==
  [Idle EXCEPT !.do = IF account[a].weak THEN "rehash" ELSE next,
               !.next = IF account[a].weak THEN next ELSE "idle",
               !.of = a, !.role = account[a].role, !.era = account[a].era, !.word = w,
               !.link = link, !.id = id]
Knows(a, w) == a \in Holders /\ w # 0 /\ account[a].word = w

SignIn(s, a, w) ==
  /\ Knows(a, w)
  /\ Start(s, Verified(a, w, "issue", NoLink, 0))
  /\ UNCHANGED <<account, invite, grant, session, now, history>>

\* upgradePassword: hashing is slow, and only the hash that was verified is replaced.
\* Mutant of Upgraded: by id alone.
UpgradedAnyway(a, w) == [account EXCEPT ![a].word = w, ![a].weak = FALSE]
Upgraded(a, w) == IF account[a].word = w /\ account[a].weak
                  THEN [account EXCEPT ![a].weak = FALSE] ELSE account
Rehash(s) ==
  /\ flight[s].do = "rehash"
  /\ account' = IF Exists(flight[s].of) THEN Upgraded(flight[s].of, flight[s].word) ELSE account
  /\ Forward(s)
  /\ UNCHANGED <<invite, grant, session, now, history>>

\* The claims are those of the row that was read; iat is the second of the issue.
Issue(s) ==
  LET t == flight[s]
  IN /\ t.do = "issue"
     /\ session' = session \cup {[of |-> t.of, role |-> t.role, word |-> t.word, iat |-> now,
                                  late |-> account[t.of].era # t.era]}
     /\ Done(s)
     /\ UNCHANGED <<account, invite, grant, now, history>>

\* refreshToken asks the watermark, and reads the row anew.
Refresh(s, t) ==
  /\ t \in session /\ Exists(t.of) /\ ~Revoked(t.of, t.iat)
  /\ Start(s, [Idle EXCEPT !.do = "issue", !.of = t.of, !.role = account[t.of].role,
                           !.era = account[t.of].era, !.word = account[t.of].word])
  /\ UNCHANGED <<account, invite, grant, session, now, history>>

\* All devices at once, for whoever holds a token: neither its age nor the watermark is
\* looked at.
SignOut(t) ==
  /\ Move
  /\ t \in session /\ Exists(t.of)
  /\ \E at \in Taken : /\ account' = [account EXCEPT ![t.of] = Moved(@, at)]
                       /\ session' = Overtaken(t.of, at)
  /\ UNCHANGED <<invite, grant, flight, now, history>>

SignUp ==
  /\ Move
  /\ Holders = {}
  /\ \E a \in NewAccount :
       /\ account' = [account EXCEPT ![a].state = "LIVE", ![a].word = 1]
       /\ worn' = [worn EXCEPT ![a] = {1}] /\ newest' = [newest EXCEPT ![a] = 1]
  /\ UNCHANGED <<invite, grant, session, flight, now, dead, torn>>

-----------------------------------------------------------------------------
(* What others do to the account.                                           *)

\* assignRole, and the grants of operator-registration and invite.service: every change
\* of role moves the watermark.
Regraded(a, role, at) == Moved([account[a] EXCEPT !.role = role], at)
Regrade(a, role) ==
  /\ Move
  /\ a \in Holders /\ account[a].role # role
  /\ role = "OPERATOR" => Linkable(a)
  /\ \E at \in Taken :
       /\ account' = [account EXCEPT ![a] =
                        [Regraded(a, role, at) EXCEPT
                           !.warrant = IF role = "PLATFORM_ADMIN" THEN "GIVEN" ELSE "NONE"]]
       /\ session' = Overtaken(a, at)
  /\ UNCHANGED <<invite, grant, flight, now, history>>

\* deleteOwnAccount: the role is the token's, the password is asked for again.
DeleteReads(s, t, w) ==
  /\ t \in session /\ Admitted(t) /\ t.role = "USER" /\ Knows(t.of, w)
  /\ Start(s, Verified(t.of, w, "delete", NoLink, 0))
  /\ UNCHANGED <<account, invite, grant, session, now, history>>

\* tombstoneAccount: the row keeps its role, and its reset grants go.
Delete(s) ==
  LET a == flight[s].of
  IN /\ flight[s].do = "delete"
     /\ IF Exists(a)
        THEN /\ \E at \in Taken :
                  /\ account' = [account EXCEPT ![a] =
                        [Moved(@, at) EXCEPT !.state = "DELETED", !.word = 0, !.weak = FALSE]]
                  /\ session' = Overtaken(a, at)
             /\ grant' = [g \in Grant |-> IF grant[g].of = a THEN [grant[g] EXCEPT !.state = "GONE"]
                                          ELSE grant[g]]
             /\ newest' = [newest EXCEPT ![a] = 0]
        ELSE UNCHANGED <<account, grant, session, newest>>
     /\ Done(s)
     /\ UNCHANGED <<invite, now, dead, worn, torn>>

-----------------------------------------------------------------------------
(* Password resets.                                                         *)

Spend(gs) == [g \in Grant |-> IF g \in gs THEN [grant[g] EXCEPT !.state = "USED"] ELSE grant[g]]
Unspent(a) == {g \in Grant : grant[g].of = a /\ grant[g].state \in {"LIVE", "LAPSED"}}
NewGrant == {g \in Grant : grant[g].state = "UNUSED"
                           /\ \A h \in Grant : grant[h].state = "UNUSED" => g <= h}
\* The older grants are spent and one is mailed.
Minted(a, g) == [Spend(Unspent(a)) EXCEPT ![g] = [of |-> a, state |-> "LIVE"]]

\* request: the address is looked up, and the grant minted by id later.
Request(s, a) ==
  /\ a \in Holders
  /\ Start(s, [Idle EXCEPT !.do = "mint", !.of = a])
  /\ UNCHANGED <<account, invite, grant, session, now, history>>

\* requestChange: signed in, and the current password besides.
RequestChange(s, t, w) ==
  /\ t \in session /\ Admitted(t) /\ Knows(t.of, w)
  /\ Start(s, Verified(t.of, w, "mint", NoLink, 0))
  /\ UNCHANGED <<account, invite, grant, session, now, history>>

\* Either mints for whatever has become of the account, as long as it has a row.
Mint(s) ==
  /\ flight[s].do = "mint"
  /\ IF Exists(flight[s].of)
     THEN \E g \in NewGrant : grant' = Minted(flight[s].of, g)
     ELSE UNCHANGED grant
  /\ Done(s)
  /\ UNCHANGED <<account, invite, session, now, history>>

GrantLapses(g) ==
  /\ grant[g].state = "LIVE"
  /\ grant' = [grant EXCEPT ![g].state = "LAPSED"]
  /\ UNCHANGED <<account, invite, session, flight, now, moves, history>>

\* reset reads the grant with its account's address.
Reset(s, g) ==
  /\ grant[g].state = "LIVE"
  /\ Start(s, [Idle EXCEPT !.do = "consume", !.of = grant[g].of, !.word = g + 1, !.id = g,
                           !.grave = account[grant[g].of].state = "DELETED"])
  /\ UNCHANGED <<account, invite, grant, session, now, history>>

\* The single-use guard is the update, conditional on usedAt alone.
\* Mutant of Usable: the read decided.
UsableWhenRead(g) == TRUE
Usable(g) == grant[g].state \in {"LIVE", "LAPSED"}
Consume(s) ==
  LET t == flight[s]
  IN /\ t.do = "consume"
     /\ IF Usable(t.id)
        THEN grant' = Spend({t.id}) /\ Go(s, [t EXCEPT !.do = "burn"])
        ELSE UNCHANGED grant /\ Done(s)
     /\ UNCHANGED <<account, invite, session, now, history>>

Burn(s) ==
  /\ flight[s].do = "burn"
  /\ grant' = Spend(Unspent(flight[s].of))
  /\ Go(s, [flight[s] EXCEPT !.do = "find"])
  /\ UNCHANGED <<account, invite, session, now, history>>

\* resetPassword of the provider: the row is found by the ADDRESS that was read, whose
\* holder may be another by now, or which only the deleted row bears; then written by id,
\* password first and watermark after.
\* Mutant of First: the sessions end before the password changes.
SessionsFirst == "revoke"
First == "write"
Bearers(t) == IF t.grave THEN {a \in {t.of} : Exists(a)} ELSE Holders
Find(s) ==
  LET t == flight[s]
  IN /\ t.do = "find"
     /\ IF Bearers(t) = {} THEN Done(s)
        ELSE \E a \in Bearers(t) :
               Go(s, [t EXCEPT !.do = First, !.of = a,
                               !.next = IF First = "write" THEN "revoke" ELSE "write"])
     /\ UNCHANGED <<account, invite, grant, session, now, history>>

Write(s) ==
  LET t == flight[s]
  IN /\ t.do = "write"
     /\ IF Exists(t.of)
        THEN /\ account' = [account EXCEPT ![t.of].word = t.word, ![t.of].weak = FALSE]
             /\ worn' = [worn EXCEPT ![t.of] = @ \cup {t.word}]
             /\ newest' = [newest EXCEPT ![t.of] = t.word]
             /\ Forward(s)
        ELSE UNCHANGED <<account, worn, newest>> /\ Done(s)
     /\ UNCHANGED <<invite, grant, session, now, dead, torn>>

Revoke(s) ==
  LET t == flight[s]
  IN /\ t.do = "revoke"
     /\ IF Exists(t.of)
        THEN \E at \in Taken : /\ account' = [account EXCEPT ![t.of] = Moved(@, at)]
                              /\ session' = Overtaken(t.of, at)
        ELSE UNCHANGED <<account, session>>
     /\ Forward(s)
     /\ UNCHANGED <<invite, grant, now, history>>

-----------------------------------------------------------------------------
(* Invitations of platform administrators.                                  *)

LinkOf(i) == <<i, invite[i].token>>
Pending(i) == invite[i].status = "PENDING"
NewInvite == {i \in Invite : invite[i].status = "UNUSED"
                             /\ \A j \in Invite : invite[j].status = "UNUSED" => i <= j}

\* create: the address is not taken, and its pending invitations are superseded.
CreateInvite ==
  /\ Move
  /\ \A a \in Holders : Linkable(a)
  /\ \E n \in NewInvite :
       invite' = [i \in Invite |->
                    IF i = n THEN [status |-> "PENDING", token |-> 1, live |-> TRUE]
                    ELSE IF Pending(i) THEN [invite[i] EXCEPT !.status = "REVOKED"]
                    ELSE invite[i]]
  /\ dead' = dead \cup {LinkOf(i) : i \in {j \in Invite : Pending(j)}}
  /\ UNCHANGED <<account, grant, session, flight, now, worn, newest, torn>>

InviteLapses(i) ==
  /\ Pending(i) /\ invite[i].live
  /\ invite' = [invite EXCEPT ![i].live = FALSE]
  /\ UNCHANGED <<account, grant, session, flight, now, moves, history>>

RevokeInvite(i) ==
  /\ Move
  /\ Pending(i)
  /\ invite' = [invite EXCEPT ![i].status = "REVOKED"]
  /\ dead' = dead \cup {LinkOf(i)}
  /\ UNCHANGED <<account, grant, session, flight, now, worn, newest, torn>>

\* resend: the status is read, and the new token written by id whatever came between.
ResendReads(s, i) ==
  /\ invite[i].status \in {"PENDING", "EXPIRED"}
  /\ Start(s, [Idle EXCEPT !.do = "resend", !.id = i])
  /\ UNCHANGED <<account, invite, grant, session, now, history>>
Resend(s) ==
  LET i == flight[s].id
  IN /\ flight[s].do = "resend"
     /\ invite' = [invite EXCEPT ![i] = [status |-> "PENDING", token |-> @.token + 1, live |-> TRUE]]
     /\ dead' = dead \cup {LinkOf(i)}
     /\ Done(s)
     /\ UNCHANGED <<account, grant, session, now, worn, newest, torn>>

\* accept: the link is looked up by its hash and the address resolved again.
AcceptReads(s, i) ==
  /\ Pending(i)
  /\ IF ~invite[i].live THEN Start(s, [Idle EXCEPT !.do = "heal", !.id = i])
     ELSE IF Holders = {}
     THEN Start(s, [Idle EXCEPT !.do = "signUp", !.link = LinkOf(i), !.fresh = TRUE, !.id = i])
     ELSE \E a \in Holders :
            /\ Linkable(a)
            /\ Start(s, Verified(a, account[a].word, "redeem", LinkOf(i), i))
  /\ UNCHANGED <<account, invite, grant, session, now, history>>

\* A lapsed invitation is marked, by id.
Heal(s) ==
  /\ flight[s].do = "heal"
  /\ invite' = [invite EXCEPT ![flight[s].id].status = "EXPIRED"]
  /\ Done(s)
  /\ UNCHANGED <<account, grant, session, now, history>>

\* The identity comes first, an administrator from its first moment.
Provision(s) ==
  /\ flight[s].do = "signUp"
  /\ IF Holders = {} /\ NewAccount # {}
     THEN \E a \in NewAccount :
            /\ account' = [account EXCEPT ![a].state = "LIVE", ![a].word = 1, ![a].warrant = "TRIAL",
                                          ![a].role = "PLATFORM_ADMIN"]
            /\ worn' = [worn EXCEPT ![a] = {1}] /\ newest' = [newest EXCEPT ![a] = 1]
            /\ Go(s, [flight[s] EXCEPT !.do = "redeem", !.of = a])
     ELSE UNCHANGED <<account, worn, newest>> /\ Done(s)
  /\ UNCHANGED <<invite, grant, session, now, dead, torn>>

\* The transaction is conditional on the very token redeemed.
\* Mutant of Redeemable: on the invitation being open.
RedeemableById(l) == Pending(l[1])
Redeemable(l) == Pending(l[1]) /\ invite[l[1]].token = l[2]
\* Locked and looked at again; deletedAt is not among what is looked at.
StillLinkable(a) == Exists(a) /\ account[a].role = "USER"
Confirmed(t, at) ==
  [(IF t.fresh THEN account[t.of] ELSE Regraded(t.of, "PLATFORM_ADMIN", at))
     EXCEPT !.warrant = "GIVEN", !.link = t.link]
\* Mutant of AfterFailure: the identity is left behind.
NothingToUndo(t) == Idle
AfterFailure(t) == IF t.fresh THEN [t EXCEPT !.do = "cleanUp"] ELSE Idle
Redeem(s) ==
  LET t == flight[s]
  IN /\ t.do = "redeem"
     /\ IF Redeemable(t.link) /\ (IF t.fresh THEN Exists(t.of) ELSE StillLinkable(t.of))
        THEN /\ \E at \in Taken :
                  /\ account' = [account EXCEPT ![t.of] = Confirmed(t, at)]
                  /\ session' = IF t.fresh THEN session ELSE Overtaken(t.of, at)
             /\ invite' = [invite EXCEPT ![t.id].status = "ACCEPTED"]
             /\ dead' = dead \cup {t.link}
             /\ Done(s)
        ELSE UNCHANGED <<account, invite, session, dead>> /\ Go(s, AfterFailure(t))
     /\ UNCHANGED <<grant, now, worn, newest, torn>>

\* A fresh identity is deleted again, or the failure to is logged.
CleanUp(s) ==
  LET a == flight[s].of
  IN /\ flight[s].do = "cleanUp"
     /\ \/ /\ account' = [account EXCEPT ![a].state = "GONE"]
           /\ grant' = [g \in Grant |-> IF grant[g].of = a THEN [grant[g] EXCEPT !.state = "GONE"]
                                        ELSE grant[g]]
        \/ account' = [account EXCEPT ![a].warrant = "LOGGED"] /\ UNCHANGED grant
     /\ Done(s)
     /\ UNCHANGED <<invite, session, now, history>>

\* The process stops in the middle of a request: nobody will undo what it had done, or
\* log that it was not.
Crash(s) ==
  LET t == flight[s]
  IN /\ t # Idle /\ Move
     /\ flight' = [flight EXCEPT ![s] = Idle]
     /\ account' = IF t.do \in {"redeem", "cleanUp"} /\ t.fresh
                   THEN [account EXCEPT ![t.of].warrant = "ABANDONED"] ELSE account
     /\ torn' = IF t.do = "revoke" THEN torn \cup {t.of} ELSE torn
     /\ UNCHANGED <<invite, grant, session, now, dead, worn, newest>>

Tick == /\ now < MaxTime /\ now' = now + 1
        /\ UNCHANGED <<account, invite, grant, session, flight, moves, history>>

-----------------------------------------------------------------------------

Nobody == [state |-> "UNUSED", role |-> "USER", word |-> 0, weak |-> FALSE, validFrom |-> 0,
           era |-> 0, link |-> NoLink, warrant |-> "NONE"]
\* The address is free, or a driver's, whose hash is an old one.
Init ==
  /\ \E driver \in SUBSET {a \in Account : \A b \in Account : a <= b} :
       /\ account = [a \in Account |->
                       IF a \in driver THEN [Nobody EXCEPT !.state = "LIVE", !.word = 1, !.weak = TRUE]
                       ELSE Nobody]
       /\ worn = [a \in Account |-> IF a \in driver THEN {1} ELSE {}]
       /\ newest = [a \in Account |-> IF a \in driver THEN 1 ELSE 0]
  /\ invite = [i \in Invite |-> [status |-> "UNUSED", token |-> 0, live |-> FALSE]]
  /\ grant = [g \in Grant |-> [of |-> 0, state |-> "UNUSED"]]
  /\ session = {} /\ flight = [s \in Slot |-> Idle]
  /\ now = 1 /\ moves = 0
  /\ dead = {} /\ torn = {}

Next ==
  \/ \E s \in Slot :
       \/ \E a \in Account : Request(s, a) \/ \E w \in Word : SignIn(s, a, w)
       \/ \E t \in session : Refresh(s, t)
       \/ \E t \in session, w \in Word : DeleteReads(s, t, w) \/ RequestChange(s, t, w)
       \/ \E g \in Grant : Reset(s, g)
       \/ \E i \in Invite : ResendReads(s, i) \/ AcceptReads(s, i)
       \/ Rehash(s) \/ Issue(s) \/ Delete(s) \/ Mint(s)
       \/ Consume(s) \/ Burn(s) \/ Find(s) \/ Write(s) \/ Revoke(s)
       \/ Resend(s) \/ Heal(s) \/ Provision(s) \/ Redeem(s) \/ CleanUp(s) \/ Crash(s)
  \/ \E t \in session : SignOut(t)
  \/ \E a \in Account, role \in Role : Regrade(a, role)
  \/ \E g \in Grant : GrantLapses(g)
  \/ \E i \in Invite : InviteLapses(i) \/ RevokeInvite(i)
  \/ SignUp \/ CreateInvite \/ Tick

Spec == Init /\ [][Next]_vars

-----------------------------------------------------------------------------
(* Properties.                                                              *)

\* A session the guard lets through carries the role and was signed in with the password
\* the account has: a change of role ends every session issued before it, and so does a
\* reset, unless it stopped halfway or is still at it.  Exempt is a token ("late") whose
\* row was read before the change and which was issued after it, or which was issued in a
\* later second than the one the change took for its watermark and before it committed.
\* (identity.service.ts:150, admin-invite.service.ts:275, password-reset.service.ts:179)
SessionsFollowAccount ==
  \A t \in session :
    Admitted(t) /\ ~t.late =>
      /\ t.role = account[t.of].role
      /\ \/ t.word = account[t.of].word
         \/ t.of \in torn
         \/ \E s \in Slot : flight[s].do = "revoke" /\ flight[s].of = t.of

\* No sign-in puts back a password that was replaced while it was rehashing.
\* (authjs-user.store.ts:75)
NewestPasswordStands == \A a \in Account : Exists(a) => account[a].word = newest[a]

\* A reset grant sets a password once, however many requests carry it.
\* (password-reset.service.ts:166)
GrantsSetOnce ==
  [][\A s \in Slot :
       flight[s].do = "write" /\ flight'[s].do = "revoke"
         => \A a \in Account : flight[s].word \notin worn[a]]_vars

\* The link that CONFIRMS an administrator has not been withdrawn, replaced or redeemed
\* before, whatever happened since it was read; a fresh identity is one before that, which
\* is NoOrphanAdmins' matter. (admin-invite.service.ts:282)
DeadLinksGrantNothing ==
  [][\A a \in Account : account'[a].link # account[a].link => account'[a].link \notin dead]_vars

\* A platform administrator was confirmed, or its invitation is still being redeemed or
\* undone, or undoing it failed and that was logged.  Exempt is the one whose process died
\* between its signing up and the end of the redemption ("ABANDONED"): it stays, and
\* nothing is logged. (admin-invite.service.ts:296)
NoOrphanAdmins ==
  \A a \in Holders :
    account[a].role = "PLATFORM_ADMIN" /\ account[a].warrant = "TRIAL" =>
      \E s \in Slot : flight[s].do \in {"redeem", "cleanUp"} /\ flight[s].of = a
=============================================================================
