----------------------------- MODULE Membership -----------------------------
(***************************************************************************)
(* Who belongs to which operator: the invites that bring people in          *)
(* (invite.service.ts), self-registration, the memberships and the global   *)
(* roles derived from them (operator-members.service.ts,                    *)
(* identity.service.ts), the seats a plan pays for (entitlement.service.ts) *)
(* and the managers of an operator's resources.                             *)
(*                                                                          *)
(* A slot of "flight" is one request at work.  It remembers what it has     *)
(* read, perhaps holds the operator's row (SELECT ... FOR UPDATE) or the    *)
(* invites it has updated, and writes later, at Read Committed.  A platform *)
(* administrator may do whatever an operator's own may, so callers are not  *)
(* modelled; neither are mails, audit rows, scopes and session watermarks.  *)
(* A user stands for an email address and the account that owns it.         *)
(***************************************************************************)
EXTENDS Integers, FiniteSets

CONSTANTS User,         \* addresses
          Operator,     \* ParkingOperator ids
          Invite,       \* OperatorInvite ids; bounds the invites issued
          Slot,         \* bounds the requests at work at once
          Home,         \* the operator that is verified at the start
          Founder,      \* its administrators
          Limit,        \* the maxStaffSeats of the plans on offer
          DefaultLimit, \* that of the default plan
          MaxMove,      \* bound on the requests made
          MaxLink,      \* bound on the links one invite is mailed with
          None          \* no operator

ASSUME HomeAssumption == Home \in Operator /\ None \notin Operator
ASSUME UserAssumption == Founder \subseteq User
ASSUME FiniteAssumption == IsFiniteSet(User) /\ IsFiniteSet(Invite)
ASSUME InviteAssumption == Invite \subseteq Nat
ASSUME LimitAssumption == /\ Limit \subseteq Nat \ {0}
                          /\ DefaultLimit \in Limit
                          /\ Cardinality(Founder) <= DefaultLimit
ASSUME BoundAssumption == MaxMove \in Nat /\ MaxLink \in Nat \ {0}

VARIABLES status,   \* ParkingOperator.status
          limit,    \* the seats the operator's current plan includes
          account,  \* User.role of the account at each address
          member,   \* OperatorMembership.role
          manager,  \* FacilityManager of a facility of Home; a TariffPlanManager alike
          invite,   \* OperatorInvite
          flight,   \* the request each slot is working on
          moves,    \* the requests made so far
          unpaid,   \* history: seats taken that no check has counted
          bereft,   \* history: operators that lost an administrator to a purge
          astray,   \* history: accounts left behind by an overlap or a crash
          recast    \* history: those of them given a role while still being attached

vars == <<status, limit, account, member, manager, invite, flight, moves, unpaid,
          bereft, astray, recast>>

MemberRole == {"STAFF", "ADMIN"}
Rank == MemberRole \cup {"NONE"}
\* FREE: nobody owns the address.  PURGED: the account is anonymised.
Account == {"FREE", "USER", "STAFF", "ADMIN", "PLATFORM", "PURGED"}

Grant == [kind : {"ONBOARDING", "MEMBER"}, op : Operator \cup {None}, to : User,
          role : MemberRole, state : {"PENDING", "ACCEPTED", "EXPIRED", "REVOKED"},
          live : BOOLEAN, link : 1..MaxLink]
Absent == [state |-> "ABSENT"]

Idle == [do |-> "idle"]
Task == [do : {"onboard"}, who : User, stale : SUBSET Invite]
   \cup [do : {"ask"}, op : Operator, who : User, role : MemberRole]
   \cup [do : {"issue"}, op : Operator, who : User, role : MemberRole,
         stale : SUBSET Invite, within : Limit]
   \cup [do : {"resend"}, id : Invite, link : 1..MaxLink, op : Operator \cup {None},
         unlocked : BOOLEAN]
   \cup [do : {"revive"}, id : Invite, link : 1..MaxLink, op : Operator \cup {None},
         unlocked : BOOLEAN, within : Limit \cup {0}]
   \cup [do : {"shell", "raze"}, op : Operator]
   \cup [do : {"heal"}, id : Invite]
   \cup [do : {"accept"}, id : Invite, link : 1..MaxLink, op : Operator, who : User,
         fresh : BOOLEAN]
   \cup [do : {"register"}, who : User, fresh : BOOLEAN]
   \cup [do : {"change"}, op : Operator, who : User, role : Rank, saw : Account]
   \cup [do : {"assign"}, who : User, role : Account, saw : Rank]
   \cup [do : {"edit"}, op : Operator, to : Limit]
   \cup [do : {"manage"}, add : SUBSET User, drop : SUBSET User]

TypeOK ==
  /\ status \in [Operator -> {"NONE", "PENDING", "VERIFIED", "SUSPENDED", "DELETED"}]
  /\ limit \in [Operator -> Limit]
  /\ account \in [User -> Account]
  /\ member \in [Operator -> [User -> Rank]]
  /\ manager \subseteq User
  /\ invite \in [Invite -> Grant \cup {Absent}]
  /\ flight \in [Slot -> Task \cup {Idle}]
  /\ moves \in 0..MaxMove
  /\ unpaid \in [Operator -> Nat]
  /\ bereft \subseteq Operator
  /\ astray \subseteq User
  /\ recast \subseteq astray

-----------------------------------------------------------------------------
(* What the handlers read.                                                  *)

MembersOf(o) == {u \in User : member[o][u] # "NONE"}
Admins(o) == {u \in User : member[o][u] = "ADMIN"}
HomesOf(u) == {o \in Operator : member[o][u] # "NONE"}
Pending(i) == invite[i].state = "PENDING"
Promised(o) == {i \in Invite : Pending(i) /\ invite[i].kind = "MEMBER"
                               /\ invite[i].op = o /\ invite[i].live}
Seats(o) == Cardinality(MembersOf(o)) + Cardinality(Promised(o))
\* Mutant of HasSeat: off by one.
HasSeatWhenFull(o) == Seats(o) <= limit[o]
HasSeat(o) == Seats(o) < limit[o]

\* The highest membership an account holds, and the role that follows from it.
RankIn(m, u) == IF \E o \in Operator : m[o][u] = "ADMIN" THEN "ADMIN"
                ELSE IF \E o \in Operator : m[o][u] # "NONE" THEN "STAFF" ELSE "NONE"
RankOf(u) == RankIn(member, u)
RoleFor(rank) == IF rank = "NONE" THEN "USER" ELSE rank

Linkable(u) == account[u] = "USER" /\ HomesOf(u) = {}
Taken(u) == account[u] # "FREE" /\ ~Linkable(u)

NewInvite == {i \in Invite : invite[i] = Absent
                             /\ \A j \in Invite : invite[j] = Absent => i <= j}
NewOperator == {o \in Operator : status[o] = "NONE"}

\* The rows a request holds locked while it is at work.
Holds(t) == CASE t.do = "issue" -> {t.op} \cup t.stale
              [] t.do = "revive" /\ ~t.unlocked -> {t.op}
              [] t.do = "change" -> {t.op}
              [] OTHER -> {}
\* Mutant of RowFree: the rows are read without FOR UPDATE.
RowNeverWaits(x) == TRUE
RowFree(x) == \A s \in Slot : x \notin Holds(flight[s])

\* An identity that exists while its membership does not.
Provisioning(u) == \E s \in Slot : /\ flight[s].do \in {"accept", "register"}
                                  /\ flight[s].who = u /\ flight[s].fresh

Move == moves < MaxMove /\ moves' = moves + 1
Start(s, t) == Move /\ flight[s] = Idle /\ flight' = [flight EXCEPT ![s] = t]
Go(s, t) == flight' = [flight EXCEPT ![s] = t] /\ UNCHANGED moves
Done(s) == Go(s, Idle)
people == <<account, member, manager, astray, recast>>
tenancy == <<status, limit>>
history == <<unpaid, bereft>>

-----------------------------------------------------------------------------
(* Issuing an invite.                                                       *)

NewGrant(kind, o, u, r) ==
  [kind |-> kind, op |-> o, to |-> u, role |-> r, state |-> "PENDING",
   live |-> TRUE, link |-> 1]
SetState(is, from, to) ==
  [i \in Invite |-> IF i \in is /\ invite[i].state = from
                    THEN [invite[i] EXCEPT !.state = to] ELSE invite[i]]
\* OperatorInvite.operator is ON DELETE SET NULL.
Unhoused(invites, os) ==
  [i \in Invite |-> IF invites[i] # Absent /\ invites[i].op \in os
                    THEN [invites[i] EXCEPT !.op = None] ELSE invites[i]]

OnboardReads(s, u) ==
  /\ ~Taken(u)
  /\ Start(s, [do |-> "onboard", who |-> u,
               stale |-> {i \in Invite : Pending(i) /\ invite[i].kind = "ONBOARDING"
                                         /\ invite[i].to = u}])
  /\ UNCHANGED <<people, tenancy, invite, history>>

\* The operators that the superseded invites leave unclaimed.
Shells(is) == {o \in Operator : /\ status[o] = "PENDING" /\ MembersOf(o) = {}
                                /\ \E i \in is : invite[i].op = o}
\* supersede, with its shells, then the new shell and invite.
OnboardWrites(s) ==
  LET t == flight[s]
      shells == Shells(t.stale)
  IN /\ t.do = "onboard"
     /\ \A x \in t.stale \cup shells : RowFree(x)
     /\ \E i \in NewInvite, o \in NewOperator :
          /\ invite' = [Unhoused(SetState(t.stale, "PENDING", "REVOKED"), shells)
                          EXCEPT ![i] = NewGrant("ONBOARDING", o, t.who, "ADMIN")]
          /\ status' = [p \in Operator |-> IF p = o THEN "PENDING"
                                           ELSE IF p \in shells THEN "DELETED" ELSE status[p]]
     /\ Done(s)
     /\ UNCHANGED <<people, limit, history>>

MemberAsks(s, o, u, r) ==
  /\ status[o] = "VERIFIED" /\ ~Taken(u) /\ NewInvite # {}
  /\ Start(s, [do |-> "ask", op |-> o, who |-> u, role |-> r])
  /\ UNCHANGED <<people, tenancy, invite, history>>

\* Under the operator's row lock: supersede, then the seats that are left.
MemberCounts(s) ==
  LET t == flight[s]
      stale == {i \in Invite : Pending(i) /\ invite[i].kind = "MEMBER"
                               /\ invite[i].op = t.op /\ invite[i].to = t.who}
      seats == Cardinality(MembersOf(t.op)) + Cardinality(Promised(t.op) \ stale)
  IN /\ t.do = "ask"
     /\ RowFree(t.op) /\ \A i \in stale : RowFree(i)
     /\ IF seats < limit[t.op]
        THEN Go(s, [do |-> "issue", op |-> t.op, who |-> t.who, role |-> t.role,
                    stale |-> stale, within |-> limit[t.op]])
        ELSE Done(s)
     /\ UNCHANGED <<people, tenancy, invite, history>>

\* The plan a seat was counted against can have ended by now: that waits for no lock.
Shrunk(t) == limit[t.op] < t.within
MemberInserts(s) ==
  LET t == flight[s]
  IN /\ t.do = "issue"
     /\ \E i \in NewInvite :
          invite' = [SetState(t.stale, "PENDING", "REVOKED")
                       EXCEPT ![i] = NewGrant("MEMBER", t.op, t.who, t.role)]
     /\ unpaid' = IF Shrunk(t) THEN [unpaid EXCEPT ![t.op] = @ + 1] ELSE unpaid
     /\ Done(s)
     /\ UNCHANGED <<people, tenancy, bereft>>

\* The snapshot decides whether the resend has to pay for a seat.
ResendReads(s, i) ==
  /\ invite[i].state \in {"PENDING", "EXPIRED"} /\ invite[i].link < MaxLink
  /\ invite[i].kind = "MEMBER" => invite[i].op # None
  /\ Start(s, [do |-> "resend", id |-> i, link |-> invite[i].link, op |-> invite[i].op,
               unlocked |-> invite[i].kind = "ONBOARDING" \/ (Pending(i) /\ invite[i].live)])
  /\ UNCHANGED <<people, tenancy, invite, history>>

ResendCounts(s) ==
  LET t == flight[s]
  IN /\ t.do = "resend"
     /\ ~t.unlocked => RowFree(t.op)
     /\ IF t.unlocked \/ (status[t.op] = "VERIFIED" /\ HasSeat(t.op))
        THEN Go(s, [do |-> "revive", id |-> t.id, link |-> t.link, op |-> t.op,
                    unlocked |-> t.unlocked,
                    within |-> IF t.unlocked THEN 0 ELSE limit[t.op]])
        ELSE Done(s)
     /\ UNCHANGED <<people, tenancy, invite, history>>

\* A new link, if the one that was read is still the last.
Rotated(i, link) == invite[i].link = link /\ invite[i].state \in {"PENDING", "EXPIRED"}
\* The seat was free of charge when it was read and is not any more, or it was counted
\* against a plan that has ended.
LateRenewal(t) ==
  /\ invite[t.id].kind = "MEMBER"
  /\ IF t.unlocked THEN ~(Pending(t.id) /\ invite[t.id].live) ELSE Shrunk(t)
ResendWrites(s) ==
  LET t == flight[s]
  IN /\ t.do = "revive" /\ RowFree(t.id)
     /\ IF Rotated(t.id, t.link)
        THEN /\ invite' = [invite EXCEPT ![t.id].link = @ + 1, ![t.id].live = TRUE,
                                         ![t.id].state = "PENDING"]
             /\ unpaid' = IF LateRenewal(t) THEN [unpaid EXCEPT ![t.op] = @ + 1]
                       ELSE unpaid
        ELSE UNCHANGED <<invite, unpaid>>
     /\ Done(s)
     /\ UNCHANGED <<people, tenancy, bereft>>

Lapse(i) ==
  /\ invite[i] # Absent /\ invite[i].live
  /\ invite' = [invite EXCEPT ![i].live = FALSE]
  /\ UNCHANGED <<people, tenancy, flight, moves, history>>

Revoke(s, i) ==
  /\ Pending(i) /\ RowFree(i)
  /\ invite' = SetState({i}, "PENDING", "REVOKED")
  /\ IF invite[i].kind = "ONBOARDING" /\ invite[i].op # None
     THEN Start(s, [do |-> "shell", op |-> invite[i].op])
     ELSE Move /\ UNCHANGED flight
  /\ UNCHANGED <<people, tenancy, history>>

RevokeLooks(s) ==
  /\ flight[s].do = "shell"
  /\ IF status[flight[s].op] = "PENDING"
     THEN Go(s, [do |-> "raze", op |-> flight[s].op]) ELSE Done(s)
  /\ UNCHANGED <<people, tenancy, invite, history>>

\* By id alone; the memberships go with the operator.
RevokeDeletes(s) ==
  LET o == flight[s].op
  IN /\ flight[s].do = "raze" /\ RowFree(o)
     /\ status' = [status EXCEPT ![o] = "DELETED"]
     /\ member' = [member EXCEPT ![o] = [u \in User |-> "NONE"]]
     /\ manager' = IF o = Home THEN {} ELSE manager
     /\ astray' = astray \cup MembersOf(o)
     /\ invite' = Unhoused(invite, {o})
     /\ Done(s)
     /\ UNCHANGED <<account, recast, limit, history>>

-----------------------------------------------------------------------------
(* Accepting an invite, and registering a business.                         *)

\* A lapsed invite is to be marked EXPIRED, by id.
AcceptFindsLapsed(s, i) ==
  /\ Pending(i) /\ (~invite[i].live \/ invite[i].op = None)
  /\ Start(s, [do |-> "heal", id |-> i])
  /\ UNCHANGED <<people, tenancy, invite, history>>

AcceptHeals(s) ==
  LET i == flight[s].id
  IN /\ flight[s].do = "heal" /\ RowFree(i)
     /\ invite' = [invite EXCEPT ![i].state = "EXPIRED"]
     /\ Done(s)
     /\ UNCHANGED <<people, tenancy, history>>

\* signUp commits the identity, role and all, before anything is attached to it.
Provision(u, role) ==
  /\ ~Taken(u)
  /\ account' = IF account[u] = "FREE" THEN [account EXCEPT ![u] = role] ELSE account

AcceptProvisions(s, i) ==
  LET g == invite[i]
  IN /\ Pending(i) /\ g.live /\ g.op # None
     /\ g.kind = "MEMBER" => status[g.op] = "VERIFIED"
     /\ Provision(g.to, g.role)
     /\ Start(s, [do |-> "accept", id |-> i, link |-> g.link, op |-> g.op, who |-> g.to,
                  fresh |-> account[g.to] = "FREE"])
     /\ UNCHANGED <<member, manager, astray, recast, tenancy, invite, history>>

\* Inserting a membership takes a key-share lock on the operator's row.
\* Mutant of StillLinkable: the account is not looked at again under its lock.
LinkableWhenRead(t) == TRUE
StillLinkable(t) == t.fresh \/ Linkable(t.who)
StillPromised(t) == Pending(t.id) /\ invite[t.id].link = t.link
MayAttach(t) ==
  /\ status[t.op] \notin {"NONE", "DELETED"} /\ member[t.op][t.who] = "NONE"
  /\ StillLinkable(t) /\ StillPromised(t)

\* The seat is not among those promised: the invite has lapsed since it was read, or
\* it is for an operator that was verified before its first administrator came.
Uncounted(t) == IF invite[t.id].kind = "MEMBER" THEN ~invite[t.id].live
                ELSE status[t.op] # "PENDING"
AcceptAttaches(s) ==
  LET t == flight[s]
      g == invite[t.id]
  IN /\ t.do = "accept" /\ RowFree(t.op) /\ RowFree(t.id)
     /\ MayAttach(t)
     /\ member' = [member EXCEPT ![t.op][t.who] = g.role]
     /\ status' = IF g.kind = "ONBOARDING" THEN [status EXCEPT ![t.op] = "VERIFIED"]
                  ELSE status
     /\ account' = IF t.fresh THEN account ELSE [account EXCEPT ![t.who] = g.role]
     /\ invite' = SetState({t.id}, "PENDING", "ACCEPTED")
     /\ unpaid' = IF Uncounted(t) THEN [unpaid EXCEPT ![t.op] = @ + 1] ELSE unpaid
     /\ Done(s)
     /\ UNCHANGED <<manager, astray, recast, limit, bereft>>

RegisterProvisions(s, u) ==
  /\ Provision(u, "ADMIN")
  /\ Start(s, [do |-> "register", who |-> u, fresh |-> account[u] = "FREE"])
  /\ UNCHANGED <<member, manager, astray, recast, tenancy, invite, history>>

RegisterAttaches(s) ==
  LET t == flight[s]
  IN /\ t.do = "register"
     /\ StillLinkable(t)
     /\ \E o \in NewOperator :
          /\ status' = [status EXCEPT ![o] = "PENDING"]
          /\ member' = [member EXCEPT ![o][t.who] = "ADMIN"]
     /\ account' = IF t.fresh THEN account ELSE [account EXCEPT ![t.who] = "ADMIN"]
     /\ Done(s)
     /\ UNCHANGED <<manager, astray, recast, limit, invite, history>>

\* auth.deleteUser: a role assignment at work on it finds no row.
\* Mutant of Withdraw: the identity stays.
WithdrawNothing(s) == Done(s) /\ UNCHANGED account
Withdraw(s) ==
  LET u == flight[s].who
  IN IF flight[s].fresh
     THEN /\ account' = [account EXCEPT ![u] = "FREE"]
          /\ flight' = [r \in Slot |->
                          IF r = s \/ (flight[r].do = "assign" /\ flight[r].who = u)
                          THEN Idle ELSE flight[r]]
          /\ UNCHANGED moves
     ELSE Done(s) /\ UNCHANGED account

AttachFails(s) ==
  LET t == flight[s]
  IN /\ \/ t.do = "accept" /\ RowFree(t.op) /\ RowFree(t.id) /\ ~MayAttach(t)
        \/ t.do = "register" /\ ~StillLinkable(t)
     /\ Withdraw(s)
     /\ UNCHANGED <<member, manager, astray, recast, tenancy, invite, history>>

\* The process stops, or the clean-up fails, with the identity created.
Crash(s) ==
  LET t == flight[s]
  IN /\ t.do \in {"accept", "register"}
     /\ astray' = IF t.fresh THEN astray \cup {t.who} ELSE astray
     /\ Done(s)
     /\ UNCHANGED <<account, member, manager, recast, tenancy, invite, history>>

-----------------------------------------------------------------------------
(* Changing and removing members, and the roles and managers that follow.   *)

\* guardLastAdminLoss: only a live operator has something to lose.
KeepsAnAdmin(o, u) == status[o] = "VERIFIED" => Admins(o) \ {u} # {}

\* Changing the role, or with "NONE" removing the membership; reconcileUserRole
\* reads the account's role before it writes.
ChangeReads(s, o, u, r) ==
  /\ RowFree(o)
  /\ member[o][u] \notin {"NONE", r}
  /\ member[o][u] = "ADMIN" => KeepsAnAdmin(o, u)
  /\ Start(s, [do |-> "change", op |-> o, who |-> u, role |-> r, saw |-> account[u]])
  /\ UNCHANGED <<people, tenancy, invite, history>>

\* reconcileUserRole: a platform role outranks what the memberships say.
Reconciled(t, rank) == IF t.saw \in {"PLATFORM", "PURGED"} THEN account
                       ELSE [account EXCEPT ![t.who] = RoleFor(rank)]

ChangeWrites(s) ==
  LET t == flight[s]
      left == [member EXCEPT ![t.op][t.who] = t.role]
  IN /\ t.do = "change"
     /\ IF member[t.op][t.who] = "NONE"
        THEN UNCHANGED people
        ELSE /\ member' = left
             /\ manager' = IF t.role = "NONE" /\ t.op = Home THEN manager \ {t.who}
                           ELSE manager
             /\ account' = Reconciled(t, RankIn(left, t.who))
             /\ astray' = IF t.saw # account[t.who] THEN astray \cup {t.who} ELSE astray
             /\ UNCHANGED recast
     /\ Done(s)
     /\ UNCHANGED <<tenancy, invite, history>>

\* assignRole: the platform role, or what the memberships say.
AssignReads(s, u, requested) ==
  LET next == IF requested = "PLATFORM" THEN "PLATFORM" ELSE RoleFor(RankOf(u))
  IN /\ account[u] \notin {"FREE", "PURGED", next}
     /\ Start(s, [do |-> "assign", who |-> u, role |-> next, saw |-> RankOf(u)])
     /\ UNCHANGED <<people, tenancy, invite, history>>

AssignWrites(s) ==
  LET t == flight[s]
  IN /\ t.do = "assign"
     /\ account' = [account EXCEPT ![t.who] = t.role]
     /\ astray' = IF t.saw # RankOf(t.who) \/ Provisioning(t.who)
                  THEN astray \cup {t.who} ELSE astray
     /\ recast' = IF Provisioning(t.who) THEN recast \cup {t.who} ELSE recast
     /\ Done(s)
     /\ UNCHANGED <<member, manager, tenancy, invite, history>>

Eligible == {u \in MembersOf(Home) : account[u] \in MemberRole}
ManagersValidate(s, us) ==
  /\ us \subseteq Eligible /\ us # manager
  /\ Start(s, [do |-> "manage", add |-> us \ manager, drop |-> manager \ us])
  /\ UNCHANGED <<people, tenancy, invite, history>>

\* A row that exists by now is a duplicate and rolls the replacement back.
ManagersWrite(s) ==
  LET t == flight[s]
  IN /\ t.do = "manage"
     /\ manager' = IF t.add \cap manager # {} THEN manager
                   ELSE (manager \ t.drop) \cup t.add
     /\ Done(s)
     /\ UNCHANGED <<account, member, astray, recast, tenancy, invite, history>>

\* The purge of a tombstoned account takes no operator's lock.  A request at work that
\* found the account active is over before its retention is.
FoundActive(u) ==
  \E s \in Slot : LET t == flight[s]
                  IN \/ t.do \in {"accept", "register"} /\ t.who = u
                     \/ t.do = "manage" /\ u \in t.add
Purge(u) ==
  /\ Move
  /\ account[u] \notin {"FREE", "PURGED"} /\ ~FoundActive(u)
  /\ account' = [account EXCEPT ![u] = "PURGED"]
  /\ member' = [o \in Operator |-> [member[o] EXCEPT ![u] = "NONE"]]
  /\ manager' = manager \ {u}
  /\ bereft' = bereft \cup {o \in Operator : member[o][u] = "ADMIN"}
  /\ UNCHANGED <<astray, recast, tenancy, invite, flight, unpaid>>

-----------------------------------------------------------------------------
(* The operator's standing and its plan.                                    *)

Transition(o, from, to) ==
  /\ Move
  /\ status[o] = from /\ RowFree(o)
  /\ status' = [status EXCEPT ![o] = to]
  /\ UNCHANGED <<people, limit, invite, flight, history>>

Suspend(o) == Transition(o, "VERIFIED", "SUSPENDED")
Verify(o) == Transition(o, "PENDING", "VERIFIED")
Reactivate(o) == Transition(o, "SUSPENDED", "VERIFIED")

\* Under the row's lock, for an operator that has something else.
Replan(o, q) ==
  /\ status[o] \notin {"NONE", "DELETED"} /\ q # limit[o]
  /\ limit' = [limit EXCEPT ![o] = q]
  /\ UNCHANGED <<people, status, invite, history>>

\* An administrator's plan, override or cancellation has to hold what is in use.
AssignPlan(o, q) == Move /\ RowFree(o) /\ Seats(o) <= q /\ Replan(o, q) /\ UNCHANGED flight

\* applyCheckoutCompleted: it has been paid for by now, and is granted whatever is in use.
BuyPlan(o, q) == Move /\ RowFree(o) /\ Replan(o, q) /\ UNCHANGED flight

\* applySubscriptionUpdated and applySubscriptionDeleted: no lock, and no refusal.
EndPlan(o) == Move /\ Replan(o, DefaultLimit) /\ UNCHANGED flight

\* updatePlan: what its subscribers use is looked at first, under no lock.
EditReads(s, o, q) ==
  /\ status[o] \notin {"NONE", "DELETED"} /\ Seats(o) <= q
  /\ Start(s, [do |-> "edit", op |-> o, to |-> q])
  /\ UNCHANGED <<people, tenancy, invite, history>>

EditWrites(s) ==
  LET t == flight[s]
  IN /\ t.do = "edit"
     /\ \/ Replan(t.op, t.to)
        \/ UNCHANGED <<people, tenancy, invite, history>>  \* it has left the plan meanwhile
     /\ Done(s)

-----------------------------------------------------------------------------
Init ==
  /\ status = [o \in Operator |-> IF o = Home THEN "VERIFIED" ELSE "NONE"]
  /\ limit = [o \in Operator |-> DefaultLimit]
  /\ account \in [User -> {"FREE", "USER", "ADMIN"}]
  /\ \A u \in User : account[u] = "ADMIN" <=> u \in Founder
  /\ member = [o \in Operator |-> [u \in User |-> IF o = Home /\ u \in Founder THEN "ADMIN"
                                                  ELSE "NONE"]]
  /\ manager = {}
  /\ invite = [i \in Invite |-> Absent]
  /\ flight = [s \in Slot |-> Idle]
  /\ moves = 0
  /\ unpaid = [o \in Operator |-> 0]
  /\ bereft = {}
  /\ astray = {}
  /\ recast = {}

Next ==
  \/ \E s \in Slot :
       \/ \E u \in User : OnboardReads(s, u) \/ RegisterProvisions(s, u)
       \/ \E o \in Operator, u \in User, r \in MemberRole : MemberAsks(s, o, u, r)
       \/ \E i \in Invite : \/ ResendReads(s, i) \/ Revoke(s, i)
                            \/ AcceptFindsLapsed(s, i) \/ AcceptProvisions(s, i)
       \/ \E o \in Operator, u \in User, r \in Rank : ChangeReads(s, o, u, r)
       \/ \E u \in User, r \in {"PLATFORM", "USER"} : AssignReads(s, u, r)
       \/ \E us \in SUBSET User : ManagersValidate(s, us)
       \/ OnboardWrites(s) \/ MemberCounts(s) \/ MemberInserts(s)
       \/ ResendCounts(s) \/ ResendWrites(s)
       \/ RevokeLooks(s) \/ RevokeDeletes(s) \/ AcceptHeals(s)
       \/ AcceptAttaches(s) \/ RegisterAttaches(s) \/ AttachFails(s) \/ Crash(s)
       \/ ChangeWrites(s) \/ AssignWrites(s) \/ ManagersWrite(s)
       \/ \E o \in Operator, q \in Limit : EditReads(s, o, q)
       \/ EditWrites(s)
  \/ \E i \in Invite : Lapse(i)
  \/ \E u \in User : Purge(u)
  \/ \E o \in Operator : Suspend(o) \/ Verify(o) \/ Reactivate(o)
  \/ \E o \in Operator : EndPlan(o)
  \/ \E o \in Operator, q \in Limit : AssignPlan(o, q) \/ BuyPlan(o, q)

Spec == Init /\ [][Next]_vars

-----------------------------------------------------------------------------
(* Properties.                                                              *)

\* No account belongs to two operators, however many invites reach its address and
\* however their redemptions and registrations overlap, unless an administrator gave its
\* identity a role while the acceptance or registration that created it was still at work:
\* it is linkable again then, and the creator does not look (invite.service.ts accept).
OneOperatorEach == \A u \in User \ recast : Cardinality(HomesOf(u)) <= 1

\* An account's role is the one its memberships give it, unless a platform role
\* outranks it, its identity is still being attached, or it is astray: a role assignment
\* overlapped a membership change (neither waits for the other), the operator it belonged
\* to was deleted with a revoked invite, or a crash left its identity behind.
RoleFollowsMembership ==
  \A u \in User \ astray :
    account[u] \in {"USER", "STAFF", "ADMIN"} =>
      \/ account[u] = RoleFor(RankOf(u))
      \/ Provisioning(u)

\* Whatever adds a seat leaves the operator within its plan, apart from the seats
\* nobody counted: those of invites that lapsed between the check and the write, of an
\* administrator whose operator was verified before they came, and of invites whose plan
\* ended or was edited between the count and the write.  Each of those is one seat,
\* whatever the operator's plan has become by then.
SeatsArePaid ==
  [][\A o \in Operator :
       Seats(o)' > Seats(o)
         => \/ Seats(o)' <= limit'[o] + unpaid'[o]
            \/ Seats(o)' - Seats(o) <= unpaid'[o] - unpaid[o]]_vars

\* No handler takes the last administrator of a verified operator that stays, unless a
\* purge, which does not look, has ever taken one of that operator's (bereft).
LastAdminStays ==
  [][\A o \in Operator \ bereft' :
       status[o] = "VERIFIED" /\ status'[o] # "DELETED" /\ Admins(o) # {}
         => Admins(o)' # {}]_vars

\* "The plan is read under the ParkingOperator lock the mutation already holds, so a
\* concurrent plan change cannot land between the check and the write"
\* (operator-members.service.ts:198-200, of every entitlement check).  The code breaks it: a
\* plan that ends, or is edited, waits for no lock.
PlanStands ==
  \A s \in Slot : flight[s].do = "issue" => limit[flight[s].op] = flight[s].within

=============================================================================
