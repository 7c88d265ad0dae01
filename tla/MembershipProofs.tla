-------------------------- MODULE MembershipProofs --------------------------
(***************************************************************************)
(* Proofs about Membership, for any number of people, operators, invites    *)
(* and requests at work, every set of plans and every bound.                *)
(***************************************************************************)
EXTENDS Membership, FiniteSetTheorems, TLAPS

-----------------------------------------------------------------------------
(* What a request at work has read: Base holds of every state by itself.    *)

\* A request refers to an invite that was issued, a resend that pays for a seat to an
\* operator, and an assignment carries the platform role or the one that follows from the membership it saw.
TaskOK(t) ==
  /\ t.do \in {"resend", "revive", "heal", "accept"} => invite[t.id] # Absent
  /\ t.do \in {"resend", "revive"} => t.link < MaxLink /\ (~t.unlocked => t.op \in Operator)
  /\ t.do = "assign" => t.role \in {"PLATFORM", RoleFor(t.saw)}

Base == TypeOK /\ \A s \in Slot : TaskOK(flight[s])

-----------------------------------------------------------------------------
(* The strengthenings.                                                      *)

\* The request that created the identity of an account it has not attached yet.
FreshAt(s, u) == /\ flight[s].do \in {"accept", "register"}
                 /\ flight[s].who = u /\ flight[s].fresh
Granted(t) == IF t.do = "accept" THEN invite[t.id].role ELSE "ADMIN"

\* An identity is created once, exists while its request is at work, and belongs to
\* nobody else before that.
Identities ==
  /\ \A s \in Slot, u \in User : FreshAt(s, u) => account[u] # "FREE"
  /\ \A s, r \in Slot, u \in User : FreshAt(s, u) /\ FreshAt(r, u) => s = r
  /\ \A s \in Slot, u \in User \ recast :
       FreshAt(s, u) => HomesOf(u) = {} /\ account[u] = Granted(flight[s])
  /\ \A u \in User \ recast : account[u] = "FREE" => HomesOf(u) = {}

OneHome == \A u \in User \ recast : \A o, p \in HomesOf(u) : o = p

\* The operator's row has one holder.
Holder(t, o) == /\ \/ t.do \in {"issue", "change"}
                   \/ t.do = "revive" /\ ~t.unlocked
                /\ t.op = o
Exclusive ==
  \A s, r \in Slot, o \in Operator : Holder(flight[s], o) /\ Holder(flight[r], o) => s = r

\* A change at work on an administrator leaves another one.
Guarded(t) == status[t.op] = "VERIFIED" /\ member[t.op][t.who] = "ADMIN" /\ t.role # "ADMIN"
                => t.op \in bereft \/ Admins(t.op) \ {t.who} # {}
ChangesGuarded == \A s \in Slot : flight[s].do = "change" => Guarded(flight[s])

\* What an operator that has no members yet may have been given.
Housed(t) ==
  /\ t.do \in {"ask", "issue"} => status[t.op] \notin {"NONE", "PENDING"}
  /\ t.do \in {"accept", "resend", "revive"} /\ t.op \in Operator
       => /\ status[t.op] # "NONE"
          /\ \/ invite[t.id].op = t.op
             \/ invite[t.id].op = None /\ status[t.op] = "DELETED"
  /\ t.do \in {"resend", "revive"} /\ t.op = None => invite[t.id].kind = "ONBOARDING"
Newcomers ==
  /\ \A o \in Operator : status[o] = "NONE" => MembersOf(o) = {}
  /\ \A i \in Invite, o \in Operator : invite[i] # Absent /\ invite[i].op = o =>
       /\ status[o] # "NONE"
       /\ status[o] = "PENDING" => invite[i].kind = "ONBOARDING" /\ MembersOf(o) = {}
  /\ \A s \in Slot : Housed(flight[s])

\* Under the row's lock, what was counted still fits the plan it was counted against, but
\* for what nobody counted.
RoomFor(t) ==
  /\ t.do = "issue" => Cardinality(MembersOf(t.op)) + Cardinality(Promised(t.op) \ t.stale)
                         < t.within + unpaid[t.op]
  /\ t.do = "revive" /\ ~t.unlocked => Seats(t.op) < t.within + unpaid[t.op]
Room == \A s \in Slot : RoomFor(flight[s])

Inv == Base /\ Identities /\ OneHome /\ RoleFollowsMembership /\ Exclusive
            /\ ChangesGuarded /\ Newcomers /\ Room

-----------------------------------------------------------------------------
(* What the actions are built from.                                         *)

Any == Task \cup {Idle}
Attaching(t) == t.do \in {"accept", "register"} /\ t.fresh
Locking(t) == t.do \in {"issue", "change"} \/ (t.do = "revive" /\ ~t.unlocked)

LEMMA OneTask ==
  ASSUME TypeOK, NEW s \in Slot, NEW x \in Any, flight' = [flight EXCEPT ![s] = x]
  PROVE  /\ flight' \in [Slot -> Any]
         /\ \A r \in Slot : flight'[r] = IF r = s THEN x ELSE flight[r]
BY DEF TypeOK, Any

LEMMA IdleOK == Idle \in Any /\ Idle.do = "idle"
BY DEF Idle, Any

LEMMA ALockIsHeld ==
  ASSUME NEW o, RowFree(o), NEW s \in Slot
  PROVE  ~Holder(flight[s], o)
BY DEF RowFree, Holds, Holder

\* What the requests of each kind carry.
Shape(t) ==
  /\ t.do \in {"onboard", "ask", "issue", "accept", "register", "change", "assign"}
       => t.who \in User
  /\ t.do \in {"onboard", "issue"} => t.stale \subseteq Invite
  /\ t.do \in {"ask", "issue", "shell", "raze", "accept", "change"} => t.op \in Operator
  /\ t.do \in {"resend", "revive"} => t.op \in Operator \cup {None} /\ t.unlocked \in BOOLEAN
  /\ t.do \in {"ask", "issue"} => t.role \in MemberRole
  /\ t.do \in {"resend", "revive", "heal", "accept"} => t.id \in Invite
  /\ t.do \in {"resend", "revive", "accept"} => t.link \in 1..MaxLink
  /\ t.do \in {"accept", "register"} => t.fresh \in BOOLEAN
  /\ t.do = "change" => t.role \in Rank /\ t.saw \in Account
  /\ t.do = "assign" => t.role \in Account /\ t.saw \in Rank
  /\ t.do \in {"issue", "revive"} => t.within \in Nat
  /\ t.do = "edit" => t.op \in Operator /\ t.to \in Limit
  /\ t.do = "manage" => t.add \subseteq User /\ t.drop \subseteq User
Shaped == \A s \in Slot : Shape(flight[s])

LEMMA TasksHaveShape == ASSUME NEW t \in Any PROVE Shape(t)
<1>1. CASE t = Idle
  BY <1>1 DEF Idle, Shape
<1>2. CASE t \in Task
  BY <1>2, LimitAssumption DEF Task, Shape
<1> QED
  BY <1>1, <1>2 DEF Any

LEMMA FlightHasShape == TypeOK => Shaped
BY TasksHaveShape DEF TypeOK, Shaped, Any

\* What became of an issued invite that no handler renewed.
Faded(g, h) ==
  /\ h \in Grant /\ h.kind = g.kind /\ h.role = g.role
  /\ h.op = g.op \/ (h.op = None /\ status'[g.op] = "DELETED")
  /\ h.state = "PENDING" /\ h.live => g.state = "PENDING" /\ g.live
InvitesFade ==
  /\ invite' \in [Invite -> Grant \cup {Absent}]
  /\ \A i \in Invite : \/ invite[i] = Absent /\ invite'[i] = Absent
                       \/ invite[i] # Absent /\ Faded(invite[i], invite'[i])

LEMMA InvitesAreGrants ==
  ASSUME TypeOK
  PROVE  /\ \A i \in Invite : invite[i] # Absent => invite[i] \in Grant
         /\ \A i \in Invite : invite[i].state # "ABSENT" => invite[i] # Absent
         /\ Absent \notin Grant /\ Absent.state = "ABSENT"
<1>1. Absent.state = "ABSENT"
  BY DEF Absent
<1>2. Absent \notin Grant
  BY <1>1 DEF Grant
<1> QED
  BY <1>1, <1>2 DEF TypeOK

LEMMA SameInvitesFade == TypeOK /\ UNCHANGED invite => InvitesFade
BY InvitesAreGrants DEF InvitesFade, Faded, TypeOK, Grant

-----------------------------------------------------------------------------
(* Enough for each part of the invariant to survive a step.                 *)

LEMMA BaseKept ==
  ASSUME Base, TypeOK',
         \A i \in Invite : invite[i] # Absent => invite'[i] # Absent,
         \A r \in Slot : flight'[r] = flight[r] \/ TaskOK(flight[r])'
  PROVE  Base'
<1> SUFFICES ASSUME NEW r \in Slot PROVE TaskOK(flight[r])'
  BY DEF Base
<1>1. CASE TaskOK(flight[r])'
  BY <1>1
<1>2. CASE flight'[r] = flight[r]
  <2>1. flight[r].do \in {"resend", "revive", "heal", "accept"} => flight[r].id \in Invite
    BY FlightHasShape DEF Base, Shaped, Shape
  <2> QED
    BY <1>2, <2>1 DEF Base, TaskOK
<1> QED
  BY <1>1, <1>2

People == Identities /\ OneHome /\ RoleFollowsMembership

LEMMA PeopleKept ==
  ASSUME Base, People, UNCHANGED <<account, member, astray, recast>>,
         \A i \in Invite : invite[i] # Absent => invite'[i].role = invite[i].role,
         \A r \in Slot : flight'[r] = flight[r] \/ (~Attaching(flight[r]) /\ ~Attaching(flight[r])')
  PROVE  People'
<1>1. \A r \in Slot, u \in User : FreshAt(r, u)' <=> FreshAt(r, u)
  BY DEF FreshAt, Attaching
<1>2. \A u \in User : /\ HomesOf(u)' = HomesOf(u) /\ RankOf(u)' = RankOf(u)
                      /\ Provisioning(u)' <=> Provisioning(u)
  BY <1>1 DEF HomesOf, RankOf, RankIn, Provisioning, FreshAt
<1>3. \A r \in Slot, u \in User : FreshAt(r, u) => Granted(flight[r])' = Granted(flight[r])
  <2> SUFFICES ASSUME NEW r \in Slot, NEW u \in User, FreshAt(r, u)
               PROVE  Granted(flight[r])' = Granted(flight[r])
    OBVIOUS
  <2>1. flight'[r] = flight[r]
    BY DEF FreshAt, Attaching
  <2>2. flight[r].do = "accept" => flight[r].id \in Invite /\ invite[flight[r].id] # Absent
    BY FlightHasShape DEF Base, Shaped, Shape, TaskOK
  <2> QED
    BY <2>1, <2>2 DEF Granted
<1> QED
  BY <1>1, <1>2, <1>3 DEF People, Identities, OneHome, RoleFollowsMembership

LEMMA ExclusiveKept ==
  ASSUME Exclusive, \A r \in Slot : flight'[r] = flight[r] \/ ~Locking(flight[r])'
  PROVE  Exclusive'
BY DEF Exclusive, Holder, Locking

LEMMA GuardsKept ==
  ASSUME ChangesGuarded, Base, bereft \subseteq bereft',
         \A r \in Slot : flight'[r] = flight[r] \/ flight'[r].do # "change",
         \A o \in Operator : \/ \A r \in Slot : flight'[r] = flight[r] => ~Holder(flight[r], o)
                             \/ status'[o] # "VERIFIED"
                             \/ status'[o] = status[o] /\ member'[o] = member[o]
  PROVE  ChangesGuarded'
<1> SUFFICES ASSUME NEW r \in Slot, flight'[r] = flight[r], flight[r].do = "change"
             PROVE  Guarded(flight[r])'
  BY DEF ChangesGuarded
<1>1. PICK o \in Operator : o = flight[r].op
  BY FlightHasShape DEF Base, Shaped, Shape
<1>2. Holder(flight[r], o)
  BY <1>1 DEF Holder
<1>3. Guarded(flight[r])
  BY DEF ChangesGuarded
<1>4. status'[o] = status[o] /\ member'[o] = member[o] => Admins(o)' = Admins(o)
  BY DEF Admins
<1> QED
  BY <1>1, <1>2, <1>3, <1>4 DEF Guarded

\* What members and invites an operator has only goes.
Shrinking(o) ==
  /\ MembersOf(o)' \subseteq MembersOf(o)
  /\ Promised(o)' \subseteq Promised(o)

Shrinks == \A o \in Operator : Shrinking(o)

\* What a step adds to an operator's seats is within its plan, or remembered as unpaid.
Paid(o) == \/ Shrinking(o)
           \/ Seats(o)' <= limit'[o] + unpaid'[o]
           \/ Seats(o)' - Seats(o) <= unpaid'[o] - unpaid[o]
Pays == \A o \in Operator : Paid(o)

LEMMA FadingPromises ==
  ASSUME TypeOK, InvitesFade, NEW o \in Operator
  PROVE  Promised(o)' \subseteq Promised(o)
<1> SUFFICES ASSUME NEW i \in Promised(o)' PROVE i \in Promised(o)
  OBVIOUS
<1>1. i \in Invite /\ invite'[i].state = "PENDING" /\ invite'[i].kind = "MEMBER"
      /\ invite'[i].op = o /\ invite'[i].live
  BY DEF Promised, Pending
<1>2. invite[i] # Absent /\ Faded(invite[i], invite'[i])
  BY <1>1, InvitesAreGrants DEF InvitesFade
<1> QED
  BY <1>1, <1>2, HomeAssumption DEF Faded, Promised, Pending

LEMMA NewcomersKept ==
  ASSUME Newcomers, Base, TypeOK', InvitesFade,
         \A o \in Operator :
           \/ status'[o] = status[o] /\ MembersOf(o)' \subseteq MembersOf(o)
           \/ status'[o] \notin {"NONE", "PENDING"} /\ status[o] # "DELETED",
         \A r \in Slot : flight'[r] = flight[r] \/ Housed(flight[r])'
  PROVE  Newcomers'
<1>1. \A o \in Operator : status'[o] = "NONE" => MembersOf(o)' = {}
  BY DEF Newcomers
<1>2. ASSUME NEW i \in Invite, NEW o \in Operator, invite'[i] # Absent, invite'[i].op = o
      PROVE  /\ status'[o] # "NONE"
             /\ status'[o] = "PENDING" => invite'[i].kind = "ONBOARDING" /\ MembersOf(o)' = {}
  <2>1. invite[i] # Absent /\ invite'[i] \in Grant /\ invite'[i].kind = invite[i].kind
        /\ invite[i].op = o
    BY <1>2, HomeAssumption DEF InvitesFade, Faded
  <2>2. /\ status[o] # "NONE"
        /\ status[o] = "PENDING" => invite[i].kind = "ONBOARDING" /\ MembersOf(o) = {}
    BY <1>2, <2>1 DEF Newcomers
  <2> QED
    BY <1>2, <2>1, <2>2
<1>3. ASSUME NEW r \in Slot PROVE Housed(flight[r])'
  <2>1. CASE flight'[r] = flight[r]
    <3>1. flight[r].do \in {"accept", "resend", "revive"}
            => flight[r].id \in Invite /\ invite[flight[r].id] # Absent
      BY FlightHasShape DEF Base, Shaped, Shape, TaskOK
    <3>2. Housed(flight[r])
      BY DEF Newcomers
    <3>3. flight[r].do \in {"ask", "issue"} => flight[r].op \in Operator
      BY FlightHasShape DEF Base, Shaped, Shape
    <3> QED
      BY <2>1, <3>1, <3>2, <3>3 DEF Housed, InvitesFade, Faded
  <2> QED
    BY <1>3, <2>1
<1> QED
  BY <1>1, <1>2, <1>3 DEF Newcomers

LEMMA SeatsAreNumbers ==
  ASSUME TypeOK, NEW o \in Operator
  PROVE  /\ IsFiniteSet(MembersOf(o)) /\ IsFiniteSet(Promised(o))
         /\ Cardinality(MembersOf(o)) \in Nat /\ Cardinality(Promised(o)) \in Nat
         /\ limit[o] \in Nat \ {0} /\ unpaid[o] \in Nat
         /\ \A is : /\ IsFiniteSet(Promised(o) \ is) /\ Cardinality(Promised(o) \ is) \in Nat
<1>1. MembersOf(o) \subseteq User /\ Promised(o) \subseteq Invite
  BY DEF MembersOf, Promised
<1>2. \A is : Promised(o) \ is \subseteq Invite
  BY <1>1
<1>3. IsFiniteSet(MembersOf(o)) /\ IsFiniteSet(Promised(o)) /\ \A is : IsFiniteSet(Promised(o) \ is)
  BY <1>1, <1>2, FiniteAssumption, FS_Subset
<1> QED
  BY <1>3, FS_CardinalityType, LimitAssumption DEF TypeOK

LEMMA OneMoreElement ==
  ASSUME NEW S, NEW T, NEW x, IsFiniteSet(S), T \subseteq S \cup {x}
  PROVE  /\ IsFiniteSet(T) /\ Cardinality(T) \in Nat /\ Cardinality(S) \in Nat
         /\ Cardinality(T) <= Cardinality(S) + 1
<1>0. Cardinality(S) \in Nat
  BY FS_CardinalityType
<1>1. /\ IsFiniteSet(S \cup {x})
      /\ Cardinality(S \cup {x}) \in {Cardinality(S), Cardinality(S) + 1}
  <2>1. CASE x \in S
    <3>1. S \cup {x} = S
      BY <2>1
    <3> QED
      BY <3>1
  <2>2. CASE x \notin S
    BY <2>2, FS_AddElement
  <2> QED
    BY <2>1, <2>2
<1>2. IsFiniteSet(T) /\ Cardinality(T) <= Cardinality(S \cup {x})
  BY <1>1, FS_Subset
<1>3. Cardinality(T) \in Nat
  BY <1>2, FS_CardinalityType
<1> QED
  BY <1>0, <1>1, <1>2, <1>3

LEMMA FewerSeats ==
  ASSUME TypeOK, TypeOK', NEW o \in Operator, Shrinking(o), NEW is
  PROVE  /\ Cardinality(MembersOf(o))' <= Cardinality(MembersOf(o))
         /\ Cardinality(Promised(o))' <= Cardinality(Promised(o))
         /\ Cardinality(Promised(o)' \ is) <= Cardinality(Promised(o) \ is)
         /\ Seats(o) \in Nat /\ Seats(o)' \in Nat /\ Seats(o)' <= Seats(o)
         /\ Cardinality(Promised(o)' \ is) \in Nat /\ Cardinality(MembersOf(o))' \in Nat
<1>1. /\ Cardinality(MembersOf(o))' <= Cardinality(MembersOf(o))
      /\ Cardinality(Promised(o))' <= Cardinality(Promised(o))
  BY SeatsAreNumbers, FS_Subset DEF Shrinking
<1>2. Promised(o)' \ is \subseteq Promised(o) \ is
  BY DEF Shrinking
<1>3. /\ Cardinality(Promised(o)' \ is) <= Cardinality(Promised(o) \ is)
      /\ IsFiniteSet(Promised(o)' \ is)
  BY <1>2, SeatsAreNumbers, FS_Subset
<1>4. /\ Cardinality(MembersOf(o))' \in Nat /\ Cardinality(Promised(o))' \in Nat
      /\ Cardinality(Promised(o)' \ is) \in Nat
  <2>1. IsFiniteSet(MembersOf(o)') /\ IsFiniteSet(Promised(o)')
    BY SeatsAreNumbers, FS_Subset DEF Shrinking
  <2> QED
    BY <1>3, <2>1, FS_CardinalityType
<1> QED
  BY <1>1, <1>3, <1>4, SeatsAreNumbers DEF Seats

LEMMA RoomKept ==
  ASSUME Room, Base, TypeOK',
         \A r \in Slot :
           \/ RoomFor(flight[r])'
           \/ /\ flight'[r] = flight[r]
              /\ \A o \in Operator : Holder(flight[r], o)
                   => Shrinking(o) /\ unpaid'[o] >= unpaid[o]
  PROVE  Room'
<1> SUFFICES ASSUME NEW r \in Slot, flight'[r] = flight[r],
                    \A o \in Operator : Holder(flight[r], o)
                       => Shrinking(o) /\ unpaid'[o] >= unpaid[o],
                    Locking(flight[r])
             PROVE  RoomFor(flight[r])'
  BY DEF Room, RoomFor, Locking
<1>1. CASE flight[r].do = "change"
  BY <1>1 DEF RoomFor
<1>2. CASE flight[r].do # "change"
  <2>1. flight[r].do \in {"issue", "revive"}
    BY <1>2 DEF Locking
  <2>2. flight[r].op \in Operator
    <3>1. flight[r].do = "issue" => flight[r].op \in Operator
      BY FlightHasShape DEF Base, Shaped, Shape
    <3>2. TaskOK(flight[r])
      BY DEF Base
    <3> QED
      BY <1>2, <3>1, <3>2 DEF TaskOK, Locking
  <2>3. PICK o \in Operator : o = flight[r].op
    BY <2>2
  <2>4. Shrinking(o) /\ unpaid'[o] >= unpaid[o]
    BY <1>2, <2>1, <2>3 DEF Holder, Locking
  <2>5. PICK is : is = flight[r].stale
    OBVIOUS
  <2>6. /\ Cardinality(MembersOf(o))' <= Cardinality(MembersOf(o))
        /\ Cardinality(Promised(o)' \ is) <= Cardinality(Promised(o) \ is)
        /\ Seats(o) \in Nat /\ Seats(o)' \in Nat /\ Seats(o)' <= Seats(o)
        /\ Cardinality(Promised(o)' \ is) \in Nat /\ Cardinality(MembersOf(o))' \in Nat
    BY <2>4, FewerSeats DEF Base
  <2>7. /\ Cardinality(MembersOf(o)) \in Nat
        /\ Cardinality(Promised(o) \ is) \in Nat
        /\ flight[r].within \in Nat /\ unpaid[o] \in Nat /\ unpaid'[o] \in Nat
    BY <2>1, SeatsAreNumbers, FlightHasShape DEF Base, TypeOK, Shaped, Shape
  <2>8. RoomFor(flight[r])
    BY DEF Room
  <2>9. CASE flight[r].do = "issue"
    BY <2>3, <2>4, <2>5, <2>6, <2>7, <2>8, <2>9 DEF RoomFor
  <2>10. CASE flight[r].do = "revive"
    BY <2>3, <2>4, <2>6, <2>7, <2>8, <2>10 DEF RoomFor
  <2> QED
    BY <2>1, <2>9, <2>10
<1> QED
  BY <1>1, <1>2

LEMMA FadingShrinks == TypeOK /\ InvitesFade /\ UNCHANGED member => Shrinks
BY FadingPromises DEF Shrinks, Shrinking, MembersOf

-----------------------------------------------------------------------------
(* Steps that leave memberships, roles and standing alone.                  *)

\* A request that neither creates an identity nor takes an operator's row.
Plain(t) == ~Attaching(t) /\ ~Locking(t)

LEMMA Facts ==
  ASSUME Inv
  PROVE  /\ TypeOK /\ Base /\ Shaped /\ People /\ Exclusive /\ ChangesGuarded /\ Newcomers /\ Room
         /\ \A s \in Slot : TaskOK(flight[s]) /\ Housed(flight[s]) /\ RoomFor(flight[s])
         /\ UNCHANGED invite => InvitesFade
         /\ \A i \in Invite : invite[i] # Absent => invite[i] \in Grant
         /\ \A i \in Invite : invite[i].state # "ABSENT" => invite[i] # Absent
BY FlightHasShape, SameInvitesFade, InvitesAreGrants DEF Inv, Base, People, Newcomers, Room

\* Plans may change beside a request at work: what it counted is what it remembers.
LEMMA PlanStep ==
  ASSUME Inv, UNCHANGED <<status, account, member, astray, recast, unpaid, bereft>>,
         limit' \in [Operator -> Limit], manager' \subseteq User, moves' \in 0..MaxMove, flight' \in [Slot -> Any], InvitesFade,
         \A r \in Slot :
           \/ flight'[r] = flight[r]
           \/ ~Attaching(flight[r]) /\ Plain(flight[r])' /\ TaskOK(flight[r])' /\ Housed(flight[r])'
  PROVE  Inv'
<1>1. TypeOK'
  BY DEF Inv, Base, TypeOK, InvitesFade, Any
<1>2. Base'
  <2>1. \A i \in Invite : invite[i] # Absent => invite'[i] # Absent
    BY InvitesAreGrants DEF Inv, Base, InvitesFade, Faded
  <2> QED
    BY <1>1, <2>1, BaseKept DEF Inv
<1>3. People'
  <2>1. \A i \in Invite : invite[i] # Absent => invite'[i].role = invite[i].role
    BY DEF InvitesFade, Faded
  <2> QED
    BY <2>1, PeopleKept DEF Inv, People, Plain
<1>4. Exclusive'
  BY ExclusiveKept DEF Inv, Plain
<1>5. ChangesGuarded'
  BY GuardsKept DEF Inv, Plain, Locking
<1>6. \A o \in Operator : /\ Shrinking(o) /\ unpaid'[o] >= unpaid[o]
                          /\ status'[o] = status[o] /\ MembersOf(o)' \subseteq MembersOf(o)
  <2> TAKE o \in Operator
  <2>1. MembersOf(o)' = MembersOf(o)
    BY DEF MembersOf
  <2>2. Promised(o)' \subseteq Promised(o)
    BY FadingPromises DEF Inv, Base
  <2>3. unpaid[o] \in Nat
    BY DEF Inv, Base, TypeOK
  <2> QED
    BY <2>1, <2>2, <2>3 DEF Shrinking
<1>7. Newcomers'
  BY <1>1, <1>6, NewcomersKept DEF Inv
<1>8. Room'
  BY <1>1, <1>6, RoomKept DEF Inv, Plain, Locking, RoomFor
<1> QED
  BY <1>2, <1>3, <1>4, <1>5, <1>7, <1>8 DEF Inv, People

LEMMA QuietStep ==
  ASSUME Inv, UNCHANGED <<status, limit, account, member, astray, recast, unpaid, bereft>>,
         manager' \subseteq User, moves' \in 0..MaxMove, flight' \in [Slot -> Any], InvitesFade,
         \A r \in Slot :
           \/ flight'[r] = flight[r]
           \/ ~Attaching(flight[r]) /\ Plain(flight[r])' /\ TaskOK(flight[r])' /\ Housed(flight[r])'
  PROVE  Inv'
<1>1. limit' \in [Operator -> Limit]
  BY Facts DEF TypeOK
<1> QED
  BY <1>1, PlanStep

LEMMA QuietTurn ==
  ASSUME Inv, UNCHANGED <<status, limit, account, member, astray, recast, unpaid, bereft>>,
         manager' \subseteq User, moves' \in 0..MaxMove, InvitesFade,
         NEW s \in Slot, ~Attaching(flight[s]),
         NEW t \in Any, flight' = [flight EXCEPT ![s] = t],
         Plain(t), TaskOK(t)', Housed(t)'
  PROVE  Inv'
<1>1. /\ flight' \in [Slot -> Any]
      /\ \A r \in Slot : flight'[r] = IF r = s THEN t ELSE flight[r]
  BY OneTask DEF Inv, Base
<1>2. \A r \in Slot : flight'[r] = t => Plain(flight[r])' /\ TaskOK(flight[r])' /\ Housed(flight[r])'
  BY DEF Plain, TaskOK, Housed, Attaching, Locking
<1> QED
  BY <1>1, <1>2, QuietStep

LEMMA AMove == ASSUME TypeOK, Move PROVE moves' \in 0..MaxMove
BY BoundAssumption DEF TypeOK, Move

LEMMA OnboardReadsStep == ASSUME Inv, NEW s \in Slot, NEW u \in User, OnboardReads(s, u) PROVE Inv'
<1> DEFINE stale == {i \in Invite : Pending(i) /\ invite[i].kind = "ONBOARDING"
                                    /\ invite[i].to = u}
<1>1. PICK t \in Any : t = [do |-> "onboard", who |-> u, stale |-> stale]
  BY DEF Any, Task
<1>2. /\ flight[s] = Idle /\ flight' = [flight EXCEPT ![s] = t] /\ Move
      /\ UNCHANGED <<status, limit, account, member, manager, astray, recast, unpaid, bereft, invite>>
  BY <1>1 DEF OnboardReads, Start, people, tenancy, history
<1>3. manager' \subseteq User /\ moves' \in 0..MaxMove
  BY <1>2, AMove, Facts DEF TypeOK
<1>4. Plain(t) /\ TaskOK(t)' /\ Housed(t)'
  BY <1>1 DEF Plain, Attaching, Locking, TaskOK, Housed
<1> QED
  BY <1>2, <1>3, <1>4, IdleOK, Facts, QuietTurn DEF Attaching

LEMMA MemberAsksStep ==
  ASSUME Inv, NEW s \in Slot, NEW o \in Operator, NEW u \in User, NEW role \in MemberRole,
         MemberAsks(s, o, u, role)
  PROVE  Inv'
<1> DEFINE t == [do |-> "ask", op |-> o, who |-> u, role |-> role]
<1>1. t \in Any /\ t.do = "ask" /\ t.op = o
  BY DEF Any, Task
<1>2. /\ flight[s] = Idle /\ flight' = [flight EXCEPT ![s] = t] /\ Move /\ status[o] = "VERIFIED"
      /\ UNCHANGED <<status, limit, account, member, manager, astray, recast, unpaid, bereft, invite>>
  BY DEF MemberAsks, Start, people, tenancy, history
<1> HIDE DEF t
<1>3. manager' \subseteq User /\ moves' \in 0..MaxMove
  BY <1>2, AMove, Facts DEF TypeOK
<1>4. Plain(t) /\ TaskOK(t)' /\ Housed(t)'
  BY <1>1, <1>2 DEF Plain, Attaching, Locking, TaskOK, Housed
<1> QED
  BY <1>1, <1>2, <1>3, <1>4, IdleOK, Facts, QuietTurn DEF Attaching

LEMMA ResendReadsStep ==
  ASSUME Inv, NEW s \in Slot, NEW i \in Invite, ResendReads(s, i) PROVE Inv'
<1>1. invite[i] \in Grant /\ invite[i] # Absent
  BY Facts DEF ResendReads
<1>0. PICK free \in BOOLEAN :
        free = (invite[i].kind = "ONBOARDING" \/ (Pending(i) /\ invite[i].live))
  OBVIOUS
<1>2. PICK t \in Any : /\ t = [do |-> "resend", id |-> i, link |-> invite[i].link,
                               op |-> invite[i].op, unlocked |-> free]
                       /\ t.do = "resend" /\ t.op = invite[i].op /\ t.id = i
                       /\ t.link = invite[i].link /\ (t.unlocked <=> free)
  <2> DEFINE x == [do |-> "resend", id |-> i, link |-> invite[i].link, op |-> invite[i].op,
                   unlocked |-> free]
  <2>1. x \in Any
    BY <1>1 DEF Any, Task, Grant
  <2>2. /\ x.do = "resend" /\ x.op = invite[i].op /\ x.id = i
        /\ x.link = invite[i].link /\ (x.unlocked <=> free)
    OBVIOUS
  <2> QED
    BY <2>1, <2>2
<1>3. /\ flight[s] = Idle /\ flight' = [flight EXCEPT ![s] = t] /\ Move
      /\ invite[i].link < MaxLink /\ (invite[i].kind = "MEMBER" => invite[i].op # None)
      /\ UNCHANGED <<status, limit, account, member, manager, astray, recast, unpaid, bereft, invite>>
  BY <1>0, <1>2 DEF ResendReads, Start, people, tenancy, history
<1>4. manager' \subseteq User /\ moves' \in 0..MaxMove
  BY <1>3, AMove, Facts DEF TypeOK
<1>5. invite[i].op # None => invite[i].op \in Operator /\ status[invite[i].op] # "NONE"
  BY <1>1, Facts DEF Newcomers, Grant
<1>6. invite[i].kind \in {"ONBOARDING", "MEMBER"}
  BY <1>1 DEF Grant
<1>7. Plain(t) /\ TaskOK(t)'
  BY <1>0, <1>1, <1>2, <1>3, <1>5, <1>6 DEF Plain, Attaching, Locking, TaskOK
<1>8. Housed(t)'
  BY <1>2, <1>3, <1>5, <1>6, HomeAssumption DEF Housed
<1> QED
  BY <1>2, <1>3, <1>4, <1>7, <1>8, IdleOK, Facts, QuietTurn DEF Attaching

LEMMA DoneQuietly ==
  ASSUME Inv, NEW s \in Slot, ~Attaching(flight[s]), Done(s), InvitesFade, manager' \subseteq User,
         UNCHANGED <<status, limit, account, member, astray, recast, unpaid, bereft>>
  PROVE  Inv'
<1>1. flight' = [flight EXCEPT ![s] = Idle] /\ moves' \in 0..MaxMove
  BY Facts DEF Done, Go, TypeOK
<1>2. Plain(Idle) /\ TaskOK(Idle)' /\ Housed(Idle)'
  BY IdleOK DEF Plain, Attaching, Locking, TaskOK, Housed
<1> QED
  BY <1>1, <1>2, IdleOK, QuietTurn

\* What SetState does to the invites it names.
Restated(is, to, v) ==
  /\ v \in [Invite -> Grant \cup {Absent}]
  /\ \A i \in Invite : invite[i] = Absent => v[i] = Absent
  /\ \A i \in Invite : invite[i] # Absent =>
       /\ v[i] \in Grant /\ v[i].kind = invite[i].kind /\ v[i].role = invite[i].role
       /\ v[i].op = invite[i].op /\ v[i].live = invite[i].live /\ v[i].link = invite[i].link
       /\ v[i].state = IF i \in is /\ Pending(i) THEN to ELSE invite[i].state

LEMMA SetStateRestates ==
  ASSUME TypeOK, NEW is, NEW to \in {"ACCEPTED", "EXPIRED", "REVOKED"}
  PROVE  Restated(is, to, SetState(is, "PENDING", to))
<1>1. \A i \in Invite : invite[i] # Absent =>
        LET g == [invite[i] EXCEPT !.state = to]
        IN /\ g \in Grant /\ g.kind = invite[i].kind /\ g.role = invite[i].role
           /\ g.op = invite[i].op /\ g.live = invite[i].live /\ g.link = invite[i].link
           /\ g.state = to
  BY InvitesAreGrants DEF Grant
<1>2. \A i \in Invite : invite[i] = Absent => invite[i].state # "PENDING"
  BY InvitesAreGrants
<1> QED
  BY <1>1, <1>2, InvitesAreGrants DEF Restated, SetState, Pending

LEMMA RestatedFade ==
  ASSUME TypeOK, NEW is, NEW to \in {"ACCEPTED", "EXPIRED", "REVOKED"}, Restated(is, to, invite')
  PROVE  InvitesFade
BY InvitesAreGrants DEF Restated, InvitesFade, Faded, Pending

LEMMA LapseStep == ASSUME Inv, NEW i \in Invite, Lapse(i) PROVE Inv' /\ Shrinks
<1> DEFINE x == [invite[i] EXCEPT !.live = FALSE]
<1>1. TypeOK /\ invite[i] \in Grant /\ invite[i] # Absent
  BY Facts DEF Lapse
<1>2. /\ x \in Grant /\ x.kind = invite[i].kind /\ x.role = invite[i].role
      /\ x.op = invite[i].op /\ ~x.live
  BY <1>1 DEF Grant
<1>3. invite' = [invite EXCEPT ![i] = x]
      /\ UNCHANGED <<status, limit, account, member, manager, astray, recast, unpaid, bereft, flight, moves>>
  BY <1>1 DEF Lapse, people, tenancy, history
<1> HIDE DEF x
<1>4. InvitesFade
  <2>1. \A j \in Invite : invite'[j] = IF j = i THEN x ELSE invite[j]
    BY <1>1, <1>3 DEF TypeOK
  <2>2. invite' \in [Invite -> Grant \cup {Absent}]
    BY <1>1, <1>2, <1>3 DEF TypeOK
  <2>3. \A j \in Invite : invite[j] # Absent => Faded(invite[j], invite'[j])
    BY <1>1, <1>2, <2>1, Facts DEF Faded
  <2> QED
    BY <1>1, <2>1, <2>2, <2>3, Facts DEF InvitesFade
<1> QED
  BY <1>1, <1>3, <1>4, QuietStep, FadingShrinks DEF TypeOK, Any

LEMMA RevokeStep == ASSUME Inv, NEW s \in Slot, NEW i \in Invite, Revoke(s, i) PROVE Inv' /\ Shrinks
<1>1. TypeOK /\ invite[i] \in Grant
  BY Facts DEF Revoke, Pending
<1>2. InvitesFade
  BY <1>1, SetStateRestates, RestatedFade DEF Revoke
<1>3. /\ UNCHANGED <<status, limit, account, member, manager, astray, recast, unpaid, bereft>>
      /\ manager' \subseteq User /\ moves' \in 0..MaxMove
  BY <1>1, AMove DEF Revoke, people, tenancy, history, TypeOK, Start
<1>4. Shrinks
  BY <1>1, <1>2, FadingShrinks DEF Revoke, people
<1>5. CASE UNCHANGED flight
  BY <1>1, <1>2, <1>3, <1>4, <1>5, QuietStep DEF TypeOK, Any
<1>6. CASE ~ UNCHANGED flight
  <2>1. PICK o \in Operator : o = invite[i].op
    BY <1>1, <1>6 DEF Revoke, Grant
  <2>2. PICK t \in Any : t = [do |-> "shell", op |-> o]
    BY DEF Any, Task
  <2>3. flight[s] = Idle /\ flight' = [flight EXCEPT ![s] = t]
    BY <1>6, <2>1, <2>2 DEF Revoke, Start
  <2>4. Plain(t) /\ TaskOK(t)' /\ Housed(t)'
    BY <2>2 DEF Plain, Attaching, Locking, TaskOK, Housed
  <2> QED
    BY <1>2, <1>3, <1>4, <2>2, <2>3, <2>4, IdleOK, QuietTurn DEF Attaching
<1> QED
  BY <1>5, <1>6

LEMMA RevokeLooksStep == ASSUME Inv, NEW s \in Slot, RevokeLooks(s) PROVE Inv'
<1>1. /\ TypeOK /\ flight[s].do = "shell" /\ ~Attaching(flight[s]) /\ InvitesFade
      /\ UNCHANGED <<status, limit, account, member, manager, astray, recast, unpaid, bereft>>
      /\ manager' \subseteq User
  BY Facts DEF RevokeLooks, people, tenancy, history, Attaching, TypeOK
<1>2. CASE Done(s)
  BY <1>1, <1>2, DoneQuietly
<1>3. CASE ~Done(s)
  <2>1. PICK o \in Operator : o = flight[s].op
    BY <1>1, Facts DEF Shaped, Shape
  <2>2. PICK t \in Any : t = [do |-> "raze", op |-> o]
    BY DEF Any, Task
  <2>3. flight' = [flight EXCEPT ![s] = t] /\ moves' \in 0..MaxMove
    BY <1>1, <1>3, <2>1, <2>2 DEF RevokeLooks, Go, TypeOK
  <2>4. Plain(t) /\ TaskOK(t)' /\ Housed(t)'
    BY <2>2 DEF Plain, Attaching, Locking, TaskOK, Housed
  <2> QED
    BY <1>1, <2>2, <2>3, <2>4, QuietTurn
<1> QED
  BY <1>2, <1>3

LEMMA AcceptFindsLapsedStep ==
  ASSUME Inv, NEW s \in Slot, NEW i \in Invite, AcceptFindsLapsed(s, i) PROVE Inv'
<1>1. PICK t \in Any : t = [do |-> "heal", id |-> i]
  BY DEF Any, Task
<1>2. /\ flight[s] = Idle /\ flight' = [flight EXCEPT ![s] = t] /\ Move
      /\ UNCHANGED <<status, limit, account, member, manager, astray, recast, unpaid, bereft, invite>>
  BY <1>1 DEF AcceptFindsLapsed, Start, people, tenancy, history
<1>3. manager' \subseteq User /\ moves' \in 0..MaxMove /\ invite[i] # Absent
  BY <1>2, AMove, Facts DEF TypeOK, AcceptFindsLapsed, Pending
<1>4. Plain(t) /\ TaskOK(t)' /\ Housed(t)'
  BY <1>1, <1>2, <1>3 DEF Plain, Attaching, Locking, TaskOK, Housed
<1> QED
  BY <1>2, <1>3, <1>4, IdleOK, Facts, QuietTurn DEF Attaching

LEMMA AcceptHealsStep == ASSUME Inv, NEW s \in Slot, AcceptHeals(s) PROVE Inv' /\ Shrinks
<1>1. PICK i \in Invite : i = flight[s].id
  BY Facts DEF AcceptHeals, Shaped, Shape
<1> DEFINE x == [invite[i] EXCEPT !.state = "EXPIRED"]
<1>2. TypeOK /\ invite[i] \in Grant /\ invite[i] # Absent /\ flight[s].do = "heal"
  BY <1>1, Facts DEF AcceptHeals, TaskOK
<1>3. /\ x \in Grant /\ x.kind = invite[i].kind /\ x.role = invite[i].role
      /\ x.op = invite[i].op /\ x.state = "EXPIRED"
  BY <1>2 DEF Grant
<1>4. /\ invite' = [invite EXCEPT ![i] = x] /\ Done(s)
      /\ UNCHANGED <<status, limit, account, member, manager, astray, recast, unpaid, bereft>>
  BY <1>1, <1>2 DEF AcceptHeals, people, tenancy, history
<1> HIDE DEF x
<1>5. InvitesFade
  <2>1. \A j \in Invite : invite'[j] = IF j = i THEN x ELSE invite[j]
    BY <1>2, <1>4 DEF TypeOK
  <2>2. invite' \in [Invite -> Grant \cup {Absent}]
    BY <1>2, <1>3, <1>4 DEF TypeOK
  <2>3. \A j \in Invite : invite[j] # Absent => Faded(invite[j], invite'[j])
    BY <1>2, <1>3, <2>1, Facts DEF Faded
  <2> QED
    BY <1>2, <2>1, <2>2, <2>3, Facts DEF InvitesFade
<1> QED
  BY <1>2, <1>4, <1>5, DoneQuietly, FadingShrinks DEF Attaching, TypeOK

LEMMA ManagersValidateStep ==
  ASSUME Inv, NEW s \in Slot, NEW us \in SUBSET User, ManagersValidate(s, us) PROVE Inv'
<1>1. PICK t \in Any : t = [do |-> "manage", add |-> us \ manager, drop |-> manager \ us]
  <2>1. us \ manager \in SUBSET User /\ manager \ us \in SUBSET User
    BY Facts DEF TypeOK
  <2> QED
    BY <2>1 DEF Any, Task
<1>2. /\ flight[s] = Idle /\ flight' = [flight EXCEPT ![s] = t] /\ Move
      /\ UNCHANGED <<status, limit, account, member, manager, astray, recast, unpaid, bereft, invite>>
  BY <1>1 DEF ManagersValidate, Start, people, tenancy, history
<1>3. manager' \subseteq User /\ moves' \in 0..MaxMove
  BY <1>2, AMove, Facts DEF TypeOK
<1>4. Plain(t) /\ TaskOK(t)' /\ Housed(t)'
  BY <1>1 DEF Plain, Attaching, Locking, TaskOK, Housed
<1> QED
  BY <1>2, <1>3, <1>4, IdleOK, Facts, QuietTurn DEF Attaching

LEMMA ManagersWriteStep == ASSUME Inv, NEW s \in Slot, ManagersWrite(s) PROVE Inv'
<1>1. /\ flight[s].do = "manage" /\ Done(s) /\ TypeOK /\ InvitesFade
      /\ UNCHANGED <<status, limit, account, member, astray, recast, unpaid, bereft>>
  BY Facts DEF ManagersWrite, tenancy, history
<1>2. manager' \subseteq User
  BY <1>1, Facts DEF ManagersWrite, TypeOK, Shaped, Shape
<1> QED
  BY <1>1, <1>2, DoneQuietly DEF Attaching

LEMMA RolesFollowRanks ==
  ASSUME TypeOK, NEW u \in User
  PROVE  RankOf(u) \in Rank /\ RoleFor(RankOf(u)) \in {"USER", "STAFF", "ADMIN"}
BY DEF RankOf, RankIn, RoleFor, Rank, MemberRole

LEMMA AssignReadsStep ==
  ASSUME Inv, NEW s \in Slot, NEW u \in User, NEW asked \in {"PLATFORM", "USER"},
         AssignReads(s, u, asked)
  PROVE  Inv'
<1>1. PICK role \in Account : role = IF asked = "PLATFORM" THEN "PLATFORM" ELSE RoleFor(RankOf(u))
  BY RolesFollowRanks, Facts DEF Account
<1>2. PICK rank \in Rank : rank = RankOf(u)
  BY RolesFollowRanks, Facts
<1>3. PICK t \in Any : t = [do |-> "assign", who |-> u, role |-> role, saw |-> rank]
  BY DEF Any, Task
<1>4. /\ flight[s] = Idle /\ flight' = [flight EXCEPT ![s] = t] /\ Move
      /\ UNCHANGED <<status, limit, account, member, manager, astray, recast, unpaid, bereft, invite>>
  BY <1>1, <1>2, <1>3 DEF AssignReads, Start, people, tenancy, history
<1>5. manager' \subseteq User /\ moves' \in 0..MaxMove
  BY <1>4, AMove, Facts DEF TypeOK
<1>6. Plain(t) /\ TaskOK(t)' /\ Housed(t)'
  BY <1>1, <1>2, <1>3 DEF Plain, Attaching, Locking, TaskOK, Housed
<1> QED
  BY <1>4, <1>5, <1>6, IdleOK, Facts, QuietTurn DEF Attaching

-----------------------------------------------------------------------------
(* Steps that take an operator's row.                                       *)

LEMMA SameSeats ==
  ASSUME UNCHANGED <<member, invite>>
  PROVE  \A o : /\ MembersOf(o)' = MembersOf(o) /\ Promised(o)' = Promised(o)
                /\ Seats(o)' = Seats(o) /\ Admins(o)' = Admins(o)
BY DEF MembersOf, Promised, Pending, Seats, Admins

LEMMA LockTurn ==
  ASSUME Inv, UNCHANGED <<status, limit, account, member, manager, astray, recast, invite, unpaid, bereft>>,
         moves' \in 0..MaxMove, NEW s \in Slot, ~Attaching(flight[s]),
         NEW t \in Any, flight' = [flight EXCEPT ![s] = t], ~Attaching(t),
         TaskOK(t), Housed(t), RowFree(t.op), RoomFor(t), t.do = "change" => Guarded(t)
  PROVE  Inv'
<1>1. /\ flight' \in [Slot -> Any]
      /\ \A r \in Slot : flight'[r] = IF r = s THEN t ELSE flight[r]
  BY OneTask, Facts
<1>2. TypeOK'
  BY <1>1, Facts DEF TypeOK, Any
<1>3. Base'
  <2>1. TaskOK(flight[s])'
    BY <1>1 DEF TaskOK
  <2> QED
    BY <1>1, <1>2, <2>1, BaseKept, Facts
<1>4. People'
  BY <1>1, PeopleKept, Facts
<1>5. Exclusive'
  <2>1. \A r \in Slot, o \in Operator : r # s /\ Holder(flight'[r], o) => o # t.op
    BY <1>1, ALockIsHeld
  <2>2. \A o \in Operator : Holder(flight'[s], o) => o = t.op
    BY <1>1 DEF Holder
  <2> QED
    BY <1>1, <2>1, <2>2, Facts DEF Exclusive
<1>6. ChangesGuarded'
  <2>1. ASSUME NEW r \in Slot, flight'[r].do = "change" PROVE Guarded(flight[r])'
    <3>1. Guarded(flight'[r])
      BY <1>1, <2>1, Facts DEF ChangesGuarded
    <3>2. UNCHANGED <<status, member, bereft>> /\ \A o : Admins(o)' = Admins(o)
      BY SameSeats
    <3> QED
      BY <3>1, <3>2 DEF Guarded
  <2> QED
    BY <2>1 DEF ChangesGuarded
<1>7. Newcomers'
  <2>1. Housed(flight[s])'
    BY <1>1 DEF Housed
  <2>2. \A o \in Operator : status'[o] = status[o] /\ MembersOf(o)' \subseteq MembersOf(o)
    BY SameSeats
  <2> QED
    BY <1>1, <1>2, <2>1, <2>2, NewcomersKept, Facts
<1>8. Room'
  <2>1. ASSUME NEW r \in Slot PROVE RoomFor(flight[r])'
    <3>1. RoomFor(flight'[r])
      BY <1>1, Facts
    <3>2. UNCHANGED <<limit, unpaid>>
          /\ \A o : MembersOf(o)' = MembersOf(o) /\ Promised(o)' = Promised(o) /\ Seats(o)' = Seats(o)
      BY SameSeats
    <3> QED
      BY <3>1, <3>2 DEF RoomFor
  <2> QED
    BY <2>1 DEF Room
<1> QED
  BY <1>3, <1>4, <1>5, <1>6, <1>7, <1>8 DEF Inv, People

LEMMA MemberCountsStep == ASSUME Inv, NEW s \in Slot, MemberCounts(s) PROVE Inv'
<1> DEFINE stale == {i \in Invite : Pending(i) /\ invite[i].kind = "MEMBER"
                                    /\ invite[i].op = flight[s].op /\ invite[i].to = flight[s].who}
           seats == Cardinality(MembersOf(flight[s].op)) + Cardinality(Promised(flight[s].op) \ stale)
<1>1. /\ flight[s].do = "ask" /\ RowFree(flight[s].op) /\ ~Attaching(flight[s])
      /\ UNCHANGED <<status, limit, account, member, manager, astray, recast, invite, unpaid, bereft>>
  BY DEF MemberCounts, people, tenancy, history, Attaching
<1>2. CASE Done(s)
  BY <1>1, <1>2, DoneQuietly, Facts DEF TypeOK
<1>3. CASE ~Done(s)
  <2>1. PICK o \in Operator, u \in User, role \in MemberRole, is \in SUBSET Invite :
          o = flight[s].op /\ u = flight[s].who /\ role = flight[s].role /\ is = stale
    BY <1>1, Facts DEF Shaped, Shape
  <2>0. PICK quota \in Limit : quota = limit[o]
    BY Facts DEF TypeOK
  <2>2. PICK t \in Any : t = [do |-> "issue", op |-> o, who |-> u, role |-> role, stale |-> is,
                             within |-> quota]
    BY DEF Any, Task
  <2>3. seats < limit[o] /\ flight' = [flight EXCEPT ![s] = t] /\ moves' \in 0..MaxMove
    BY <1>1, <1>3, <2>0, <2>1, <2>2, Facts DEF MemberCounts, Go, TypeOK
  <2>4. status[o] \notin {"NONE", "PENDING"}
    BY <1>1, <2>1, Facts DEF Housed
  <2>5. ~Attaching(t) /\ TaskOK(t) /\ Housed(t) /\ RowFree(t.op)
    BY <1>1, <2>1, <2>2, <2>4 DEF Attaching, TaskOK, Housed
  <2>6. RoomFor(t)
    <3>1. t.do = "issue" /\ t.op = o /\ t.stale = is /\ t.within = limit[o]
      BY <2>0, <2>2
    <3>2. seats = Cardinality(MembersOf(o)) + Cardinality(Promised(o) \ is)
      BY <2>1
    <3>3. seats \in Nat /\ limit[o] \in Nat /\ unpaid[o] \in Nat
      <4>1. /\ Cardinality(MembersOf(o)) \in Nat /\ Cardinality(Promised(o) \ is) \in Nat
            /\ limit[o] \in Nat /\ unpaid[o] \in Nat
        BY SeatsAreNumbers, Facts
      <4> QED
        BY <3>2, <4>1
    <3> HIDE DEF seats
    <3>4. seats < limit[o] + unpaid[o]
      BY <2>3, <3>3
    <3> QED
      BY <3>1, <3>2, <3>4 DEF RoomFor
  <2> QED
    BY <1>1, <2>2, <2>3, <2>5, <2>6, LockTurn
<1> QED
  BY <1>2, <1>3

LEMMA ResendCountsStep == ASSUME Inv, NEW s \in Slot, ResendCounts(s) PROVE Inv'
<1>1. /\ flight[s].do = "resend" /\ ~Attaching(flight[s])
      /\ UNCHANGED <<status, limit, account, member, manager, astray, recast, invite, unpaid, bereft>>
  BY DEF ResendCounts, people, tenancy, history, Attaching
<1>2. CASE Done(s)
  BY <1>1, <1>2, DoneQuietly, Facts DEF TypeOK
<1>3. CASE ~Done(s)
  <2>1. PICK i \in Invite, link \in 1..MaxLink, o \in Operator \cup {None}, free \in BOOLEAN :
          /\ i = flight[s].id /\ link = flight[s].link /\ o = flight[s].op
          /\ free = flight[s].unlocked
    BY <1>1, Facts DEF Shaped, Shape
  <2>2. PICK quota \in Limit \cup {0} : quota = IF free THEN 0 ELSE limit[o]
    <3>1. ~free => o \in Operator
      BY <1>1, <2>1, Facts DEF TaskOK
    <3> QED
      BY <3>1, Facts DEF TypeOK
  <2>3. PICK t \in Any : t = [do |-> "revive", id |-> i, link |-> link, op |-> o,
                             unlocked |-> free, within |-> quota]
    BY DEF Any, Task
  <2>4. /\ free \/ (HasSeat(o) /\ RowFree(o))
        /\ flight' = [flight EXCEPT ![s] = t] /\ moves' \in 0..MaxMove
    BY <1>1, <1>3, <2>1, <2>2, <2>3, Facts DEF ResendCounts, Go, TypeOK
  <2>5. TaskOK(flight[s]) /\ Housed(flight[s])
    BY Facts
  <2>6. ~Attaching(t) /\ TaskOK(t) /\ Housed(t)
    BY <1>1, <2>1, <2>3, <2>5 DEF Attaching, TaskOK, Housed
  <2>7. CASE free
    <3>1. Plain(t) /\ TaskOK(t)' /\ Housed(t)'
      BY <1>1, <2>3, <2>6, <2>7 DEF Plain, Locking, TaskOK, Housed
    <3> QED
      BY <1>1, <2>3, <2>4, <3>1, QuietTurn, Facts DEF TypeOK
  <2>8. CASE ~free
    <3>1. o \in Operator
      BY <1>1, <2>1, <2>5, <2>8 DEF TaskOK
    <3>2. RoomFor(t)
      <4>1. Seats(o) \in Nat /\ limit[o] \in Nat /\ unpaid[o] \in Nat /\ Seats(o) < limit[o]
        BY <2>4, <2>8, <3>1, SeatsAreNumbers, Facts DEF Seats, HasSeat
      <4>2. Seats(o) < limit[o] + unpaid[o]
        BY <4>1
      <4> QED
        BY <2>2, <2>3, <2>8, <4>2 DEF RoomFor
    <3> QED
      BY <1>1, <2>3, <2>4, <2>6, <2>8, <3>2, LockTurn
  <2> QED
    BY <2>7, <2>8
<1> QED
  BY <1>2, <1>3

LEMMA ChangeReadsStep ==
  ASSUME Inv, NEW s \in Slot, NEW o \in Operator, NEW u \in User, NEW rank \in Rank,
         ChangeReads(s, o, u, rank)
  PROVE  Inv'
<1>1. PICK saw \in Account : saw = account[u]
  BY Facts DEF TypeOK
<1>2. PICK t \in Any : t = [do |-> "change", op |-> o, who |-> u, role |-> rank, saw |-> saw]
  BY DEF Any, Task
<1>3. /\ flight[s] = Idle /\ flight' = [flight EXCEPT ![s] = t] /\ Move /\ RowFree(o)
      /\ member[o][u] = "ADMIN" => KeepsAnAdmin(o, u)
      /\ UNCHANGED <<status, limit, account, member, manager, astray, recast, unpaid, bereft, invite>>
  BY <1>1, <1>2 DEF ChangeReads, Start, people, tenancy, history
<1>4. moves' \in 0..MaxMove
  BY <1>3, AMove, Facts
<1>5. /\ ~Attaching(t) /\ TaskOK(t) /\ Housed(t) /\ RowFree(t.op) /\ RoomFor(t)
  BY <1>2, <1>3 DEF Attaching, TaskOK, Housed, RoomFor
<1>6. Guarded(t)
  BY <1>2, <1>3 DEF Guarded, KeepsAnAdmin
<1> QED
  BY <1>3, <1>4, <1>5, <1>6, LockTurn, IdleOK DEF Attaching

-----------------------------------------------------------------------------
(* Steps that write an account's role.                                      *)

LEMMA SameMembers ==
  ASSUME UNCHANGED member
  PROVE  \A u : /\ HomesOf(u)' = HomesOf(u) /\ RankOf(u)' = RankOf(u)
                /\ \A o : MembersOf(o)' = MembersOf(o) /\ Admins(o)' = Admins(o)
BY DEF HomesOf, RankOf, RankIn, MembersOf, Admins

LEMMA FreshProvisions ==
  ASSUME TypeOK, NEW u \in User
  PROVE  Provisioning(u) <=> \E s \in Slot : FreshAt(s, u)
BY DEF Provisioning, FreshAt

LEMMA AccountTurn ==
  ASSUME Inv, UNCHANGED <<status, limit, member, manager, invite, unpaid, bereft>>,
         account' \in [User -> Account], astray' \subseteq User, recast' \subseteq astray',
         moves' \in 0..MaxMove,
         flight' \in [Slot -> Any], People',
         \A r \in Slot : \/ flight'[r] = flight[r]
                         \/ ~Locking(flight[r])' /\ TaskOK(flight[r])' /\ Housed(flight[r])'
  PROVE  Inv'
<1>1. TypeOK'
  BY Facts DEF TypeOK, Any
<1>2. Base'
  BY <1>1, BaseKept, Facts
<1>3. Exclusive'
  BY ExclusiveKept, Facts
<1>4. ChangesGuarded'
  BY GuardsKept, Facts DEF Locking
<1>5. \A o \in Operator : /\ Shrinking(o) /\ limit'[o] = limit[o] /\ unpaid'[o] >= unpaid[o]
                          /\ status'[o] = status[o] /\ MembersOf(o)' \subseteq MembersOf(o)
  <2> TAKE o \in Operator
  <2>1. unpaid[o] \in Nat
    BY Facts DEF TypeOK
  <2> QED
    BY <2>1, SameSeats DEF Shrinking
<1>6. Newcomers'
  BY <1>1, <1>5, NewcomersKept, Facts
<1>7. Room'
  BY <1>1, <1>5, RoomKept, Facts DEF Locking, RoomFor
<1> QED
  BY <1>2, <1>3, <1>4, <1>6, <1>7 DEF Inv, People

LEMMA ProvisionStep ==
  ASSUME Inv, UNCHANGED <<status, limit, member, manager, astray, recast, invite, unpaid, bereft>>,
         moves' \in 0..MaxMove, NEW s \in Slot, ~Attaching(flight[s]),
         NEW t \in Any, flight' = [flight EXCEPT ![s] = t], t.do \in {"accept", "register"},
         NEW u \in User, NEW role \in MemberRole, Provision(u, role),
         t.who = u, t.fresh = (account[u] = "FREE"), Granted(t) = role, TaskOK(t), Housed(t)
  PROVE  Inv'
<1>1. /\ flight' \in [Slot -> Any]
      /\ \A r \in Slot : flight'[r] = IF r = s THEN t ELSE flight[r]
  BY OneTask, Facts
<1>2. TaskOK(t)' /\ Housed(t)' /\ ~Locking(t)
  BY DEF TaskOK, Housed, Locking
<1>3. \A r \in Slot : \/ flight'[r] = flight[r]
                      \/ ~Locking(flight[r])' /\ TaskOK(flight[r])' /\ Housed(flight[r])'
  BY <1>1, <1>2 DEF TaskOK, Housed, Locking
<1>4. account' \in [User -> Account]
  BY Facts DEF Provision, TypeOK, MemberRole, Account
<1>5. People'
  <2>1. CASE account[u] # "FREE"
    <3>1. account' = account /\ ~Attaching(t)
      BY <2>1 DEF Provision, Attaching
    <3> QED
      BY <1>1, <3>1, PeopleKept, Facts
  <2>2. CASE account[u] = "FREE"
    <3>1. \A v \in User : account'[v] = IF v = u THEN role ELSE account[v]
      BY <2>2, Facts DEF Provision, TypeOK
    <3>2. \A r \in Slot, v \in User :
            FreshAt(r, v)' <=> IF r = s THEN v = u ELSE FreshAt(r, v)
      BY <1>1, <2>2 DEF FreshAt
    <3>3. \A r \in Slot : ~FreshAt(r, u)
      BY <2>2, Facts DEF People, Identities
    <3>4. \A r \in Slot, v \in User : r # s /\ FreshAt(r, v)
            => Granted(flight[r])' = Granted(flight[r])
      BY <1>1 DEF Granted
    <3>5. Granted(flight[s])' = role
      BY <1>1 DEF Granted
    <3>6. \A v \in User : v # u => (Provisioning(v)' <=> Provisioning(v))
      BY <1>1, <3>2 DEF Provisioning, FreshAt, Attaching
    <3>7. Provisioning(u)'
      BY <1>1, <2>2 DEF Provisioning
    <3>8. Identities'
      <4>1. role # "FREE"
        BY DEF MemberRole
      <4>2. \A r \in Slot, v \in User : FreshAt(r, v)' => account'[v] # "FREE"
        BY <3>1, <3>2, <4>1, Facts DEF People, Identities
      <4>3. \A q, r \in Slot, v \in User : FreshAt(q, v)' /\ FreshAt(r, v)' => q = r
        BY <3>2, <3>3, Facts DEF People, Identities
      <4>4. \A r \in Slot, v \in User \ recast :
              FreshAt(r, v)' => HomesOf(v)' = {} /\ account'[v] = Granted(flight[r])'
        <5> SUFFICES ASSUME NEW r \in Slot, NEW v \in User \ recast, FreshAt(r, v)'
                     PROVE  HomesOf(v)' = {} /\ account'[v] = Granted(flight[r])'
          OBVIOUS
        <5>1. CASE r = s
          BY <2>2, <3>1, <3>2, <3>5, <5>1, SameMembers, Facts DEF People, Identities
        <5>2. CASE r # s
          BY <3>1, <3>2, <3>3, <3>4, <5>2, SameMembers, Facts DEF People, Identities
        <5> QED
          BY <5>1, <5>2
      <4>5. \A v \in User \ recast : account'[v] = "FREE" => HomesOf(v)' = {}
        BY <3>1, <4>1, SameMembers, Facts DEF People, Identities
      <4> QED
        BY <4>2, <4>3, <4>4, <4>5 DEF Identities
    <3>9. OneHome'
      BY SameMembers, Facts DEF People, OneHome
    <3>10. RoleFollowsMembership'
      BY <3>1, <3>6, <3>7, SameMembers, Facts DEF People, RoleFollowsMembership
    <3> QED
      BY <3>8, <3>9, <3>10 DEF People
  <2> QED
    BY <2>1, <2>2
<1> QED
  BY <1>1, <1>3, <1>4, <1>5, AccountTurn, Facts DEF TypeOK

LEMMA AcceptProvisionsStep ==
  ASSUME Inv, NEW s \in Slot, NEW i \in Invite, AcceptProvisions(s, i) PROVE Inv'
<1>1. /\ TypeOK /\ invite[i] \in Grant /\ invite[i] # Absent
      /\ invite[i].op # None
  BY Facts DEF AcceptProvisions, Pending
<1>2. PICK o \in Operator, u \in User, role \in MemberRole, link \in 1..MaxLink :
        o = invite[i].op /\ u = invite[i].to /\ role = invite[i].role /\ link = invite[i].link
  BY <1>1 DEF Grant
<1>3. PICK fresh \in BOOLEAN : fresh = (account[u] = "FREE")
  OBVIOUS
<1>4. PICK t \in Any : t = [do |-> "accept", id |-> i, link |-> link, op |-> o, who |-> u,
                            fresh |-> fresh]
  BY DEF Any, Task
<1>5. /\ flight[s] = Idle /\ flight' = [flight EXCEPT ![s] = t] /\ Move /\ Provision(u, role)
      /\ UNCHANGED <<status, limit, member, manager, astray, recast, invite, unpaid, bereft>>
  BY <1>2, <1>3, <1>4 DEF AcceptProvisions, Start, tenancy, history
<1>6. moves' \in 0..MaxMove
  BY <1>5, AMove, Facts
<1>7. status[o] # "NONE"
  BY <1>1, <1>2, Facts DEF Newcomers
<1>8. Granted(t) = role /\ TaskOK(t) /\ Housed(t)
  BY <1>1, <1>2, <1>4, <1>7 DEF Granted, TaskOK, Housed
<1> QED
  BY <1>3, <1>4, <1>5, <1>6, <1>8, ProvisionStep, IdleOK DEF Attaching

LEMMA RegisterProvisionsStep ==
  ASSUME Inv, NEW s \in Slot, NEW u \in User, RegisterProvisions(s, u) PROVE Inv'
<1>1. PICK fresh \in BOOLEAN : fresh = (account[u] = "FREE")
  OBVIOUS
<1>2. PICK t \in Any : t = [do |-> "register", who |-> u, fresh |-> fresh]
  BY DEF Any, Task
<1>3. /\ flight[s] = Idle /\ flight' = [flight EXCEPT ![s] = t] /\ Move /\ Provision(u, "ADMIN")
      /\ UNCHANGED <<status, limit, member, manager, astray, recast, invite, unpaid, bereft>>
  BY <1>1, <1>2 DEF RegisterProvisions, Start, tenancy, history
<1>4. moves' \in 0..MaxMove
  BY <1>3, AMove, Facts
<1>5. Granted(t) = "ADMIN" /\ TaskOK(t) /\ Housed(t) /\ "ADMIN" \in MemberRole
  BY <1>2 DEF Granted, TaskOK, Housed, MemberRole
<1> QED
  BY <1>1, <1>2, <1>3, <1>4, <1>5, ProvisionStep, IdleOK DEF Attaching

LEMMA WithdrawFresh ==
  ASSUME Inv, NEW s \in Slot, flight[s].do \in {"accept", "register"}, flight[s].fresh, Withdraw(s),
         UNCHANGED <<status, limit, member, manager, astray, recast, invite, unpaid, bereft>>
  PROVE  Inv'
<1>1. PICK u \in User : u = flight[s].who
  BY Facts DEF Shaped, Shape
<1>2. /\ account' = [account EXCEPT ![u] = "FREE"] /\ UNCHANGED moves
      /\ flight' = [r \in Slot |-> IF r = s \/ (flight[r].do = "assign" /\ flight[r].who = u)
                                   THEN Idle ELSE flight[r]]
  BY <1>1 DEF Withdraw
<1>3. /\ account' \in [User -> Account]
      /\ \A v \in User : account'[v] = IF v = u THEN "FREE" ELSE account[v]
  BY <1>2, Facts DEF TypeOK, Account
<1>4. /\ flight' \in [Slot -> Any]
      /\ \A r \in Slot : flight'[r] = flight[r] \/ flight'[r] = Idle
  BY <1>2, IdleOK, Facts DEF TypeOK, Any
<1>5. FreshAt(s, u)
  BY <1>1 DEF FreshAt
<1>6. \A r \in Slot, v \in User : FreshAt(r, v)' <=> FreshAt(r, v) /\ v # u
  <2> TAKE r \in Slot, v \in User
  <2>1. CASE r = s
    BY <1>1, <1>2, <2>1, IdleOK DEF FreshAt
  <2>2. CASE r # s /\ FreshAt(r, v)
    <3>1. v # u
      BY <1>5, <2>2, Facts DEF People, Identities
    <3>2. flight'[r] = flight[r]
      BY <1>2, <2>2 DEF FreshAt
    <3> QED
      BY <2>2, <3>1, <3>2 DEF FreshAt
  <2>3. CASE r # s /\ ~FreshAt(r, v)
    BY <1>4, <2>3, IdleOK DEF FreshAt
  <2> QED
    BY <2>1, <2>2, <2>3
<1>7. \A r \in Slot, v \in User : FreshAt(r, v)' => Granted(flight[r])' = Granted(flight[r])
  BY <1>4, IdleOK DEF FreshAt, Granted
<1>8. \A v \in User : v # u => (Provisioning(v)' <=> Provisioning(v))
  <2> SUFFICES ASSUME NEW v \in User, v # u PROVE Provisioning(v)' <=> Provisioning(v)
    OBVIOUS
  <2>1. \A r \in Slot : FreshAt(r, v)' <=> FreshAt(r, v)
    BY <1>6
  <2> QED
    BY <2>1 DEF Provisioning, FreshAt
<1>9. Identities'
  <2>1. \A r \in Slot, v \in User : FreshAt(r, v)' => account'[v] # "FREE"
    BY <1>3, <1>6, Facts DEF People, Identities
  <2>2. \A q, r \in Slot, v \in User : FreshAt(q, v)' /\ FreshAt(r, v)' => q = r
    BY <1>6, Facts DEF People, Identities
  <2>3. \A r \in Slot, v \in User \ recast :
          FreshAt(r, v)' => HomesOf(v)' = {} /\ account'[v] = Granted(flight[r])'
    BY <1>3, <1>6, <1>7, SameMembers, Facts DEF People, Identities
  <2>4. \A v \in User \ recast : account'[v] = "FREE" => HomesOf(v)' = {}
    BY <1>3, <1>5, SameMembers, Facts DEF People, Identities
  <2> QED
    BY <2>1, <2>2, <2>3, <2>4 DEF Identities
<1>10. OneHome'
  BY SameMembers, Facts DEF People, OneHome
<1>11. RoleFollowsMembership'
  BY <1>3, <1>8, SameMembers, Facts DEF People, RoleFollowsMembership
<1>12. \A r \in Slot : flight'[r] = Idle
         => ~Locking(flight[r])' /\ TaskOK(flight[r])' /\ Housed(flight[r])'
  BY IdleOK DEF Locking, TaskOK, Housed
<1> QED
  BY <1>2, <1>3, <1>4, <1>9, <1>10, <1>11, <1>12, AccountTurn, Facts DEF People, TypeOK

LEMMA AttachFailsStep == ASSUME Inv, NEW s \in Slot, AttachFails(s) PROVE Inv'
<1>1. /\ flight[s].do \in {"accept", "register"} /\ Withdraw(s)
      /\ UNCHANGED <<status, limit, member, manager, astray, recast, invite, unpaid, bereft>>
  BY DEF AttachFails, tenancy, history
<1>2. CASE flight[s].fresh
  BY <1>1, <1>2, WithdrawFresh
<1>3. CASE ~flight[s].fresh
  BY <1>1, <1>3, DoneQuietly, Facts DEF Withdraw, Attaching, TypeOK
<1> QED
  BY <1>2, <1>3

LEMMA DoneMeans ==
  ASSUME Inv, NEW s \in Slot, Done(s)
  PROVE  /\ flight' \in [Slot -> Any] /\ moves' \in 0..MaxMove
         /\ \A r \in Slot : flight'[r] = IF r = s THEN Idle ELSE flight[r]
         /\ ~Locking(flight[s])' /\ TaskOK(flight[s])' /\ Housed(flight[s])'
         /\ \A u : ~FreshAt(s, u)'
         /\ \A r \in Slot : \A u : r # s => (FreshAt(r, u)' <=> FreshAt(r, u))
<1>1. flight' = [flight EXCEPT ![s] = Idle] /\ moves' \in 0..MaxMove
  BY Facts DEF Done, Go, TypeOK
<1>2. /\ flight' \in [Slot -> Any]
      /\ \A r \in Slot : flight'[r] = IF r = s THEN Idle ELSE flight[r]
  BY <1>1, OneTask, IdleOK, Facts
<1> QED
  BY <1>1, <1>2, IdleOK DEF Locking, TaskOK, Housed, FreshAt

LEMMA CrashStep == ASSUME Inv, NEW s \in Slot, Crash(s) PROVE Inv'
<1>1. /\ flight[s].do \in {"accept", "register"} /\ Done(s)
      /\ UNCHANGED <<status, limit, account, member, manager, invite, unpaid, bereft>>
  BY DEF Crash, tenancy, history
<1>2. CASE ~flight[s].fresh
  BY <1>1, <1>2, DoneQuietly, Facts DEF Crash, Attaching, TypeOK
<1>3. CASE flight[s].fresh
  <2>1. PICK u \in User : u = flight[s].who
    BY <1>1, Facts DEF Shaped, Shape
  <2>2. astray' = astray \cup {u} /\ recast' = recast /\ FreshAt(s, u)
    BY <1>1, <1>3, <2>1 DEF Crash, FreshAt
  <2>3. \A r \in Slot, v \in User : r # s => (FreshAt(r, v)' <=> FreshAt(r, v))
    BY <1>1, DoneMeans
  <2>4. \A v \in User : ~FreshAt(s, v)' /\ (v # u => ~FreshAt(s, v))
    BY <1>1, <2>1, DoneMeans DEF FreshAt
  <2>5. \A r \in Slot, v \in User : FreshAt(r, v)' => Granted(flight[r])' = Granted(flight[r])
    BY <1>1, <2>4, DoneMeans DEF Granted
  <2>6. \A v \in User : v # u => (Provisioning(v)' <=> Provisioning(v))
    <3> SUFFICES ASSUME NEW v \in User, v # u PROVE Provisioning(v)' <=> Provisioning(v)
      OBVIOUS
    <3>1. \A r \in Slot : FreshAt(r, v)' <=> FreshAt(r, v)
      BY <2>3, <2>4
    <3> QED
      BY <3>1 DEF Provisioning, FreshAt
  <2>7. Identities'
    BY <1>1, <2>2, <2>3, <2>4, <2>5, SameMembers, Facts DEF People, Identities
  <2>8. OneHome' /\ RoleFollowsMembership'
    BY <1>1, <2>2, <2>6, SameMembers, Facts DEF People, OneHome, RoleFollowsMembership
  <2> QED
    BY <1>1, <2>2, <2>7, <2>8, DoneMeans, AccountTurn, Facts DEF People, TypeOK
<1> QED
  BY <1>2, <1>3

LEMMA AssignWritesStep == ASSUME Inv, NEW s \in Slot, AssignWrites(s) PROVE Inv'
<1>1. PICK u \in User, role \in Account : u = flight[s].who /\ role = flight[s].role
  BY Facts DEF AssignWrites, Shaped, Shape
<1>2. /\ flight[s].do = "assign" /\ Done(s)
      /\ account' = [account EXCEPT ![u] = role]
      /\ UNCHANGED <<status, limit, member, manager, invite, unpaid, bereft>>
      /\ astray \subseteq astray' /\ astray' \subseteq User
      /\ recast \subseteq recast' /\ recast' \subseteq astray'
      /\ u \notin astray' => flight[s].saw = RankOf(u) /\ ~Provisioning(u)
      /\ u \notin recast' => ~Provisioning(u)
  BY <1>1, Facts DEF AssignWrites, tenancy, history, TypeOK
<1>3. u \notin astray' => role \in {"PLATFORM", RoleFor(RankOf(u))}
  BY <1>1, <1>2, Facts DEF TaskOK
<1>4. role # "FREE"
  BY <1>1, <1>2, Facts DEF TaskOK, RoleFor, Rank, MemberRole, Shaped, Shape
<1>5. /\ account' \in [User -> Account]
      /\ \A v \in User : account'[v] = IF v = u THEN role ELSE account[v]
  BY <1>1, <1>2, Facts DEF TypeOK
<1>6. \A r \in Slot, v \in User : FreshAt(r, v)' <=> FreshAt(r, v)
  BY <1>2, DoneMeans DEF FreshAt
<1>7. \A r \in Slot, v \in User : FreshAt(r, v) => Granted(flight[r])' = Granted(flight[r])
  BY <1>2, DoneMeans DEF Granted, FreshAt
<1>8. \A v \in User : Provisioning(v)' <=> Provisioning(v)
  BY <1>6 DEF Provisioning, FreshAt
<1>9. u \notin recast' => \A r \in Slot : ~FreshAt(r, u)
  BY <1>2 DEF Provisioning, FreshAt
<1>10. Identities'
  <2>1. \A r \in Slot, v \in User : FreshAt(r, v)' => account'[v] # "FREE"
    BY <1>4, <1>5, <1>6, Facts DEF People, Identities
  <2>2. \A q, r \in Slot, v \in User : FreshAt(q, v)' /\ FreshAt(r, v)' => q = r
    BY <1>6, Facts DEF People, Identities
  <2>3. \A r \in Slot, v \in User \ recast' :
          FreshAt(r, v)' => HomesOf(v)' = {} /\ account'[v] = Granted(flight[r])'
    BY <1>2, <1>5, <1>6, <1>7, <1>9, SameMembers, Facts DEF People, Identities
  <2>4. \A v \in User \ recast' : account'[v] = "FREE" => HomesOf(v)' = {}
    BY <1>2, <1>4, <1>5, SameMembers, Facts DEF People, Identities
  <2> QED
    BY <2>1, <2>2, <2>3, <2>4 DEF Identities
<1>11. OneHome'
  BY <1>2, SameMembers, Facts DEF People, OneHome
<1>12. RoleFollowsMembership'
  BY <1>2, <1>3, <1>5, <1>8, SameMembers, Facts DEF People, RoleFollowsMembership
<1> QED
  BY <1>2, <1>5, <1>10, <1>11, <1>12, DoneMeans, AccountTurn DEF People

-----------------------------------------------------------------------------
(* Steps that write memberships.                                            *)

LEMMA PurgeStep == ASSUME Inv, NEW u \in User, Purge(u) PROVE Inv' /\ Shrinks
<1>1. /\ Move /\ ~FoundActive(u)
      /\ account' = [account EXCEPT ![u] = "PURGED"]
      /\ member' = [o \in Operator |-> [member[o] EXCEPT ![u] = "NONE"]]
      /\ manager' \subseteq User
      /\ bereft' = bereft \cup {o \in Operator : member[o][u] = "ADMIN"}
      /\ UNCHANGED <<status, limit, astray, recast, invite, flight, unpaid>>
  BY Facts DEF Purge, tenancy, TypeOK
<1>2. /\ account' \in [User -> Account]
      /\ \A v \in User : account'[v] = IF v = u THEN "PURGED" ELSE account[v]
  BY <1>1, Facts DEF TypeOK, Account
<1>3. /\ member' \in [Operator -> [User -> Rank]]
      /\ \A o \in Operator, v \in User : member'[o][v] = IF v = u THEN "NONE" ELSE member[o][v]
  BY <1>1, Facts DEF TypeOK, Rank
<1>4. \A v \in User \ {u} : HomesOf(v)' = HomesOf(v) /\ RankOf(v)' = RankOf(v)
  BY <1>3 DEF HomesOf, RankOf, RankIn
<1>5. HomesOf(u)' = {}
  BY <1>3 DEF HomesOf
<1>6. \A o \in Operator : /\ MembersOf(o)' \subseteq MembersOf(o)
                          /\ Admins(o)' = Admins(o) \ {u}
  BY <1>3 DEF MembersOf, Admins
<1>7. TypeOK'
  BY <1>1, <1>2, <1>3, AMove, Facts DEF TypeOK
<1>8. Base'
  BY <1>1, <1>7, BaseKept, Facts
<1>9. People'
  <2>1. \A r \in Slot, v \in User : /\ FreshAt(r, v)' <=> FreshAt(r, v)
                                    /\ FreshAt(r, v) => v # u
    BY <1>1 DEF FreshAt, FoundActive
  <2>2. \A r \in Slot : Granted(flight[r])' = Granted(flight[r])
    BY <1>1 DEF Granted
  <2>3. \A v \in User : Provisioning(v)' <=> Provisioning(v)
    BY <1>1 DEF Provisioning
  <2>4. Identities'
    BY <1>1, <1>2, <1>4, <1>5, <2>1, <2>2, Facts DEF People, Identities
  <2>5. OneHome'
    BY <1>1, <1>4, <1>5, Facts DEF People, OneHome
  <2>6. RoleFollowsMembership'
    BY <1>1, <1>2, <1>4, <2>3, Facts DEF People, RoleFollowsMembership
  <2> QED
    BY <2>4, <2>5, <2>6 DEF People
<1>10. Exclusive'
  BY <1>1, ExclusiveKept, Facts
<1>11. ChangesGuarded'
  <2> SUFFICES ASSUME NEW r \in Slot, flight[r].do = "change" PROVE Guarded(flight[r])'
    BY <1>1 DEF ChangesGuarded
  <2>1. PICK o \in Operator, w \in User : o = flight[r].op /\ w = flight[r].who
    BY Facts DEF Shaped, Shape
  <2>2. Guarded(flight[r])
    BY Facts DEF ChangesGuarded
  <2>3. u \in Admins(o) => o \in bereft'
    BY <1>1 DEF Admins
  <2> QED
    BY <1>1, <1>3, <1>6, <2>1, <2>2, <2>3 DEF Guarded
<1>12. \A o \in Operator : Shrinking(o) /\ limit'[o] = limit[o] /\ unpaid'[o] >= unpaid[o]
  <2> TAKE o \in Operator
  <2>1. Promised(o)' \subseteq Promised(o)
    BY <1>1, FadingPromises, Facts
  <2>2. unpaid[o] \in Nat
    BY Facts DEF TypeOK
  <2> QED
    BY <1>1, <1>6, <2>1, <2>2 DEF Shrinking
<1>13. Newcomers'
  BY <1>1, <1>6, <1>7, NewcomersKept, Facts
<1>14. Room'
  BY <1>1, <1>7, <1>12, RoomKept, Facts
<1> QED
  BY <1>8, <1>9, <1>10, <1>11, <1>12, <1>13, <1>14 DEF Inv, People, Shrinks

\* What Unhoused does to the invites of operators that go.
LEMMA UnhousedMeans ==
  ASSUME NEW w \in [Invite -> Grant \cup {Absent}], NEW os, Absent \notin Grant
  PROVE  /\ Unhoused(w, os) \in [Invite -> Grant \cup {Absent}]
         /\ \A i \in Invite : w[i] = Absent => Unhoused(w, os)[i] = Absent
         /\ \A i \in Invite : w[i] # Absent =>
              /\ Unhoused(w, os)[i] \in Grant
              /\ Unhoused(w, os)[i].kind = w[i].kind /\ Unhoused(w, os)[i].role = w[i].role
              /\ Unhoused(w, os)[i].live = w[i].live /\ Unhoused(w, os)[i].state = w[i].state
              /\ Unhoused(w, os)[i].op = IF w[i].op \in os THEN None ELSE w[i].op
<1>1. \A i \in Invite : w[i] # Absent =>
        LET g == [w[i] EXCEPT !.op = None]
        IN /\ g \in Grant /\ g.kind = w[i].kind /\ g.role = w[i].role
           /\ g.live = w[i].live /\ g.state = w[i].state /\ g.op = None
  BY DEF Grant
<1> QED
  BY <1>1 DEF Unhoused

LEMMA RevokeDeletesStep == ASSUME Inv, NEW s \in Slot, RevokeDeletes(s) PROVE Inv' /\ Shrinks
<1>1. PICK o \in Operator : o = flight[s].op
  BY Facts DEF RevokeDeletes, Shaped, Shape
<1>2. /\ flight[s].do = "raze" /\ RowFree(o) /\ Done(s)
      /\ status' = [status EXCEPT ![o] = "DELETED"]
      /\ member' = [member EXCEPT ![o] = [u \in User |-> "NONE"]]
      /\ manager' \subseteq User
      /\ astray' = astray \cup MembersOf(o)
      /\ invite' = Unhoused(invite, {o})
      /\ UNCHANGED <<account, recast, limit, unpaid, bereft>>
  BY <1>1, Facts DEF RevokeDeletes, history, TypeOK
<1>3. /\ status' \in [Operator -> {"NONE", "PENDING", "VERIFIED", "SUSPENDED", "DELETED"}]
      /\ \A p \in Operator : status'[p] = IF p = o THEN "DELETED" ELSE status[p]
  BY <1>2, Facts DEF TypeOK
<1>4. /\ member' \in [Operator -> [User -> Rank]]
      /\ \A p \in Operator, u \in User : member'[p][u] = IF p = o THEN "NONE" ELSE member[p][u]
      /\ \A p \in Operator \ {o} : member'[p] = member[p]
  BY <1>2, Facts DEF TypeOK, Rank
<1>5. InvitesFade
  <2>1. TypeOK /\ Absent \notin Grant
    BY InvitesAreGrants, Facts
  <2>2. invite \in [Invite -> Grant \cup {Absent}]
    BY <2>1 DEF TypeOK
  <2> QED
    BY <1>2, <1>3, <2>1, <2>2, UnhousedMeans, Facts DEF InvitesFade, Faded
<1>6. TypeOK'
  BY <1>2, <1>3, <1>4, <1>5, DoneMeans, Facts DEF TypeOK, InvitesFade, MembersOf, Any
<1>7. \A i \in Invite : invite[i] # Absent
        => invite'[i] # Absent /\ invite'[i].role = invite[i].role
  BY <1>5, InvitesAreGrants, Facts DEF InvitesFade, Faded
<1>8. Base'
  BY <1>2, <1>6, <1>7, DoneMeans, BaseKept, Facts
<1>9. \A u \in User \ astray' : HomesOf(u)' = HomesOf(u) /\ RankOf(u)' = RankOf(u)
  BY <1>2, <1>4 DEF MembersOf, HomesOf, RankOf, RankIn
<1>0. \A u \in User : HomesOf(u)' \subseteq HomesOf(u)
  BY <1>4 DEF HomesOf
<1>10. People'
  <2>1. \A r \in Slot, u \in User : FreshAt(r, u)' <=> FreshAt(r, u)
    BY <1>2, DoneMeans DEF FreshAt
  <2>2. \A r \in Slot, u \in User : FreshAt(r, u) => Granted(flight[r])' = Granted(flight[r])
    <3> SUFFICES ASSUME NEW r \in Slot, NEW u \in User, FreshAt(r, u)
                 PROVE  Granted(flight[r])' = Granted(flight[r])
      OBVIOUS
    <3>1. flight'[r] = flight[r]
      BY <1>2, DoneMeans DEF FreshAt
    <3>2. flight[r].do = "accept" => flight[r].id \in Invite /\ invite[flight[r].id] # Absent
      BY Facts DEF Shaped, Shape, TaskOK
    <3> QED
      BY <1>7, <3>1, <3>2 DEF Granted
  <2>3. \A u \in User : Provisioning(u)' <=> Provisioning(u)
    BY <2>1 DEF Provisioning, FreshAt
  <2>4. Identities'
    BY <1>0, <1>2, <2>1, <2>2, Facts DEF People, Identities
  <2>5. OneHome'
    BY <1>0, <1>2, Facts DEF People, OneHome
  <2>6. RoleFollowsMembership'
    BY <1>2, <1>9, <2>3, Facts DEF People, RoleFollowsMembership
  <2> QED
    BY <2>4, <2>5, <2>6 DEF People
<1>11. Exclusive'
  BY <1>2, DoneMeans, ExclusiveKept, Facts
<1>12. ChangesGuarded'
  BY <1>2, <1>3, <1>4, DoneMeans, IdleOK, GuardsKept, Facts
<1>13. \A p \in Operator : Shrinking(p)
  BY <1>4, <1>5, FadingPromises, Facts DEF Shrinking, MembersOf
<1>14. Newcomers'
  BY <1>2, <1>3, <1>5, <1>6, <1>13, DoneMeans, NewcomersKept, Facts DEF Shrinking
<1>15. Room'
  <2>1. RoomFor(flight[s])'
    BY <1>2, DoneMeans, IdleOK DEF RoomFor
  <2>2. \A p \in Operator : Shrinking(p) /\ limit'[p] = limit[p] /\ unpaid'[p] >= unpaid[p]
    BY <1>2, <1>13, Facts DEF TypeOK
  <2> QED
    BY <1>2, <1>6, <2>1, <2>2, DoneMeans, RoomKept, Facts
<1> QED
  BY <1>8, <1>10, <1>11, <1>12, <1>13, <1>14, <1>15 DEF Inv, People, Shrinks

LEMMA GrantedRoles ==
  ASSUME Inv, NEW s \in Slot, flight[s].do \in {"accept", "register"}
  PROVE  Granted(flight[s]) \in MemberRole
<1>1. flight[s].do = "accept" => invite[flight[s].id] \in Grant
  BY Facts DEF TaskOK, Shaped, Shape
<1> QED
  BY <1>1 DEF Granted, Grant, MemberRole

\* Whoever is attached was nobody's, so the new membership is the account's only one.
LEMMA AttachedPeople ==
  ASSUME Inv, NEW s \in Slot, NEW u \in User, NEW o \in Operator, NEW role \in MemberRole,
         Done(s), UNCHANGED <<astray, recast>>, flight[s].do \in {"accept", "register"},
         flight[s].who = u, flight[s].fresh \/ Linkable(u), Granted(flight[s]) = role,
         member[o][u] = "NONE", member' = [member EXCEPT ![o][u] = role],
         account' = IF flight[s].fresh THEN account ELSE [account EXCEPT ![u] = role],
         \A i \in Invite : invite[i] # Absent => invite'[i].role = invite[i].role
  PROVE  People'
<1>0. recast \subseteq astray /\ astray' = astray /\ recast' = recast
  BY Facts DEF TypeOK
<1>1. /\ \A v \in User : account'[v] = IF v = u /\ ~flight[s].fresh THEN role ELSE account[v]
      /\ role \in {"STAFF", "ADMIN"} /\ TypeOK
  BY Facts DEF TypeOK, MemberRole
<1>2. \A p \in Operator, v \in User : member'[p][v] = IF p = o /\ v = u THEN role ELSE member[p][v]
  BY Facts DEF TypeOK
<1>3. \A v \in User \ {u} : HomesOf(v)' = HomesOf(v) /\ RankOf(v)' = RankOf(v)
  BY <1>2 DEF HomesOf, RankOf, RankIn
<1>4. u \notin recast => HomesOf(u) = {}
  BY Facts DEF People, Identities, FreshAt, Linkable
<1>5. u \notin recast => HomesOf(u)' = {o}
  BY <1>1, <1>2, <1>4 DEF HomesOf
<1>6. u \notin recast => RankOf(u)' = role
  BY <1>1, <1>2, <1>4, <1>5 DEF RankOf, RankIn, HomesOf
<1>7. u \notin recast => account'[u] = role
  BY <1>1, Facts DEF People, Identities, FreshAt
<1>8. \A v : ~FreshAt(s, v)'
  BY DoneMeans
<1>9. \A r \in Slot : \A v : r # s => (FreshAt(r, v)' <=> FreshAt(r, v))
  BY DoneMeans
<1>10. \A r \in Slot : r # s /\ u \notin recast => ~FreshAt(r, u)
  <2> SUFFICES ASSUME NEW r \in Slot, r # s, u \notin recast, FreshAt(r, u) PROVE FALSE
    OBVIOUS
  <2>1. CASE flight[s].fresh
    BY <2>1, Facts DEF People, Identities, FreshAt
  <2>2. CASE Linkable(u)
    <3>1. account[u] = "USER" /\ account[u] = Granted(flight[r])
      BY <2>2, Facts DEF People, Identities, Linkable
    <3>2. Granted(flight[r]) \in {"STAFF", "ADMIN"}
      BY GrantedRoles DEF FreshAt, MemberRole
    <3> QED
      BY <3>1, <3>2
  <2> QED
    BY <2>1, <2>2
<1>11. \A r \in Slot, v \in User : r # s /\ FreshAt(r, v)
         => Granted(flight[r])' = Granted(flight[r])
  <2> SUFFICES ASSUME NEW r \in Slot, NEW v \in User, r # s, FreshAt(r, v)
               PROVE  Granted(flight[r])' = Granted(flight[r])
    OBVIOUS
  <2>1. flight'[r] = flight[r]
    BY DoneMeans
  <2>2. flight[r].do = "accept" => flight[r].id \in Invite /\ invite[flight[r].id] # Absent
    BY Facts DEF Shaped, Shape, TaskOK
  <2> QED
    BY <2>1, <2>2 DEF Granted
<1>12. \A v \in User \ {u} : Provisioning(v)' <=> Provisioning(v)
  <2> SUFFICES ASSUME NEW v \in User \ {u} PROVE Provisioning(v)' <=> Provisioning(v)
    OBVIOUS
  <2>1. \A r \in Slot : FreshAt(r, v)' <=> FreshAt(r, v)
    BY <1>8, <1>9 DEF FreshAt
  <2> QED
    BY <2>1 DEF Provisioning, FreshAt
<1>13. Identities'
  <2>1. \A r \in Slot, v \in User : FreshAt(r, v)' => account'[v] # "FREE"
    BY <1>1, <1>8, <1>9, Facts DEF People, Identities
  <2>2. \A q, r \in Slot, v \in User : FreshAt(q, v)' /\ FreshAt(r, v)' => q = r
    BY <1>8, <1>9, Facts DEF People, Identities
  <2>3. \A r \in Slot, v \in User \ recast :
          FreshAt(r, v)' => HomesOf(v)' = {} /\ account'[v] = Granted(flight[r])'
    BY <1>0, <1>1, <1>3, <1>8, <1>9, <1>10, <1>11, Facts DEF People, Identities
  <2>4. \A v \in User \ recast : account'[v] = "FREE" => HomesOf(v)' = {}
    BY <1>0, <1>1, <1>3, <1>7, Facts DEF People, Identities
  <2> QED
    BY <1>0, <2>1, <2>2, <2>3, <2>4 DEF Identities
<1>14. OneHome'
  BY <1>0, <1>3, <1>5, Facts DEF People, OneHome
<1>15. RoleFollowsMembership'
  BY <1>0, <1>1, <1>3, <1>6, <1>7, <1>12, Facts DEF People, RoleFollowsMembership, RoleFor
<1> QED
  BY <1>13, <1>14, <1>15 DEF People

LEMMA OnlyMembersOf ==
  ASSUME TypeOK, NEW o \in Operator, NEW u \in User, NEW rank \in Rank,
         member' = [member EXCEPT ![o][u] = rank]
  PROVE  /\ member' \in [Operator -> [User -> Rank]]
         /\ \A p \in Operator \ {o} : /\ member'[p] = member[p]
                                      /\ MembersOf(p)' = MembersOf(p)
         /\ \A v \in User : member'[o][v] = IF v = u THEN rank ELSE member[o][v]
         /\ MembersOf(o)' = IF rank = "NONE" THEN MembersOf(o) \ {u} ELSE MembersOf(o) \cup {u}
BY DEF TypeOK, MembersOf

\* The invite a redemption rests on is still one of the operator's.
LEMMA RedeemedInvite ==
  ASSUME Inv, NEW s \in Slot, flight[s].do = "accept", MayAttach(flight[s])
  PROVE  /\ flight[s].id \in Invite /\ invite[flight[s].id] # Absent
         /\ Pending(flight[s].id)
         /\ invite[flight[s].id] \in Grant /\ flight[s].op \in Operator /\ flight[s].who \in User
         /\ invite[flight[s].id].op = flight[s].op
         /\ status[flight[s].op] \notin {"NONE", "DELETED"}
         /\ status[flight[s].op] = "PENDING"
              => invite[flight[s].id].kind = "ONBOARDING" /\ MembersOf(flight[s].op) = {}
<1>1. /\ flight[s].id \in Invite /\ flight[s].op \in Operator /\ flight[s].who \in User
      /\ invite[flight[s].id] # Absent /\ invite[flight[s].id] \in Grant
  BY Facts DEF Shaped, Shape, TaskOK
<1>2. status[flight[s].op] \notin {"NONE", "DELETED"} /\ Pending(flight[s].id)
  BY DEF MayAttach, StillPromised
<1>3. invite[flight[s].id].op = flight[s].op
  BY <1>1, <1>2, Facts DEF Housed
<1> QED
  BY <1>1, <1>2, <1>3, Facts DEF Newcomers

LEMMA AcceptAttachesStep == ASSUME Inv, NEW s \in Slot, AcceptAttaches(s) PROVE Inv' /\ Pays
<1>0. TypeOK
  BY Facts
<1>1. PICK i \in Invite, o \in Operator, u \in User, role \in MemberRole :
        /\ i = flight[s].id /\ o = flight[s].op /\ u = flight[s].who /\ role = invite[i].role
        /\ invite[i] # Absent /\ invite[i] \in Grant /\ invite[i].op = o
        /\ status[o] \notin {"NONE", "DELETED"}
        /\ status[o] = "PENDING" => invite[i].kind = "ONBOARDING"
  BY RedeemedInvite DEF AcceptAttaches, Grant
<1>2. /\ flight[s].do = "accept" /\ RowFree(o) /\ Done(s)
      /\ member[o][u] = "NONE" /\ (flight[s].fresh \/ Linkable(u))
      /\ member' = [member EXCEPT ![o][u] = role]
      /\ status' = IF invite[i].kind = "ONBOARDING" THEN [status EXCEPT ![o] = "VERIFIED"]
                   ELSE status
      /\ account' = IF flight[s].fresh THEN account ELSE [account EXCEPT ![u] = role]
      /\ invite' = SetState({i}, "PENDING", "ACCEPTED")
      /\ unpaid' = IF Uncounted(flight[s]) THEN [unpaid EXCEPT ![o] = @ + 1] ELSE unpaid
      /\ UNCHANGED <<manager, astray, recast, limit, bereft>>
  BY <1>1 DEF AcceptAttaches, MayAttach, StillLinkable
<1>3. InvitesFade
  BY <1>0, <1>2, SetStateRestates, RestatedFade
<1>4. \A j \in Invite : invite[j] # Absent
        => invite'[j] # Absent /\ invite'[j].role = invite[j].role
  BY <1>0, <1>3, InvitesAreGrants DEF InvitesFade, Faded
<1>5. /\ status' \in [Operator -> {"NONE", "PENDING", "VERIFIED", "SUSPENDED", "DELETED"}]
      /\ \A p \in Operator \ {o} : status'[p] = status[p]
      /\ status'[o] \notin {"NONE", "PENDING"}
  BY <1>0, <1>1, <1>2 DEF TypeOK, Grant
<1>6. /\ unpaid' \in [Operator -> Nat] /\ \A p \in Operator \ {o} : unpaid'[p] = unpaid[p]
  BY <1>0, <1>2 DEF TypeOK
<1>7. account' \in [User -> Account]
  BY <1>0, <1>2 DEF TypeOK, MemberRole, Account
<1>8. role \in Rank /\ role # "NONE"
  BY DEF Rank, MemberRole
<1>9. TypeOK'
  BY <1>0, <1>2, <1>3, <1>5, <1>6, <1>7, <1>8, OnlyMembersOf, DoneMeans
  DEF TypeOK, InvitesFade, Any
<1>10. Base'
  BY <1>2, <1>4, <1>9, DoneMeans, BaseKept, Facts
<1>11. People'
  <2>1. Granted(flight[s]) = role
    BY <1>1, <1>2 DEF Granted
  <2> QED
    BY <1>1, <1>2, <1>4, <2>1, AttachedPeople
<1>12. Exclusive'
  BY <1>2, DoneMeans, ExclusiveKept, Facts
<1>13. \A r \in Slot : ~Holder(flight[r], o)
  BY <1>2, ALockIsHeld
<1>14. ChangesGuarded'
  <2>1. \A p \in Operator \ {o} : status'[p] = status[p] /\ member'[p] = member[p]
    BY <1>0, <1>2, <1>5, <1>8, OnlyMembersOf
  <2> QED
    BY <1>2, <1>13, <2>1, DoneMeans, IdleOK, GuardsKept, Facts
<1>15. Newcomers'
  <2>1. \A p \in Operator : \/ status'[p] = status[p] /\ MembersOf(p)' \subseteq MembersOf(p)
                            \/ status'[p] \notin {"NONE", "PENDING"} /\ status[p] # "DELETED"
    <3>1. \A p \in Operator \ {o} : MembersOf(p)' = MembersOf(p)
      BY <1>0, <1>2, <1>8, OnlyMembersOf
    <3> QED
      BY <1>1, <1>5, <3>1
  <2> QED
    BY <1>2, <1>3, <1>9, <2>1, DoneMeans, NewcomersKept, Facts
<1>16. \A p \in Operator \ {o} : Shrinking(p) /\ limit'[p] = limit[p] /\ unpaid'[p] >= unpaid[p]
  <2> TAKE p \in Operator \ {o}
  <2>1. MembersOf(p)' = MembersOf(p) /\ Promised(p)' \subseteq Promised(p)
    BY <1>0, <1>2, <1>3, <1>8, OnlyMembersOf, FadingPromises
  <2>2. unpaid[p] \in Nat
    BY <1>0 DEF TypeOK
  <2> QED
    BY <1>2, <1>6, <2>1, <2>2 DEF Shrinking
<1>17. Room'
  <2>1. RoomFor(flight[s])'
    BY <1>2, DoneMeans, IdleOK DEF RoomFor
  <2> QED
    BY <1>2, <1>9, <1>13, <1>16, <2>1, DoneMeans, RoomKept, Facts
<1>18. Paid(o)
  <2>1. /\ IsFiniteSet(MembersOf(o)) /\ IsFiniteSet(Promised(o))
        /\ Cardinality(Promised(o)) \in Nat /\ limit[o] \in Nat \ {0} /\ unpaid[o] \in Nat
    BY <1>0, SeatsAreNumbers
  <2>2. MembersOf(o)' = MembersOf(o) \cup {u}
    BY <1>0, <1>2, <1>8, OnlyMembersOf
  <2>3. /\ Cardinality(MembersOf(o)') \in Nat /\ Cardinality(MembersOf(o)) \in Nat
        /\ Cardinality(MembersOf(o)') <= Cardinality(MembersOf(o)) + 1
    BY <2>1, <2>2, OneMoreElement
  <2>4. Promised(o)' \subseteq Promised(o) /\ i \notin Promised(o)'
    <3>1. invite'[i].state = "ACCEPTED"
      BY <1>0, <1>1, <1>2, RedeemedInvite, SetStateRestates DEF Restated, AcceptAttaches
    <3> QED
      BY <1>0, <1>3, <3>1, FadingPromises DEF Promised, Pending
  <2>5. Cardinality(Promised(o)') \in Nat /\ Cardinality(Promised(o)') <= Cardinality(Promised(o))
    BY <2>1, <2>4, FS_Subset, FS_CardinalityType
  <2>6. CASE Uncounted(flight[s])
    <3>1. unpaid'[o] = unpaid[o] + 1
      BY <1>0, <1>2, <2>6 DEF TypeOK
    <3>2. Seats(o)' - Seats(o) <= unpaid'[o] - unpaid[o]
      BY <2>1, <2>3, <2>5, <3>1 DEF Seats
    <3> QED
      BY <3>2 DEF Paid
  <2>7. CASE ~Uncounted(flight[s]) /\ invite[i].kind = "MEMBER"
    <3>1. i \in Promised(o)
      BY <1>1, <1>2, <2>7, RedeemedInvite DEF Uncounted, Promised, AcceptAttaches
    <3>2. Cardinality(Promised(o) \ {i}) = Cardinality(Promised(o)) - 1
          /\ IsFiniteSet(Promised(o) \ {i})
      BY <2>1, <3>1, FS_RemoveElement
    <3>3. Cardinality(Promised(o)') <= Cardinality(Promised(o) \ {i})
      BY <2>4, <3>2, FS_Subset
    <3>4. unpaid'[o] = unpaid[o]
      BY <1>2, <2>7
    <3>5. Seats(o)' - Seats(o) <= unpaid'[o] - unpaid[o]
      BY <2>1, <2>3, <2>5, <3>2, <3>3, <3>4 DEF Seats
    <3> QED
      BY <3>5 DEF Paid
  <2>8. CASE ~Uncounted(flight[s]) /\ invite[i].kind # "MEMBER"
    <3>1. status[o] = "PENDING"
      BY <1>1, <2>8 DEF Uncounted
    <3>2. MembersOf(o) = {}
      BY <1>1, <1>2, <3>1, RedeemedInvite DEF AcceptAttaches
    <3>3. Promised(o) = {}
      <4>1. \A j \in Invite : Pending(j) /\ invite[j].op = o => invite[j].kind = "ONBOARDING"
        BY <3>1, Facts DEF Newcomers, Pending
      <4> QED
        BY <4>1 DEF Promised
    <3>4. Cardinality(MembersOf(o)) = 0 /\ Cardinality(Promised(o)) = 0
      BY <3>2, <3>3, FS_EmptySet
    <3>5. limit'[o] = limit[o] /\ unpaid'[o] = unpaid[o]
      BY <1>2, <2>8
    <3>6. Seats(o)' <= limit'[o] + unpaid'[o]
      BY <2>1, <2>3, <2>5, <3>4, <3>5 DEF Seats
    <3> QED
      BY <3>6 DEF Paid
  <2> QED
    BY <2>6, <2>7, <2>8
<1> QED
  BY <1>10, <1>11, <1>12, <1>14, <1>15, <1>16, <1>17, <1>18 DEF Inv, People, Pays, Paid

\* Nothing of an operator is at work before it exists.
LEMMA NothingBefore ==
  ASSUME Inv, NEW o \in Operator, status[o] = "NONE"
  PROVE  /\ MembersOf(o) = {}
         /\ \A i \in Invite : invite[i] # Absent => invite[i].op # o
         /\ \A s \in Slot : flight[s].op = o
              => flight[s].do \notin {"ask", "issue", "accept", "resend", "revive"}
BY Facts DEF Newcomers, Housed

LEMMA RegisterAttachesStep == ASSUME Inv, NEW s \in Slot, RegisterAttaches(s) PROVE Inv' /\ Pays
<1>0. TypeOK
  BY Facts
<1>1. PICK u \in User : u = flight[s].who
  BY Facts DEF RegisterAttaches, Shaped, Shape
<1>2. PICK o \in NewOperator :
        /\ status' = [status EXCEPT ![o] = "PENDING"]
        /\ member' = [member EXCEPT ![o][u] = "ADMIN"]
  BY <1>1 DEF RegisterAttaches
<1>3. /\ flight[s].do = "register" /\ Done(s) /\ (flight[s].fresh \/ Linkable(u))
      /\ account' = IF flight[s].fresh THEN account ELSE [account EXCEPT ![u] = "ADMIN"]
      /\ UNCHANGED <<manager, astray, recast, limit, invite, unpaid, bereft>>
  BY <1>1 DEF RegisterAttaches, StillLinkable, history
<1>4. o \in Operator /\ status[o] = "NONE" /\ member[o][u] = "NONE"
  BY NothingBefore DEF NewOperator, MembersOf
<1>5. \A p \in Operator : status'[p] = IF p = o THEN "PENDING" ELSE status[p]
  BY <1>0, <1>2, <1>4 DEF TypeOK
<1>6. "ADMIN" \in Rank /\ "ADMIN" \in MemberRole
  BY DEF Rank, MemberRole
<1>7. TypeOK'
  BY <1>0, <1>2, <1>3, <1>4, <1>6, OnlyMembersOf, DoneMeans DEF TypeOK, Any, Account
<1>8. Base'
  BY <1>3, <1>7, DoneMeans, BaseKept, Facts
<1>9. People'
  <2>1. Granted(flight[s]) = "ADMIN"
    BY <1>3 DEF Granted
  <2> QED
    BY <1>1, <1>2, <1>3, <1>4, <1>6, <2>1, AttachedPeople
<1>10. Exclusive'
  BY <1>3, DoneMeans, ExclusiveKept, Facts
<1>11. \A p \in Operator \ {o} : member'[p] = member[p] /\ MembersOf(p)' = MembersOf(p)
  BY <1>0, <1>2, <1>4, <1>6, OnlyMembersOf
<1>12. ChangesGuarded'
  BY <1>3, <1>5, <1>11, DoneMeans, IdleOK, GuardsKept, Facts
<1>13. Newcomers'
  <2>1. \A p \in Operator : status'[p] = "NONE" => MembersOf(p)' = {}
    BY <1>5, <1>11, Facts DEF Newcomers
  <2>2. \A i \in Invite, p \in Operator : invite'[i] # Absent /\ invite'[i].op = p =>
          /\ status'[p] # "NONE"
          /\ status'[p] = "PENDING" => invite'[i].kind = "ONBOARDING" /\ MembersOf(p)' = {}
    BY <1>3, <1>4, <1>5, <1>11, NothingBefore, Facts DEF Newcomers
  <2>3. ASSUME NEW r \in Slot PROVE Housed(flight[r])'
    <3>1. CASE r = s
      BY <1>3, <3>1, DoneMeans
    <3>2. CASE r # s
      BY <1>3, <1>4, <1>5, <3>2, DoneMeans, NothingBefore, Facts DEF Housed, Shaped, Shape
    <3> QED
      BY <3>1, <3>2
  <2> QED
    BY <2>1, <2>2, <2>3 DEF Newcomers
<1>14. \A p \in Operator \ {o} : Shrinking(p) /\ limit'[p] = limit[p] /\ unpaid'[p] >= unpaid[p]
  <2> TAKE p \in Operator \ {o}
  <2>1. Promised(p)' \subseteq Promised(p)
    BY <1>0, <1>3, FadingPromises, Facts
  <2>2. unpaid[p] \in Nat
    BY <1>0 DEF TypeOK
  <2> QED
    BY <1>3, <1>11, <2>1, <2>2 DEF Shrinking
<1>15. Room'
  <2>1. ASSUME NEW r \in Slot
        PROVE  \/ RoomFor(flight[r])'
               \/ /\ flight'[r] = flight[r]
                  /\ \A p \in Operator : Holder(flight[r], p) => p # o
    <3>1. CASE r = s
      BY <1>3, <3>1, DoneMeans, IdleOK DEF RoomFor
    <3>2. CASE flight[r].do = "change"
      BY <1>3, <3>2, DoneMeans, IdleOK DEF RoomFor
    <3>3. CASE r # s /\ flight[r].do # "change"
      BY <1>3, <1>4, <3>3, DoneMeans, NothingBefore DEF Holder
    <3> QED
      BY <3>1, <3>2, <3>3
  <2> QED
    BY <1>7, <1>14, <2>1, RoomKept, Facts
<1>16. Paid(o)
  <2>1. MembersOf(o) = {} /\ MembersOf(o)' = MembersOf(o) \cup {u}
    <3>1. MembersOf(o) = {}
      BY <1>4, NothingBefore
    <3>2. MembersOf(o)' = IF "ADMIN" = "NONE" THEN MembersOf(o) \ {u} ELSE MembersOf(o) \cup {u}
      <4>1. \A v \in User : member'[o][v] = IF v = u THEN "ADMIN" ELSE member[o][v]
        BY <1>0, <1>2, <1>4 DEF TypeOK
      <4> QED
        BY <4>1 DEF MembersOf
    <3> QED
      BY <3>1, <3>2
  <2>2. Promised(o)' = {}
    BY <1>3, <1>4, NothingBefore, Facts DEF Promised, Pending
  <2>3. Cardinality(MembersOf(o)') = 1 /\ Cardinality(Promised(o)') = 0
    <3>1. MembersOf(o)' = {u}
      BY <2>1
    <3> QED
      BY <2>2, <3>1, FS_Singleton, FS_EmptySet
  <2>4. limit'[o] \in Nat \ {0} /\ unpaid'[o] \in Nat
    BY <1>0, <1>3, <1>4, SeatsAreNumbers
  <2>5. Seats(o)' <= limit'[o] + unpaid'[o]
    BY <2>3, <2>4 DEF Seats
  <2> QED
    BY <2>5 DEF Paid
<1> QED
  BY <1>8, <1>9, <1>10, <1>12, <1>13, <1>14, <1>15, <1>16 DEF Inv, People, Pays, Paid

LEMMA ChangeWritesStep == ASSUME Inv, NEW s \in Slot, ChangeWrites(s) PROVE Inv' /\ Shrinks
<1>0. TypeOK
  BY Facts
<1>1. PICK o \in Operator, u \in User, role \in Rank, saw \in Account :
        o = flight[s].op /\ u = flight[s].who /\ role = flight[s].role /\ saw = flight[s].saw
  BY Facts DEF ChangeWrites, Shaped, Shape
<1>2. /\ flight[s].do = "change" /\ Done(s)
      /\ UNCHANGED <<status, limit, invite, unpaid, bereft>>
  BY DEF ChangeWrites, tenancy, history
<1>3. CASE member[o][u] = "NONE"
  BY <1>0, <1>1, <1>2, <1>3, DoneQuietly, FadingShrinks, Facts DEF ChangeWrites, people, Attaching, TypeOK
<1>4. CASE member[o][u] # "NONE"
  <2> DEFINE rank == RankOf(u)'
  <2>1. /\ member' = [member EXCEPT ![o][u] = role]
        /\ manager' \subseteq User
        /\ account' = IF saw \in {"PLATFORM", "PURGED"} THEN account
                      ELSE [account EXCEPT ![u] = RoleFor(rank)]
        /\ astray \subseteq astray' /\ astray' \subseteq User /\ UNCHANGED recast
        /\ u \notin astray' => saw = account[u]
    <3>1. member' = [member EXCEPT ![o][u] = role]
      BY <1>1, <1>4 DEF ChangeWrites
    <3>2. rank = RankIn([member EXCEPT ![o][u] = role], u)
      BY <3>1 DEF RankOf, RankIn
    <3> HIDE DEF rank
    <3>3. account' = IF saw \in {"PLATFORM", "PURGED"} THEN account
                     ELSE [account EXCEPT ![u] = RoleFor(rank)]
      BY <1>1, <1>4, <3>2 DEF ChangeWrites, Reconciled
    <3>4. /\ manager' \subseteq User
          /\ astray \subseteq astray' /\ astray' \subseteq User /\ UNCHANGED recast
          /\ u \notin astray' => saw = account[u]
      BY <1>0, <1>1, <1>4 DEF ChangeWrites, TypeOK
    <3> QED
      BY <3>1, <3>3, <3>4
  <2>2. rank \in Rank /\ RoleFor(rank) \in {"USER", "STAFF", "ADMIN"}
    BY DEF RankOf, RankIn, RoleFor, Rank, MemberRole
  <2>3. u \notin recast => /\ HomesOf(u) = {o} /\ account[u] # "FREE"
                           /\ \A r \in Slot : ~FreshAt(r, u)
    BY <1>4, Facts DEF People, OneHome, Identities, HomesOf
  <2>4. rank = RankOf(u)'
    OBVIOUS
  <2> HIDE DEF rank
  <2>5. /\ account' \in [User -> Account]
        /\ \A v \in User : account'[v] = IF v = u /\ saw \notin {"PLATFORM", "PURGED"}
                                         THEN RoleFor(rank) ELSE account[v]
    BY <1>0, <2>1, <2>2 DEF TypeOK, Account
  <2>6. /\ member' \in [Operator -> [User -> Rank]]
        /\ \A p \in Operator, v \in User : member'[p][v] = IF p = o /\ v = u THEN role
                                                           ELSE member[p][v]
        /\ \A p \in Operator \ {o} : member'[p] = member[p]
    BY <1>0, <2>1 DEF TypeOK
  <2>7. \A p \in Operator : MembersOf(p)' \subseteq MembersOf(p)
    BY <1>4, <2>6 DEF MembersOf
  <2>8. \A v \in User \ {u} : HomesOf(v)' = HomesOf(v) /\ RankOf(v)' = RankOf(v)
    BY <2>6 DEF HomesOf, RankOf, RankIn
  <2>9. HomesOf(u)' \subseteq HomesOf(u)
    BY <1>4, <2>6 DEF HomesOf
  <2>11. TypeOK'
    BY <1>0, <1>2, <2>1, <2>5, <2>6, DoneMeans DEF TypeOK, Any
  <2>12. Base'
    BY <1>2, <2>11, DoneMeans, BaseKept, Facts
  <2>13. People'
    <3>1. \A r \in Slot, v \in User : FreshAt(r, v)' <=> FreshAt(r, v)
      BY <1>2, DoneMeans DEF FreshAt
    <3>2. \A r \in Slot, v \in User : FreshAt(r, v) => Granted(flight[r])' = Granted(flight[r])
      BY <1>2, DoneMeans DEF Granted, FreshAt
    <3>3. \A v \in User : Provisioning(v)' <=> Provisioning(v)
      BY <3>1 DEF Provisioning, FreshAt
    <3>4. Identities'
      <4>1. \A r \in Slot, v \in User : FreshAt(r, v)' => account'[v] # "FREE"
        BY <2>2, <2>5, <3>1, Facts DEF People, Identities
      <4>2. \A q, r \in Slot, v \in User : FreshAt(q, v)' /\ FreshAt(r, v)' => q = r
        BY <3>1, Facts DEF People, Identities
      <4>3. \A r \in Slot, v \in User \ recast' :
              FreshAt(r, v)' => HomesOf(v)' = {} /\ account'[v] = Granted(flight[r])'
        BY <2>1, <2>3, <2>5, <2>8, <3>1, <3>2, Facts DEF People, Identities
      <4>4. \A v \in User \ recast' : account'[v] = "FREE" => HomesOf(v)' = {}
        BY <2>1, <2>2, <2>3, <2>5, <2>8, Facts DEF People, Identities
      <4> QED
        BY <4>1, <4>2, <4>3, <4>4 DEF Identities
    <3>5. OneHome'
      BY <2>1, <2>8, <2>9, Facts DEF People, OneHome
    <3>6. RoleFollowsMembership'
      <4> SUFFICES ASSUME NEW v \in User \ astray', account'[v] \in {"USER", "STAFF", "ADMIN"}
                   PROVE  account'[v] = RoleFor(RankOf(v)') \/ Provisioning(v)'
        BY DEF RoleFollowsMembership, RoleFor
      <4>1. CASE v = u
        BY <2>1, <2>4, <2>5, <4>1
      <4>2. CASE v # u
        BY <2>1, <2>5, <2>8, <3>3, <4>2, Facts DEF People, RoleFollowsMembership
      <4> QED
        BY <4>1, <4>2
    <3> QED
      BY <3>4, <3>5, <3>6 DEF People
  <2>14. Exclusive'
    BY <1>2, DoneMeans, ExclusiveKept, Facts
  <2>15. ChangesGuarded'
    <3>1. \A r \in Slot : r # s => ~Holder(flight[r], o)
      BY <1>1, <1>2, Facts DEF Exclusive, Holder
    <3>2. flight'[s] # flight[s]
      BY <1>2, DoneMeans, IdleOK
    <3> QED
      BY <1>2, <2>6, <3>1, <3>2, DoneMeans, IdleOK, GuardsKept, Facts
  <2>16. Newcomers'
    BY <1>2, <2>7, <2>11, DoneMeans, NewcomersKept, Facts
  <2>17. Room'
    <3>1. RoomFor(flight[s])'
      BY <1>2, DoneMeans, IdleOK DEF RoomFor
    <3>2. \A p \in Operator : Shrinking(p) /\ limit'[p] = limit[p] /\ unpaid'[p] >= unpaid[p]
      <4> TAKE p \in Operator
      <4>1. Promised(p)' \subseteq Promised(p)
        BY <1>0, <1>2, FadingPromises, Facts
      <4>2. unpaid[p] \in Nat
        BY <1>0 DEF TypeOK
      <4> QED
        BY <1>2, <2>7, <4>1, <4>2 DEF Shrinking
    <3> QED
      BY <1>2, <2>11, <3>1, <3>2, DoneMeans, RoomKept, Facts
  <2>18. Shrinks
    BY <1>0, <1>2, <2>7, FadingPromises, Facts DEF Shrinks, Shrinking
  <2> QED
    BY <2>12, <2>13, <2>14, <2>15, <2>16, <2>17, <2>18 DEF Inv, People
<1> QED
  BY <1>3, <1>4

-----------------------------------------------------------------------------
(* Steps that write an operator's standing or plan.                         *)

LEMMA StandingStep ==
  ASSUME Inv, NEW o \in Operator, Move, RowFree(o),
         UNCHANGED <<account, member, manager, astray, recast, invite, flight, unpaid, bereft>>,
         status' \in [Operator -> {"NONE", "PENDING", "VERIFIED", "SUSPENDED", "DELETED"}],
         limit' \in [Operator -> Limit],
         \A p \in Operator \ {o} : status'[p] = status[p] /\ limit'[p] = limit[p],
         \/ status'[o] = status[o]
         \/ status'[o] \notin {"NONE", "PENDING"} /\ status[o] # "DELETED"
  PROVE  Inv'
<1>1. TypeOK'
  BY AMove, Facts DEF TypeOK
<1>2. Base'
  BY <1>1, BaseKept, Facts
<1>3. People'
  BY PeopleKept, Facts
<1>4. Exclusive'
  BY ExclusiveKept, Facts
<1>5. \A r \in Slot : ~Holder(flight[r], o)
  BY ALockIsHeld
<1>6. ChangesGuarded'
  BY <1>5, GuardsKept, Facts
<1>7. \A p \in Operator : Shrinking(p) /\ unpaid'[p] >= unpaid[p]
                          /\ MembersOf(p)' \subseteq MembersOf(p)
  <2> TAKE p \in Operator
  <2>1. unpaid[p] \in Nat
    BY Facts DEF TypeOK
  <2> QED
    BY <2>1, SameSeats DEF Shrinking
<1>8. Newcomers'
  BY <1>1, <1>7, NewcomersKept, Facts
<1>9. Room'
  BY <1>1, <1>5, <1>7, RoomKept, Facts
<1> QED
  BY <1>2, <1>3, <1>4, <1>6, <1>8, <1>9 DEF Inv, People

LEMMA TransitionStep ==
  ASSUME Inv, NEW o \in Operator, NEW from \in {"PENDING", "VERIFIED", "SUSPENDED"},
         NEW to \in {"VERIFIED", "SUSPENDED"}, Transition(o, from, to)
  PROVE  Inv'
<1>1. /\ Move /\ RowFree(o) /\ status[o] = from /\ status' = [status EXCEPT ![o] = to]
      /\ UNCHANGED <<limit, account, member, manager, astray, recast, invite, flight, unpaid, bereft>>
  BY DEF Transition, people, history
<1>2. /\ status' \in [Operator -> {"NONE", "PENDING", "VERIFIED", "SUSPENDED", "DELETED"}]
      /\ limit' \in [Operator -> Limit]
      /\ \A p \in Operator \ {o} : status'[p] = status[p] /\ limit'[p] = limit[p]
      /\ status'[o] \notin {"NONE", "PENDING"} /\ status[o] # "DELETED"
  BY <1>1, Facts DEF TypeOK
<1> QED
  BY <1>1, <1>2, StandingStep

LEMMA ReplanStep ==
  ASSUME Inv, NEW o \in Operator, NEW q \in Limit, Replan(o, q), Move, UNCHANGED flight
  PROVE  Inv'
<1>1. /\ limit' = [limit EXCEPT ![o] = q]
      /\ UNCHANGED <<status, account, member, manager, astray, recast, invite, unpaid, bereft>>
  BY DEF Replan, people, history
<1>2. /\ limit' \in [Operator -> Limit] /\ manager' \subseteq User /\ moves' \in 0..MaxMove
      /\ flight' \in [Slot -> Any]
  BY <1>1, AMove, Facts DEF TypeOK, Any
<1> QED
  BY <1>1, <1>2, Facts, PlanStep

LEMMA EditReadsStep ==
  ASSUME Inv, NEW s \in Slot, NEW o \in Operator, NEW q \in Limit, EditReads(s, o, q)
  PROVE  Inv'
<1>1. PICK t \in Any : t = [do |-> "edit", op |-> o, to |-> q]
  BY DEF Any, Task
<1>2. /\ flight[s] = Idle /\ flight' = [flight EXCEPT ![s] = t] /\ Move
      /\ UNCHANGED <<status, limit, account, member, manager, astray, recast, unpaid, bereft, invite>>
  BY <1>1 DEF EditReads, Start, people, tenancy, history
<1>3. manager' \subseteq User /\ moves' \in 0..MaxMove
  BY <1>2, AMove, Facts DEF TypeOK
<1>4. Plain(t) /\ TaskOK(t)' /\ Housed(t)'
  BY <1>1 DEF Plain, Attaching, Locking, TaskOK, Housed
<1> QED
  BY <1>2, <1>3, <1>4, IdleOK, Facts, QuietTurn DEF Attaching

LEMMA EditWritesStep == ASSUME Inv, NEW s \in Slot, EditWrites(s) PROVE Inv'
<1>1. PICK o \in Operator, q \in Limit : o = flight[s].op /\ q = flight[s].to
  BY Facts DEF EditWrites, Shaped, Shape
<1>2. /\ flight[s].do = "edit" /\ flight' = [flight EXCEPT ![s] = Idle] /\ UNCHANGED moves
      /\ UNCHANGED <<status, account, member, manager, astray, recast, invite, unpaid, bereft>>
  BY DEF EditWrites, Done, Go, Replan, people, tenancy, history
<1>3. limit' = [limit EXCEPT ![o] = q] \/ limit' = limit
  BY <1>1 DEF EditWrites, Replan, tenancy
<1>4. /\ limit' \in [Operator -> Limit] /\ manager' \subseteq User /\ moves' \in 0..MaxMove
  BY <1>2, <1>3, Facts DEF TypeOK
<1>5. /\ flight' \in [Slot -> Any]
      /\ \A r \in Slot : flight'[r] = IF r = s THEN Idle ELSE flight[r]
  BY <1>2, IdleOK, OneTask, Facts
<1>6. Plain(Idle) /\ TaskOK(Idle)' /\ Housed(Idle)'
  BY IdleOK DEF Plain, Attaching, Locking, TaskOK, Housed
<1>7. \A r \in Slot : \/ flight'[r] = flight[r]
                     \/ /\ ~Attaching(flight[r]) /\ Plain(flight[r])'
                        /\ TaskOK(flight[r])' /\ Housed(flight[r])'
  BY <1>2, <1>5, <1>6 DEF Plain, Attaching, Locking, TaskOK, Housed
<1> QED
  BY <1>2, <1>4, <1>5, <1>7, Facts, PlanStep

-----------------------------------------------------------------------------
(* Steps that issue or renew an invite.                                     *)

\* Enough for a step that adds the invite i and lets the others fade.
LEMMA OneMoreInvite ==
  ASSUME TypeOK, NEW i \in Invite, invite[i] = Absent, NEW g \in Grant,
         NEW v \in [Invite -> Grant \cup {Absent}], invite' = [v EXCEPT ![i] = g],
         \A j \in Invite : \/ invite[j] = Absent /\ v[j] = Absent
                           \/ invite[j] # Absent /\ Faded(invite[j], v[j])
  PROVE  /\ invite' \in [Invite -> Grant \cup {Absent}] /\ invite'[i] = g /\ g # Absent
         /\ \A j \in Invite \ {i} : \/ invite[j] = Absent /\ invite'[j] = Absent
                                    \/ invite[j] # Absent /\ Faded(invite[j], invite'[j])
         /\ \A j \in Invite : invite[j] # Absent
              => invite'[j] # Absent /\ invite'[j].role = invite[j].role
         /\ \A o \in Operator : g.kind = "ONBOARDING" \/ g.op # o
                                  => Promised(o)' \subseteq Promised(o)
<1>1. /\ invite' \in [Invite -> Grant \cup {Absent}] /\ invite'[i] = g /\ g # Absent
      /\ \A j \in Invite \ {i} : invite'[j] = v[j]
  BY InvitesAreGrants
<1>2. \A j \in Invite \ {i} : \/ invite[j] = Absent /\ invite'[j] = Absent
                              \/ invite[j] # Absent /\ Faded(invite[j], invite'[j])
  BY <1>1
<1>3. \A j \in Invite : invite[j] # Absent
              => invite'[j] # Absent /\ invite'[j].role = invite[j].role
  BY <1>2, InvitesAreGrants DEF Faded
<1>4. ASSUME NEW o \in Operator, g.kind = "ONBOARDING" \/ g.op # o
      PROVE  Promised(o)' \subseteq Promised(o)
  <2> SUFFICES ASSUME NEW j \in Promised(o)' PROVE j \in Promised(o)
    OBVIOUS
  <2>1. j \in Invite /\ invite'[j].state = "PENDING" /\ invite'[j].kind = "MEMBER"
        /\ invite'[j].op = o /\ invite'[j].live
    BY DEF Promised, Pending
  <2>2. j # i
    BY <1>1, <1>4, <2>1
  <2>3. invite[j] # Absent /\ Faded(invite[j], invite'[j])
    BY <1>2, <2>1, <2>2, InvitesAreGrants
  <2> QED
    BY <2>1, <2>3, HomeAssumption DEF Faded, Promised, Pending
<1> QED
  BY <1>1, <1>2, <1>3, <1>4

LEMMA NewGrantIsAGrant ==
  ASSUME NEW kind \in {"ONBOARDING", "MEMBER"}, NEW o \in Operator, NEW u \in User,
         NEW role \in MemberRole
  PROVE  /\ NewGrant(kind, o, u, role) \in Grant
         /\ NewGrant(kind, o, u, role).kind = kind /\ NewGrant(kind, o, u, role).op = o
<1>1. 1 \in 1..MaxLink
  BY BoundAssumption
<1> QED
  BY <1>1 DEF NewGrant, Grant

LEMMA OnboardWritesStep == ASSUME Inv, NEW s \in Slot, OnboardWrites(s) PROVE Inv' /\ Shrinks
<1>0. TypeOK /\ Absent \notin Grant
  BY InvitesAreGrants, Facts
<1>1. PICK u \in User, stale \in SUBSET Invite : u = flight[s].who /\ stale = flight[s].stale
  BY Facts DEF OnboardWrites, Shaped, Shape
<1> DEFINE shells == Shells(stale)
           w == SetState(stale, "PENDING", "REVOKED")
           v == Unhoused(w, shells)
<1>2. PICK i \in NewInvite, o \in NewOperator :
        /\ invite' = [v EXCEPT ![i] = NewGrant("ONBOARDING", o, u, "ADMIN")]
        /\ status' = [p \in Operator |-> IF p = o THEN "PENDING"
                                         ELSE IF p \in shells THEN "DELETED" ELSE status[p]]
  BY <1>1 DEF OnboardWrites
<1>3. /\ flight[s].do = "onboard" /\ Done(s) /\ \A p \in shells : RowFree(p)
      /\ UNCHANGED <<account, member, manager, astray, recast, limit, unpaid, bereft>>
  BY <1>1 DEF OnboardWrites, people, history
<1>4. PICK g \in Grant : /\ g = NewGrant("ONBOARDING", o, u, "ADMIN")
                         /\ g.kind = "ONBOARDING" /\ g.op = o
  BY NewGrantIsAGrant DEF NewOperator, MemberRole
<1>5. i \in Invite /\ invite[i] = Absent /\ o \in Operator /\ status[o] = "NONE"
      /\ \A p \in shells : p \in Operator /\ status[p] = "PENDING" /\ MembersOf(p) = {}
  BY DEF NewInvite, NewOperator, Shells
<1>6. /\ status' \in [Operator -> {"NONE", "PENDING", "VERIFIED", "SUSPENDED", "DELETED"}]
      /\ \A p \in Operator : status'[p] = IF p = o THEN "PENDING"
                                          ELSE IF p \in shells THEN "DELETED" ELSE status[p]
  BY <1>0, <1>2 DEF TypeOK
<1>7. o \notin shells
  BY <1>5
<1>8. Restated(stale, "REVOKED", w)
  BY <1>0, SetStateRestates
<1> HIDE DEF shells, w
<1>9. /\ v \in [Invite -> Grant \cup {Absent}]
      /\ \A j \in Invite : \/ invite[j] = Absent /\ v[j] = Absent
                           \/ invite[j] # Absent /\ Faded(invite[j], v[j])
  <2>1. w \in [Invite -> Grant \cup {Absent}]
    BY <1>8 DEF Restated
  <2>2. v \in [Invite -> Grant \cup {Absent}]
    BY <1>0, <2>1, UnhousedMeans
  <2>3. \A j \in Invite : invite[j] = Absent => v[j] = Absent
    BY <1>0, <1>8, <2>1, UnhousedMeans DEF Restated
  <2>4. ASSUME NEW j \in Invite, invite[j] # Absent PROVE Faded(invite[j], v[j])
    <3>1. /\ w[j] # Absent /\ w[j].kind = invite[j].kind /\ w[j].role = invite[j].role
          /\ w[j].op = invite[j].op /\ w[j].live = invite[j].live
          /\ w[j].state = "PENDING" => invite[j].state = "PENDING"
      BY <1>0, <1>8, <2>4 DEF Restated, Pending
    <3>2. /\ v[j] \in Grant /\ v[j].kind = w[j].kind /\ v[j].role = w[j].role
          /\ v[j].live = w[j].live /\ v[j].state = w[j].state
          /\ v[j].op = IF w[j].op \in shells THEN None ELSE w[j].op
      BY <1>0, <2>1, <3>1, UnhousedMeans
    <3>3. invite[j].op \in shells => status'[invite[j].op] = "DELETED"
      BY <1>5, <1>6, <1>7
    <3> QED
      BY <3>1, <3>2, <3>3 DEF Faded
  <2> QED
    BY <2>2, <2>3, <2>4
<1> HIDE DEF v
<1>10. /\ invite' \in [Invite -> Grant \cup {Absent}] /\ invite'[i] = g
       /\ \A j \in Invite \ {i} : \/ invite[j] = Absent /\ invite'[j] = Absent
                                  \/ invite[j] # Absent /\ Faded(invite[j], invite'[j])
       /\ \A j \in Invite : invite[j] # Absent
            => invite'[j] # Absent /\ invite'[j].role = invite[j].role
       /\ \A p \in Operator : Promised(p)' \subseteq Promised(p)
  BY <1>0, <1>2, <1>4, <1>5, <1>9, OneMoreInvite
<1>11. TypeOK'
  BY <1>0, <1>3, <1>6, <1>10, DoneMeans, Facts DEF TypeOK, Any
<1>12. Base'
  BY <1>3, <1>10, <1>11, DoneMeans, BaseKept, Facts
<1>13. People'
  BY <1>3, <1>10, DoneMeans, IdleOK, PeopleKept, Facts DEF Attaching
<1>14. Exclusive'
  BY <1>3, DoneMeans, ExclusiveKept, Facts
<1>15. ChangesGuarded'
  <2>1. \A p \in Operator : status'[p] # "VERIFIED" \/ (status'[p] = status[p] /\ member'[p] = member[p])
    BY <1>3, <1>6
  <2> QED
    BY <1>3, <2>1, DoneMeans, IdleOK, GuardsKept, Facts
<1>16. \A p \in Operator : MembersOf(p)' = MembersOf(p)
  BY <1>3, SameMembers
<1>17. Newcomers'
  <2>1. \A p \in Operator : status'[p] = "NONE" => MembersOf(p)' = {}
    BY <1>6, <1>16, Facts DEF Newcomers
  <2>2. ASSUME NEW j \in Invite, NEW p \in Operator, invite'[j] # Absent, invite'[j].op = p
        PROVE  /\ status'[p] # "NONE"
               /\ status'[p] = "PENDING" => invite'[j].kind = "ONBOARDING" /\ MembersOf(p)' = {}
    <3>1. CASE j = i
      BY <1>4, <1>5, <1>6, <1>10, <1>16, <2>2, <3>1, NothingBefore
    <3>2. CASE j # i
      <4>1. invite[j] # Absent /\ invite[j].op = p /\ invite'[j].kind = invite[j].kind
        BY <1>10, <2>2, <3>2, HomeAssumption DEF Faded
      <4>2. p # o
        BY <1>5, <4>1, NothingBefore
      <4> QED
        BY <1>6, <1>16, <2>2, <4>1, <4>2, Facts DEF Newcomers
    <3> QED
      BY <3>1, <3>2
  <2>3. ASSUME NEW r \in Slot PROVE Housed(flight[r])'
    <3>1. CASE r = s
      BY <1>3, <3>1, DoneMeans
    <3>2. CASE r # s
      <4>1. flight'[r] = flight[r] /\ Housed(flight[r]) /\ Shape(flight[r]) /\ TaskOK(flight[r])
        BY <1>3, <3>2, DoneMeans, Facts DEF Shaped
      <4>2. flight[r].do \in {"ask", "issue"} => status'[flight[r].op] \notin {"NONE", "PENDING"}
        BY <1>5, <1>6, <4>1 DEF Housed, Shape
      <4>3. ASSUME flight[r].do \in {"accept", "resend", "revive"}
            PROVE  /\ flight[r].id \in Invite \ {i}
                   /\ invite[flight[r].id] # Absent
                   /\ Faded(invite[flight[r].id], invite'[flight[r].id])
        BY <1>5, <1>10, <4>1, <4>3 DEF Shape, TaskOK
      <4>4. flight[r].do \in {"accept", "resend", "revive"} /\ flight[r].op \in Operator
              => /\ status'[flight[r].op] # "NONE"
                 /\ \/ invite'[flight[r].id].op = flight[r].op
                    \/ invite'[flight[r].id].op = None /\ status'[flight[r].op] = "DELETED"
        <5> SUFFICES ASSUME flight[r].do \in {"accept", "resend", "revive"},
                            NEW p \in Operator, p = flight[r].op
                     PROVE  /\ status'[p] # "NONE"
                            /\ \/ invite'[flight[r].id].op = p
                               \/ invite'[flight[r].id].op = None /\ status'[p] = "DELETED"
          OBVIOUS
        <5>1. p # o /\ status[p] # "NONE"
          BY <1>5, NothingBefore
        <5>2. status[p] = "DELETED" => status'[p] = "DELETED"
          BY <1>5, <1>6, <5>1
        <5> QED
          BY <1>6, <4>1, <4>3, <5>1, <5>2 DEF Housed, Faded
      <4>5. flight[r].do \in {"resend", "revive"} /\ flight[r].op = None
              => invite'[flight[r].id].kind = "ONBOARDING"
        BY <4>1, <4>3 DEF Housed, Faded
      <4> QED
        BY <4>1, <4>2, <4>4, <4>5 DEF Housed
    <3> QED
      BY <3>1, <3>2
  <2> QED
    BY <2>1, <2>2, <2>3 DEF Newcomers
<1>18. Room'
  <2>1. RoomFor(flight[s])'
    BY <1>3, DoneMeans, IdleOK DEF RoomFor
  <2>2. \A p \in Operator : Shrinking(p) /\ limit'[p] = limit[p] /\ unpaid'[p] >= unpaid[p]
    <3> TAKE p \in Operator
    <3>1. unpaid[p] \in Nat
      BY <1>0 DEF TypeOK
    <3> QED
      BY <1>3, <1>10, <1>16, <3>1 DEF Shrinking
  <2> QED
    BY <1>3, <1>11, <2>1, <2>2, DoneMeans, RoomKept, Facts
<1> QED
  BY <1>10, <1>12, <1>13, <1>14, <1>15, <1>16, <1>17, <1>18 DEF Inv, People, Shrinks, Shrinking

LEMMA MemberInsertsStep == ASSUME Inv, NEW s \in Slot, MemberInserts(s) PROVE Inv' /\ Pays
<1>0. TypeOK /\ Absent \notin Grant
  BY InvitesAreGrants, Facts
<1>1. PICK o \in Operator, u \in User, role \in MemberRole, stale \in SUBSET Invite :
        o = flight[s].op /\ u = flight[s].who /\ role = flight[s].role /\ stale = flight[s].stale
  BY Facts DEF MemberInserts, Shaped, Shape
<1> DEFINE w == SetState(stale, "PENDING", "REVOKED")
<1>2. PICK i \in NewInvite : invite' = [w EXCEPT ![i] = NewGrant("MEMBER", o, u, role)]
  BY <1>1 DEF MemberInserts
<1>3. /\ flight[s].do = "issue" /\ Done(s) /\ status[o] \notin {"NONE", "PENDING"}
      /\ UNCHANGED <<status, account, member, manager, astray, recast, limit, bereft>>
      /\ unpaid' = IF Shrunk(flight[s]) THEN [unpaid EXCEPT ![o] = @ + 1] ELSE unpaid
  BY <1>1, Facts DEF MemberInserts, people, tenancy, Housed
<1>4. PICK g \in Grant : g = NewGrant("MEMBER", o, u, role) /\ g.kind = "MEMBER" /\ g.op = o
  BY NewGrantIsAGrant
<1>5. i \in Invite /\ invite[i] = Absent
  BY DEF NewInvite
<1>6. Restated(stale, "REVOKED", w)
  BY <1>0, SetStateRestates
<1> HIDE DEF w
<1>7. /\ w \in [Invite -> Grant \cup {Absent}]
      /\ \A j \in Invite : \/ invite[j] = Absent /\ w[j] = Absent
                           \/ invite[j] # Absent /\ Faded(invite[j], w[j])
  BY <1>6 DEF Restated, Faded, Pending
<1>8. /\ invite' \in [Invite -> Grant \cup {Absent}] /\ invite'[i] = g
      /\ \A j \in Invite \ {i} : \/ invite[j] = Absent /\ invite'[j] = Absent
                                 \/ invite[j] # Absent /\ Faded(invite[j], invite'[j])
      /\ \A j \in Invite : invite[j] # Absent
           => invite'[j] # Absent /\ invite'[j].role = invite[j].role
      /\ \A p \in Operator : p # o => Promised(p)' \subseteq Promised(p)
  BY <1>0, <1>2, <1>4, <1>5, <1>7, OneMoreInvite
<1>19. /\ unpaid' \in [Operator -> Nat] /\ \A p \in Operator : unpaid[p] \in Nat
       /\ \A p \in Operator \ {o} : unpaid'[p] = unpaid[p]
       /\ unpaid'[o] = IF Shrunk(flight[s]) THEN unpaid[o] + 1 ELSE unpaid[o]
  BY <1>0, <1>3 DEF TypeOK
<1>9. TypeOK'
  BY <1>0, <1>3, <1>8, <1>19, DoneMeans, Facts DEF TypeOK, Any
<1>10. Base'
  BY <1>3, <1>8, <1>9, DoneMeans, BaseKept, Facts
<1>11. People'
  BY <1>3, <1>8, DoneMeans, IdleOK, PeopleKept, Facts DEF Attaching
<1>12. Exclusive'
  BY <1>3, DoneMeans, ExclusiveKept, Facts
<1>13. ChangesGuarded'
  BY <1>3, DoneMeans, IdleOK, GuardsKept, Facts
<1>14. \A p \in Operator : MembersOf(p)' = MembersOf(p)
  BY <1>3, SameMembers
<1>15. Newcomers'
  <2>1. \A p \in Operator : status'[p] = "NONE" => MembersOf(p)' = {}
    BY <1>3, <1>14, Facts DEF Newcomers
  <2>2. ASSUME NEW j \in Invite, NEW p \in Operator, invite'[j] # Absent, invite'[j].op = p
        PROVE  /\ status'[p] # "NONE"
               /\ status'[p] = "PENDING" => invite'[j].kind = "ONBOARDING" /\ MembersOf(p)' = {}
    <3>1. CASE j = i
      BY <1>3, <1>4, <1>8, <2>2, <3>1
    <3>2. CASE j # i
      <4>1. invite[j] # Absent /\ invite[j].op = p /\ invite'[j].kind = invite[j].kind
        <5>1. invite[j] # Absent /\ Faded(invite[j], invite'[j])
          BY <1>8, <2>2, <3>2
        <5> QED
          BY <2>2, <5>1, HomeAssumption DEF Faded
      <4> QED
        BY <1>3, <1>14, <2>2, <4>1, Facts DEF Newcomers
    <3> QED
      BY <3>1, <3>2
  <2>3. ASSUME NEW r \in Slot PROVE Housed(flight[r])'
    <3>1. CASE r = s
      BY <1>3, <3>1, DoneMeans
    <3>2. CASE r # s
      <4>1. flight'[r] = flight[r] /\ Housed(flight[r]) /\ Shape(flight[r]) /\ TaskOK(flight[r])
        BY <1>3, <3>2, DoneMeans, Facts DEF Shaped
      <4>2. ASSUME flight[r].do \in {"accept", "resend", "revive"}
            PROVE  Faded(invite[flight[r].id], invite'[flight[r].id])
        BY <1>5, <1>8, <4>1, <4>2 DEF Shape, TaskOK
      <4> QED
        BY <1>3, <4>1, <4>2 DEF Housed, Faded
    <3> QED
      BY <3>1, <3>2
  <2> QED
    BY <2>1, <2>2, <2>3 DEF Newcomers
<1>16. \A p \in Operator \ {o} : Shrinking(p) /\ limit'[p] = limit[p] /\ unpaid'[p] >= unpaid[p]
  <2> TAKE p \in Operator \ {o}
  <2>1. unpaid[p] \in Nat
    BY <1>0 DEF TypeOK
  <2> QED
    BY <1>3, <1>8, <1>14, <1>19, <2>1 DEF Shrinking
<1>17. Room'
  <2>1. RoomFor(flight[s])'
    BY <1>3, DoneMeans, IdleOK DEF RoomFor
  <2>2. \A r \in Slot : r # s => ~Holder(flight[r], o)
    BY <1>1, <1>3, Facts DEF Exclusive, Holder
  <2> QED
    BY <1>3, <1>9, <1>16, <2>1, <2>2, DoneMeans, RoomKept, Facts
<1>18. Paid(o)
  <2>1. Promised(o)' \subseteq (Promised(o) \ stale) \cup {i}
    <3> SUFFICES ASSUME NEW j \in Promised(o)', j # i PROVE j \in Promised(o) \ stale
      OBVIOUS
    <3>1. j \in Invite /\ invite'[j].state = "PENDING" /\ invite'[j].kind = "MEMBER"
          /\ invite'[j].op = o /\ invite'[j].live
      BY DEF Promised, Pending
    <3>2. invite[j] # Absent /\ invite'[j] = w[j]
      BY <1>0, <1>2, <1>7, <1>8, <3>1, InvitesAreGrants
    <3> QED
      BY <1>6, <3>1, <3>2 DEF Restated, Promised, Pending
  <2>2. /\ IsFiniteSet(Promised(o) \ stale) /\ IsFiniteSet(Promised(o))
        /\ Cardinality(MembersOf(o)) \in Nat /\ limit[o] \in Nat /\ unpaid[o] \in Nat
    BY <1>0, SeatsAreNumbers
  <2>3. /\ Cardinality(Promised(o)') \in Nat /\ Cardinality(Promised(o) \ stale) \in Nat
        /\ Cardinality(Promised(o)') <= Cardinality(Promised(o) \ stale) + 1
    BY <2>1, <2>2, OneMoreElement
  <2>4. /\ Cardinality(MembersOf(o)) + Cardinality(Promised(o) \ stale)
             < flight[s].within + unpaid[o]
        /\ flight[s].within \in Nat
    BY <1>1, <1>3, Facts DEF RoomFor, Shaped, Shape
  <2>5. CASE ~Shrunk(flight[s])
    <3>1. flight[s].within <= limit[o] /\ limit'[o] = limit[o] /\ unpaid'[o] = unpaid[o]
      BY <1>1, <1>3, <1>19, <2>2, <2>4, <2>5 DEF Shrunk
    <3>2. Seats(o)' <= limit'[o] + unpaid'[o]
      BY <1>14, <2>2, <2>3, <2>4, <3>1 DEF Seats
    <3> QED
      BY <3>2 DEF Paid
  <2>6. CASE Shrunk(flight[s])
    <3>1. /\ Cardinality(Promised(o)) \in Nat
          /\ Cardinality(Promised(o) \ stale) <= Cardinality(Promised(o))
      <4>1. Promised(o) \ stale \subseteq Promised(o)
        OBVIOUS
      <4> QED
        BY <2>2, <4>1, FS_Subset, FS_CardinalityType
    <3>2. Seats(o)' - Seats(o) <= 1
      BY <1>14, <2>2, <2>3, <3>1 DEF Seats
    <3>3. unpaid'[o] - unpaid[o] = 1
      BY <1>19, <2>2, <2>6
    <3> QED
      BY <3>2, <3>3 DEF Paid
  <2> QED
    BY <2>5, <2>6
<1> QED
  BY <1>10, <1>11, <1>12, <1>13, <1>15, <1>16, <1>17, <1>18 DEF Inv, People, Pays, Paid

\* What a resend that still finds its link does: the invite is promised anew, and if
\* nobody had counted it that is remembered.
LEMMA Renewed ==
  ASSUME Inv, NEW s \in Slot, ResendWrites(s), NEW i \in Invite, NEW o \in Operator \cup {None},
         i = flight[s].id, o = flight[s].op, Rotated(i, flight[s].link)
  PROVE  /\ flight[s].do = "revive" /\ Done(s) /\ RowFree(i) /\ invite[i] # Absent
         /\ UNCHANGED <<status, account, member, manager, astray, recast, limit, bereft>>
         /\ invite' \in [Invite -> Grant \cup {Absent}]
         /\ \A j \in Invite \ {i} : invite'[j] = invite[j]
         /\ invite'[i] \in Grant
         /\ invite'[i].kind = invite[i].kind /\ invite'[i].role = invite[i].role
         /\ invite'[i].op = invite[i].op
         /\ unpaid' \in [Operator -> Nat]
         /\ \A p \in Operator : unpaid'[p] >= unpaid[p]
         /\ LateRenewal(flight[s]) => o \in Operator /\ unpaid'[o] = unpaid[o] + 1
         /\ invite[i].kind = "MEMBER" => o \in Operator /\ invite[i].op \in {o, None}
<1>1. TypeOK /\ flight[s].do = "revive" /\ TaskOK(flight[s]) /\ Housed(flight[s])
  BY Facts DEF ResendWrites
<1>2. invite[i] # Absent /\ invite[i] \in Grant /\ invite[i].link + 1 \in 1..MaxLink
      /\ invite[i].link \in 1..MaxLink
  <2>1. invite[i] # Absent /\ invite[i] \in Grant /\ invite[i].link < MaxLink
    BY <1>1, Facts DEF TaskOK, Rotated
  <2>2. invite[i].link \in 1..MaxLink
    BY <2>1 DEF Grant
  <2> QED
    BY <2>1, <2>2, BoundAssumption
<1>3. PICK n \in 1..MaxLink : n = invite[i].link + 1
  BY <1>2
<1> DEFINE x == [invite[i] EXCEPT !.link = n, !.live = TRUE, !.state = "PENDING"]
<1>4. /\ x \in Grant /\ x.kind = invite[i].kind /\ x.role = invite[i].role /\ x.op = invite[i].op
  BY <1>2 DEF Grant
<1>5. /\ invite' = [invite EXCEPT ![i].link = @ + 1, ![i].live = TRUE, ![i].state = "PENDING"]
      /\ unpaid' = IF LateRenewal(flight[s]) THEN [unpaid EXCEPT ![o] = @ + 1] ELSE unpaid
      /\ Done(s) /\ RowFree(i)
      /\ UNCHANGED <<status, account, member, manager, astray, recast, limit, bereft>>
  BY DEF ResendWrites, people, tenancy
<1>6. invite' = [invite EXCEPT ![i] = x]
  BY <1>1, <1>3, <1>5 DEF TypeOK
<1> HIDE DEF x
<1>7. LateRenewal(flight[s]) => o \in Operator
  BY <1>1 DEF Housed, LateRenewal
<1>8. /\ unpaid' \in [Operator -> Nat]
      /\ \A p \in Operator : unpaid'[p] >= unpaid[p]
      /\ LateRenewal(flight[s]) => o \in Operator /\ unpaid'[o] = unpaid[o] + 1
  BY <1>1, <1>5, <1>7 DEF TypeOK
<1>9. invite[i].kind = "MEMBER" => o \in Operator /\ invite[i].op \in {o, None}
  BY <1>1 DEF Housed
<1>10. /\ invite' \in [Invite -> Grant \cup {Absent}] /\ invite'[i] = x
       /\ \A j \in Invite \ {i} : invite'[j] = invite[j]
  BY <1>1, <1>4, <1>6 DEF TypeOK
<1>11. LateRenewal(flight[s]) => o \in Operator /\ unpaid'[o] = unpaid[o] + 1
  BY <1>8
<1>13. unpaid' \in [Operator -> Nat] /\ \A p \in Operator : unpaid'[p] >= unpaid[p]
  BY <1>8
<1>12. /\ Done(s) /\ RowFree(i)
       /\ UNCHANGED <<status, account, member, manager, astray, recast, limit, bereft>>
  BY <1>5
<1> QED
  BY <1>1, <1>2, <1>4, <1>9, <1>10, <1>11, <1>12, <1>13

\* What a renewed invite may do to the promises of an operator.
LEMMA RenewedPromises ==
  ASSUME TypeOK, NEW i \in Invite, NEW p \in Operator,
         \A j \in Invite \ {i} : invite'[j] = invite[j],
         invite'[i].kind = invite[i].kind, invite'[i].op = invite[i].op
  PROVE  /\ Promised(p)' \subseteq Promised(p) \cup {i}
         /\ \/ i \in Promised(p)
            \/ invite[i].kind = "ONBOARDING" \/ invite[i].op # p
            => Promised(p)' \subseteq Promised(p)
<1>1. \A j \in Promised(p)' : j # i => j \in Promised(p)
  BY DEF Promised, Pending
<1>2. i \in Promised(p)' => invite[i].kind = "MEMBER" /\ invite[i].op = p
  BY DEF Promised
<1> QED
  BY <1>1, <1>2

LEMMA ResendWritesStep == ASSUME Inv, NEW s \in Slot, ResendWrites(s) PROVE Inv' /\ Pays
<1>0. TypeOK
  BY Facts
<1>1. PICK i \in Invite, o \in Operator \cup {None} : i = flight[s].id /\ o = flight[s].op
  BY Facts DEF ResendWrites, Shaped, Shape
<1>2. CASE ~Rotated(i, flight[s].link)
  <2>1. Shrinks
    BY <1>0, <1>1, <1>2, FadingShrinks, Facts DEF ResendWrites, people
  <2> QED
    BY <1>0, <1>1, <1>2, <2>1, DoneQuietly, Facts
    DEF ResendWrites, people, tenancy, Attaching, TypeOK, Shrinks, Pays, Paid
<1>3. CASE Rotated(i, flight[s].link)
  <2> DEFINE uncounted == LateRenewal(flight[s])
  <2>1. /\ flight[s].do = "revive" /\ Done(s) /\ RowFree(i) /\ invite[i] # Absent
        /\ UNCHANGED <<status, account, member, manager, astray, recast, limit, bereft>>
        /\ invite' \in [Invite -> Grant \cup {Absent}]
        /\ \A j \in Invite \ {i} : invite'[j] = invite[j]
        /\ invite'[i] \in Grant
        /\ invite'[i].kind = invite[i].kind /\ invite'[i].role = invite[i].role
        /\ invite'[i].op = invite[i].op
        /\ unpaid' \in [Operator -> Nat]
        /\ \A p \in Operator : unpaid'[p] >= unpaid[p]
        /\ uncounted => o \in Operator /\ unpaid'[o] = unpaid[o] + 1
        /\ invite[i].kind = "MEMBER" => o \in Operator /\ invite[i].op \in {o, None}
    BY <1>1, <1>3, Renewed
  <2> HIDE DEF uncounted
  <2>2. \A j \in Invite : invite[j] # Absent => /\ invite'[j] # Absent
                                                /\ invite'[j].role = invite[j].role
    BY <1>0, <2>1, InvitesAreGrants
  <2>3. TypeOK'
    BY <1>0, <2>1, DoneMeans, Facts DEF TypeOK, Any
  <2>4. Base'
    BY <2>1, <2>2, <2>3, DoneMeans, BaseKept, Facts
  <2>5. People'
    BY <2>1, <2>2, DoneMeans, IdleOK, PeopleKept, Facts DEF Attaching
  <2>6. Exclusive'
    BY <2>1, DoneMeans, ExclusiveKept, Facts
  <2>7. ChangesGuarded'
    BY <2>1, DoneMeans, IdleOK, GuardsKept, Facts
  <2>8. \A p \in Operator : MembersOf(p)' = MembersOf(p)
    BY <2>1, SameMembers
  <2>9. Newcomers'
    <3>1. \A j \in Invite : /\ invite'[j] # Absent => invite[j] # Absent
                            /\ invite[j] # Absent => /\ invite'[j].kind = invite[j].kind
                                                     /\ invite'[j].op = invite[j].op
      BY <2>1
    <3>2. \A p \in Operator : status'[p] = "NONE" => MembersOf(p)' = {}
      BY <2>1, <2>8, Facts DEF Newcomers
    <3>3. \A j \in Invite, p \in Operator : invite'[j] # Absent /\ invite'[j].op = p =>
            /\ status'[p] # "NONE"
            /\ status'[p] = "PENDING" => invite'[j].kind = "ONBOARDING" /\ MembersOf(p)' = {}
      BY <2>1, <2>8, <3>1, Facts DEF Newcomers
    <3>4. ASSUME NEW r \in Slot PROVE Housed(flight[r])'
      <4>1. CASE r = s
        BY <2>1, <4>1, DoneMeans
      <4>2. CASE r # s
        <5>1. flight'[r] = flight[r] /\ Housed(flight[r]) /\ Shape(flight[r]) /\ TaskOK(flight[r])
          BY <2>1, <4>2, DoneMeans, Facts DEF Shaped
        <5> QED
          BY <2>1, <3>1, <5>1 DEF Housed, Shape, TaskOK
      <4> QED
        BY <4>1, <4>2
    <3> QED
      BY <3>2, <3>3, <3>4 DEF Newcomers
  <2>10. ASSUME NEW p \in Operator, ~Shrinking(p)
         PROVE  /\ o = p /\ Promised(p)' \subseteq Promised(p) \cup {i}
                /\ flight[s].unlocked => unpaid'[p] = unpaid[p] + 1
                /\ ~flight[s].unlocked /\ Shrunk(flight[s]) => unpaid'[p] = unpaid[p] + 1
    <3>1. /\ invite[i].kind # "ONBOARDING" /\ invite[i].op = p /\ i \notin Promised(p)
          /\ Promised(p)' \subseteq Promised(p) \cup {i}
      BY <1>0, <2>1, <2>8, <2>10, RenewedPromises DEF Shrinking
    <3>2. invite[i].kind = "MEMBER" /\ o = p
      <4>1. invite[i] \in Grant
        BY <1>0, <2>1, InvitesAreGrants
      <4> QED
        BY <2>1, <3>1, <4>1, HomeAssumption DEF Grant
    <3>3. flight[s].unlocked \/ Shrunk(flight[s]) => uncounted
      BY <1>1, <3>1, <3>2 DEF Promised, uncounted, LateRenewal
    <3> QED
      BY <2>1, <3>1, <3>2, <3>3
  <2>11. Room'
    <3> SUFFICES ASSUME NEW r \in Slot
                 PROVE  \/ RoomFor(flight[r])'
                        \/ /\ flight'[r] = flight[r]
                           /\ \A p \in Operator : Holder(flight[r], p)
                                => Shrinking(p) /\ limit'[p] = limit[p] /\ unpaid'[p] >= unpaid[p]
      BY <2>3, RoomKept, Facts
    <3>1. CASE r = s
      BY <2>1, <3>1, DoneMeans, IdleOK DEF RoomFor
    <3>2. CASE r # s /\ ~Locking(flight[r])
      BY <2>1, <3>2, DoneMeans DEF Holder, Locking
    <3>3. CASE r # s /\ Locking(flight[r])
      <4>1. flight'[r] = flight[r]
        BY <2>1, <3>3, DoneMeans
      <4>2. CASE \A p \in Operator : Holder(flight[r], p) => Shrinking(p)
        BY <2>1, <4>1, <4>2
      <4>3. CASE ~ \A p \in Operator : Holder(flight[r], p) => Shrinking(p)
        <5>1. PICK p \in Operator : Holder(flight[r], p) /\ ~Shrinking(p)
          BY <4>3
        <5>2. /\ o = p /\ Promised(p)' \subseteq Promised(p) \cup {i}
              /\ flight[s].unlocked => unpaid'[p] = unpaid[p] + 1
          BY <2>10, <5>1
        <5>4. flight[s].unlocked
          BY <1>1, <2>1, <3>3, <5>1, <5>2, Facts DEF Exclusive, Holder
        <5>6. unpaid'[p] = unpaid[p] + 1
          BY <5>2, <5>4
        <5>7. flight[r].op = p /\ RoomFor(flight[r])
          BY <5>1, Facts DEF Holder
        <5>8. PICK is : is = flight[r].stale
          OBVIOUS
        <5>9. /\ Cardinality(MembersOf(p)) \in Nat /\ limit[p] \in Nat /\ unpaid[p] \in Nat
              /\ IsFiniteSet(Promised(p)) /\ IsFiniteSet(Promised(p) \ is)
          BY <1>0, SeatsAreNumbers
        <5>10. CASE flight[r].do = "issue"
          <6>1. i \notin is
            BY <2>1, <5>8, <5>10 DEF RowFree, Holds
          <6>2. Promised(p)' \ is \subseteq (Promised(p) \ is) \cup {i}
            BY <5>2
          <6>3. /\ Cardinality(Promised(p)' \ is) \in Nat /\ Cardinality(Promised(p) \ is) \in Nat
                /\ Cardinality(Promised(p)' \ is) <= Cardinality(Promised(p) \ is) + 1
            BY <5>9, <6>2, OneMoreElement
          <6>4. /\ flight[r].within \in Nat
                /\ Cardinality(MembersOf(p)) + Cardinality(Promised(p) \ is)
                     < flight[r].within + unpaid[p]
            BY <5>7, <5>8, <5>10, Facts DEF RoomFor, Shaped, Shape
          <6>5. Cardinality(MembersOf(p)') + Cardinality(Promised(p)' \ is)
                  < flight[r].within + unpaid'[p]
            BY <2>8, <5>6, <5>9, <6>3, <6>4
          <6> QED
            BY <4>1, <5>7, <5>8, <5>10, <6>5 DEF RoomFor
        <5>11. CASE flight[r].do # "issue"
          <6>1. /\ Cardinality(Promised(p)') \in Nat /\ Cardinality(Promised(p)) \in Nat
                /\ Cardinality(Promised(p)') <= Cardinality(Promised(p)) + 1
            BY <5>2, <5>9, OneMoreElement
          <6>2. flight[r].do = "revive" /\ ~flight[r].unlocked
                  => flight[r].within \in Nat /\ Seats(p) < flight[r].within + unpaid[p]
            BY <5>7, Facts DEF RoomFor, Shaped, Shape
          <6>3. flight[r].do = "revive" /\ ~flight[r].unlocked
                  => Seats(p)' < flight[r].within + unpaid'[p]
            BY <2>8, <5>6, <5>9, <6>1, <6>2 DEF Seats
          <6> QED
            BY <4>1, <5>7, <5>11, <6>3 DEF RoomFor
        <5> QED
          BY <5>10, <5>11
      <4> QED
        BY <4>2, <4>3
    <3> QED
      BY <3>1, <3>2, <3>3
  <2>12. Pays
    <3> SUFFICES ASSUME NEW p \in Operator, ~Shrinking(p) PROVE Paid(p)
      BY DEF Pays, Paid
    <3>1. /\ o = p /\ Promised(p)' \subseteq Promised(p) \cup {i}
          /\ flight[s].unlocked \/ Shrunk(flight[s]) => unpaid'[p] = unpaid[p] + 1
      BY <2>10
    <3>2. /\ Cardinality(MembersOf(p)) \in Nat /\ limit[p] \in Nat /\ unpaid[p] \in Nat
          /\ unpaid'[p] \in Nat /\ unpaid'[p] >= unpaid[p] /\ limit'[p] = limit[p]
          /\ IsFiniteSet(Promised(p))
      BY <1>0, <2>1, SeatsAreNumbers
    <3>3. /\ Cardinality(Promised(p)') \in Nat /\ Cardinality(Promised(p)) \in Nat
          /\ Cardinality(Promised(p)') <= Cardinality(Promised(p)) + 1
      BY <3>1, <3>2, OneMoreElement
    <3>4. Seats(p)' <= Seats(p) + 1 /\ Seats(p)' \in Nat /\ Seats(p) \in Nat
      BY <2>8, <3>2, <3>3 DEF Seats
    <3>5. CASE flight[s].unlocked \/ Shrunk(flight[s])
      BY <3>1, <3>2, <3>4, <3>5 DEF Paid
    <3>6. CASE ~flight[s].unlocked /\ ~Shrunk(flight[s])
      <4>2. Seats(p) < flight[s].within + unpaid[p] /\ flight[s].within \in Nat
        BY <1>1, <2>1, <3>1, <3>6, Facts DEF RoomFor, Shaped, Shape
      <4>3. flight[s].within <= limit[p]
        BY <1>1, <3>1, <3>2, <3>6, <4>2 DEF Shrunk
      <4>1. Seats(p) < limit[p] + unpaid[p]
        BY <3>2, <3>4, <4>2, <4>3
      <4> QED
        BY <3>2, <3>4, <4>1 DEF Paid
    <3> QED
      BY <3>5, <3>6
  <2> QED
    BY <2>4, <2>5, <2>6, <2>7, <2>9, <2>11, <2>12 DEF Inv, People
<1> QED
  BY <1>2, <1>3

-----------------------------------------------------------------------------
(* The invariant.                                                           *)

LEMMA InvInit == Init => Inv
<1> SUFFICES ASSUME Init PROVE Inv
  OBVIOUS
<1>1. TypeOK
  <2>1. DefaultLimit \in Limit /\ 0 \in 0..MaxMove
    BY LimitAssumption, BoundAssumption
  <2> QED
    BY <2>1 DEF Init, TypeOK, Account, Rank, MemberRole
<1>2. \A s \in Slot : flight[s] = Idle
  BY DEF Init
<1>3. Base
  BY <1>1, <1>2, IdleOK DEF Base, TaskOK
<1>4. \A o \in Operator, u \in User : member[o][u] = IF o = Home /\ u \in Founder THEN "ADMIN" ELSE "NONE"
  BY DEF Init
<1>5. \A s \in Slot, u \in User : ~FreshAt(s, u)
  BY <1>2, IdleOK DEF FreshAt
<1>6. Identities
  BY <1>4, <1>5 DEF Identities, Init, HomesOf
<1>7. OneHome
  BY <1>4 DEF OneHome, HomesOf
<1>8. RoleFollowsMembership
  BY <1>4, HomeAssumption DEF RoleFollowsMembership, RoleFor, RankOf, RankIn, HomesOf, Init
<1>9. Exclusive /\ ChangesGuarded /\ Room
  BY <1>2, IdleOK DEF Exclusive, Holder, ChangesGuarded, Room, RoomFor
<1>10. Newcomers
  BY <1>2, <1>4, IdleOK DEF Init, Newcomers, Housed, MembersOf
<1> QED
  BY <1>3, <1>6, <1>7, <1>8, <1>9, <1>10 DEF Inv

LEMMA InvStep == Inv /\ [Next]_vars => Inv'
<1> SUFFICES ASSUME Inv, [Next]_vars PROVE Inv'
  OBVIOUS
<1>1. CASE \E s \in Slot :
             \/ \E u \in User : OnboardReads(s, u) \/ RegisterProvisions(s, u)
             \/ \E o \in Operator, u \in User, role \in MemberRole : MemberAsks(s, o, u, role)
             \/ \E i \in Invite : \/ ResendReads(s, i) \/ Revoke(s, i)
                                  \/ AcceptFindsLapsed(s, i) \/ AcceptProvisions(s, i)
             \/ \E o \in Operator, u \in User, rank \in Rank : ChangeReads(s, o, u, rank)
             \/ \E u \in User, asked \in {"PLATFORM", "USER"} : AssignReads(s, u, asked)
             \/ \E us \in SUBSET User : ManagersValidate(s, us)
  BY <1>1, OnboardReadsStep, RegisterProvisionsStep, MemberAsksStep, ResendReadsStep, RevokeStep,
     AcceptFindsLapsedStep, AcceptProvisionsStep, ChangeReadsStep, AssignReadsStep,
     ManagersValidateStep
<1>2. CASE \E s \in Slot :
             \/ OnboardWrites(s) \/ MemberCounts(s) \/ MemberInserts(s)
             \/ ResendCounts(s) \/ ResendWrites(s)
             \/ RevokeLooks(s) \/ RevokeDeletes(s) \/ AcceptHeals(s)
  BY <1>2, OnboardWritesStep, MemberCountsStep, MemberInsertsStep, ResendCountsStep,
     ResendWritesStep, RevokeLooksStep, RevokeDeletesStep, AcceptHealsStep
<1>3. CASE \E s \in Slot :
             \/ AcceptAttaches(s) \/ RegisterAttaches(s) \/ AttachFails(s) \/ Crash(s)
             \/ ChangeWrites(s) \/ AssignWrites(s) \/ ManagersWrite(s)
             \/ EditWrites(s) \/ \E o \in Operator, q \in Limit : EditReads(s, o, q)
  BY <1>3, AcceptAttachesStep, RegisterAttachesStep, AttachFailsStep, CrashStep,
     ChangeWritesStep, AssignWritesStep, ManagersWriteStep, EditReadsStep, EditWritesStep
<1>4. CASE \/ \E i \in Invite : Lapse(i)
           \/ \E u \in User : Purge(u)
           \/ \E o \in Operator : Suspend(o) \/ Verify(o) \/ Reactivate(o)
           \/ \E o \in Operator : EndPlan(o)
           \/ \E o \in Operator, q \in Limit : AssignPlan(o, q) \/ BuyPlan(o, q)
  BY <1>4, LapseStep, PurgeStep, TransitionStep, ReplanStep, LimitAssumption
  DEF Suspend, Verify, Reactivate, EndPlan, AssignPlan, BuyPlan
<1>5. CASE UNCHANGED vars
  BY <1>5, QuietStep, Facts
  DEF vars, TypeOK, Any
<1> QED
  BY <1>1, <1>2, <1>3, <1>4, <1>5 DEF Next

\* The invariant that the theorems below rest on.
THEOREM Invariant == Spec => []Inv
BY InvInit, InvStep, PTL DEF Spec

\* Every variable keeps its type.
THEOREM TypeCorrect == Spec => []TypeOK
<1>1. Inv => TypeOK
  BY DEF Inv, Base
<1> QED
  BY <1>1, Invariant, PTL

\* No account belongs to two operators, unless an administrator gave its identity a role
\* while the request that created it had not attached it yet.
THEOREM OneOperatorAlways == Spec => []OneOperatorEach
<1>1. Inv => OneOperatorEach
  <2> SUFFICES ASSUME Inv, NEW u \in User \ recast PROVE Cardinality(HomesOf(u)) <= 1
    BY DEF OneOperatorEach
  <2>1. CASE HomesOf(u) = {}
    BY <2>1, FS_EmptySet
  <2>2. CASE HomesOf(u) # {}
    <3>1. PICK o \in HomesOf(u) : TRUE
      BY <2>2
    <3>2. HomesOf(u) = {o}
      BY <3>1 DEF Inv, OneHome
    <3>3. Cardinality(HomesOf(u)) = 1
      BY <3>2, FS_Singleton
    <3> QED
      BY <3>3
  <2> QED
    BY <2>1, <2>2
<1> QED
  BY <1>1, Invariant, PTL

\* An account's role is the one its memberships give it, unless it is astray: overlapped,
\* left by a crash, or left by an operator deleted with a revoked invite.
THEOREM RoleAlwaysFollows == Spec => []RoleFollowsMembership
<1>1. Inv => RoleFollowsMembership
  BY DEF Inv
<1> QED
  BY <1>1, Invariant, PTL

-----------------------------------------------------------------------------
(* What a step may not do.                                                  *)

\* The steps that move members or invites.
LEMMA SeatsMove ==
  ASSUME [Next]_vars
  PROVE  \/ UNCHANGED <<member, invite>>
         \/ UNCHANGED member /\ \E s \in Slot : \/ OnboardWrites(s) \/ AcceptHeals(s)
                                               \/ MemberInserts(s) \/ ResendWrites(s)
                                               \/ \E i \in Invite : Revoke(s, i)
         \/ UNCHANGED member /\ \E i \in Invite : Lapse(i)
         \/ \E s \in Slot : \/ RevokeDeletes(s) \/ ChangeWrites(s)
                            \/ AcceptAttaches(s) \/ RegisterAttaches(s)
         \/ \E u \in User : Purge(u)
<1>1. CASE \E s \in Slot :
             \/ \E u \in User : OnboardReads(s, u) \/ RegisterProvisions(s, u)
             \/ \E o \in Operator, u \in User, role \in MemberRole : MemberAsks(s, o, u, role)
             \/ \E i \in Invite : \/ ResendReads(s, i) \/ AcceptFindsLapsed(s, i)
                                  \/ AcceptProvisions(s, i)
             \/ \E o \in Operator, u \in User, rank \in Rank : ChangeReads(s, o, u, rank)
             \/ \E u \in User, asked \in {"PLATFORM", "USER"} : AssignReads(s, u, asked)
             \/ \E us \in SUBSET User : ManagersValidate(s, us)
  BY <1>1 DEF OnboardReads, RegisterProvisions, MemberAsks, ResendReads, AcceptFindsLapsed,
              AcceptProvisions, ChangeReads, AssignReads, ManagersValidate, people
<1>2. CASE \E s \in Slot : \/ MemberCounts(s) \/ ResendCounts(s) \/ RevokeLooks(s)
                          \/ AttachFails(s) \/ Crash(s) \/ AssignWrites(s) \/ ManagersWrite(s)
  BY <1>2 DEF MemberCounts, ResendCounts, RevokeLooks, AttachFails, Crash, AssignWrites,
              ManagersWrite, people
<1>3. CASE \E s \in Slot : \/ OnboardWrites(s) \/ AcceptHeals(s) \/ MemberInserts(s)
                          \/ ResendWrites(s) \/ \E i \in Invite : Revoke(s, i)
  BY <1>3 DEF OnboardWrites, AcceptHeals, MemberInserts, ResendWrites, Revoke, people
<1>4. CASE \E i \in Invite : Lapse(i)
  BY <1>4 DEF Lapse, people
<1>5. CASE \/ \E o \in Operator : Suspend(o) \/ Verify(o) \/ Reactivate(o)
           \/ \E o \in Operator : EndPlan(o)
           \/ \E o \in Operator, q \in Limit : AssignPlan(o, q) \/ BuyPlan(o, q)
           \/ \E s \in Slot : \/ EditWrites(s)
                             \/ \E o \in Operator, q \in Limit : EditReads(s, o, q)
  BY <1>5 DEF Suspend, Verify, Reactivate, Transition, EndPlan, AssignPlan, BuyPlan, Replan,
              EditReads, EditWrites, people
<1>6. CASE UNCHANGED vars
  BY <1>6 DEF vars
<1> QED
  BY <1>1, <1>2, <1>3, <1>4, <1>5, <1>6 DEF Next

LEMMA PayStep == ASSUME Inv, [Next]_vars PROVE Pays
<1>1. CASE UNCHANGED <<member, invite>>
  BY <1>1, SameSeats DEF Pays, Paid, Shrinking
<1>2. CASE \E s \in Slot : MemberInserts(s) \/ ResendWrites(s) \/ AcceptAttaches(s)
                          \/ RegisterAttaches(s)
  BY <1>2, MemberInsertsStep, ResendWritesStep, AcceptAttachesStep, RegisterAttachesStep
<1>3. CASE \/ \E s \in Slot : \/ OnboardWrites(s) \/ AcceptHeals(s) \/ RevokeDeletes(s)
                             \/ ChangeWrites(s) \/ \E i \in Invite : Revoke(s, i)
           \/ \E i \in Invite : Lapse(i)
           \/ \E u \in User : Purge(u)
  BY <1>3, OnboardWritesStep, AcceptHealsStep, RevokeDeletesStep, ChangeWritesStep, RevokeStep,
     LapseStep, PurgeStep DEF Shrinks, Pays, Paid
<1> QED
  BY <1>1, <1>2, <1>3, SeatsMove

\* Whatever adds a seat leaves the operator within its plan, apart from the seats nobody
\* counted or that were counted against a plan that has ended since.
THEOREM SeatsAlwaysPaid == Spec => SeatsArePaid
<1>1. ASSUME Inv, [Next]_vars, NEW o \in Operator, Seats(o)' > Seats(o)
      PROVE  \/ Seats(o)' <= limit'[o] + unpaid'[o]
             \/ Seats(o)' - Seats(o) <= unpaid'[o] - unpaid[o]
  <2>1. TypeOK /\ TypeOK'
    BY <1>1, InvStep DEF Inv, Base
  <2>2. ~Shrinking(o)
    <3> SUFFICES ASSUME Shrinking(o) PROVE FALSE
      OBVIOUS
    <3>1. Seats(o) \in Nat /\ Seats(o)' \in Nat /\ Seats(o)' <= Seats(o)
      BY <2>1, FewerSeats
    <3> QED
      BY <1>1, <3>1
  <2>3. Paid(o)
    BY <1>1, PayStep DEF Pays
  <2> QED
    BY <2>2, <2>3 DEF Paid
<1>2. Inv /\ [Next]_vars
        => [\A o \in Operator :
              Seats(o)' > Seats(o)
                => \/ Seats(o)' <= limit'[o] + unpaid'[o]
                   \/ Seats(o)' - Seats(o) <= unpaid'[o] - unpaid[o]]_vars
  BY <1>1
<1> QED
  BY <1>2, Invariant, PTL DEF Spec, SeatsArePaid

LEMMA AdminStep ==
  ASSUME Inv, [Next]_vars, NEW o \in Operator, o \notin bereft',
         status[o] = "VERIFIED", status'[o] # "DELETED", NEW v \in Admins(o)
  PROVE  Admins(o)' # {}
<1>1. TypeOK /\ v \in User /\ member[o][v] = "ADMIN"
  BY Facts DEF Admins
<1>2. CASE UNCHANGED member
  BY <1>2, SameMembers
<1>3. ASSUME NEW s \in Slot, RevokeDeletes(s) PROVE Admins(o)' # {}
  <2>1. o # flight[s].op /\ flight[s].op \in Operator
    BY <1>1, <1>3, Facts DEF RevokeDeletes, TypeOK, Shaped, Shape
  <2>2. member'[o] = member[o]
    BY <1>1, <1>3, <2>1 DEF RevokeDeletes, TypeOK
  <2> QED
    BY <1>1, <2>2 DEF Admins
<1>4. ASSUME NEW s \in Slot, ChangeWrites(s) PROVE Admins(o)' # {}
  <2>1. PICK p \in Operator, u \in User, rank \in Rank :
          p = flight[s].op /\ u = flight[s].who /\ rank = flight[s].role
    BY <1>4, Facts DEF ChangeWrites, Shaped, Shape
  <2>2. UNCHANGED member \/ member' = [member EXCEPT ![p][u] = rank]
    BY <1>4, <2>1 DEF ChangeWrites, people
  <2>3. UNCHANGED <<status, bereft>> /\ Guarded(flight[s])
    BY <1>4, Facts DEF ChangeWrites, tenancy, history, ChangesGuarded
  <2>4. CASE UNCHANGED member
    BY <2>4, <1>2
  <2>5. CASE member' = [member EXCEPT ![p][u] = rank] /\ (o # p \/ v # u)
    <3>1. member'[o][v] = "ADMIN"
      BY <1>1, <2>5, OnlyMembersOf
    <3> QED
      BY <1>1, <3>1 DEF Admins
  <2>6. CASE member' = [member EXCEPT ![p][u] = rank] /\ o = p /\ v = u
    <3>1. CASE rank = "ADMIN"
      <4>1. member'[o][v] = "ADMIN"
        BY <1>1, <2>6, <3>1, OnlyMembersOf
      <4> QED
        BY <1>1, <4>1 DEF Admins
    <3>2. CASE rank # "ADMIN"
      <4>1. PICK a \in Admins(o) \ {u} : TRUE
        BY <1>1, <2>1, <2>3, <2>6, <3>2 DEF Guarded
      <4>2. a \in User /\ member'[o][a] = "ADMIN"
        BY <1>1, <2>6, <4>1, OnlyMembersOf DEF Admins
      <4> QED
        BY <4>2 DEF Admins
    <3> QED
      BY <3>1, <3>2
  <2> QED
    BY <2>2, <2>4, <2>5, <2>6
<1>5. ASSUME NEW s \in Slot, AcceptAttaches(s) PROVE Admins(o)' # {}
  <2>1. PICK p \in Operator, u \in User, role \in Rank :
          member[p][u] = "NONE" /\ member' = [member EXCEPT ![p][u] = role]
    BY <1>5, RedeemedInvite DEF AcceptAttaches, MayAttach, Grant, Rank
  <2>2. member'[o][v] = "ADMIN"
    BY <1>1, <2>1, OnlyMembersOf
  <2> QED
    BY <1>1, <2>2 DEF Admins
<1>6. ASSUME NEW s \in Slot, RegisterAttaches(s) PROVE Admins(o)' # {}
  <2>1. PICK p \in NewOperator, u \in User : member' = [member EXCEPT ![p][u] = "ADMIN"]
    BY <1>6, Facts DEF RegisterAttaches, Shaped, Shape
  <2>2. p \in Operator /\ p # o /\ "ADMIN" \in Rank
    BY DEF NewOperator, Rank, MemberRole
  <2>3. member'[o][v] = "ADMIN"
    BY <1>1, <2>1, <2>2, OnlyMembersOf
  <2> QED
    BY <1>1, <2>3 DEF Admins
<1>7. ASSUME NEW u \in User, Purge(u) PROVE Admins(o)' # {}
  <2>1. v # u
    BY <1>1, <1>7 DEF Purge
  <2>2. member'[o][v] = "ADMIN"
    BY <1>1, <1>7, <2>1 DEF Purge, TypeOK
  <2> QED
    BY <1>1, <2>2 DEF Admins
<1> QED
  BY <1>2, <1>3, <1>4, <1>5, <1>6, <1>7, SeatsMove

\* No handler takes the last administrator of a verified operator that stays, unless a
\* purge, which does not look, has ever taken one of that operator's.
THEOREM LastAdminAlwaysStays == Spec => LastAdminStays
<1>1. Inv /\ [Next]_vars
        => [\A o \in Operator \ bereft' :
              status[o] = "VERIFIED" /\ status'[o] # "DELETED" /\ Admins(o) # {}
                => Admins(o)' # {}]_vars
  BY AdminStep
<1> QED
  BY <1>1, Invariant, PTL DEF Spec, LastAdminStays

=============================================================================
