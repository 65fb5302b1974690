----------------------------- MODULE Membership -----------------------------
(***************************************************************************)
(* Who is in a workspace: the routes that change a role, remove or add a   *)
(* member, create or cancel an invite and accept one.  As in AccessKeys,   *)
(* every await is a step; only the acceptance writes in a transaction.     *)
(*                                                                         *)
(* A user stands for the e-mail address too.  VIEWER and MEMBER behave     *)
(* alike here and are one role.  A membership row has an id of its own:    *)
(* a user who left and came back has another row.                          *)
(***************************************************************************)
EXTENDS Integers, FiniteSets

CONSTANTS
  Call,           (* requests                                              *)
  User,
  Admins,         (* who is ADMIN at the start                             *)
  Invite,         (* invite ids                                            *)
  Op,             (* the routes requests go to                             *)
  SeatLimit,      (* SEAT_LIMITS.free; paid plans have no limit            *)
  BillingEnabled, (* isBillingEnabled()                                    *)
  MaxRows,        (* bound: times one user becomes a member                *)
  MaxChanges      (* bound: plan changes                                   *)

Route == {"setRole", "remove", "add", "invite", "cancel", "accept"}

MembershipAssumption ==
  /\ Admins \subseteq User /\ Admins # {} /\ Invite # {} /\ Op \subseteq Route
  /\ SeatLimit \in Nat /\ MaxRows \in Nat /\ MaxChanges \in Nat
  /\ BillingEnabled \in BOOLEAN

VARIABLES
  member,  (* per user: role, and the number of the membership row         *)
  invite,  (* per id: state, addressee and role                            *)
  free,    (* billingPlan is FREE                                          *)
  call,    (* per request: route, arguments, what it read, its progress    *)
  past,    (* per request, for the properties: what was so while it ran    *)
  changes  (* plan changes so far                                          *)

vars == <<member, invite, free, call, past, changes>>

Role     == {"NONE", "MEMBER", "ADMIN"}
Progress == {"new", "begun", "authorised", "counting", "unlisted", "fresh",
             "stale", "checked"}
Answer   == {"200", "400", "403", "404", "409", "500"}

Running(c) == call[c].st \in Progress \ {"new"}
Done(c, op) == call[c].op = op /\ call[c].st = "200"

Member(u)  == member[u].role # "NONE"
Members    == Cardinality({u \in User : Member(u)})
AdminCount == Cardinality({u \in User : member[u].role = "ADMIN"})
Pending    == Cardinality({i \in Invite : invite[i].st = "open"})
Invited(u) == \E i \in Invite : invite[i].st = "open" /\ invite[i].to = u

CanAddSeat(onFree, seats) == BillingEnabled /\ onFree => seats < SeatLimit

(* The seats each route counts: the invite route counts pending invites,   *)
(* the accept route does not.                                              *)
SeatFor(op) ==
  CanAddSeat(free, IF op = "invite" THEN Members + Pending ELSE Members)

(* Fillers for what is not there yet.                                      *)
AnyUser   == CHOOSE u \in User : TRUE
AnyInvite == CHOOSE i \in Invite : TRUE

Init ==
  /\ member = [u \in User |-> [role |-> IF u \in Admins THEN "ADMIN" ELSE "NONE",
                               row |-> 0]]
  /\ \E u \in (User \ Admins) \cup {AnyUser} :
       invite = [i \in Invite |-> IF i = AnyInvite /\ u \notin Admins
                                 THEN [st |-> "open", to |-> u, role |-> "MEMBER"]
                                 ELSE [st |-> "unused", to |-> u, role |-> "NONE"]]
  /\ call = [c \in Call |-> [op |-> "accept", by |-> AnyUser, to |-> AnyUser,
                            role |-> "NONE", invite |-> AnyInvite,
                            st |-> "new", row |-> 0, seat |-> FALSE]]
  /\ free \in BOOLEAN
  /\ past = [c \in Call |-> [seat |-> FALSE, open |-> FALSE, met |-> {}]]
  /\ changes = 0

-----------------------------------------------------------------------------
(* The arguments of a route; the others keep a fixed value.                *)
Arguments(op) ==
  {a \in [op : {op}, by : User, to : User, role : Role, invite : Invite,
          st : {"begun"}, row : {0}, seat : {FALSE}] :
     /\ (a.role = "NONE") = (op \in {"remove", "cancel", "accept"})
     /\ IF op \in {"cancel", "accept"}
        THEN invite[a.invite].st # "unused" /\ invite[a.invite].to = a.to
        ELSE a.invite = AnyInvite}

Arrive(c) ==
  /\ call[c].st = "new"
  /\ \E op \in Op : \E a \in Arguments(op) : call' = [call EXCEPT ![c] = a]
  /\ UNCHANGED <<member, invite, free, changes>>

At(c, op, st) == call[c].op = op /\ call[c].st = st
Go(c, st) == call' = [call EXCEPT ![c].st = st]
Reads == UNCHANGED <<member, invite, free, changes>>

(* requireWorkspaceMembership(ADMIN); accept asks for no role.             *)
Authorise(c) ==
  /\ call[c].op # "accept" /\ call[c].st = "begun"
  /\ Go(c, IF member[call[c].by].role = "ADMIN" THEN "authorised" ELSE "403")
  /\ Reads

(* The admins are counted only when an admin acts on its own membership.   *)
FindTarget(c) ==
  /\ At(c, "setRole", "authorised") \/ At(c, "remove", "authorised")
  /\ LET u == call[c].to IN
     call' = [call EXCEPT
       ![c].row = member[u].row,
       ![c].st  = IF ~Member(u) THEN "404"
                  ELSE IF /\ call[c].by = u /\ member[u].role = "ADMIN"
                          /\ call[c].role # "ADMIN"
                  THEN "counting" ELSE "checked"]
  /\ Reads

CountAdminsOffByOne(c) ==  \* mutant: adminCount < 1
  /\ call[c].st = "counting"
  /\ Go(c, IF AdminCount < 1 THEN "400" ELSE "checked")
  /\ Reads

CountAdmins(c) ==
  /\ call[c].st = "counting"
  /\ Go(c, IF AdminCount <= 1 THEN "400" ELSE "checked")
  /\ Reads

(* update and delete by row id: they throw when that row is gone.          *)
SameRow(c) == Member(call[c].to) /\ member[call[c].to].row = call[c].row

SetRoleUpserts(c) ==  \* mutant: an upsert by (workspace, user)
  /\ At(c, "setRole", "checked")
  /\ member' = [member EXCEPT ![call[c].to].role = call[c].role]
  /\ Go(c, "200")
  /\ UNCHANGED <<invite, free, changes>>

SetRole(c) ==
  /\ At(c, "setRole", "checked")
  /\ \/ /\ SameRow(c)
        /\ member' = [member EXCEPT ![call[c].to].role = call[c].role]
        /\ Go(c, "200")
     \/ ~SameRow(c) /\ Go(c, "500") /\ UNCHANGED member
  /\ UNCHANGED <<invite, free, changes>>

Remove(c) ==
  /\ At(c, "remove", "checked")
  /\ \/ /\ SameRow(c)
        /\ member' = [member EXCEPT ![call[c].to].role = "NONE"]
        /\ Go(c, "200")
     \/ ~SameRow(c) /\ Go(c, "500") /\ UNCHANGED member
  /\ UNCHANGED <<invite, free, changes>>

(* add and invite answer 409 when the user is a member already; only the   *)
(* invite route goes on to look for an invite and to count seats.          *)
FindMember(c) ==
  /\ At(c, "add", "authorised") \/ At(c, "invite", "authorised")
  /\ Go(c, IF Member(call[c].to) THEN "409"
           ELSE IF call[c].op = "add" THEN "checked" ELSE "unlisted")
  /\ Reads

FindInvite(c) ==
  /\ At(c, "invite", "unlisted")
  /\ Go(c, IF Invited(call[c].to) THEN "409" ELSE "fresh")
  /\ Reads

CountSeatsOfMembers(c) ==  \* mutant: pending invites take no seat
  /\ At(c, "invite", "fresh")
  /\ Go(c, IF CanAddSeat(free, Members) THEN "checked" ELSE "403")
  /\ Reads

CountSeats(c) ==
  /\ At(c, "invite", "fresh")
  /\ Go(c, IF SeatFor("invite") THEN "checked" ELSE "403")
  /\ Reads

Joined(u, r) == [member EXCEPT ![u] = [role |-> r, row |-> @.row + 1]]
HasRow(u) == member[u].row < MaxRows  \* bound

(* The unique index on (workspace, user) makes a second row throw.         *)
AddMember(c) ==
  /\ At(c, "add", "checked")
  /\ LET u == call[c].to IN
     \/ /\ ~Member(u) /\ HasRow(u)
        /\ member' = Joined(u, call[c].role)
        /\ Go(c, "200")
     \/ Member(u) /\ Go(c, "500") /\ UNCHANGED member
  /\ UNCHANGED <<invite, free, changes>>

CreateInvite(c) ==
  /\ At(c, "invite", "checked")
  /\ LET u == call[c].to IN
     \/ /\ ~Invited(u)
        /\ \E i \in Invite :
             /\ invite[i].st = "unused"
             /\ invite' = [invite EXCEPT ![i] = [st |-> "open", to |-> u,
                                                 role |-> call[c].role]]
             /\ call' = [call EXCEPT ![c].st = "200", ![c].invite = i]
     \/ Invited(u) /\ Go(c, "500") /\ UNCHANGED invite
  /\ UNCHANGED <<member, free, changes>>

Open(c) == invite[call[c].invite].st = "open"
Closed(c) == [invite EXCEPT ![call[c].invite].st = "gone"]

FindCancelled(c) ==
  /\ At(c, "cancel", "authorised")
  /\ Go(c, IF Open(c) THEN "checked" ELSE "404")
  /\ Reads

CancelInvite(c) ==
  /\ At(c, "cancel", "checked")
  /\ \/ Open(c) /\ invite' = Closed(c) /\ Go(c, "200")
     \/ ~Open(c) /\ Go(c, "500") /\ UNCHANGED invite
  /\ UNCHANGED <<member, free, changes>>

(* One query reads the invite, the plan and the number of members; the     *)
(* seat check further down uses that number.  An invite is for one user.   *)
ReadInvite(c) ==
  /\ At(c, "accept", "begun")
  /\ call' = [call EXCEPT
       ![c].st = IF ~Open(c) THEN "404"
                 ELSE IF call[c].to # call[c].by THEN "403" ELSE "unlisted",
       ![c].role = invite[call[c].invite].role,
       ![c].seat = SeatFor("accept")]
  /\ Reads

CheckSeatBeforeInvite(c) ==  \* mutant: the seat was checked when the invite was made
  /\ At(c, "accept", "unlisted")
  /\ Go(c, IF Member(call[c].by) THEN "stale" ELSE "checked")
  /\ Reads

CheckSeat(c) ==
  /\ At(c, "accept", "unlisted")
  /\ Go(c, IF Member(call[c].by) THEN "stale"
           ELSE IF call[c].seat THEN "checked" ELSE "403")
  /\ Reads

DropInvite(c) ==
  /\ At(c, "accept", "stale")
  /\ \/ Open(c) /\ invite' = Closed(c) /\ Go(c, "409")
     \/ ~Open(c) /\ Go(c, "500") /\ UNCHANGED invite
  /\ UNCHANGED <<member, free, changes>>

AcceptWithoutInvite(c) ==  \* mutant: deleteMany does not mind a missing invite
  /\ At(c, "accept", "checked")
  /\ LET u == call[c].by IN
     \/ /\ ~Member(u) /\ HasRow(u)
        /\ member' = Joined(u, call[c].role) /\ invite' = Closed(c)
        /\ Go(c, "200")
     \/ Member(u) /\ Go(c, "500") /\ UNCHANGED <<member, invite>>
  /\ UNCHANGED <<free, changes>>

(* The $transaction: the membership is created and the invite deleted, or  *)
(* neither.                                                                *)
AcceptInvite(c) ==
  /\ At(c, "accept", "checked")
  /\ LET u == call[c].by IN
     \/ /\ ~Member(u) /\ Open(c) /\ HasRow(u)
        /\ member' = Joined(u, call[c].role) /\ invite' = Closed(c)
        /\ Go(c, "200")
     \/ /\ Member(u) \/ ~Open(c)
        /\ Go(c, "500") /\ UNCHANGED <<member, invite>>
  /\ UNCHANGED <<free, changes>>

(* The plan changes: a Stripe webhook.                                     *)
ChangePlan ==
  /\ changes < MaxChanges /\ changes' = changes + 1
  /\ free' = ~free
  /\ UNCHANGED <<member, invite, call>>

-----------------------------------------------------------------------------
Handle(c) ==
  \/ Authorise(c) \/ FindTarget(c) \/ CountAdmins(c) \/ SetRole(c) \/ Remove(c)
  \/ FindMember(c) \/ FindInvite(c) \/ CountSeats(c) \/ AddMember(c)
  \/ CreateInvite(c) \/ FindCancelled(c) \/ CancelInvite(c)
  \/ ReadInvite(c) \/ CheckSeat(c) \/ DropInvite(c) \/ AcceptInvite(c)

(* past[c]: whether at some moment since c arrived a seat was free for it, *)
(* and its invite open; the requests that ran at the same time.            *)
Observe ==
  past' = [c \in Call |->
    [seat |-> past[c].seat \/ (Running(c) /\ SeatFor(call[c].op))',
     open |-> past[c].open \/ (Running(c) /\ Open(c))',
     met  |-> past[c].met \cup {d \in Call : (Running(c) /\ Running(d))'}]]

Next ==
  /\ \/ \E c \in Call : Arrive(c) \/ Handle(c)
     \/ ChangePlan
  /\ Observe

Spec == Init /\ [][Next]_vars

-----------------------------------------------------------------------------
(* Properties.                                                             *)

TypeOK ==
  /\ member \in [User -> [role : Role, row : 0 .. MaxRows]]
  /\ invite \in [Invite -> [st : {"unused", "open", "gone"}, to : User, role : Role]]
  /\ free \in BOOLEAN
  /\ call \in [Call -> [op : Route, by : User, to : User, role : Role, invite : Invite,
                        st : Progress \cup Answer, row : 0 .. MaxRows, seat : BOOLEAN]]
  /\ past \in [Call -> [seat : BOOLEAN, open : BOOLEAN, met : SUBSET Call]]
  /\ changes \in 0 .. MaxChanges

HasAdmin == \E u \in User : member[u].role = "ADMIN"
TookAdmin(c) == Done(c, "remove") \/ (Done(c, "setRole") /\ call[c].role # "ADMIN")

(* Handled one at a time, the routes keep an admin although they count     *)
(* admins only when one acts on itself: a workspace loses its last admin   *)
(* only to requests that overlapped.                                       *)
LastAdminNeedsOverlap ==
  ~HasAdmin => \E c, d \in Call :
    c # d /\ d \in past[c].met /\ TookAdmin(c) /\ TookAdmin(d)

(* An invite is created, or accepted, only if the plan had a seat for it   *)
(* at some moment while the request ran.                                   *)
SeatIsChecked ==
  \A c \in Call : Done(c, "invite") \/ Done(c, "accept") => past[c].seat

(* A cancelled or used invite opens nothing to a request that comes later, *)
(* and no invite is used twice.                                            *)
InviteIsSpentOnce ==
  /\ \A c \in Call : Done(c, "accept") => past[c].open
  /\ \A c, d \in Call : Done(c, "accept") /\ Done(d, "accept")
                        /\ call[c].invite = call[d].invite => c = d

(* A role change that raced a removal never brings the member back: who is *)
(* out returns only by the add route or by accepting an invite to oneself. *)
LetIn ==
  \A u \in User : ~Member(u) /\ Member(u)' =>
    \E c \in Call : call[c].st = "checked" /\ call'[c].st = "200"
                    /\ call[c].op \in {"add", "accept"} /\ call[c].to = u
=============================================================================
