--------------------------- MODULE MembershipProofs ---------------------------
(***************************************************************************)
(* Seats, invites and admins for any number of requests, users, invites    *)
(* and seats: what the routes check in one statement and write in another  *)
(* still guarantees that seats and invites were free while a request ran,  *)
(* and that a workspace loses its last admin only to requests that         *)
(* overlapped.                                                             *)
(***************************************************************************)
EXTENDS Membership, FiniteSetTheorems, TLAPS

MemberRecord == [role : Role, row : 0 .. MaxRows]
InviteRecord == [st : {"unused", "open", "gone"}, to : User, role : Role]
CallRecord == [op : Route, by : User, to : User, role : Role, invite : Invite,
               st : Progress \cup Answer, row : 0 .. MaxRows, seat : BOOLEAN]
PastRecord == [seat : BOOLEAN, open : BOOLEAN, met : SUBSET Call]

(* What a request never is; who goes on to accept an invite is whom it is  *)
(* for.                                                                    *)
Invitee == {"unlisted", "stale", "checked", "200"}
Shaped(a) == /\ a.op = "accept" /\ a.st \in Invitee => a.by = a.to
             /\ a.op = "remove" => a.role = "NONE"
             /\ a.st = "counting" => a.op \in {"setRole", "remove"}
Shape == \A c \in Call : Shaped(call[c])

(* While a request runs, past has seen what holds now.                     *)
Seen == \A c \in Call : Running(c) =>
  /\ SeatFor(call[c].op) => past[c].seat
  /\ Open(c) => past[c].open
  /\ \A d \in Call : Running(d) => d \in past[c].met

(* A seat was seen before a request goes on.                               *)
Seated == \A c \in Call :
  /\ call[c].op = "invite" /\ call[c].st \in {"checked", "200"} => past[c].seat
  /\ call[c].op = "accept" /\ call[c].st = "unlisted" /\ call[c].seat => past[c].seat
  /\ call[c].op = "accept" /\ call[c].st \in {"checked", "200"} => past[c].seat

Spent ==
  /\ \A c \in Call : Done(c, "accept") =>
       past[c].open /\ invite[call[c].invite].st = "gone"
  /\ \A c, d \in Call : Done(c, "accept") /\ Done(d, "accept")
                        /\ call[c].invite = call[d].invite => c = d

(* A request that takes an admin away leaves another, or has met a request *)
(* that took one too: the one who acts was an admin when it was asked.     *)
Admin(u) == member[u].role = "ADMIN"
Takes(c) == call[c].op = "remove" \/ (call[c].op = "setRole" /\ call[c].role # "ADMIN")
Rival(c) == \E d \in Call : TookAdmin(d) /\ d \in past[c].met
Another(c) == \E u \in User : u # call[c].to /\ Admin(u)
Spares == \A c \in Call : Takes(c) =>
  /\ call[c].st = "authorised" => Admin(call[c].by) \/ Rival(c)
  /\ call[c].st = "checked" => Another(c) \/ Rival(c)

Rivals == \E c, d \in Call :
  c # d /\ d \in past[c].met /\ TookAdmin(c) /\ TookAdmin(d)
Led == HasAdmin \/ Rivals

IInv == TypeOK /\ Shape /\ Seen /\ Seated /\ Spent /\ Spares /\ Led

-----------------------------------------------------------------------------
(* What past sees.                                                         *)

LEMMA PastMade ==
  ASSUME NEW B, NEW M, NEW b1 \in B, NEW b2 \in B, NEW m \in M
  PROVE  [seat |-> b1, open |-> b2, met |-> m] \in [seat : B, open : B, met : M]
OBVIOUS

LEMMA Observed ==
  ASSUME TypeOK, Observe
  PROVE  /\ past' \in [Call -> PastRecord] /\ Seen'
         /\ \A c \in Call : /\ past[c].seat => past'[c].seat
                            /\ past[c].open => past'[c].open
                            /\ past[c].met \subseteq past'[c].met
<1> DEFINE s(c) == past[c].seat \/ (Running(c) /\ SeatFor(call[c].op))'
           o(c) == past[c].open \/ (Running(c) /\ Open(c))'
           m(c) == past[c].met \cup {d \in Call : (Running(c) /\ Running(d))'}
<1>1. past' = [c \in Call |-> [seat |-> s(c), open |-> o(c), met |-> m(c)]]
  BY DEF Observe
<1>2. \A c \in Call : s(c) \in BOOLEAN /\ o(c) \in BOOLEAN
  OBVIOUS
<1>3. \A c \in Call : m(c) \in SUBSET Call
  BY DEF TypeOK
<1>4. \A c \in Call : past'[c].seat = s(c) /\ past'[c].open = o(c) /\ past'[c].met = m(c)
  BY <1>1
<1>5. past' \in [Call -> PastRecord]
  <2> HIDE DEF s, o, m
  <2>1. \A c \in Call : [seat |-> s(c), open |-> o(c), met |-> m(c)] \in PastRecord
    BY <1>2, <1>3, PastMade DEF PastRecord
  <2> QED BY <2>1, <1>1
<1>6. Seen'
  BY <1>4 DEF Seen
<1> QED BY <1>4, <1>5, <1>6

LEMMA CallEffect ==
  ASSUME TypeOK, NEW c \in Call, NEW r \in CallRecord, call' = [call EXCEPT ![c] = r]
  PROVE  /\ call' \in [Call -> CallRecord] /\ call'[c] = r
         /\ \A d \in Call \ {c} : call'[d] = call[d]
BY DEF TypeOK, CallRecord

LEMMA GoEffect ==
  ASSUME TypeOK, NEW c \in Call, NEW st \in Progress \cup Answer, Go(c, st)
  PROVE  \E r \in CallRecord :
           /\ call' = [call EXCEPT ![c] = r] /\ r.st = st
           /\ r.op = call[c].op /\ r.by = call[c].by /\ r.to = call[c].to
           /\ r.role = call[c].role /\ r.invite = call[c].invite
           /\ r.row = call[c].row /\ r.seat = call[c].seat
<1> DEFINE r == [call[c] EXCEPT !.st = st]
<1>1. /\ r \in CallRecord /\ r.st = st
      /\ r.op = call[c].op /\ r.by = call[c].by /\ r.to = call[c].to
      /\ r.role = call[c].role /\ r.invite = call[c].invite
      /\ r.row = call[c].row /\ r.seat = call[c].seat
  BY DEF TypeOK, CallRecord
<1>2. call' = [call EXCEPT ![c] = r]
  BY DEF Go
<1> HIDE DEF r
<1> QED BY <1>1, <1>2

-----------------------------------------------------------------------------
(* One request takes a step.                                               *)

(* Nobody stops being an admin but the target of a request that takes it.  *)
Demotes(c) ==
  \A u \in User : Admin(u) /\ ~Admin(u)' =>
    /\ u = call[c].to /\ Takes(c) /\ call[c].st = "checked"
    /\ Takes(c)' /\ call'[c].st = "200"

LEMMA AdminsKept ==
  ASSUME IInv, Observe, NEW c \in Call, NEW r \in CallRecord, call' = [call EXCEPT ![c] = r],
         call[c].st \in Progress, Demotes(c), member' \in [User -> MemberRecord],
         Takes(c)' => /\ r.st = "authorised" => Admin(r.by)'
                      /\ r.st = "checked" => Another(c)' \/ Rival(c)
  PROVE  Spares' /\ Led'
<1>1. call'[c] = r /\ \A d \in Call \ {c} : call'[d] = call[d]
  BY CallEffect DEF IInv
<1>2. \A d \in Call : TookAdmin(d) => d # c /\ TookAdmin(d)'
  BY <1>1 DEF TookAdmin, Done, Progress
<1>3. \A d \in Call : past[d].met \subseteq past'[d].met
  BY Observed DEF IInv
<1>4. \A d \in Call : Rival(d) => Rival(d)'
  BY <1>2, <1>3 DEF Rival
<1>5. ASSUME NEW u \in User, Admin(u), ~Admin(u)'
      PROVE  /\ u = call[c].to /\ TookAdmin(c)' /\ Running(c)
             /\ Another(c) \/ Rival(c)
  <2>1. /\ u = call[c].to /\ Takes(c) /\ call[c].st = "checked"
        /\ Takes(c)' /\ call'[c].st = "200"
    BY <1>5 DEF Demotes
  <2>2. TookAdmin(c)'
    BY <2>1 DEF TookAdmin, Done, Takes
  <2>3. Another(c) \/ Rival(c)
    BY <2>1 DEF IInv, Spares
  <2> QED BY <2>1, <2>2, <2>3 DEF Running, Progress
<1>6. ASSUME NEW u \in User, Admin(u), ~Admin(u)', NEW d \in Call, Running(d), d # c
      PROVE  Rival(d)'
  <2>1. c \in past[d].met
    BY <1>5, <1>6 DEF IInv, Seen
  <2> QED BY <2>1, <1>3, <1>5, <1>6 DEF Rival
<1>7. Spares'
  <2> SUFFICES ASSUME NEW d \in Call, Takes(d)'
               PROVE  /\ call'[d].st = "authorised" => Admin(call[d].by)' \/ Rival(d)'
                      /\ call'[d].st = "checked" => Another(d)' \/ Rival(d)'
    BY DEF Spares
  <2>1. CASE d = c
    BY <2>1, <1>1, <1>4 DEF Admin
  <2>2. CASE d # c
    <3>0. call'[d] = call[d] /\ Takes(d) /\ call[d].by \in User
      BY <2>2, <1>1 DEF Takes, IInv, TypeOK
    <3>1. ASSUME call'[d].st = "authorised" PROVE Admin(call[d].by)' \/ Rival(d)'
      <4>1. Running(d) /\ (Admin(call[d].by) \/ Rival(d))
        BY <3>0, <3>1 DEF IInv, Spares, Running, Progress
      <4>2. CASE Rival(d)
        BY <4>2, <1>4
      <4>3. CASE Admin(call[d].by)
        BY <4>1, <4>3, <3>0, <2>2, <1>6 DEF Admin
      <4> QED BY <4>1, <4>2, <4>3
    <3>2. ASSUME call'[d].st = "checked" PROVE Another(d)' \/ Rival(d)'
      <4>1. Running(d) /\ (Another(d) \/ Rival(d))
        BY <3>0, <3>2 DEF IInv, Spares, Running, Progress
      <4>2. CASE Rival(d)
        BY <4>2, <1>4
      <4>3. CASE Another(d)
        BY <4>1, <4>3, <3>0, <2>2, <1>6 DEF Another
      <4> QED BY <4>1, <4>2, <4>3
    <3> QED BY <3>1, <3>2
  <2> QED BY <2>1, <2>2
<1>8. Led'
  <2>1. CASE Rivals
    <3>1. Rivals'
      BY <2>1, <1>2, <1>3 DEF Rivals
    <3> QED BY <3>1 DEF Led
  <2>2. CASE HasAdmin
    <3>1. PICK u \in User : Admin(u)
      BY <2>2 DEF HasAdmin, Admin
    <3>2. CASE Admin(u)'
      BY <3>2 DEF Led, HasAdmin, Admin
    <3>3. CASE ~Admin(u)'
      <4>1. u = call[c].to /\ TookAdmin(c)' /\ (Another(c) \/ Rival(c))
        BY <3>1, <3>3, <1>5
      <4>2. CASE Another(c)
        <5>1. PICK v \in User : v # call[c].to /\ Admin(v)
          BY <4>2 DEF Another
        <5>2. Admin(v)'
          BY <5>1 DEF Demotes
        <5> QED BY <5>2 DEF Led, HasAdmin, Admin
      <4>3. CASE Rival(c)
        <5>1. PICK d \in Call : TookAdmin(d) /\ d \in past[c].met
          BY <4>3 DEF Rival
        <5>2. d # c /\ TookAdmin(d)' /\ d \in past'[c].met
          BY <5>1, <1>2, <1>3
        <5> QED BY <5>2, <4>1 DEF Led, Rivals
      <4> QED BY <4>1, <4>2, <4>3
    <3> QED BY <3>2, <3>3
  <2> QED BY <2>1, <2>2 DEF IInv, Led
<1> QED BY <1>7, <1>8

(* And the rest of the invariant.                                          *)
LEMMA Kept ==
  ASSUME IInv, Observe, NEW c \in Call, NEW r \in CallRecord, call' = [call EXCEPT ![c] = r],
         call[c].st \in Progress, Demotes(c), member' \in [User -> MemberRecord],
         invite' \in [Invite -> InviteRecord], UNCHANGED <<free, changes>>, Shaped(r),
         \A i \in Invite : invite[i].st = "gone" => invite'[i].st = "gone",
         r.op = "invite" /\ r.st \in {"checked", "200"} => past[c].seat,
         r.op = "accept" /\ r.st = "unlisted" /\ r.seat => past[c].seat,
         r.op = "accept" /\ r.st \in {"checked", "200"} => past[c].seat,
         r.op = "accept" /\ r.st = "200" =>
           Running(c) /\ r.invite = call[c].invite /\ Open(c) /\ invite'[r.invite].st = "gone",
         Takes(c)' => /\ r.st = "authorised" => Admin(r.by)'
                      /\ r.st = "checked" => Another(c)' \/ Rival(c)
  PROVE  IInv'
<1>1. call' \in [Call -> CallRecord] /\ call'[c] = r /\ \A d \in Call \ {c} : call'[d] = call[d]
  BY CallEffect DEF IInv
<1>2. /\ past' \in [Call -> PastRecord] /\ Seen'
      /\ \A d \in Call : /\ past[d].seat => past'[d].seat
                         /\ past[d].open => past'[d].open
  BY Observed DEF IInv
<1>3. TypeOK'
  BY <1>1, <1>2 DEF IInv, TypeOK, CallRecord, PastRecord, MemberRecord, InviteRecord
<1>4. Shape'
  BY <1>1 DEF IInv, Shape, Shaped
<1>5. Seated'
  <2> SUFFICES ASSUME NEW d \in Call
               PROVE  /\ call'[d].op = "invite" /\ call'[d].st \in {"checked", "200"} =>
                           past'[d].seat
                      /\ call'[d].op = "accept" /\ call'[d].st = "unlisted" /\ call'[d].seat =>
                           past'[d].seat
                      /\ call'[d].op = "accept" /\ call'[d].st \in {"checked", "200"} =>
                           past'[d].seat
    BY DEF Seated
  <2>1. CASE d = c
    BY <2>1, <1>1, <1>2
  <2>2. CASE d # c
    BY <2>2, <1>1, <1>2 DEF IInv, Seated
  <2> QED BY <2>1, <2>2
<1>6. \A d \in Call : Done(d, "accept")' =>
        \/ d # c /\ Done(d, "accept") /\ call'[d].invite = call[d].invite
        \/ d = c /\ r.op = "accept" /\ r.st = "200"
  BY <1>1 DEF Done
<1>7. r.op = "accept" /\ r.st = "200" => past[c].open
  BY DEF IInv, Seen
<1>8. Spent'
  <2>1. ASSUME NEW d \in Call, Done(d, "accept")'
        PROVE  past'[d].open /\ invite'[call'[d].invite].st = "gone"
    <3>1. CASE d # c /\ Done(d, "accept") /\ call'[d].invite = call[d].invite
      BY <3>1, <1>2 DEF IInv, Spent, TypeOK
    <3>2. CASE d = c /\ r.op = "accept" /\ r.st = "200"
      BY <3>2, <1>1, <1>2, <1>7
    <3> QED BY <3>1, <3>2, <2>1, <1>6
  <2>2. ASSUME NEW d \in Call, Done(d, "accept"), r.op = "accept", r.st = "200"
        PROVE  call[d].invite # r.invite
    BY <2>2 DEF IInv, Spent, Open
  <2>3. ASSUME NEW d \in Call, NEW e \in Call, Done(d, "accept")', Done(e, "accept")',
               call'[d].invite = call'[e].invite
        PROVE  d = e
    <3>1. CASE d # c /\ e # c
      BY <3>1, <2>3, <1>6 DEF IInv, Spent
    <3>2. CASE d = c /\ e # c
      BY <3>2, <2>2, <2>3, <1>1, <1>6
    <3>3. CASE d # c /\ e = c
      BY <3>3, <2>2, <2>3, <1>1, <1>6
    <3> QED BY <3>1, <3>2, <3>3
  <2> QED BY <2>1, <2>3 DEF Spent
<1>9. Spares' /\ Led'
  BY AdminsKept
<1> QED BY <1>2, <1>3, <1>4, <1>5, <1>8, <1>9 DEF IInv

-----------------------------------------------------------------------------
(* Steps that write nothing.                                               *)

LEMMA Refl ==
  ASSUME IInv, NEW c \in Call, UNCHANGED member
  PROVE  /\ Demotes(c) /\ member' \in [User -> MemberRecord]
         /\ \A u \in User : Admin(u)' <=> Admin(u)
BY DEF Demotes, Admin, IInv, TypeOK, MemberRecord

LEMMA GoKept ==
  ASSUME IInv, Observe, NEW c \in Call, call[c].st \in Progress \ {"new"},
         UNCHANGED <<member, invite, free, changes>>,
         NEW st \in Progress \cup Answer, Go(c, st), st # "200",
         call[c].op = "invite" /\ st = "checked" => past[c].seat,
         call[c].op = "accept" => st # "unlisted" /\ (st = "checked" => past[c].seat),
         st = "counting" => call[c].op \in {"setRole", "remove"},
         call[c].op = "accept" /\ st \in Invitee => call[c].st \in Invitee,
         Takes(c) => /\ st = "authorised" => Admin(call[c].by)
                     /\ st = "checked" => Another(c) \/ Rival(c)
  PROVE  IInv'
<1>1. PICK r \in CallRecord :
        /\ call' = [call EXCEPT ![c] = r] /\ r.st = st
        /\ r.op = call[c].op /\ r.by = call[c].by /\ r.to = call[c].to
        /\ r.role = call[c].role /\ r.invite = call[c].invite
        /\ r.row = call[c].row /\ r.seat = call[c].seat
  BY GoEffect DEF IInv
<1>2. call'[c] = r
  BY <1>1, CallEffect DEF IInv
<1>3. Shaped(r)
  BY <1>1 DEF IInv, Shape, Shaped
<1>4. Takes(c)' => /\ r.st = "authorised" => Admin(r.by)'
                   /\ r.st = "checked" => Another(c)' \/ Rival(c)
  <2>1. Takes(c)' => Takes(c)
    BY <1>1, <1>2 DEF Takes
  <2>2. Another(c) => Another(c)'
    BY <1>1, <1>2 DEF Another, Admin
  <2> QED BY <2>1, <2>2, <1>1 DEF Admin
<1>5. invite' \in [Invite -> InviteRecord]
  BY DEF IInv, TypeOK, InviteRecord
<1> QED BY <1>1, <1>3, <1>4, <1>5, Refl, Kept

(* Two admins or more: there is one besides the target.                    *)
LEMMA TwoAdmins ==
  ASSUME NEW c \in Call, ~(AdminCount <= 1)
  PROVE  Another(c)
<1> DEFINE S == {u \in User : member[u].role = "ADMIN"}
<1>1. SUFFICES ASSUME ~Another(c) PROVE AdminCount <= 1
  OBVIOUS
<1>2. S = {} \/ S = {call[c].to}
  BY <1>1 DEF Another, Admin
<1>3. Cardinality({}) = 0 /\ Cardinality({call[c].to}) = 1
  BY FS_EmptySet, FS_Singleton
<1>4. AdminCount = Cardinality(S)
  BY DEF AdminCount
<1> HIDE DEF S
<1> QED BY <1>2, <1>3, <1>4

LEMMA Readers ==
  ASSUME IInv, Observe, NEW c \in Call,
         \/ Authorise(c) \/ CountAdmins(c) \/ FindMember(c) \/ FindInvite(c)
         \/ CountSeats(c) \/ FindCancelled(c) \/ CheckSeat(c)
  PROVE  IInv'
<1>0. TypeOK /\ Seen /\ Seated /\ Shape /\ UNCHANGED <<member, invite, free, changes>>
  BY DEF IInv, Authorise, CountAdmins, FindMember, FindInvite, CountSeats, FindCancelled,
         CheckSeat, Reads
<1>1. CASE Authorise(c)
  BY <1>0, <1>1, GoKept DEF Authorise, Progress, Answer, Admin, Invitee
<1>2. CASE CountAdmins(c)
  <2> DEFINE st == IF AdminCount <= 1 THEN "400" ELSE "checked"
  <2>1. st \in {"400", "checked"} /\ (st = "checked" => Another(c))
    BY TwoAdmins
  <2>2. Go(c, st) /\ call[c].st = "counting"
    BY <1>2 DEF CountAdmins
  <2>3. call[c].op \in {"setRole", "remove"}
    BY <2>2, <1>0 DEF Shape, Shaped
  <2> HIDE DEF st
  <2> QED BY <1>0, <2>1, <2>2, <2>3, GoKept DEF Progress, Answer
<1>3. CASE FindMember(c)
  BY <1>0, <1>3, GoKept DEF FindMember, At, Progress, Answer, Takes
<1>4. CASE FindInvite(c)
  BY <1>0, <1>4, GoKept DEF FindInvite, At, Progress, Answer, Takes
<1>5. CASE CountSeats(c)
  <2> DEFINE st == IF SeatFor("invite") THEN "checked" ELSE "403"
  <2>1. st \in {"403", "checked"} /\ (st = "checked" => SeatFor("invite"))
    OBVIOUS
  <2>2. Go(c, st) /\ call[c].st = "fresh" /\ call[c].op = "invite"
    BY <1>5 DEF CountSeats, At
  <2> HIDE DEF st
  <2>3. st = "checked" => past[c].seat
    BY <2>1, <2>2, <1>0 DEF Seen, Running, Progress
  <2> QED BY <1>0, <2>1, <2>2, <2>3, GoKept DEF Progress, Answer, Takes
<1>6. CASE FindCancelled(c)
  BY <1>0, <1>6, GoKept DEF FindCancelled, At, Progress, Answer, Takes
<1>7. CASE CheckSeat(c)
  <2> DEFINE st == IF Member(call[c].by) THEN "stale"
                   ELSE IF call[c].seat THEN "checked" ELSE "403"
  <2>1. st \in {"403", "stale", "checked"} /\ (st = "checked" => call[c].seat)
    OBVIOUS
  <2>2. Go(c, st) /\ call[c].st = "unlisted" /\ call[c].op = "accept"
    BY <1>7 DEF CheckSeat, At
  <2> HIDE DEF st
  <2>3. st = "checked" => past[c].seat
    BY <2>1, <2>2, <1>0 DEF Seated
  <2> QED BY <1>0, <2>1, <2>2, <2>3, GoKept DEF Progress, Answer, Takes, Invitee
<1> QED BY <1>1, <1>2, <1>3, <1>4, <1>5, <1>6, <1>7

LEMMA TargetReader ==
  ASSUME IInv, Observe, NEW c \in Call, FindTarget(c)
  PROVE  IInv'
<1> DEFINE u  == call[c].to
           st == IF ~Member(u) THEN "404"
                 ELSE IF call[c].by = u /\ member[u].role = "ADMIN" /\ call[c].role # "ADMIN"
                 THEN "counting" ELSE "checked"
           r  == [call[c] EXCEPT !.row = member[u].row, !.st = st]
<1>0. /\ TypeOK /\ Shape /\ Spares /\ UNCHANGED <<member, invite, free, changes>>
      /\ u \in User /\ call[c].by \in User /\ call[c] \in CallRecord
  BY DEF IInv, FindTarget, Reads, TypeOK, CallRecord
<1>1. /\ call' = [call EXCEPT ![c] = r] /\ call[c].st = "authorised"
      /\ call[c].op \in {"setRole", "remove"}
  BY DEF FindTarget, At
<1>2. /\ st \in {"404", "counting", "checked"}
      /\ st = "checked" => call[c].by # u \/ ~Admin(call[c].by) \/ call[c].role = "ADMIN"
  BY DEF Admin
<1> HIDE DEF st
<1>3. member[u].row \in 0 .. MaxRows
  BY <1>0 DEF TypeOK
<1>4. /\ r \in CallRecord /\ r.st = st /\ r.op = call[c].op /\ r.by = call[c].by
      /\ r.to = call[c].to /\ r.role = call[c].role /\ r.invite = call[c].invite
  BY <1>0, <1>2, <1>3 DEF CallRecord, Progress, Answer
<1> HIDE DEF r
<1>5. call'[c] = r
  BY <1>0, <1>1, <1>4, CallEffect
<1>6. Shaped(r)
  BY <1>0, <1>1, <1>4 DEF Shape, Shaped
<1>7. Takes(c)' => /\ r.st = "authorised" => Admin(r.by)'
                   /\ r.st = "checked" => Another(c)' \/ Rival(c)
  <2> SUFFICES ASSUME Takes(c)', r.st = "checked" PROVE Another(c)' \/ Rival(c)
    BY <1>2, <1>4
  <2>1. Takes(c) /\ call[c].role # "ADMIN"
    BY <1>0, <1>4, <1>5 DEF Takes, Shape, Shaped
  <2>2. Admin(call[c].by) \/ Rival(c)
    BY <2>1, <1>0, <1>1 DEF Spares
  <2>3. CASE Admin(call[c].by)
    <3>1. call[c].by # u
      BY <2>1, <2>3, <1>2, <1>4
    <3> QED BY <3>1, <2>3, <1>0, <1>4, <1>5 DEF Another, Admin
  <2> QED BY <2>2, <2>3
<1>8. invite' \in [Invite -> InviteRecord] /\ call[c].st \in Progress
  BY <1>0, <1>1 DEF TypeOK, InviteRecord, Progress
<1> QED BY <1>0, <1>1, <1>2, <1>4, <1>6, <1>7, <1>8, Refl, Kept

LEMMA InviteReader ==
  ASSUME IInv, Observe, NEW c \in Call, ReadInvite(c)
  PROVE  IInv'
<1> DEFINE st == IF ~Open(c) THEN "404"
                 ELSE IF call[c].to # call[c].by THEN "403" ELSE "unlisted"
           seat == SeatFor("accept")
           role == invite[call[c].invite].role
           r  == [call[c] EXCEPT !.st = st, !.role = role, !.seat = seat]
<1>0. /\ TypeOK /\ Shape /\ Seen /\ UNCHANGED <<member, invite, free, changes>>
      /\ call[c].invite \in Invite /\ call[c] \in CallRecord
  BY DEF IInv, ReadInvite, Reads, TypeOK, CallRecord
<1>1. call' = [call EXCEPT ![c] = r] /\ call[c].st = "begun" /\ call[c].op = "accept"
  BY DEF ReadInvite, At
<1>2. st \in {"403", "404", "unlisted"} /\ (st = "unlisted" => call[c].by = call[c].to)
      /\ role \in Role /\ seat \in BOOLEAN
  BY <1>0 DEF TypeOK, SeatFor, CanAddSeat
<1>3. seat => past[c].seat
  BY <1>0, <1>1 DEF Seen, Running, Progress
<1> HIDE DEF st, seat, role
<1>4. /\ r \in CallRecord /\ r.st = st /\ r.op = call[c].op /\ r.by = call[c].by
      /\ r.to = call[c].to /\ r.seat = seat
  BY <1>0, <1>2 DEF CallRecord, Progress, Answer
<1> HIDE DEF r
<1>5. call'[c] = r
  BY <1>0, <1>1, <1>4, CallEffect
<1>6. Shaped(r) /\ ~Takes(c)'
  BY <1>0, <1>1, <1>2, <1>4, <1>5 DEF Shape, Shaped, Takes, Invitee
<1>8. invite' \in [Invite -> InviteRecord] /\ call[c].st \in Progress
  BY <1>0, <1>1 DEF TypeOK, InviteRecord, Progress
<1> QED BY <1>0, <1>1, <1>2, <1>3, <1>4, <1>6, <1>8, Refl, Kept

-----------------------------------------------------------------------------
(* Steps that write members.                                               *)

LEMMA RoleUpdate ==
  ASSUME NEW R, NEW W, NEW x \in [role : R, row : W], NEW r \in R
  PROVE  [x EXCEPT !.role = r] \in [role : R, row : W] /\ [x EXCEPT !.role = r].role = r
OBVIOUS

LEMMA MemberUpdate ==
  ASSUME TypeOK, NEW u \in User, NEW x \in MemberRecord, member' = [member EXCEPT ![u] = x]
  PROVE  /\ member' \in [User -> MemberRecord] /\ member'[u] = x
         /\ \A v \in User \ {u} : member'[v] = member[v]
BY DEF TypeOK, MemberRecord

(* It answers 200; a request that takes an admin may have.                 *)
LEMMA MemberWritten ==
  ASSUME IInv, Observe, NEW c \in Call, call[c].st = "checked",
         NEW x \in MemberRecord, member' = [member EXCEPT ![call[c].to] = x],
         UNCHANGED <<free, changes>>, Go(c, "200"),
         \/ Takes(c) \/ x.role = "ADMIN" \/ ~Admin(call[c].to),
         \/ call[c].op \in {"setRole", "remove", "add"} /\ UNCHANGED invite
         \/ call[c].op = "accept" /\ Open(c) /\ invite' = Closed(c)
  PROVE  IInv'
<1>0. /\ TypeOK /\ Shape /\ Seen /\ Seated /\ call[c].to \in User /\ call[c].invite \in Invite
  BY DEF IInv, TypeOK
<1>1. PICK r \in CallRecord :
        /\ call' = [call EXCEPT ![c] = r] /\ r.st = "200"
        /\ r.op = call[c].op /\ r.by = call[c].by /\ r.to = call[c].to
        /\ r.role = call[c].role /\ r.invite = call[c].invite
        /\ r.row = call[c].row /\ r.seat = call[c].seat
  <2>1. "200" \in Progress \cup Answer
    BY DEF Answer
  <2> QED BY <2>1, <1>0, GoEffect
<1>2. call'[c] = r
  BY <1>0, <1>1, CallEffect
<1>3. /\ member' \in [User -> MemberRecord] /\ member'[call[c].to] = x
      /\ \A v \in User \ {call[c].to} : member'[v] = member[v]
  BY <1>0, MemberUpdate
<1>4. Demotes(c)
  BY <1>0, <1>1, <1>2, <1>3 DEF Demotes, Admin, Takes
<1>5. Shaped(r) /\ call[c].st \in Progress /\ Running(c)
  BY <1>0, <1>1 DEF Shape, Shaped, Progress, Running, Invitee
<1>6. /\ invite' \in [Invite -> InviteRecord]
      /\ \A i \in Invite : invite[i].st = "gone" => invite'[i].st = "gone"
      /\ call[c].op = "accept" => Open(c) /\ invite'[call[c].invite].st = "gone"
  <2>1. CASE call[c].op \in {"setRole", "remove", "add"} /\ UNCHANGED invite
    BY <2>1, <1>0 DEF TypeOK, InviteRecord
  <2>2. CASE call[c].op = "accept" /\ Open(c) /\ invite' = Closed(c)
    BY <2>2, <1>0 DEF TypeOK, InviteRecord, Closed
  <2> QED BY <2>1, <2>2
<1>7. call[c].op = "accept" => past[c].seat
  BY <1>0 DEF Seated
<1>8. r.op # "invite"
  BY <1>1
<1> QED BY <1>1, <1>3, <1>4, <1>5, <1>6, <1>7, <1>8, Kept

(* The database throws.                                                    *)
LEMMA Refused ==
  ASSUME IInv, Observe, NEW c \in Call, call[c].st \in Progress \ {"new"},
         UNCHANGED <<member, invite, free, changes>>, Go(c, "500")
  PROVE  IInv'
BY GoKept DEF Progress, Answer, Invitee

LEMMA MemberWriters ==
  ASSUME MembershipAssumption, IInv, Observe, NEW c \in Call,
         SetRole(c) \/ Remove(c) \/ AddMember(c) \/ AcceptInvite(c)
  PROVE  IInv'
<1>0. /\ TypeOK /\ Shape /\ call[c] \in CallRecord /\ call[c].st = "checked"
      /\ call[c].st \in Progress \ {"new"} /\ call[c].to \in User /\ call[c].role \in Role
      /\ UNCHANGED <<free, changes>>
  BY DEF IInv, TypeOK, CallRecord, SetRole, Remove, AddMember, AcceptInvite, At, Progress
<1>1. CASE Go(c, "500") /\ UNCHANGED <<member, invite>>
  BY <1>0, <1>1, Refused
<1>2. ASSUME NEW r \in Role
      PROVE  LET x == [member[call[c].to] EXCEPT !.role = r]
             IN  x \in MemberRecord /\ x.role = r
  <2>1. member[call[c].to] \in MemberRecord
    BY <1>0 DEF TypeOK, MemberRecord
  <2> QED BY <2>1, RoleUpdate DEF MemberRecord
<1>3. ASSUME member[call[c].to].row < MaxRows
      PROVE  [role |-> call[c].role, row |-> member[call[c].to].row + 1] \in MemberRecord
  <2>1. MaxRows \in Nat /\ member[call[c].to].row \in 0 .. MaxRows
    BY <1>0, MembershipAssumption DEF MembershipAssumption, TypeOK
  <2> QED BY <2>1, <1>0, <1>3 DEF MemberRecord
<1>4. ASSUME call[c].op = "setRole", UNCHANGED invite, Go(c, "200"),
             member' = [member EXCEPT ![call[c].to].role = call[c].role]
      PROVE  IInv'
  <2> DEFINE x == [member[call[c].to] EXCEPT !.role = call[c].role]
  <2>1. member' = [member EXCEPT ![call[c].to] = x]
    BY <1>4
  <2>2. x \in MemberRecord /\ x.role = call[c].role
    BY <1>0, <1>2
  <2> HIDE DEF x
  <2>3. Takes(c) \/ x.role = "ADMIN"
    BY <1>4, <2>2 DEF Takes
  <2> QED BY <2>1, <2>2, <2>3, <1>0, <1>4, MemberWritten
<1>5. ASSUME call[c].op = "remove", UNCHANGED invite, Go(c, "200"),
             member' = [member EXCEPT ![call[c].to].role = "NONE"]
      PROVE  IInv'
  <2> DEFINE x == [member[call[c].to] EXCEPT !.role = "NONE"]
  <2>1. member' = [member EXCEPT ![call[c].to] = x]
    BY <1>5
  <2>2. x \in MemberRecord
    BY <1>2 DEF Role
  <2> HIDE DEF x
  <2> QED BY <2>1, <2>2, <1>0, <1>5, MemberWritten DEF Takes
<1>6. ASSUME ~Member(call[c].to), HasRow(call[c].to), Go(c, "200"),
             member' = Joined(call[c].to, call[c].role),
             \/ call[c].op = "add" /\ UNCHANGED invite
             \/ call[c].op = "accept" /\ Open(c) /\ invite' = Closed(c)
      PROVE  IInv'
  <2> DEFINE x == [role |-> call[c].role, row |-> member[call[c].to].row + 1]
  <2>1. member' = [member EXCEPT ![call[c].to] = x] /\ ~Admin(call[c].to)
    BY <1>6 DEF Joined, Admin, Member
  <2>2. x \in MemberRecord
    BY <1>3, <1>6 DEF HasRow
  <2> HIDE DEF x
  <2> QED BY <2>1, <2>2, <1>0, <1>6, MemberWritten
<1>7. CASE SetRole(c)
  BY <1>1, <1>4, <1>7 DEF SetRole, At
<1>8. CASE Remove(c)
  BY <1>1, <1>5, <1>8 DEF Remove, At
<1>9. CASE AddMember(c)
  BY <1>1, <1>6, <1>9 DEF AddMember, At
<1>10. CASE AcceptInvite(c)
  <2>1. call[c].op = "accept" /\ call[c].by = call[c].to
    BY <1>0, <1>10 DEF AcceptInvite, At, Shape, Shaped, Invitee
  <2> QED BY <2>1, <1>1, <1>6, <1>10 DEF AcceptInvite
<1> QED BY <1>7, <1>8, <1>9, <1>10

-----------------------------------------------------------------------------
(* Steps that write invites.                                               *)

LEMMA InviteWriters ==
  ASSUME IInv, Observe, NEW c \in Call,
         CreateInvite(c) \/ CancelInvite(c) \/ DropInvite(c)
  PROVE  IInv'
<1>0. /\ TypeOK /\ Shape /\ Seated /\ call[c] \in CallRecord
      /\ call[c].st \in Progress \ {"new"}
      /\ call[c].to \in User /\ call[c].role \in Role /\ call[c].invite \in Invite
      /\ UNCHANGED <<member, free, changes>> /\ call[c].op \in {"invite", "cancel", "accept"}
  BY DEF IInv, TypeOK, CallRecord, CreateInvite, CancelInvite, DropInvite, At, Progress
<1>1. CASE Go(c, "500") /\ UNCHANGED invite
  BY <1>0, <1>1, Refused
<1>2. ASSUME NEW i \in Invite, invite[i].st = "unused", call[c].st = "checked",
             call[c].op = "invite",
             invite' = [invite EXCEPT ![i] = [st |-> "open", to |-> call[c].to,
                                              role |-> call[c].role]],
             call' = [call EXCEPT ![c].st = "200", ![c].invite = i]
      PROVE  IInv'
  <2> DEFINE r == [call[c] EXCEPT !.st = "200", !.invite = i]
  <2>1. r \in CallRecord /\ r.st = "200" /\ r.op = "invite"
    BY <1>0, <1>2 DEF CallRecord, Answer
  <2>2. call' = [call EXCEPT ![c] = r]
    BY <1>2
  <2> HIDE DEF r
  <2>3. Shaped(r) /\ ~Takes(c)' /\ past[c].seat
    BY <2>1, <2>2, <1>0, <1>2, CallEffect DEF Shaped, Takes, Seated
  <2>4. /\ invite' \in [Invite -> InviteRecord]
        /\ \A j \in Invite : invite[j].st = "gone" => invite'[j].st = "gone"
    BY <1>0, <1>2 DEF TypeOK, InviteRecord
  <2> QED BY <2>1, <2>2, <2>3, <2>4, <1>0, Refl, Kept
<1>3. ASSUME NEW st \in {"200", "409"}, Go(c, st), Open(c), invite' = Closed(c),
             call[c].op = "cancel" \/ (call[c].op = "accept" /\ st = "409")
      PROVE  IInv'
  <2>1. PICK r \in CallRecord :
        /\ call' = [call EXCEPT ![c] = r] /\ r.st = st
        /\ r.op = call[c].op /\ r.by = call[c].by /\ r.to = call[c].to
        /\ r.role = call[c].role /\ r.invite = call[c].invite
        /\ r.row = call[c].row /\ r.seat = call[c].seat
    <3>1. st \in Progress \cup Answer
      BY DEF Answer
    <3> QED BY <3>1, <1>0, <1>3, GoEffect
  <2>2. Shaped(r) /\ ~Takes(c)'
    BY <2>1, <1>0, <1>3, CallEffect DEF Shape, Shaped, Takes, Invitee
  <2>3. /\ invite' \in [Invite -> InviteRecord]
        /\ \A j \in Invite : invite[j].st = "gone" => invite'[j].st = "gone"
    BY <1>0, <1>3 DEF TypeOK, InviteRecord, Closed
  <2>4. r.op # "invite" /\ (r.op = "accept" => r.st = "409")
    BY <2>1, <1>3
  <2> QED BY <2>1, <2>2, <2>3, <2>4, <1>0, Refl, Kept
<1>4. CASE CreateInvite(c)
  BY <1>1, <1>2, <1>4 DEF CreateInvite, At
<1>5. CASE CancelInvite(c)
  BY <1>1, <1>3, <1>5 DEF CancelInvite, At
<1>6. CASE DropInvite(c)
  BY <1>1, <1>3, <1>6 DEF DropInvite, At
<1> QED BY <1>4, <1>5, <1>6

-----------------------------------------------------------------------------
(* Arrivals and plans.                                                     *)

LEMMA Arrivals ==
  ASSUME MembershipAssumption, IInv, Observe, NEW c \in Call, Arrive(c)
  PROVE  IInv'
<1>1. PICK op \in Op : \E a \in Arguments(op) : call' = [call EXCEPT ![c] = a]
  BY DEF Arrive
<1>2. PICK a \in Arguments(op) : call' = [call EXCEPT ![c] = a]
  BY <1>1
<1>3. a \in CallRecord /\ Shaped(a) /\ a.st = "begun"
  <2>1. a \in [op : {op}, by : User, to : User, role : Role, invite : Invite,
               st : {"begun"}, row : {0}, seat : {FALSE}]
    BY DEF Arguments
  <2>2. (a.role = "NONE") = (op \in {"remove", "cancel", "accept"})
    BY DEF Arguments
  <2>3. op \in Route /\ 0 \in 0 .. MaxRows
    BY MembershipAssumption DEF MembershipAssumption
  <2>4. a \in CallRecord /\ a.st = "begun" /\ a.op = op
    BY <2>1, <2>3 DEF CallRecord, Progress
  <2> QED BY <2>2, <2>4 DEF Shaped, Invitee
<1>4. /\ call[c].st \in Progress /\ UNCHANGED <<member, invite, free, changes>>
      /\ invite' \in [Invite -> InviteRecord]
  BY DEF Arrive, Progress, IInv, TypeOK, InviteRecord
<1> QED BY <1>2, <1>3, <1>4, Refl, Kept

(* Nothing but the plan and past changes.                                  *)
LEMMA PlanChanges ==
  ASSUME MembershipAssumption, IInv, Observe, ChangePlan
  PROVE  IInv'
<1>0. UNCHANGED <<member, invite, call>> /\ TypeOK /\ changes' = changes + 1 /\ changes < MaxChanges
      /\ free' = ~free
  BY DEF ChangePlan, IInv
<1>1. /\ past' \in [Call -> PastRecord] /\ Seen'
      /\ \A c \in Call : /\ past[c].seat => past'[c].seat
                         /\ past[c].open => past'[c].open
                         /\ past[c].met \subseteq past'[c].met
  BY <1>0, Observed
<1>2. TypeOK'
  <2>1. changes' \in 0 .. MaxChanges /\ free' \in BOOLEAN
    BY <1>0, MembershipAssumption DEF TypeOK, MembershipAssumption
  <2> QED BY <2>1, <1>0, <1>1 DEF TypeOK, PastRecord
<1>3. Shape' /\ Seated'
  BY <1>0, <1>1 DEF IInv, Shape, Seated, Shaped
<1>4. Spent'
  BY <1>0, <1>1 DEF IInv, Spent, Done
<1>6. \A c \in Call : (TookAdmin(c) => TookAdmin(c)') /\ (Rival(c) => Rival(c)')
  BY <1>0, <1>1 DEF Rival, TookAdmin, Done
<1>7. Spares'
  BY <1>0, <1>6 DEF IInv, Spares, Takes, Another, Admin
<1>8. Led'
  <2>1. Rivals => Rivals'
    BY <1>1, <1>6 DEF Rivals
  <2>2. HasAdmin => HasAdmin'
    BY <1>0 DEF HasAdmin
  <2> QED BY <2>1, <2>2 DEF IInv, Led
<1> QED BY <1>1, <1>2, <1>3, <1>4, <1>7, <1>8 DEF IInv

-----------------------------------------------------------------------------
(* The invariant, and what it says.                                        *)

LEMMA InitMembership ==
  ASSUME MembershipAssumption, Init
  PROVE  IInv
<1>0. AnyUser \in User /\ AnyInvite \in Invite /\ 0 \in 0 .. MaxRows /\ 0 \in 0 .. MaxChanges
  <2>1. (\E u \in User : TRUE) /\ (\E i \in Invite : TRUE)
    BY MembershipAssumption DEF MembershipAssumption
  <2> QED BY <2>1, MembershipAssumption DEF MembershipAssumption, AnyUser, AnyInvite
<1>1. TypeOK
  <2>1. member \in [User -> MemberRecord]
    BY <1>0 DEF Init, MemberRecord, Role
  <2>2. invite \in [Invite -> InviteRecord]
    <3>1. PICK u \in (User \ Admins) \cup {AnyUser} :
            invite = [i \in Invite |-> IF i = AnyInvite /\ u \notin Admins
                                 THEN [st |-> "open", to |-> u, role |-> "MEMBER"]
                                 ELSE [st |-> "unused", to |-> u, role |-> "NONE"]]
      BY DEF Init
    <3>2. u \in User
      BY <1>0
    <3>3. /\ [st |-> "open", to |-> u, role |-> "MEMBER"] \in InviteRecord
          /\ [st |-> "unused", to |-> u, role |-> "NONE"] \in InviteRecord
      BY <3>2 DEF InviteRecord, Role
    <3> QED BY <3>1, <3>3
  <2>3. call \in [Call -> CallRecord]
    BY <1>0 DEF Init, CallRecord, Route, Role, Progress
  <2>4. past \in [Call -> PastRecord]
    <3>1. [seat |-> FALSE, open |-> FALSE, met |-> {}] \in PastRecord
      BY DEF PastRecord
    <3> QED BY <3>1 DEF Init
  <2>5. free \in BOOLEAN /\ changes \in 0 .. MaxChanges
    BY <1>0 DEF Init
  <2> QED BY <2>1, <2>2, <2>3, <2>4, <2>5
          DEF TypeOK, MemberRecord, InviteRecord, CallRecord, PastRecord
<1>2. \A c \in Call : call[c].st = "new" /\ call[c].op = "accept" /\ call[c].by = call[c].to
  BY DEF Init
<1>3. HasAdmin
  BY MembershipAssumption DEF Init, HasAdmin, MembershipAssumption
<1> QED BY <1>1, <1>2, <1>3
        DEF IInv, Shape, Shaped, Invitee, Seen, Running, Seated, Spent, Done, Spares, Led

LEMMA StutterMembership ==
  ASSUME IInv, UNCHANGED vars
  PROVE  IInv'
<1>1. TypeOK' /\ Shape' /\ Seated' /\ Spent'
  BY DEF vars, IInv, TypeOK, Shape, Shaped, Seated, Spent, Done
<1>2. Members' = Members /\ Pending' = Pending
  BY DEF vars, Members, Pending, Member
<1>3. \A c \in Call : SeatFor(call[c].op)' => SeatFor(call[c].op)
  BY <1>2 DEF vars, SeatFor, CanAddSeat
<1>4. Seen'
  BY <1>3 DEF vars, IInv, Seen, Running, Open
<1>5. Spares' /\ Led'
  BY DEF vars, IInv, Spares, Takes, Another, Rival, Admin, TookAdmin, Done, Led, HasAdmin, Rivals
<1> QED BY <1>1, <1>4, <1>5 DEF IInv

LEMMA NextMembership ==
  ASSUME MembershipAssumption, IInv, [Next]_vars
  PROVE  IInv'
BY Readers, TargetReader, InviteReader, MemberWriters, InviteWriters, Arrivals, PlanChanges,
   StutterMembership DEF Next, Handle

(* Every variable keeps its type.                                          *)
THEOREM TypeCorrect ==
  ASSUME MembershipAssumption
  PROVE  Spec => []TypeOK
<1>1. IInv => TypeOK
  BY DEF IInv
<1> QED BY <1>1, InitMembership, NextMembership, PTL DEF Spec

(* invites/route.ts, accept/route.ts: whoever is invited or let in had a   *)
(* seat at some moment while the request ran.                              *)
THEOREM SeatsAreChecked ==
  ASSUME MembershipAssumption
  PROVE  Spec => []SeatIsChecked
<1>1. IInv => SeatIsChecked
  BY DEF IInv, Seated, SeatIsChecked, Done
<1> QED BY <1>1, InitMembership, NextMembership, PTL DEF Spec

(* accept/route.ts: an invite lets one request in, while it is open.       *)
THEOREM InvitesAreSpentOnce ==
  ASSUME MembershipAssumption
  PROVE  Spec => []InviteIsSpentOnce
<1>1. IInv => InviteIsSpentOnce
  BY DEF IInv, Spent, InviteIsSpentOnce
<1> QED BY <1>1, InitMembership, NextMembership, PTL DEF Spec

(* members/[userId]/route.ts: the last admin goes only by two requests     *)
(* that overlapped, although the admins are counted only when one acts on  *)
(* itself.                                                                 *)
THEOREM LastAdminGoesByOverlap ==
  ASSUME MembershipAssumption
  PROVE  Spec => []LastAdminNeedsOverlap
<1>1. IInv => LastAdminNeedsOverlap
  BY DEF IInv, Led, Rivals, LastAdminNeedsOverlap
<1> QED BY <1>1, InitMembership, NextMembership, PTL DEF Spec

(* Who is out is let in by the add route or an invite, in that very step.  *)
LEMMA LetInStep ==
  ASSUME TypeOK, Shape, [Next]_vars
  PROVE  [LetIn]_vars
<1> SUFFICES ASSUME Next PROVE LetIn
  OBVIOUS
<1>1. CASE UNCHANGED member
  BY <1>1 DEF LetIn, Member
<1>2. ASSUME NEW c \in Call, SetRole(c) PROVE LetIn
  BY <1>2 DEF SetRole, SameRow, LetIn, Member, TypeOK
<1>3. ASSUME NEW c \in Call, Remove(c) PROVE LetIn
  BY <1>3 DEF Remove, SameRow, LetIn, Member, TypeOK
<1>4. ASSUME NEW c \in Call, AddMember(c) PROVE LetIn
  BY <1>4 DEF AddMember, At, Go, Joined, LetIn, Member, TypeOK
<1>5. ASSUME NEW c \in Call, AcceptInvite(c) PROVE LetIn
  <2>1. call[c].by = call[c].to
    BY <1>5 DEF AcceptInvite, At, Shape, Shaped, Invitee
  <2> QED BY <1>5, <2>1 DEF AcceptInvite, At, Go, Joined, LetIn, Member, TypeOK
<1>6. \A c \in Call :
        \/ Arrive(c) \/ Authorise(c) \/ FindTarget(c) \/ CountAdmins(c) \/ FindMember(c)
        \/ FindInvite(c) \/ CountSeats(c) \/ CreateInvite(c) \/ FindCancelled(c)
        \/ CancelInvite(c) \/ ReadInvite(c) \/ CheckSeat(c) \/ DropInvite(c)
        => UNCHANGED member
  BY DEF Arrive, Authorise, FindTarget, CountAdmins, FindMember, FindInvite, CountSeats,
         CreateInvite, FindCancelled, CancelInvite, ReadInvite, CheckSeat, DropInvite, Reads
<1>7. ChangePlan => UNCHANGED member
  BY DEF ChangePlan
<1> QED BY <1>1, <1>2, <1>3, <1>4, <1>5, <1>6, <1>7 DEF Next, Handle

(* members/[userId]/route.ts: a role change that raced a removal never     *)
(* brings the member back.                                                 *)
THEOREM RemovedStaysOut ==
  ASSUME MembershipAssumption
  PROVE  Spec => [][LetIn]_vars
<1>1. IInv /\ [Next]_vars => [LetIn]_vars
  BY LetInStep DEF IInv
<1> QED BY <1>1, InitMembership, NextMembership, PTL DEF Spec

===============================================================================
