-------------------------- MODULE WorkspaceProofs --------------------------
(***************************************************************************)
(* One workspace behind the dashboard, for any number of requests, users,  *)
(* projects, keys, names, invites, seats, subscriptions, chat sessions,    *)
(* changes and faults: what its routes grant was so while the request ran, *)
(* its rules are broken only by requests that overlapped, what is deleted  *)
(* stays so, its plan follows Stripe unless a write came out of order, and *)
(* no message runs with a provider key from before an answered change.     *)
(*                                                                         *)
(* First the projects and keys.  While a request runs, past has seen what  *)
(* holds now, so what a request found has been seen when it goes on; who   *)
(* has a name that another request found free got it from a request that   *)
(* met it.                                                                 *)
(***************************************************************************)
EXTENDS MCWorkspace, TLAPS

ProjectRecord == [st : {"unused", "live", "deleted", "gone"}, name : Names]
KeyRecord  == [st : {"unused", "active", "deleted"}, project : Projects, expired : BOOLEAN]
CallRecord == [op : Keys!Op, user : Founders, project : Projects, key : ApiKeys,
               name : Names, st : Keys!Progress \cup Keys!Answer, blocked : BOOLEAN]
PastRecord == [dead : BOOLEAN, could : BOOLEAN, flags : SUBSET BOOLEAN, met : SUBSET Requests]

(* What requests and keys refer to has been created: it can only die.      *)
Created ==
  /\ project[FirstProject].st # "unused" /\ key[FirstKey].st # "unused"
  /\ \A c \in Requests : /\ key[call[c].key].st # "unused"
                         /\ project[call[c].project].st # "unused"
  /\ \A k \in ApiKeys : key[k].st # "unused" => project[key[k].project].st # "unused"

(* While a request runs, past has seen what holds now.                     *)
Seen == \A c \in Requests : Keys!Running(c) =>
  /\ Keys!May(call[c].user, call[c].op) => past[c].could
  /\ blocked \in past[c].flags
  /\ past[c].dead => ~Keys!Usable(call[c].key)

(* And a request has got where it is by what was seen.                     *)
Granted == \A c \in Requests :
  /\ call[c].op # "ingest" /\ call[c].st \in {"authorised", "exists", "unique", "200"} =>
       past[c].could
  /\ call[c].op = "ingest" /\ call[c].st \in {"found", "200"} =>
       call[c].blocked \in past[c].flags /\ ~past[c].dead

Met ==
  /\ \A c, d \in Requests : Keys!Running(c) /\ Keys!Running(d) /\ c # d => d \in past[c].met
  /\ \A c, d \in Requests : d \in past[c].met => c \in past[d].met
  /\ \A c \in Requests : call[c].st = "new" => past[c].met = {}

Overlapped(p, q) ==
  \E c, d \in Requests : Keys!Renamer(c, p) /\ Keys!Renamer(d, q) /\ d \in past[c].met

(* A request that is about to write a name has found it free: who has it   *)
(* by now got it from a request that it met.                               *)
Naming(c) == call[c].op \in {"createProject", "renameProject"} /\ call[c].st = "unique"
Other(c, q) == call[c].op = "renameProject" => q # call[c].project

Renamed(c, q) ==
  call[c].op = "renameProject"
  /\ \E p \in Projects : p = call[c].project /\ Overlapped(p, q)

FoundFree == \A c \in Requests, q \in Projects :
  Naming(c) /\ Other(c, q) /\ Keys!Live(q) /\ project[q].name = call[c].name =>
    \/ \E d \in Requests : Keys!Renamer(d, q) /\ d \in past[c].met
    \/ Renamed(c, q)

TwinsMet == \A p, q \in Projects : Keys!Twins(p, q) => Overlapped(p, q)

Access == Keys!TypeOK /\ Created /\ Seen /\ Granted /\ Met
KeysInv == Access /\ FoundFree /\ TwinsMet

-----------------------------------------------------------------------------
(* Roles.                                                                  *)

LEMMA Ranks ==
  /\ \A r \in Keys!Role : Keys!Rank[r] \in Nat /\ Keys!Rank["NONE"] <= Keys!Rank[r]
  /\ \A op \in Keys!Op : Keys!Needs[op] \in Keys!Role
BY DEF Keys!Role, Keys!Rank, Keys!Op, Keys!Needs

LEMMA NoRoleLess ==
  ASSUME NEW r \in Keys!Role, NEW op \in Keys!Op, Keys!Rank["NONE"] >= Keys!Rank[Keys!Needs[op]]
  PROVE  Keys!Rank[r] >= Keys!Rank[Keys!Needs[op]]
<1>1. Keys!Rank[Keys!Needs[op]] \in Nat /\ Keys!Rank["NONE"] \in Nat /\ Keys!Rank[r] \in Nat
      /\ Keys!Rank["NONE"] <= Keys!Rank[r]
  <2>1. "NONE" \in Keys!Role
    BY DEF Keys!Role
  <2> QED BY <2>1, Ranks
<1> QED BY <1>1

-----------------------------------------------------------------------------
(* One request takes a step.                                               *)

LEMMA CallEffect ==
  ASSUME Keys!TypeOK, NEW c \in Requests, NEW r \in CallRecord, call' = [call EXCEPT ![c] = r]
  PROVE  /\ call' \in [Requests -> CallRecord] /\ call'[c] = r
         /\ \A d \in Requests \ {c} : call'[d] = call[d]
BY DEF Keys!TypeOK, CallRecord

LEMMA KeysGoEffect ==
  ASSUME Keys!TypeOK, NEW c \in Requests, NEW st \in Keys!Progress \cup Keys!Answer, Keys!Go(c, st)
  PROVE  \E r \in CallRecord :
           /\ call' = [call EXCEPT ![c] = r] /\ r.st = st
           /\ r.op = call[c].op /\ r.user = call[c].user /\ r.project = call[c].project
           /\ r.key = call[c].key /\ r.name = call[c].name /\ r.blocked = call[c].blocked
<1> DEFINE r == [call[c] EXCEPT !.st = st]
<1>1. /\ r \in CallRecord /\ r.st = st
      /\ r.op = call[c].op /\ r.user = call[c].user /\ r.project = call[c].project
      /\ r.key = call[c].key /\ r.name = call[c].name /\ r.blocked = call[c].blocked
  BY DEF Keys!TypeOK, CallRecord
<1>2. call' = [call EXCEPT ![c] = r]
  BY DEF Keys!Go
<1> HIDE DEF r
<1> QED BY <1>1, <1>2

LEMMA ProjectUpdate ==
  ASSUME NEW S, NEW N, NEW x \in [st : S, name : N], NEW s \in S
  PROVE  [x EXCEPT !.st = s] \in [st : S, name : N] /\ [x EXCEPT !.st = s].st = s
OBVIOUS

LEMMA KeyUpdate ==
  ASSUME NEW S, NEW P, NEW B, NEW x \in [st : S, project : P, expired : B]
  PROVE  /\ \A s \in S : LET y == [x EXCEPT !.st = s]
                         IN  /\ y \in [st : S, project : P, expired : B] /\ y.st = s
                             /\ y.project = x.project /\ y.expired = x.expired
         /\ \A b \in B : LET y == [x EXCEPT !.expired = b]
                         IN  /\ y \in [st : S, project : P, expired : B] /\ y.st = x.st
                             /\ y.project = x.project /\ y.expired = b
OBVIOUS

LEMMA PastUpdate ==
  ASSUME NEW B, NEW F, NEW M, NEW x \in [dead : B, could : B, flags : F, met : M]
  PROVE  /\ \A b \in B : [x EXCEPT !.could = b] \in [dead : B, could : B, flags : F, met : M]
         /\ \A f \in F : [x EXCEPT !.flags = f] \in [dead : B, could : B, flags : F, met : M]
         /\ \A m \in M : [x EXCEPT !.met = m] \in [dead : B, could : B, flags : F, met : M]
OBVIOUS

LEMMA PastMade ==
  ASSUME NEW B, NEW F, NEW M, NEW b1 \in B, NEW b2 \in B, NEW f \in F, NEW m \in M
  PROVE  [dead |-> b1, could |-> b2, flags |-> f, met |-> m] \in
           [dead : B, could : B, flags : F, met : M]
OBVIOUS

LEMMA PastUpdates ==
  ASSUME Keys!TypeOK, NEW c \in Requests
  PROVE  /\ past[c] \in PastRecord /\ past[c].could \in BOOLEAN
         /\ past[c].flags \in SUBSET BOOLEAN /\ past[c].met \in SUBSET Requests
         /\ \A b \in BOOLEAN : [past[c] EXCEPT !.could = b] \in PastRecord
         /\ \A f \in SUBSET BOOLEAN : [past[c] EXCEPT !.flags = f] \in PastRecord
         /\ \A m \in SUBSET Requests : [past[c] EXCEPT !.met = m] \in PastRecord
<1>1. past[c] \in [dead : BOOLEAN, could : BOOLEAN, flags : SUBSET BOOLEAN, met : SUBSET Requests]
  BY DEF Keys!TypeOK
<1>2. past[c].could \in BOOLEAN /\ past[c].flags \in SUBSET BOOLEAN
      /\ past[c].met \in SUBSET Requests
  BY <1>1
<1> QED BY <1>1, <1>2, PastUpdate DEF PastRecord

(* Rows may die but not be born again, roles may only be lost.             *)
Aging ==
  /\ workspace' \in {"live", "gone"} /\ UNCHANGED <<blocked, past, changes>>
  /\ project' \in [Projects -> ProjectRecord] /\ key' \in [ApiKeys -> KeyRecord]
  /\ role' \in [Founders -> Keys!Role] /\ \A u \in Founders : role'[u] \in {role[u], "NONE"}
  /\ \A p \in Projects : project[p].st # "unused" =>
       project'[p].st # "unused" /\ (project'[p].st = "live" => project[p].st = "live")
  /\ \A k \in ApiKeys : key[k].st # "unused" =>
       /\ key'[k].st # "unused" /\ (key'[k].st = "active" => key[k].st = "active")
       /\ key'[k].project = key[k].project /\ (key[k].expired => key'[k].expired)
  /\ \A k \in ApiKeys : key[k].st = "unused" /\ key'[k].st # "unused" =>
       project[key'[k].project].st # "unused"

LEMMA AccessKept ==
  ASSUME Keys!AccessKeysAssumption, Access, NEW c \in Requests, NEW r \in CallRecord,
         call' = [call EXCEPT ![c] = r],
         Keys!Running(c), r.st # "new", Aging,
         r.op = call[c].op, r.user = call[c].user,
         r.st \in Keys!Progress => r.key = call[c].key,
         key'[r.key].st # "unused", project'[r.project].st # "unused",
         r.op # "ingest" /\ r.st \in {"authorised", "exists", "unique", "200"} =>
           past[c].could,
         r.op = "ingest" /\ r.st \in {"found", "200"} =>
           r.blocked \in past[c].flags /\ ~past[c].dead
  PROVE  Access'
<1> USE DEF Access
<1>1. /\ call' \in [Requests -> CallRecord] /\ call'[c] = r
      /\ \A d \in Requests \ {c} : call'[d] = call[d]
  BY CallEffect
<1>2. Keys!TypeOK'
  BY <1>1 DEF Aging, Keys!TypeOK, CallRecord, ProjectRecord, KeyRecord
<1>3. Created'
  <2>1. \A d \in Requests : key'[call'[d].key].st # "unused"
        /\ project'[call'[d].project].st # "unused"
    BY <1>1 DEF Aging, Created, Keys!TypeOK
  <2>2. ASSUME NEW k \in ApiKeys, key'[k].st # "unused"
        PROVE project'[key'[k].project].st # "unused"
    <3>1. key'[k].project \in Projects /\ project[key'[k].project].st # "unused"
      BY <2>2 DEF Aging, Created, KeyRecord
    <3> QED BY <3>1 DEF Aging
  <2> QED BY <2>1, <2>2, Keys!AccessKeysAssumption DEF Aging, Created, Keys!AccessKeysAssumption
<1>4. \A k \in ApiKeys : key[k].st # "unused" /\ Keys!Usable(k)' => Keys!Usable(k)
  BY DEF Aging, Keys!Usable, Keys!Live, Created, Keys!TypeOK
<1>5. \A u \in Founders, op \in Keys!Op : Keys!May(u, op)' => Keys!May(u, op)
  BY NoRoleLess DEF Aging, Keys!May, Keys!TypeOK
<1>6. \A d \in Requests : Keys!Running(d)' => Keys!Running(d) /\ call'[d].key = call[d].key
                                       /\ call'[d].user = call[d].user /\ call'[d].op = call[d].op
  BY <1>1 DEF Keys!Running
<1>7. Seen'
  <2> SUFFICES ASSUME NEW d \in Requests, Keys!Running(d)'
               PROVE  /\ Keys!May(call[d].user, call[d].op)' => past[d].could'
                      /\ (blocked \in past[d].flags)'
                      /\ past[d].dead' => ~Keys!Usable(call[d].key)'
    BY DEF Seen
  <2>1. Keys!Running(d) /\ call[d].key \in ApiKeys /\ call[d].user \in Founders
        /\ call[d].op \in Keys!Op
    BY <1>6 DEF Keys!TypeOK
  <2>2. Keys!May(call[d].user, call[d].op)' => past[d].could'
    BY <1>5, <1>6, <2>1 DEF Seen, Aging, Keys!May
  <2>3. past[d].dead' => ~Keys!Usable(call[d].key)'
    BY <1>4, <1>6, <2>1 DEF Seen, Aging, Keys!Usable, Keys!Live, Created
  <2> QED BY <2>1, <2>2, <2>3 DEF Seen, Aging
<1>8. Granted'
  BY <1>1 DEF Granted, Aging
<1>9. Met'
  BY <1>1, <1>6 DEF Met, Aging
<1> QED BY <1>2, <1>3, <1>7, <1>8, <1>9

-----------------------------------------------------------------------------
(* Names.                                                                  *)

(* Nobody is given a name: the live projects keep theirs.                  *)
LEMMA NamesKept ==
  ASSUME Keys!TypeOK, FoundFree, TwinsMet, NEW c \in Requests, Keys!Running(c),
         NEW r \in CallRecord, call' = [call EXCEPT ![c] = r], UNCHANGED past,
         r.op = call[c].op, r.project = call[c].project, r.name = call[c].name,
         \A p \in Projects : Keys!Live(p)' => Keys!Live(p) /\ project'[p].name = project[p].name,
         r.op \in {"createProject", "renameProject"} /\ r.st = "unique" =>
           \A q \in Projects :
             Other(c, q) /\ Keys!Live(q) /\ project[q].name = call[c].name =>
               Renamed(c, q)
  PROVE  FoundFree' /\ TwinsMet'
<1>1. call'[c] = r /\ \A d \in Requests \ {c} : call'[d] = call[d]
  BY CallEffect
<1>2. \A d \in Requests, q \in Projects : Keys!Renamer(d, q) => Keys!Renamer(d, q)'
  BY <1>1 DEF Keys!Renamer, Keys!Running, Keys!Progress
<1>3. \A p, q \in Projects : Overlapped(p, q) => Overlapped(p, q)'
  BY <1>2 DEF Overlapped
<1>4. TwinsMet'
  BY <1>3 DEF TwinsMet, Keys!Twins
<1>5. FoundFree'
  <2> SUFFICES ASSUME NEW d \in Requests, NEW q \in Projects, Naming(d)', Other(d, q)',
                      Keys!Live(q)', project'[q].name = call'[d].name
               PROVE  \/ \E e \in Requests : Keys!Renamer(e, q)' /\ e \in past'[d].met
                      \/ Renamed(d, q)'
    BY DEF FoundFree
  <2>1. /\ Keys!Live(q) /\ Other(d, q) /\ project[q].name = call[d].name
        /\ call'[d].op = call[d].op /\ call'[d].project = call[d].project
        /\ call[d].project \in Projects
    BY <1>1 DEF Other, Keys!TypeOK
  <2>4. Renamed(d, q) => Renamed(d, q)'
    BY <2>1, <1>3 DEF Renamed
  <2>2. CASE d = c
    BY <2>1, <2>2, <2>4, <1>1 DEF Naming
  <2>3. CASE d # c
    BY <2>1, <2>3, <2>4, <1>1, <1>2 DEF FoundFree, Naming
  <2> QED BY <2>2, <2>3
<1> QED BY <1>4, <1>5

(* A project q is given a name.                                            *)
LEMMA NameGiven ==
  ASSUME Keys!TypeOK, Met, FoundFree, TwinsMet, NEW c \in Requests, Naming(c),
         NEW r \in CallRecord, call' = [call EXCEPT ![c] = r], UNCHANGED past,
         r.op = call[c].op, r.st = "200", NEW q0 \in Projects, r.project = q0,
         \A q \in Projects \ {q0} : project'[q] = project[q],
         project'[q0].name = call[c].name,
         call[c].op = "renameProject" => q0 = call[c].project
  PROVE  FoundFree' /\ TwinsMet'
<1>1. call'[c] = r /\ \A d \in Requests \ {c} : call'[d] = call[d]
  BY CallEffect
<1>2. Keys!Renamer(c, q0)' /\ \A d \in Requests, q \in Projects : Keys!Renamer(d, q) =>
          Keys!Renamer(d, q)'
  BY <1>1 DEF Keys!Renamer, Naming
<1>3. \A p, q \in Projects : Overlapped(p, q) => Overlapped(p, q)'
  BY <1>2 DEF Overlapped
<1>4. \A p, q \in Projects : Overlapped(p, q)' => Overlapped(q, p)'
  BY DEF Overlapped, Met
<1>5. ASSUME NEW q \in Projects \ {q0}, Keys!Twins(q0, q)' PROVE Overlapped(q0, q)'
  <2>1. Keys!Live(q) /\ project[q].name = call[c].name /\ Other(c, q)
    BY <1>5 DEF Keys!Twins, Keys!Live, Other
  <2>2. CASE \E d \in Requests : Keys!Renamer(d, q) /\ d \in past[c].met
    <3>1. PICK d \in Requests : Keys!Renamer(d, q) /\ d \in past[c].met
      BY <2>2
    <3> QED BY <3>1, <1>2 DEF Overlapped
  <2>3. CASE Renamed(c, q)
    BY <2>3, <1>3 DEF Renamed
  <2> QED BY <2>1, <2>2, <2>3 DEF FoundFree
<1>6. TwinsMet'
  <2> SUFFICES ASSUME NEW p \in Projects, NEW q \in Projects, Keys!Twins(p, q)'
               PROVE  Overlapped(p, q)'
    BY DEF TwinsMet
  <2>1. CASE p = q0
    BY <2>1, <1>5 DEF Keys!Twins
  <2>2. CASE q = q0
    <3>1. Keys!Twins(q0, p)' /\ p \in Projects \ {q0}
      BY <2>2 DEF Keys!Twins
    <3> QED BY <3>1, <1>5, <1>4, <2>2
  <2>3. CASE p # q0 /\ q # q0
    BY <2>3, <1>3 DEF TwinsMet, Keys!Twins, Keys!Live
  <2> QED BY <2>1, <2>2, <2>3
<1>7. FoundFree'
  <2> SUFFICES ASSUME NEW d \in Requests, NEW q \in Projects, Naming(d)', Other(d, q)',
                      Keys!Live(q)', project'[q].name = call'[d].name
               PROVE  \/ \E e \in Requests : Keys!Renamer(e, q)' /\ e \in past'[d].met
                      \/ Renamed(d, q)'
    BY DEF FoundFree
  <2>1. d # c /\ call'[d] = call[d] /\ Naming(d) /\ Other(d, q) /\ call[d].project \in Projects
    BY <1>1 DEF Naming, Other, Keys!TypeOK
  <2>2. CASE q = q0
    <3>1. Keys!Running(c) /\ Keys!Running(d)
      BY <2>1 DEF Naming, Keys!Running, Keys!Progress
    <3>2. c \in past[d].met
      BY <3>1, <2>1 DEF Met
    <3> QED BY <3>2, <1>2, <2>2
  <2>3. CASE q # q0
    <3>1. Keys!Live(q) /\ project[q].name = call[d].name
      BY <2>1, <2>3 DEF Keys!Live
    <3>2. Renamed(d, q) => Renamed(d, q)'
      BY <2>1, <1>3 DEF Renamed
    <3> QED BY <3>1, <3>2, <2>1, <1>2 DEF FoundFree
  <2> QED BY <2>2, <2>3
<1> QED BY <1>6, <1>7

-----------------------------------------------------------------------------
(* Steps that only read.                                                   *)

LEMMA ReadKept ==
  ASSUME Keys!AccessKeysAssumption, KeysInv, NEW c \in Requests, Keys!Running(c),
         NEW r \in CallRecord, call' = [call EXCEPT ![c] = r], Keys!Reads,
         r.st # "new", r.op = call[c].op, r.user = call[c].user, r.project = call[c].project,
         r.key = call[c].key, r.name = call[c].name,
         r.op # "ingest" /\ r.st \in {"authorised", "exists", "unique", "200"} =>
           past[c].could,
         r.op = "ingest" /\ r.st \in {"found", "200"} =>
           r.blocked \in past[c].flags /\ ~past[c].dead,
         r.op \in {"createProject", "renameProject"} /\ r.st = "unique" =>
           \A q \in Projects :
             Other(c, q) /\ Keys!Live(q) /\ project[q].name = call[c].name =>
               Renamed(c, q)
  PROVE  KeysInv'
<1>1. Aging
  BY DEF Aging, Keys!Reads, Keys!store, KeysInv, Access, Keys!TypeOK, ProjectRecord, KeyRecord,
         Created
<1>2. key'[r.key].st # "unused" /\ project'[r.project].st # "unused"
  BY DEF Keys!Reads, Keys!store, KeysInv, Access, Created
<1>3. Access'
  BY <1>1, <1>2, AccessKept DEF KeysInv
<1>4. FoundFree' /\ TwinsMet'
  <2>1. \A p \in Projects : Keys!Live(p)' => Keys!Live(p) /\ project'[p].name = project[p].name
    BY DEF Keys!Reads, Keys!store, Keys!Live
  <2>2. UNCHANGED past
    BY DEF Keys!Reads
  <2> QED BY <2>1, <2>2, NamesKept DEF KeysInv, Access
<1> QED BY <1>3, <1>4 DEF KeysInv

(* It answers, or goes on, by what it just read.                           *)
LEMMA GoReads ==
  ASSUME Keys!AccessKeysAssumption, KeysInv, NEW c \in Requests, Keys!Running(c), Keys!Reads,
         NEW st \in Keys!Progress \cup Keys!Answer, Keys!Go(c, st), st # "new",
         call[c].op # "ingest" /\ st \in {"authorised", "exists", "unique", "200"} =>
           past[c].could,
         call[c].op = "ingest" => st \in {"200", "401", "503"},
         call[c].op = "ingest" /\ st = "200" => call[c].st = "found",
         call[c].op \in {"createProject", "renameProject"} /\ st = "unique" =>
           \A q \in Projects :
             Other(c, q) /\ Keys!Live(q) /\ project[q].name = call[c].name =>
               Renamed(c, q)
  PROVE  KeysInv'
<1>1. PICK r \in CallRecord :
        /\ call' = [call EXCEPT ![c] = r] /\ r.st = st
        /\ r.op = call[c].op /\ r.user = call[c].user /\ r.project = call[c].project
        /\ r.key = call[c].key /\ r.name = call[c].name /\ r.blocked = call[c].blocked
  BY KeysGoEffect DEF KeysInv, Access
<1>2. r.op = "ingest" /\ r.st \in {"found", "200"} =>
        r.blocked \in past[c].flags /\ ~past[c].dead
  BY <1>1 DEF KeysInv, Access, Granted
<1> QED BY <1>1, <1>2, ReadKept

LEMMA Readers ==
  ASSUME Keys!AccessKeysAssumption, KeysInv, NEW c \in Requests,
         \/ Keys!FindProject(c) \/ Keys!FindMembership(c) \/ Keys!FindExisting(c)
         \/ Keys!FindDuplicate(c)
         \/ Keys!LookUpKey(c) \/ Keys!Touch(c) \/ Keys!AuthUnavailable(c)
  PROVE  KeysInv'
<1>1. /\ Access /\ Keys!TypeOK /\ Seen /\ Granted /\ TwinsMet
      /\ call[c].op \in Keys!Op /\ call[c].user \in Founders /\ call[c].project \in Projects
  BY DEF KeysInv, Access, Keys!TypeOK
<1>2. Keys!Running(c)
  BY DEF Keys!FindProject, Keys!FindMembership, Keys!FindExisting, Keys!FindDuplicate,
         Keys!LookUpKey, Keys!Touch,
         Keys!AuthUnavailable, Keys!Running, Keys!Progress, Keys!ViaProject
<1>3. ASSUME Keys!FindProject(c) PROVE KeysInv'
  BY <1>3, <1>2, GoReads DEF Keys!FindProject, Keys!Progress, Keys!Answer, Keys!ViaProject
<1>4. ASSUME Keys!FindMembership(c) PROVE KeysInv'
  <2> DEFINE st == IF ~Keys!May(call[c].user, call[c].op) THEN "403"
                   ELSE IF call[c].op = "read" THEN "200" ELSE "authorised"
  <2>1. st \in {"authorised", "200"} => past[c].could
    BY <1>1, <1>2 DEF Seen
  <2>2. st \in {"403", "authorised", "200"} /\ Keys!Go(c, st) /\ Keys!Reads /\ call[c].op # "ingest"
    BY <1>4 DEF Keys!FindMembership
  <2> HIDE DEF st
  <2> QED BY <2>1, <2>2, <1>2, GoReads DEF Keys!Progress, Keys!Answer
<1>5. ASSUME Keys!FindExisting(c) PROVE KeysInv'
  <2>1. past[c].could /\ call[c].op # "ingest"
    BY <1>5, <1>1 DEF Keys!FindExisting, Granted
  <2>2. PICK st \in {"404", "exists", "unique"} :
          /\ Keys!Go(c, st)
          /\ call[c].op \in {"createProject", "renameProject"} /\ st = "unique" =>
               /\ call[c].op = "renameProject" /\ Keys!Live(call[c].project)
               /\ project[call[c].project].name = call[c].name
    BY <1>5 DEF Keys!FindExisting
  <2>3. ASSUME call[c].op \in {"createProject", "renameProject"}, st = "unique",
               NEW q \in Projects, Other(c, q), Keys!Live(q), project[q].name = call[c].name
        PROVE  Renamed(c, q)
    <3>1. Keys!Twins(call[c].project, q)
      BY <2>2, <2>3 DEF Other, Keys!Twins
    <3> QED BY <3>1, <2>2, <2>3, <1>1 DEF TwinsMet, Renamed
  <2>4. st # "200" /\ st # "new" /\ st \in Keys!Progress \cup Keys!Answer
    BY DEF Keys!Progress, Keys!Answer
  <2> QED BY <2>1, <2>2, <2>3, <2>4, <1>2, <1>5, GoReads DEF Keys!FindExisting
<1>6. ASSUME Keys!FindDuplicate(c) PROVE KeysInv'
  <2>1. /\ call[c].op \in {"createProject", "renameProject"}
        /\ call[c].st \in {"authorised", "exists"} /\ Keys!Reads
    BY <1>6 DEF Keys!FindDuplicate
  <2>2. past[c].could
    BY <2>1, <1>1 DEF Granted
  <2>3. PICK st \in {"409", "unique"} :
          /\ Keys!Go(c, st)
          /\ st = "unique" => \A q \in Projects : Other(c, q) =>
                                ~(Keys!Live(q) /\ project[q].name = call[c].name)
    BY <1>6 DEF Keys!FindDuplicate, Keys!Taken, Other
  <2>4. st # "200" /\ st # "new" /\ st \in Keys!Progress \cup Keys!Answer
    BY DEF Keys!Progress, Keys!Answer
  <2> QED BY <2>1, <2>2, <2>3, <2>4, <1>2, GoReads
<1>7. ASSUME Keys!LookUpKey(c) PROVE KeysInv'
  <2> DEFINE st == IF Keys!Usable(call[c].key) THEN "found" ELSE "401"
             r  == [call[c] EXCEPT !.st = st, !.blocked = blocked]
  <2>1. st \in {"found", "401"} /\ (st = "found" => Keys!Usable(call[c].key))
    OBVIOUS
  <2>2. call' = [call EXCEPT ![c] = r] /\ call[c].op = "ingest" /\ Keys!Reads
    BY <1>7 DEF Keys!LookUpKey
  <2> HIDE DEF st
  <2>3. /\ r \in CallRecord /\ r.st = st /\ r.blocked = blocked
        /\ r.op = call[c].op /\ r.user = call[c].user /\ r.project = call[c].project
        /\ r.key = call[c].key /\ r.name = call[c].name
    BY <1>1, <2>1 DEF Keys!TypeOK, CallRecord, Keys!Progress, Keys!Answer
  <2> HIDE DEF r
  <2>4. r.st = "found" => r.blocked \in past[c].flags /\ ~past[c].dead
    BY <2>1, <2>3, <1>1, <1>2 DEF Seen
  <2> QED BY <2>1, <2>2, <2>3, <2>4, <1>2, ReadKept
<1>8. ASSUME Keys!Touch(c) PROVE KeysInv'
  BY <1>8, <1>2, GoReads DEF Keys!Touch, Keys!Progress, Keys!Answer
<1>9. ASSUME Keys!AuthUnavailable(c) PROVE KeysInv'
  BY <1>9, <1>2, GoReads DEF Keys!AuthUnavailable, Keys!Progress, Keys!Answer
<1> QED BY <1>3, <1>4, <1>5, <1>6, <1>7, <1>8, <1>9

-----------------------------------------------------------------------------
(* Steps that write.                                                       *)

(* A write names nothing, or gives a project its name.                     *)
LEMMA WriteKept ==
  ASSUME Keys!AccessKeysAssumption, KeysInv, NEW c \in Requests, call[c].op # "ingest",
         call[c].st \in {"authorised", "exists", "unique"},
         NEW r \in CallRecord, call' = [call EXCEPT ![c] = r], Aging,
         r.st \in {"200", "500"}, r.op = call[c].op, r.user = call[c].user,
         r.name = call[c].name,
         key'[r.key].st # "unused", project'[r.project].st # "unused",
         \/ /\ r.project = call[c].project
            /\ \A p \in Projects : Keys!Live(p)' => Keys!Live(p) /\ project'[p].name = project[p].name
         \/ /\ Naming(c) /\ r.st = "200" /\ project'[r.project].name = call[c].name
            /\ \A q \in Projects \ {r.project} : project'[q] = project[q]
            /\ call[c].op = "renameProject" => r.project = call[c].project
  PROVE  KeysInv'
<1>1. Keys!Running(c) /\ past[c].could /\ r.project \in Projects
  BY DEF KeysInv, Access, Granted, Keys!Running, Keys!Progress, CallRecord
<1>2. Access'
  <2>1. r.st # "new" /\ r.st \notin Keys!Progress
    BY DEF Keys!Progress
  <2> QED BY <1>1, <2>1, AccessKept DEF KeysInv
<1>3. Keys!TypeOK /\ Met /\ FoundFree /\ TwinsMet /\ UNCHANGED past /\ r.st # "unique"
  BY DEF KeysInv, Access, Aging
<1>4. FoundFree' /\ TwinsMet'
  <2>1. CASE /\ r.project = call[c].project
             /\ \A p \in Projects : Keys!Live(p)' => Keys!Live(p) /\ project'[p].name = project[p].name
    BY <2>1, <1>1, <1>3, NamesKept
  <2>2. CASE /\ Naming(c) /\ r.st = "200" /\ project'[r.project].name = call[c].name
             /\ \A q \in Projects \ {r.project} : project'[q] = project[q]
             /\ call[c].op = "renameProject" => r.project = call[c].project
    BY <2>2, <1>1, <1>3, NameGiven
  <2> QED BY <2>1, <2>2
<1> QED BY <1>2, <1>4 DEF KeysInv

(* The database refuses: 500.                                              *)
LEMMA Refused ==
  ASSUME Keys!AccessKeysAssumption, KeysInv, NEW c \in Requests, call[c].op # "ingest",
         call[c].st \in {"authorised", "exists", "unique"},
         Keys!Go(c, "500"), UNCHANGED <<Keys!store, role>>, Keys!Writes
  PROVE  KeysInv'
<1>1. PICK r \in CallRecord :
        /\ call' = [call EXCEPT ![c] = r] /\ r.st = "500"
        /\ r.op = call[c].op /\ r.user = call[c].user /\ r.project = call[c].project
        /\ r.key = call[c].key /\ r.name = call[c].name
  <2>1. "500" \in Keys!Progress \cup Keys!Answer
    BY DEF Keys!Answer
  <2> QED BY <2>1, KeysGoEffect DEF KeysInv, Access
<1>2. Aging
  BY DEF Aging, Keys!Writes, Keys!store, KeysInv, Access, Keys!TypeOK, ProjectRecord,
         KeyRecord, Created
<1>3. key'[r.key].st # "unused" /\ project'[r.project].st # "unused"
  BY <1>1 DEF Keys!store, KeysInv, Access, Created
<1>4. \A p \in Projects : Keys!Live(p)' => Keys!Live(p) /\ project'[p].name = project[p].name
  BY DEF Keys!store, Keys!Live
<1> QED BY <1>1, <1>2, <1>3, <1>4, WriteKept

LEMMA ProjectWriters ==
  ASSUME Keys!AccessKeysAssumption, KeysInv, NEW c \in Requests,
         Keys!CreateProject(c) \/ Keys!RenameProject(c) \/ Keys!DeleteProject(c)
  PROVE  KeysInv'
<1>1. /\ Access /\ Keys!TypeOK /\ Created /\ call[c] \in CallRecord
      /\ project[call[c].project].st # "unused" /\ key[call[c].key].st # "unused"
  BY DEF KeysInv, Access, Keys!TypeOK, CallRecord, Created
<1>2. call[c].op # "ingest" /\ call[c].st \in {"authorised", "exists", "unique"} /\ Keys!Writes
  BY DEF Keys!CreateProject, Keys!RenameProject, Keys!DeleteProject
<1>3. CASE Keys!Go(c, "500") /\ UNCHANGED <<Keys!store, role>>
  BY <1>2, <1>3, Refused
<1>4. ASSUME NEW p \in Projects, NEW x \in ProjectRecord, project' = [project EXCEPT ![p] = x],
             x.st # "unused", x.st = "live" => project[p].st \in {"unused", "live"}
      PROVE  /\ project' \in [Projects -> ProjectRecord] /\ project'[p] = x
             /\ \A q \in Projects \ {p} : project'[q] = project[q]
             /\ \A q \in Projects : project[q].st # "unused" =>
                  project'[q].st # "unused" /\ (project'[q].st = "live" => project[q].st = "live")
             /\ UNCHANGED <<workspace, key, role>> => Aging
  <2>1. /\ project' \in [Projects -> ProjectRecord] /\ project'[p] = x
        /\ \A q \in Projects \ {p} : project'[q] = project[q]
    BY <1>4, <1>1 DEF Keys!TypeOK, ProjectRecord
  <2>2. \A q \in Projects : project[q].st # "unused" =>
          project'[q].st # "unused" /\ (project'[q].st = "live" => project[q].st = "live")
    BY <2>1, <1>4
  <2>3. UNCHANGED <<workspace, key, role>> => Aging
    BY <2>1, <2>2, <1>1, <1>2 DEF Aging, Keys!Writes, Keys!TypeOK, KeyRecord
  <2> QED BY <2>1, <2>2, <2>3
<1>5. ASSUME NEW p \in Projects, project[p].st = "unused", Keys!CreateProject(c),
             project' = [project EXCEPT ![p] = [st |-> "live", name |-> call[c].name]],
             call' = [call EXCEPT ![c].st = "200", ![c].project = p]
      PROVE  KeysInv'
  <2> DEFINE r == [call[c] EXCEPT !.st = "200", !.project = p]
             x == [st |-> "live", name |-> call[c].name]
  <2>1. /\ r \in CallRecord /\ r.st = "200" /\ r.project = p /\ r.op = call[c].op
        /\ r.user = call[c].user /\ r.key = call[c].key /\ r.name = call[c].name
    BY <1>1, <1>5 DEF CallRecord, Keys!Answer
  <2>2. call' = [call EXCEPT ![c] = r]
    BY <1>5
  <2>3. x \in ProjectRecord /\ x.st = "live" /\ x.name = call[c].name
        /\ project' = [project EXCEPT ![p] = x]
    BY <1>1, <1>5 DEF ProjectRecord, CallRecord
  <2> HIDE DEF r, x
  <2>4. UNCHANGED <<workspace, key, role>> /\ Naming(c) /\ call[c].op # "renameProject"
    BY <1>5 DEF Keys!CreateProject, Naming
  <2>5. /\ Aging /\ project'[p] = x /\ \A q \in Projects \ {p} : project'[q] = project[q]
    BY <2>3, <2>4, <1>4, <1>5
  <2>6. key'[r.key].st # "unused" /\ project'[r.project].st # "unused"
    BY <2>1, <2>3, <2>4, <2>5, <1>1
  <2> QED BY <2>1, <2>2, <2>3, <2>4, <2>5, <2>6, <1>2, WriteKept
<1>6. ASSUME Keys!RenameProject(c) \/ Keys!DeleteProject(c), project[call[c].project].st # "gone",
             NEW x \in ProjectRecord, project' = [project EXCEPT ![call[c].project] = x],
             x.st \in {project[call[c].project].st, "deleted"}, Keys!Go(c, "200"),
             \/ Naming(c) /\ x.name = call[c].name
             \/ x.st = "deleted"
      PROVE  KeysInv'
  <2>0. call[c].project \in Projects /\ "200" \in Keys!Progress \cup Keys!Answer
    BY <1>1 DEF CallRecord, Keys!Answer
  <2>1. PICK r \in CallRecord :
        /\ call' = [call EXCEPT ![c] = r] /\ r.st = "200"
        /\ r.op = call[c].op /\ r.user = call[c].user /\ r.project = call[c].project
        /\ r.key = call[c].key /\ r.name = call[c].name
    BY <2>0, <1>1, <1>6, KeysGoEffect
  <2>2. UNCHANGED <<workspace, key, role>>
    BY <1>6 DEF Keys!RenameProject, Keys!DeleteProject
  <2>3. /\ Aging /\ project'[call[c].project] = x
        /\ \A q \in Projects \ {call[c].project} : project'[q] = project[q]
    BY <2>0, <2>2, <1>1, <1>4, <1>6
  <2>4. key'[r.key].st # "unused" /\ project'[r.project].st # "unused"
    BY <2>1, <2>2, <2>3, <1>1, <1>6
  <2>5. CASE Naming(c) /\ x.name = call[c].name
    BY <2>1, <2>3, <2>4, <2>5, <1>2, WriteKept
  <2>6. CASE x.st = "deleted"
    <3>1. \A p \in Projects : Keys!Live(p)' => Keys!Live(p) /\ project'[p].name = project[p].name
      BY <2>6, <2>3 DEF Keys!Live
    <3> QED BY <3>1, <2>1, <2>3, <2>4, <1>2, WriteKept
  <2> QED BY <2>5, <2>6, <1>6
<1>7. CASE Keys!CreateProject(c)
  BY <1>3, <1>5, <1>7 DEF Keys!CreateProject, Keys!store
<1>8. CASE Keys!RenameProject(c)
  <2> DEFINE x == [project[call[c].project] EXCEPT !.name = call[c].name]
  <2>1. x \in ProjectRecord /\ x.st = project[call[c].project].st /\ x.name = call[c].name
    BY <1>1 DEF Keys!TypeOK, ProjectRecord, CallRecord
  <2>2. Naming(c)
    BY <1>8 DEF Keys!RenameProject, Naming
  <2>3. CASE project[call[c].project].st # "gone"
    <3>1. project' = [project EXCEPT ![call[c].project] = x] /\ Keys!Go(c, "200")
      BY <1>8, <2>3 DEF Keys!RenameProject
    <3> HIDE DEF x
    <3> QED BY <3>1, <2>1, <2>2, <2>3, <1>6, <1>8
  <2>4. CASE project[call[c].project].st = "gone"
    BY <2>4, <1>3, <1>8 DEF Keys!RenameProject, Keys!store
  <2> QED BY <2>3, <2>4
<1>9. CASE Keys!DeleteProject(c)
  <2> DEFINE x == [project[call[c].project] EXCEPT !.st = "deleted"]
  <2>1. x \in ProjectRecord /\ x.st = "deleted"
    BY <1>1 DEF Keys!TypeOK, ProjectRecord, CallRecord
  <2>3. CASE project[call[c].project].st # "gone"
    <3>1. project' = [project EXCEPT ![call[c].project] = x] /\ Keys!Go(c, "200")
      BY <1>9, <2>3 DEF Keys!DeleteProject
    <3> HIDE DEF x
    <3> QED BY <3>1, <2>1, <2>3, <1>6, <1>9
  <2>4. CASE project[call[c].project].st = "gone"
    BY <2>4, <1>3, <1>9 DEF Keys!DeleteProject, Keys!store
  <2> QED BY <2>3, <2>4
<1> QED BY <1>7, <1>8, <1>9

LEMMA KeyWriters ==
  ASSUME Keys!AccessKeysAssumption, KeysInv, NEW c \in Requests,
         Keys!CreateKey(c) \/ Keys!DeleteKey(c)
  PROVE  KeysInv'
<1>1. /\ Access /\ Keys!TypeOK /\ Created /\ call[c] \in CallRecord
      /\ project[call[c].project].st # "unused" /\ key[call[c].key].st # "unused"
  BY DEF KeysInv, Access, Keys!TypeOK, CallRecord, Created
<1>2. /\ call[c].op # "ingest" /\ call[c].st \in {"authorised", "exists", "unique"} /\ Keys!Writes
      /\ UNCHANGED <<workspace, project, role>>
  BY DEF Keys!CreateKey, Keys!DeleteKey
<1>3. CASE Keys!Go(c, "500") /\ UNCHANGED key
  BY <1>2, <1>3, Refused DEF Keys!store
<1>4. \A p \in Projects : Keys!Live(p)' => Keys!Live(p) /\ project'[p].name = project[p].name
  BY <1>2 DEF Keys!Live
<1>5. ASSUME NEW k \in ApiKeys, key[k].st = "unused", Keys!CreateKey(c),
             key' = [key EXCEPT ![k] = [st |-> "active", project |-> call[c].project,
                                        expired |-> FALSE]],
             call' = [call EXCEPT ![c].st = "200", ![c].key = k]
      PROVE  KeysInv'
  <2> DEFINE r == [call[c] EXCEPT !.st = "200", !.key = k]
  <2>1. /\ r \in CallRecord /\ r.st = "200" /\ r.key = k /\ r.op = call[c].op
        /\ r.user = call[c].user /\ r.project = call[c].project /\ r.name = call[c].name
    BY <1>1, <1>5 DEF CallRecord, Keys!Answer
  <2>2. call' = [call EXCEPT ![c] = r]
    BY <1>5
  <2> HIDE DEF r
  <2>3. Aging
    BY <1>1, <1>2, <1>5 DEF Aging, Keys!Writes, Keys!TypeOK, ProjectRecord, KeyRecord, CallRecord
  <2>4. key'[r.key].st # "unused" /\ project'[r.project].st # "unused"
    BY <2>1, <1>1, <1>2, <1>5 DEF Keys!TypeOK
  <2> QED BY <2>1, <2>2, <2>3, <2>4, <1>2, <1>4, WriteKept
<1>6. ASSUME Keys!DeleteKey(c), key[call[c].key].st = "active",
             key' = [key EXCEPT ![call[c].key].st = "deleted"], Keys!Go(c, "200")
      PROVE  KeysInv'
  <2>0. call[c].key \in ApiKeys /\ "200" \in Keys!Progress \cup Keys!Answer
    BY <1>1 DEF CallRecord, Keys!Answer
  <2>1. PICK r \in CallRecord :
        /\ call' = [call EXCEPT ![c] = r] /\ r.st = "200"
        /\ r.op = call[c].op /\ r.user = call[c].user /\ r.project = call[c].project
        /\ r.key = call[c].key /\ r.name = call[c].name
    BY <2>0, <1>1, <1>6, KeysGoEffect
  <2>3. Aging
    BY <2>0, <1>1, <1>2, <1>6 DEF Aging, Keys!Writes, Keys!TypeOK, ProjectRecord, KeyRecord, Created
  <2>4. key'[r.key].st # "unused" /\ project'[r.project].st # "unused"
    BY <2>0, <2>1, <1>1, <1>2, <1>6 DEF Keys!TypeOK
  <2> QED BY <2>1, <2>3, <2>4, <1>2, <1>4, WriteKept
<1>7. CASE Keys!CreateKey(c)
  BY <1>3, <1>5, <1>7 DEF Keys!CreateKey
<1>8. CASE Keys!DeleteKey(c)
  BY <1>3, <1>6, <1>8 DEF Keys!DeleteKey
<1> QED BY <1>7, <1>8

LEMMA WorkspaceWriter ==
  ASSUME Keys!AccessKeysAssumption, KeysInv, NEW c \in Requests, Keys!DeleteWorkspace(c)
  PROVE  KeysInv'
<1>1. /\ Access /\ Keys!TypeOK /\ Created /\ call[c] \in CallRecord
      /\ project[call[c].project].st # "unused" /\ key[call[c].key].st # "unused"
      /\ call[c].project \in Projects /\ call[c].key \in ApiKeys
  BY DEF KeysInv, Access, Keys!TypeOK, CallRecord, Created
<1>2. call[c].op # "ingest" /\ call[c].st \in {"authorised", "exists", "unique"} /\ Keys!Writes
  BY DEF Keys!DeleteWorkspace
<1>3. CASE Keys!Go(c, "500") /\ UNCHANGED <<Keys!store, role>>
  BY <1>2, <1>3, Refused
<1>4. CASE ~(Keys!Go(c, "500") /\ UNCHANGED <<Keys!store, role>>)
  <2>1. /\ workspace' = "gone" /\ role' = [u \in Founders |-> "NONE"] /\ Keys!Go(c, "200")
        /\ project' = [p \in Projects |->
             IF project[p].st = "unused" THEN project[p] ELSE [project[p] EXCEPT !.st = "gone"]]
        /\ key' = [k \in ApiKeys |->
             IF key[k].st = "active" THEN [key[k] EXCEPT !.st = "deleted"] ELSE key[k]]
    BY <1>4 DEF Keys!DeleteWorkspace
  <2>2. /\ project' \in [Projects -> ProjectRecord]
        /\ \A p \in Projects : IF project[p].st = "unused" THEN project'[p] = project[p]
                               ELSE project'[p].st = "gone"
    <3> DEFINE x(p) == [project[p] EXCEPT !.st = "gone"]
    <3>1. ASSUME NEW p \in Projects
          PROVE  project[p] \in ProjectRecord /\ x(p) \in ProjectRecord /\ x(p).st = "gone"
      <4>1. project[p] \in ProjectRecord
        BY <1>1, <3>1 DEF Keys!TypeOK, ProjectRecord
      <4> QED BY <4>1, ProjectUpdate DEF ProjectRecord
    <3>2. project' = [p \in Projects |-> IF project[p].st = "unused" THEN project[p] ELSE x(p)]
      BY <2>1
    <3> HIDE DEF x
    <3> QED BY <3>1, <3>2
  <2>3. /\ key' \in [ApiKeys -> KeyRecord]
        /\ \A k \in ApiKeys :
             /\ key'[k].project = key[k].project /\ key'[k].expired = key[k].expired
             /\ key'[k].st = IF key[k].st = "active" THEN "deleted" ELSE key[k].st
    <3> DEFINE x(k) == [key[k] EXCEPT !.st = "deleted"]
    <3>1. ASSUME NEW k \in ApiKeys
          PROVE  /\ key[k] \in KeyRecord /\ x(k) \in KeyRecord /\ x(k).st = "deleted"
                 /\ x(k).project = key[k].project /\ x(k).expired = key[k].expired
      <4>1. key[k] \in KeyRecord
        BY <1>1, <3>1 DEF Keys!TypeOK, KeyRecord
      <4> QED BY <4>1, KeyUpdate DEF KeyRecord
    <3>2. key' = [k \in ApiKeys |-> IF key[k].st = "active" THEN x(k) ELSE key[k]]
      BY <2>1
    <3> HIDE DEF x
    <3> QED BY <3>1, <3>2
  <2>4. Aging
    BY <2>1, <2>2, <2>3, <1>1, <1>2 DEF Aging, Keys!Writes, Keys!Role, Keys!TypeOK
  <2>5. PICK r \in CallRecord :
        /\ call' = [call EXCEPT ![c] = r] /\ r.st = "200"
        /\ r.op = call[c].op /\ r.user = call[c].user /\ r.project = call[c].project
        /\ r.key = call[c].key /\ r.name = call[c].name
    <3>1. "200" \in Keys!Progress \cup Keys!Answer
      BY DEF Keys!Answer
    <3> QED BY <3>1, <2>1, <1>1, KeysGoEffect
  <2>6. key'[r.key].st # "unused" /\ project'[r.project].st # "unused"
    BY <2>2, <2>3, <2>5, <1>1
  <2>7. \A p \in Projects : Keys!Live(p)' => Keys!Live(p) /\ project'[p].name = project[p].name
    BY <2>2 DEF Keys!Live
  <2> QED BY <2>4, <2>5, <2>6, <2>7, <1>2, WriteKept
<1> QED BY <1>3, <1>4

-----------------------------------------------------------------------------
(* A request arrives, and the rest of the system.                          *)

LEMMA Arrivals ==
  ASSUME Keys!AccessKeysAssumption, KeysInv, NEW c \in Requests, Keys!Arrive(c)
  PROVE  KeysInv'
<1>0. /\ Keys!TypeOK /\ Created /\ Seen /\ Granted /\ Met /\ FoundFree /\ TwinsMet
      /\ call[c].st = "new" /\ UNCHANGED <<workspace, project, key, role, blocked, changes>>
  BY DEF KeysInv, Access, Keys!Arrive, Keys!store
<1>a. PICK op \in Keys!Op : \E a \in Keys!Arguments(op) :
        /\ call' = [call EXCEPT ![c] = a]
        /\ past' = [d \in Requests |->
             IF d = c THEN [dead  |-> ~Keys!Usable(a.key), could |-> Keys!May(a.user, op),
                            flags |-> {blocked}, met |-> {e \in Requests : Keys!Running(e)}]
             ELSE IF Keys!Running(d) THEN [past[d] EXCEPT !.met = @ \cup {c}] ELSE past[d]]
  BY DEF Keys!Arrive
<1>1. PICK a \in Keys!Arguments(op) :
        /\ call' = [call EXCEPT ![c] = a]
        /\ past' = [d \in Requests |->
             IF d = c THEN [dead  |-> ~Keys!Usable(a.key), could |-> Keys!May(a.user, op),
                            flags |-> {blocked}, met |-> {e \in Requests : Keys!Running(e)}]
             ELSE IF Keys!Running(d) THEN [past[d] EXCEPT !.met = @ \cup {c}] ELSE past[d]]
  BY <1>a
<1>2. /\ a.op = op /\ a.user \in Founders /\ a.st = "begun" /\ a.blocked = FALSE
      /\ a.project \in Projects /\ project[a.project].st # "unused"
      /\ a.key \in ApiKeys /\ key[a.key].st # "unused" /\ a.name \in Names /\ a \in CallRecord
  BY <1>0, Keys!AccessKeysAssumption
     DEF Keys!Arguments, Keys!AccessKeysAssumption, Created, CallRecord, Keys!Progress
<1>3. call'[c] = a /\ \A d \in Requests \ {c} : call'[d] = call[d]
  BY <1>0, <1>1, <1>2, CallEffect
<1>4. /\ past'[c].dead = ~Keys!Usable(a.key) /\ past'[c].could = Keys!May(a.user, op)
      /\ past'[c].flags = {blocked} /\ past'[c].met = {e \in Requests : Keys!Running(e)}
  BY <1>1
<1>5. \A d \in Requests \ {c} :
        /\ past'[d].dead = past[d].dead /\ past'[d].could = past[d].could
        /\ past'[d].flags = past[d].flags
        /\ past'[d].met = IF Keys!Running(d) THEN past[d].met \cup {c} ELSE past[d].met
  BY <1>0, <1>1 DEF Keys!TypeOK
<1>6. ~Keys!Running(c) /\ \A d \in Requests \ {c} : Keys!Running(d)' <=> Keys!Running(d)
  BY <1>0, <1>3 DEF Keys!Running
<1>7. Keys!TypeOK'
  <2>1. Keys!Usable(a.key) \in BOOLEAN /\ Keys!May(a.user, op) \in BOOLEAN
    BY DEF Keys!Usable, Keys!Live, Keys!May
  <2>2. past' \in [Requests -> PastRecord]
    <3>1. [dead  |-> ~Keys!Usable(a.key), could |-> Keys!May(a.user, op),
           flags |-> {blocked}, met |-> {e \in Requests : Keys!Running(e)}] \in PastRecord
      <4>1. (~Keys!Usable(a.key)) \in BOOLEAN /\ {blocked} \in SUBSET BOOLEAN
        BY <1>0 DEF Keys!TypeOK
      <4>2. {e \in Requests : Keys!Running(e)} \in SUBSET Requests
        OBVIOUS
      <4> QED BY <4>1, <4>2, <2>1, PastMade DEF PastRecord
    <3>2. \A d \in Requests : /\ past[d] \in PastRecord
                              /\ [past[d] EXCEPT !.met = @ \cup {c}] \in PastRecord
      BY <1>0, PastUpdates
    <3> QED BY <3>1, <3>2, <1>1
  <2>3. call' \in [Requests -> CallRecord]
    BY <1>0, <1>1, <1>2, CallEffect
  <2> QED BY <2>2, <2>3, <1>0 DEF Keys!TypeOK, PastRecord, CallRecord
<1>8. Created'
  BY <1>0, <1>2, <1>3 DEF Created
<1>9. Seen'
  <2> SUFFICES ASSUME NEW d \in Requests, Keys!Running(d)'
               PROVE  /\ Keys!May(call[d].user, call[d].op)' => past[d].could'
                      /\ (blocked \in past[d].flags)'
                      /\ past[d].dead' => ~Keys!Usable(call[d].key)'
    BY DEF Seen
  <2>1. CASE d = c
    BY <2>1, <1>0, <1>2, <1>3, <1>4 DEF Keys!May, Keys!Usable, Keys!Live
  <2>2. CASE d # c
    <3>1. Keys!Running(d) /\ call'[d] = call[d]
      BY <2>2, <1>3, <1>6
    <3> QED BY <3>1, <2>2, <1>0, <1>5 DEF Seen, Keys!May, Keys!Usable, Keys!Live
  <2> QED BY <2>1, <2>2
<1>10. Granted'
  <2> SUFFICES ASSUME NEW d \in Requests
               PROVE  /\ (call[d].op # "ingest"
                          /\ call[d].st \in {"authorised", "exists", "unique", "200"})' =>
                           past[d].could'
                      /\ (call[d].op = "ingest" /\ call[d].st \in {"found", "200"})' =>
                           (call[d].blocked \in past[d].flags /\ ~past[d].dead)'
    BY DEF Granted
  <2>1. CASE d = c
    BY <2>1, <1>2, <1>3
  <2>2. CASE d # c
    BY <2>2, <1>0, <1>3, <1>5 DEF Granted
  <2> QED BY <2>1, <2>2
<1>11. Met'
  <2>1. ASSUME NEW d \in Requests, NEW e \in Requests, Keys!Running(d)', Keys!Running(e)', d # e
        PROVE  e \in past'[d].met
    <3>1. CASE d = c
      BY <2>1, <3>1, <1>4, <1>6
    <3>2. CASE d # c /\ e = c
      BY <2>1, <3>2, <1>5, <1>6
    <3>3. CASE d # c /\ e # c
      <4>1. Keys!Running(d) /\ Keys!Running(e)
        BY <2>1, <3>3, <1>6
      <4>2. e \in past[d].met
        BY <4>1, <2>1, <1>0 DEF Met
      <4> QED BY <4>2, <3>3, <1>5
    <3> QED BY <3>1, <3>2, <3>3
  <2>2. \A d \in Requests : c \notin past[d].met
    BY <1>0 DEF Met
  <2>3. ASSUME NEW d \in Requests, NEW e \in Requests, e \in past'[d].met
        PROVE  d \in past'[e].met
    <3>1. CASE d = c
      <4>1. Keys!Running(e) /\ e # c
        BY <2>3, <3>1, <1>4, <1>6
      <4> QED BY <4>1, <3>1, <1>5
    <3>2. CASE d # c /\ e = c
      <4>1. Keys!Running(d)
        BY <2>2, <2>3, <3>2, <1>5
      <4> QED BY <4>1, <3>2, <1>4
    <3>3. CASE d # c /\ e # c
      <4>1. e \in past[d].met
        BY <2>3, <3>3, <1>5
      <4>2. d \in past[e].met
        BY <4>1, <1>0 DEF Met
      <4> QED BY <4>2, <3>3, <1>5
    <3> QED BY <3>1, <3>2, <3>3
  <2>4. ASSUME NEW d \in Requests, call'[d].st = "new" PROVE past'[d].met = {}
    <3>1. d # c /\ call[d].st = "new"
      BY <2>4, <1>2, <1>3
    <3>2. ~Keys!Running(d)
      BY <3>1 DEF Keys!Running
    <3>3. past[d].met = {}
      BY <3>1, <1>0 DEF Met
    <3> QED BY <3>1, <3>2, <3>3, <1>5
  <2> QED BY <2>1, <2>3, <2>4 DEF Met
<1>12. \A d \in Requests, q \in Projects : Keys!Renamer(d, q) => d # c /\ Keys!Renamer(d, q)'
  BY <1>0, <1>3 DEF Keys!Renamer
<1>13. \A d \in Requests : past[d].met \subseteq past'[d].met
  <2>1. past[c].met = {}
    BY <1>0 DEF Met
  <2> QED BY <2>1, <1>5
<1>14. \A p, q \in Projects : Overlapped(p, q) => Overlapped(p, q)'
  BY <1>12, <1>13 DEF Overlapped
<1>15. TwinsMet'
  BY <1>0, <1>14 DEF TwinsMet, Keys!Twins, Keys!Live
<1>16. FoundFree'
  <2> SUFFICES ASSUME NEW d \in Requests, NEW q \in Projects, Naming(d)', Other(d, q)',
                      Keys!Live(q)', project'[q].name = call'[d].name
               PROVE  \/ \E e \in Requests : Keys!Renamer(e, q)' /\ e \in past'[d].met
                      \/ Renamed(d, q)'
    BY DEF FoundFree
  <2>1. d # c /\ call'[d] = call[d] /\ call[d].project \in Projects
    BY <1>0, <1>2, <1>3 DEF Naming, Keys!TypeOK
  <2>2. Naming(d) /\ Other(d, q) /\ Keys!Live(q) /\ project[q].name = call[d].name
    BY <2>1, <1>0 DEF Naming, Other, Keys!Live
  <2>3. Renamed(d, q) => Renamed(d, q)'
    BY <2>1, <1>14 DEF Renamed
  <2>4. \/ \E e \in Requests : Keys!Renamer(e, q) /\ e \in past[d].met
        \/ Renamed(d, q)
    BY <2>2, <1>0 DEF FoundFree
  <2> QED BY <2>3, <2>4, <1>12, <1>13
<1> QED BY <1>7, <1>8, <1>9, <1>10, <1>11, <1>15, <1>16 DEF KeysInv, Access

(* Nothing of requests and names changes but what past has seen.           *)
LEMMA Elsewhere ==
  ASSUME Keys!AccessKeysAssumption, KeysInv, Keys!TypeOK', UNCHANGED <<call, project>>,
         \A c \in Requests :
           /\ past'[c].met = past[c].met /\ past'[c].dead = past[c].dead
           /\ past[c].could => past'[c].could
           /\ past[c].flags \subseteq past'[c].flags,
         \A c \in Requests : Keys!Running(c) =>
           /\ Keys!May(call[c].user, call[c].op)' => past'[c].could
           /\ blocked' \in past'[c].flags,
         \A k \in ApiKeys : /\ key'[k].st = key[k].st /\ key'[k].project = key[k].project
                            /\ key[k].expired => key'[k].expired
  PROVE  KeysInv'
<1>1. Created'
  BY Keys!AccessKeysAssumption DEF KeysInv, Access, Keys!TypeOK, Created, Keys!AccessKeysAssumption
<1>2. \A k \in ApiKeys : Keys!Usable(k)' => Keys!Usable(k)
  BY DEF Keys!Usable, Keys!Live, KeysInv, Access, Keys!TypeOK
<1>3. Seen'
  <2> SUFFICES ASSUME NEW d \in Requests, Keys!Running(d)'
               PROVE  /\ Keys!May(call[d].user, call[d].op)' => past[d].could'
                      /\ (blocked \in past[d].flags)'
                      /\ past[d].dead' => ~Keys!Usable(call[d].key)'
    BY DEF Seen
  <2>1. Keys!Running(d) /\ call[d].key \in ApiKeys
    BY DEF Keys!Running, KeysInv, Access, Keys!TypeOK
  <2>2. past[d].dead' => ~Keys!Usable(call[d].key)'
    BY <2>1, <1>2 DEF KeysInv, Access, Seen, Keys!Usable, Keys!Live
  <2> QED BY <2>1, <2>2
<1>4. Granted' /\ Met'
  <2>1. ASSUME NEW d \in Requests
        PROVE  /\ past[d].could => past'[d].could
               /\ past[d].flags \subseteq past'[d].flags
               /\ ~past[d].dead => ~past'[d].dead
    OBVIOUS
  <2>3. Granted'
    <3> SUFFICES ASSUME NEW d \in Requests
                 PROVE  /\ /\ call[d].op # "ingest"
                           /\ call[d].st \in {"authorised", "exists", "unique", "200"}
                           => past'[d].could
                        /\ call[d].op = "ingest" /\ call[d].st \in {"found", "200"} =>
                                  call[d].blocked \in past'[d].flags /\ ~past'[d].dead
      BY DEF Granted
    <3>1. /\ /\ call[d].op # "ingest"
             /\ call[d].st \in {"authorised", "exists", "unique", "200"}
             => past[d].could
          /\ call[d].op = "ingest" /\ call[d].st \in {"found", "200"} =>
               call[d].blocked \in past[d].flags /\ ~past[d].dead
      BY DEF Granted, KeysInv, Access
    <3> QED BY <3>1, <2>1
  <2>2. Met'
    BY DEF Met, Keys!Running, KeysInv, Access
  <2> QED BY <2>2, <2>3
<1>5. \A p, q \in Projects : Overlapped(p, q) <=> Overlapped(p, q)'
  BY DEF Overlapped, Keys!Renamer
<1>6. FoundFree' /\ TwinsMet'
  BY <1>5 DEF KeysInv, FoundFree, TwinsMet, Keys!Twins, Keys!Live, Naming, Other, Renamed, Keys!Renamer
<1> QED BY <1>1, <1>3, <1>4, <1>6 DEF KeysInv, Access

LEMMA Environment ==
  ASSUME Keys!AccessKeysAssumption, KeysInv,
         \/ \E u \in Founders, r \in Keys!Role : Keys!SetRole(u, r)
         \/ Keys!SetBlocked
         \/ \E k \in ApiKeys : Keys!Expire(k)
  PROVE  KeysInv'
<1>0. Keys!TypeOK /\ Seen
  BY DEF KeysInv, Access
<1>1. CASE \E u \in Founders, r \in Keys!Role : Keys!SetRole(u, r)
  <2>1. PICK u \in Founders, r \in Keys!Role : Keys!SetRole(u, r)
    BY <1>1
  <2>2. Keys!TypeOK'
    <3>1. past' \in [Requests -> PastRecord]
      <4> DEFINE b(c) == \/ past[c].could
                         \/ Keys!Running(c) /\ call[c].user = u /\ Keys!Rank[r] >= Keys!Rank[Keys!Needs[call[c].op]]
      <4>1. past' = [c \in Requests |-> [past[c] EXCEPT !.could = b(c)]]
        BY <2>1 DEF Keys!SetRole
      <4>2. \A c \in Requests : b(c) \in BOOLEAN
        BY <1>0, PastUpdates DEF Keys!Running
      <4> HIDE DEF b
      <4>3. \A c \in Requests : [past[c] EXCEPT !.could = b(c)] \in PastRecord
        BY <4>2, <1>0, PastUpdates
      <4> QED BY <4>1, <4>3
    <3>2. role' \in [Founders -> Keys!Role] /\ changes' \in Nat
      BY <2>1, <1>0 DEF Keys!SetRole, Keys!Change, Keys!TypeOK
    <3>3. UNCHANGED <<workspace, project, key, blocked, call>>
      BY <2>1 DEF Keys!SetRole, Keys!store
    <3> QED BY <3>1, <3>2, <3>3, <1>0 DEF Keys!TypeOK, PastRecord
  <2>3. \A c \in Requests :
          /\ past'[c].met = past[c].met /\ past'[c].dead = past[c].dead
          /\ past'[c].flags = past[c].flags
          /\ past'[c].could = (past[c].could \/
               (Keys!Running(c) /\ call[c].user = u /\ Keys!Rank[r] >= Keys!Rank[Keys!Needs[call[c].op]]))
    BY <2>1, <1>0 DEF Keys!SetRole, Keys!TypeOK
  <2>4. \A c \in Requests : Keys!Running(c) /\ Keys!May(call[c].user, call[c].op)' => past'[c].could
    BY <2>1, <2>3, <1>0 DEF Keys!SetRole, Seen, Keys!May, Keys!TypeOK
  <2>5. UNCHANGED <<call, project, key, blocked>>
    BY <2>1 DEF Keys!SetRole, Keys!store
  <2>6. \A c \in Requests : Keys!Running(c) => blocked' \in past'[c].flags
    BY <2>3, <2>5, <1>0 DEF Seen
  <2> QED BY <2>2, <2>3, <2>4, <2>5, <2>6, Elsewhere
<1>2. CASE Keys!SetBlocked
  <2>1. /\ UNCHANGED <<workspace, project, key, role, call>> /\ blocked' = ~blocked
        /\ changes' = changes + 1
        /\ past' = [c \in Requests |->
             IF Keys!Running(c) THEN [past[c] EXCEPT !.flags = @ \cup {~blocked}] ELSE past[c]]
    BY <1>2 DEF Keys!SetBlocked, Keys!Change, Keys!store
  <2>2. past' \in [Requests -> PastRecord]
    <3>1. \A c \in Requests : past[c].flags \cup {~blocked} \in SUBSET BOOLEAN
      BY <1>0, PastUpdates
    <3>2. \A c \in Requests : /\ past[c] \in PastRecord
                              /\ [past[c] EXCEPT !.flags = @ \cup {~blocked}] \in PastRecord
      BY <3>1, <1>0, PastUpdates
    <3> QED BY <3>2, <2>1
  <2>3. Keys!TypeOK'
    <3>1. blocked' \in BOOLEAN
      BY <2>1
    <3>2. changes' \in Nat
      BY <2>1, <1>0 DEF Keys!TypeOK
    <3> QED BY <3>1, <3>2, <2>1, <2>2, <1>0 DEF Keys!TypeOK, PastRecord
  <2>4. \A c \in Requests :
          /\ past'[c].met = past[c].met /\ past'[c].dead = past[c].dead
          /\ past'[c].could = past[c].could /\ past[c].flags \subseteq past'[c].flags
          /\ Keys!Running(c) => blocked' \in past'[c].flags
    BY <2>1, <1>0 DEF Keys!TypeOK
  <2>5. \A c \in Requests : Keys!Running(c) /\ Keys!May(call[c].user, call[c].op)' => past'[c].could
    BY <2>1, <2>4, <1>0 DEF Seen, Keys!May
  <2> QED BY <2>1, <2>3, <2>4, <2>5, Elsewhere
<1>3. CASE \E k \in ApiKeys : Keys!Expire(k)
  <2>1. PICK k \in ApiKeys : Keys!Expire(k)
    BY <1>3
  <2>2. /\ UNCHANGED <<workspace, project, role, blocked, call, past>>
        /\ changes' = changes + 1 /\ key' = [key EXCEPT ![k].expired = TRUE]
    BY <2>1 DEF Keys!Expire, Keys!Change
  <2>3. /\ key' \in [ApiKeys -> KeyRecord]
        /\ \A j \in ApiKeys : /\ key'[j].st = key[j].st /\ key'[j].project = key[j].project
                              /\ key[j].expired => key'[j].expired
    <3> DEFINE x == [key[k] EXCEPT !.expired = TRUE]
    <3>1. x \in KeyRecord /\ x.st = key[k].st /\ x.project = key[k].project /\ x.expired = TRUE
      <4>1. key[k] \in KeyRecord
        BY <1>0, <2>1 DEF Keys!TypeOK, KeyRecord
      <4> QED BY <4>1, KeyUpdate DEF KeyRecord
    <3>2. key' = [key EXCEPT ![k] = x] /\ key \in [ApiKeys -> KeyRecord]
      BY <2>2, <1>0 DEF Keys!TypeOK, KeyRecord
    <3> HIDE DEF x
    <3> QED BY <3>1, <3>2
  <2>4. Keys!TypeOK'
    BY <2>2, <2>3, <1>0 DEF Keys!TypeOK, KeyRecord
  <2>5. \A c \in Requests : Keys!Running(c) =>
          /\ Keys!May(call[c].user, call[c].op)' => past'[c].could
          /\ blocked' \in past'[c].flags
    BY <2>2, <1>0 DEF Seen, Keys!May
  <2> QED BY <2>2, <2>3, <2>4, <2>5, Elsewhere
<1> QED BY <1>1, <1>2, <1>3

-----------------------------------------------------------------------------
(* The invariant, and what it says.                                        *)

LEMMA InitAccess ==
  ASSUME Keys!AccessKeysAssumption, Keys!Init
  PROVE  KeysInv
<1>1. Keys!TypeOK
  <2>1. /\ workspace \in {"live", "gone"} /\ blocked \in BOOLEAN /\ changes \in Nat
        /\ role \in [Founders -> Keys!Role]
    BY DEF Keys!Init, Keys!Role
  <2>2. project \in [Projects -> ProjectRecord]
    BY Keys!AccessKeysAssumption DEF Keys!Init, ProjectRecord, Keys!AccessKeysAssumption
  <2>3. key \in [ApiKeys -> KeyRecord]
    BY Keys!AccessKeysAssumption DEF Keys!Init, KeyRecord, Keys!AccessKeysAssumption
  <2>4. call \in [Requests -> CallRecord]
    BY Keys!AccessKeysAssumption
       DEF Keys!Init, CallRecord, Keys!AccessKeysAssumption, Keys!Progress, Keys!Op, Keys!Needs
  <2>5. past \in [Requests -> PastRecord]
    <3>1. [dead |-> FALSE, could |-> FALSE, flags |-> {}, met |-> {}] \in PastRecord
      BY DEF PastRecord
    <3> QED BY <3>1 DEF Keys!Init
  <2> QED BY <2>1, <2>2, <2>3, <2>4, <2>5
          DEF Keys!TypeOK, ProjectRecord, KeyRecord, CallRecord, PastRecord
<1>2. \A c \in Requests : ~Keys!Running(c) /\ call[c].st = "new" /\ past[c].met = {}
  BY DEF Keys!Init, Keys!Running
<1>3. Created
  BY Keys!AccessKeysAssumption DEF Keys!Init, Created, Keys!AccessKeysAssumption
<1>4. TwinsMet
  BY DEF Keys!Init, TwinsMet, Keys!Twins, Keys!Live
<1> QED BY <1>1, <1>2, <1>3, <1>4
        DEF KeysInv, Access, Seen, Granted, Met, FoundFree, Naming

LEMMA StutterAccess ==
  ASSUME KeysInv, UNCHANGED Keys!vars
  PROVE  KeysInv'
BY DEF Keys!vars, Keys!store, KeysInv, Access, Keys!TypeOK, Created, Seen, Granted, Met,
       FoundFree, TwinsMet,
       Naming, Other, Renamed, Overlapped, Keys!Renamer, Keys!Twins, Keys!Live, Keys!Usable,
       Keys!May, Keys!Running

LEMMA NextAccess ==
  ASSUME Keys!AccessKeysAssumption, KeysInv, [Keys!Next]_(Keys!vars)
  PROVE  KeysInv'
BY Readers, ProjectWriters, KeyWriters, WorkspaceWriter, Arrivals, Environment,
   StutterAccess DEF Keys!Next, Keys!Handle

-----------------------------------------------------------------------------
(* What is deleted.                                                        *)

LEMMA DeletedStays ==
  ASSUME Keys!AccessKeysAssumption, Keys!TypeOK, Keys!TypeOK', [Keys!Next]_(Keys!vars)
  PROVE  [Keys!StaysDeleted]_(Keys!vars)
<1> SUFFICES ASSUME Keys!Next PROVE Keys!StaysDeleted
  OBVIOUS
<1>1. /\ \A p \in Projects : project'[p].st \in {"unused", "live", "deleted", "gone"}
      /\ \A k \in ApiKeys : key'[k].st \in {"unused", "active", "deleted"}
  BY DEF Keys!TypeOK
<1>2. CASE UNCHANGED <<project, key>>
  BY <1>2, <1>1 DEF Keys!StaysDeleted
<1>3. ASSUME NEW c \in Requests, Keys!CreateProject(c) PROVE Keys!StaysDeleted
  BY <1>3, <1>1 DEF Keys!CreateProject, Keys!StaysDeleted, Keys!TypeOK
<1>4. ASSUME NEW c \in Requests, Keys!RenameProject(c) PROVE Keys!StaysDeleted
  BY <1>4, <1>1 DEF Keys!RenameProject, Keys!StaysDeleted, Keys!TypeOK
<1>5. ASSUME NEW c \in Requests, Keys!DeleteProject(c) PROVE Keys!StaysDeleted
  BY <1>5, <1>1 DEF Keys!DeleteProject, Keys!StaysDeleted, Keys!TypeOK
<1>6. ASSUME NEW c \in Requests, Keys!CreateKey(c) PROVE Keys!StaysDeleted
  BY <1>6, <1>1 DEF Keys!CreateKey, Keys!StaysDeleted, Keys!TypeOK
<1>7. ASSUME NEW c \in Requests, Keys!DeleteKey(c) PROVE Keys!StaysDeleted
  BY <1>7, <1>1 DEF Keys!DeleteKey, Keys!StaysDeleted, Keys!TypeOK
<1>8. ASSUME NEW c \in Requests, Keys!DeleteWorkspace(c) PROVE Keys!StaysDeleted
  BY <1>8, <1>1 DEF Keys!DeleteWorkspace, Keys!StaysDeleted, Keys!TypeOK, Keys!store
<1>9. ASSUME NEW k \in ApiKeys, Keys!Expire(k) PROVE Keys!StaysDeleted
  BY <1>9, <1>1 DEF Keys!Expire, Keys!StaysDeleted, Keys!TypeOK
<1>10. \A c \in Requests :
         Keys!Arrive(c) \/ Keys!FindProject(c) \/ Keys!FindMembership(c) \/ Keys!FindExisting(c)
         \/ Keys!FindDuplicate(c) \/ Keys!LookUpKey(c) \/ Keys!Touch(c) \/ Keys!AuthUnavailable(c) =>
           UNCHANGED <<project, key>>
  BY DEF Keys!Arrive, Keys!FindProject, Keys!FindMembership, Keys!FindExisting,
         Keys!FindDuplicate, Keys!LookUpKey,
         Keys!Touch, Keys!AuthUnavailable, Keys!Reads, Keys!store
<1>11. (\E u \in Founders, r \in Keys!Role : Keys!SetRole(u, r)) \/ Keys!SetBlocked =>
           UNCHANGED <<project, key>>
  BY DEF Keys!SetRole, Keys!SetBlocked, Keys!store
<1> QED BY <1>2, <1>3, <1>4, <1>5, <1>6, <1>7, <1>8, <1>9, <1>10, <1>11 DEF Keys!Next, Keys!Handle

-----------------------------------------------------------------------------
(* Then the plan.  While nothing raced one subscription is active at a     *)
(* time, the event of the latest change says what Stripe has now, that     *)
(* event is still under way or applied, and nothing older is written after *)
(* it.                                                                     *)
SubRecord == [st : {"none", "active", "ended"}, plan : Plans!Plan,
              customer : Requests \cup {None}, next : Plans!Plan \cup {None}, cancel : BOOLEAN]
EventRecord == [kind : {"updated", "deleted"}, sub : StripeSubs, plan : Plans!Paid, customer : Requests,
                n : 1 .. StripeMoves, fetched : BOOLEAN, late : BOOLEAN]
ReqRecord(m) == [st : Plans!Progress, plan : Plans!Plan, from : Plans!Plan, sub : StripeSubs \cup {None},
                 customer : Requests \cup {None}, cancel : BOOLEAN, schedule : BOOLEAN,
                 n : 0 .. m]

(* Where a request is says what it has read.                               *)
OnSub == {"retrieve", "uncancel", "release", "cancel", "upgrade", "save", "schedule", "phases"}
Sound(x) ==
  /\ x.st \in OnSub => x.sub \in StripeSubs
  /\ x.st \in {"customer", "session", "upgrade"} => x.plan \in Plans!Paid
  /\ x.st = "session" => x.customer \in Requests

Shape ==
  /\ \A s \in StripeSubs : sub[s].st # "none" => sub[s].plan \in Plans!Paid /\ sub[s].customer \in Requests
  /\ \A e \in events : e.n <= stripe /\ sub[e.sub].st # "none"
  /\ \A r \in Requests : Sound(req[r])

(* An event that says what Stripe has now.                                 *)
Describes(e) ==
  IF e.kind = "updated"
  THEN Plans!Active(e.sub) /\ e.plan = sub[e.sub].plan /\ e.customer = sub[e.sub].customer
  ELSE \A s \in StripeSubs : ~Plans!Active(s)

One == \A s, t \in StripeSubs : Plans!Active(s) /\ Plans!Active(t) => s = t

(* An upgrade that is the latest change is the plan of the subscription.   *)
Upgraded(r) == \E s \in StripeSubs : Plans!Active(s) /\ sub[s].plan = req[r].plan

Follows == ~raced =>
  /\ One
  /\ \A e \in events : e.n = stripe => Describes(e)
  /\ applied = stripe \/ \E e \in events : e.n = stripe
  /\ applied = stripe => Plans!Agrees
  /\ \A r \in Requests : Plans!At(r, "save") /\ req[r].n = stripe => Upgraded(r)

PlanInv == Plans!TypeOK /\ Shape /\ Follows

-----------------------------------------------------------------------------
(* Records.                                                                *)

LEMMA ReqEffect ==
  ASSUME Plans!TypeOK, NEW r \in Requests, NEW m \in Nat, stripe \in Nat, stripe <= m,
         NEW x \in ReqRecord(m),
         req' = [req EXCEPT ![r] = x]
  PROVE  /\ req' \in [Requests -> ReqRecord(m)] /\ req'[r] = x
         /\ \A q \in Requests \ {r} : req'[q] = req[q]
<1>1. 0 .. stripe \subseteq 0 .. m
  OBVIOUS
<1>2. \A q \in Requests : req[q] \in ReqRecord(m)
  BY <1>1 DEF Plans!TypeOK, ReqRecord
<1>3. req \in [Requests -> ReqRecord(m)]
  BY <1>2 DEF Plans!TypeOK
<1> QED BY <1>3

LEMMA PlanGoEffect ==
  ASSUME Plans!TypeOK, NEW r \in Requests, NEW st \in Plans!Progress, Plans!Go(r, st),
         stripe \in Nat
  PROVE  \E x \in ReqRecord(stripe) :
           /\ req' = [req EXCEPT ![r] = x] /\ x.st = st
           /\ x.plan = req[r].plan /\ x.sub = req[r].sub /\ x.customer = req[r].customer
           /\ x.n = req[r].n
<1> DEFINE x == [req[r] EXCEPT !.st = st]
<1>1. /\ x \in ReqRecord(stripe) /\ x.st = st
      /\ x.plan = req[r].plan /\ x.sub = req[r].sub /\ x.customer = req[r].customer
      /\ x.n = req[r].n
  BY DEF Plans!TypeOK, ReqRecord
<1>2. req' = [req EXCEPT ![r] = x]
  BY DEF Plans!Go
<1> HIDE DEF x
<1> QED BY <1>1, <1>2

LEMMA Numbers ==
  ASSUME Plans!SubscriptionAssumption, Plans!TypeOK
  PROVE  /\ StripeMoves \in Nat /\ stripe \in Nat /\ applied \in Nat
         /\ stripe <= StripeMoves /\ applied <= stripe
BY DEF Plans!SubscriptionAssumption, Plans!TypeOK

-----------------------------------------------------------------------------
(* Steps that leave Stripe, the events and the workspace as they are.      *)

Same(s) == /\ sub'[s].st = sub[s].st /\ sub'[s].plan = sub[s].plan
           /\ sub'[s].customer = sub[s].customer

LEMMA QuietStep ==
  ASSUME Plans!SubscriptionAssumption, PlanInv, UNCHANGED <<ws, events, stripe, applied, raced>>,
         sub' \in [StripeSubs -> SubRecord], \A s \in StripeSubs : Same(s),
         faults' \in 0 .. MaxFaults,
         NEW r \in Requests, NEW x \in ReqRecord(stripe), req' = [req EXCEPT ![r] = x],
         Sound(x), x.st # "save"
  PROVE  PlanInv'
<1>1. stripe \in Nat /\ stripe <= stripe /\ Plans!TypeOK
  BY Numbers DEF PlanInv
<1>2. /\ req' \in [Requests -> ReqRecord(stripe)] /\ req'[r] = x
      /\ \A q \in Requests \ {r} : req'[q] = req[q]
  BY <1>1, ReqEffect
<1>3. Plans!TypeOK'
  BY <1>1, <1>2 DEF Plans!TypeOK, SubRecord, ReqRecord
<1>4. Shape'
  BY <1>1, <1>2 DEF PlanInv, Shape, Same, Plans!TypeOK
<1>5. \A s \in StripeSubs : Plans!Active(s)' <=> Plans!Active(s)
  BY DEF Same, Plans!Active
<1>6. \A e \in events : Describes(e) => Describes(e)'
  BY <1>1 DEF Describes, Same, Plans!Active, Plans!TypeOK
<1>7. Plans!Agrees => Plans!Agrees'
  BY DEF Plans!Agrees, Same, Plans!Active
<1>8. \A q \in Requests : Plans!At(q, "save")' => req'[q] = req[q]
  BY <1>2 DEF Plans!At
<1>9. Follows'
  <2> SUFFICES ASSUME ~raced'
               PROVE  /\ One'
                      /\ (\A e \in events : e.n = stripe => Describes(e))'
                      /\ (applied = stripe \/ \E e \in events : e.n = stripe)'
                      /\ (applied = stripe => Plans!Agrees)'
                      /\ (\A q \in Requests : Plans!At(q, "save") /\ req[q].n = stripe => Upgraded(q))'
    BY DEF Follows
  <2>0. Follows /\ ~raced
    BY DEF PlanInv
  <2>1. One'
    BY <1>5, <2>0 DEF Follows, One
  <2>2. (\A e \in events : e.n = stripe => Describes(e))'
    BY <2>0, <1>6 DEF Follows
  <2>3. (applied = stripe \/ \E e \in events : e.n = stripe)'
    BY <2>0 DEF Follows
  <2>4. (applied = stripe => Plans!Agrees)'
    BY <2>0, <1>7 DEF Follows
  <2>5. (\A q \in Requests : Plans!At(q, "save") /\ req[q].n = stripe => Upgraded(q))'
    <3>1. \A q \in Requests : Plans!At(q, "save") /\ req[q].n = stripe => Upgraded(q)
      BY <2>0 DEF Follows
    <3>2. \A q \in Requests : Plans!At(q, "save")' /\ req'[q].n = stripe' => Upgraded(q)'
      <4> TAKE q \in Requests
      <4> HAVE Plans!At(q, "save")' /\ req'[q].n = stripe'
      <4>1. Plans!At(q, "save") /\ req[q].n = stripe
        BY <1>8 DEF Plans!At
      <4>2. \E t \in StripeSubs : Plans!Active(t) /\ sub[t].plan = req[q].plan
        BY <4>1, <3>1 DEF Upgraded
      <4>3. req'[q].plan = req[q].plan
        BY <1>8
      <4>4. \E t \in StripeSubs : Plans!Active(t)' /\ sub'[t].plan = req'[q].plan
        BY <4>2, <4>3, <1>5 DEF Same
      <4> QED BY <4>4 DEF Upgraded
    <3> QED BY <3>2
  <2> QED BY <2>1, <2>2, <2>3, <2>4, <2>5
<1> QED BY <1>3, <1>4, <1>9 DEF PlanInv

-----------------------------------------------------------------------------
(* A change at Stripe.                                                     *)

LEMMA Change ==
  ASSUME Plans!SubscriptionAssumption, PlanInv, NEW s \in StripeSubs, NEW v \in SubRecord, NEW kind,
         Plans!Changed(s, v, kind), v.plan \in Plans!Paid, v.customer \in Requests,
         \/ kind = "updated" /\ v.st = "active"
         \/ kind = "deleted" /\ v.st = "ended",
         UNCHANGED <<ws, faults, applied>>, raced' \in BOOLEAN,
         ~raced' => ~raced /\ (Plans!Active(s) \/ \A t \in StripeSubs : ~Plans!Active(t)),
         req' \in [Requests -> ReqRecord(stripe + 1)], \A r \in Requests : Sound(req'[r]),
         \A r \in Requests : Plans!At(r, "save")' => \/ req'[r].n <= stripe
                                                     \/ v.st = "active" /\ req'[r].plan = v.plan
  PROVE  PlanInv'
<1>1. /\ StripeMoves \in Nat /\ stripe \in Nat /\ applied \in Nat /\ applied <= stripe
      /\ stripe < StripeMoves /\ stripe' = stripe + 1 /\ Plans!TypeOK
  BY Numbers DEF PlanInv, Plans!Changed
<1>2. sub' \in [StripeSubs -> SubRecord] /\ sub'[s] = v
      /\ \A t \in StripeSubs \ {s} : sub'[t] = sub[t]
  <2>1. sub \in [StripeSubs -> SubRecord] /\ sub' = [sub EXCEPT ![s] = v]
    BY <1>1 DEF Plans!TypeOK, SubRecord, Plans!Changed
  <2> QED BY <2>1
<1>3. PICK new \in EventRecord :
        /\ events' = events \cup {new} /\ new.n = stripe + 1 /\ new.sub = s
        /\ new.plan = v.plan /\ new.customer = v.customer /\ new.kind = kind
  <2> DEFINE e == [kind |-> kind, sub |-> s, plan |-> v.plan, customer |-> v.customer,
                   n |-> stripe + 1, fetched |-> FALSE, late |-> FALSE]
  <2>1. e \in EventRecord
    BY <1>1 DEF EventRecord, Plans!Plan
  <2>2. events' = events \cup {e} /\ e.n = stripe + 1 /\ e.sub = s
        /\ e.plan = v.plan /\ e.customer = v.customer /\ e.kind = kind
    BY DEF Plans!Changed
  <2> HIDE DEF e
  <2> QED BY <2>1, <2>2
<1>4. new.n = stripe'
  BY <1>1, <1>3
<1>5. Plans!TypeOK'
  <2>1. events' \subseteq EventRecord
    BY <1>1, <1>3, <1>4 DEF Plans!TypeOK, EventRecord
  <2>2. stripe' \in 0 .. StripeMoves /\ applied' \in 0 .. stripe'
    BY <1>1
  <2>3. req' \in [Requests -> ReqRecord(stripe')]
    BY <1>1
  <2> QED BY <1>1, <1>2, <2>1, <2>2, <2>3 DEF Plans!TypeOK, SubRecord, EventRecord, ReqRecord
<1>6. \A e \in events : e.n \in Nat /\ e.n <= stripe /\ e.sub \in StripeSubs
  BY <1>1 DEF PlanInv, Shape, Plans!TypeOK
<1>7. Shape'
  <2>1. \A e \in events' : e.n <= stripe' /\ sub'[e.sub].st # "none"
    BY <1>1, <1>2, <1>3, <1>4, <1>6 DEF PlanInv, Shape
  <2>2. \A t \in StripeSubs : sub'[t].st # "none" =>
            sub'[t].plan \in Plans!Paid /\ sub'[t].customer \in Requests
    BY <1>2 DEF PlanInv, Shape
  <2> QED BY <2>1, <2>2 DEF Shape
<1>8. /\ Plans!Active(s)' <=> kind = "updated"
      /\ \A t \in StripeSubs \ {s} : Plans!Active(t)' <=> Plans!Active(t)
  BY <1>2 DEF Plans!Active
<1>9. Follows'
  <2> SUFFICES ASSUME ~raced'
               PROVE
        /\ One'
        /\ (\A e \in events : e.n = stripe => Describes(e))'
        /\ (applied = stripe \/ \E e \in events : e.n = stripe)'
        /\ (applied = stripe => Plans!Agrees)'
        /\ (\A r \in Requests : Plans!At(r, "save") /\ req[r].n = stripe => Upgraded(r))'
    BY DEF Follows
  <2>1. \A t \in StripeSubs \ {s} : ~Plans!Active(t)
    BY DEF PlanInv, Follows, One
  <2>2. One'
    BY <1>8, <2>1 DEF One
  <2>3. Describes(new)'
    <3>1. CASE kind = "updated"
      <4>1. Plans!Active(s)' /\ v.plan = sub'[s].plan /\ v.customer = sub'[s].customer
        BY <3>1, <1>2, <1>8
      <4> QED BY <3>1, <4>1, <1>3, <1>4 DEF Describes, Plans!Active
    <3>2. CASE kind = "deleted"
      <4>1. \A t \in StripeSubs : ~Plans!Active(t)'
        BY <3>2, <1>8, <2>1
      <4> QED BY <3>2, <4>1, <1>3, <1>4 DEF Describes, Plans!Active
    <3> QED BY <3>1, <3>2
  <2>4. \A e \in events' : e.n = stripe' => e = new
    BY <1>1, <1>3, <1>4, <1>6
  <2>5. (\A e \in events : e.n = stripe => Describes(e))'
    BY <2>3, <2>4
  <2>6. applied' # stripe'
    BY <1>1
  <2>7. \E e \in events' : e.n = stripe'
    BY <1>3, <1>4
  <2>8. \A r \in Requests : Plans!At(r, "save")' /\ req'[r].n = stripe' => Upgraded(r)'
    <3> TAKE r \in Requests
    <3> HAVE Plans!At(r, "save")' /\ req'[r].n = stripe'
    <3>1. v.st = "active" /\ req'[r].plan = v.plan
      BY <1>1
    <3>2. Plans!Active(s)' /\ sub'[s].plan = req'[r].plan
      BY <3>1, <1>2 DEF Plans!Active
    <3> QED BY <3>2 DEF Upgraded
  <2> QED BY <2>2, <2>5, <2>6, <2>7, <2>8
<1> QED BY <1>5, <1>7, <1>9 DEF PlanInv

-----------------------------------------------------------------------------
(* The steps of the routes that change nothing at Stripe but a schedule.   *)

LEMMA NextEffect ==
  ASSUME Plans!TypeOK, NEW s \in StripeSubs, NEW p \in Plans!Plan \cup {None},
         sub' = [sub EXCEPT ![s].next = p]
  PROVE  sub' \in [StripeSubs -> SubRecord] /\ \A t \in StripeSubs : Same(t)
<1> DEFINE v == [sub[s] EXCEPT !.next = p]
<1>1. v \in SubRecord /\ v.st = sub[s].st /\ v.plan = sub[s].plan
      /\ v.customer = sub[s].customer
  BY DEF Plans!TypeOK, SubRecord
<1>2. sub' = [sub EXCEPT ![s] = v] /\ sub \in [StripeSubs -> SubRecord]
  BY DEF Plans!TypeOK, SubRecord
<1> HIDE DEF v
<1> QED BY <1>1, <1>2 DEF Same

LEMMA SameNow == ASSUME Plans!TypeOK, UNCHANGED sub
                 PROVE  sub' \in [StripeSubs -> SubRecord] /\ \A t \in StripeSubs : Same(t)
BY DEF Plans!TypeOK, SubRecord, Same

(* A request as it reads, and what it reads of the subscription.           *)

LEMMA Fresh ==
  ASSUME NEW m \in Nat, NEW st \in Plans!Progress, NEW p \in Plans!Plan, NEW f \in Plans!Plan,
         NEW s \in StripeSubs \cup {None}, NEW c \in Requests \cup {None}
  PROVE  [Plans!NoReq EXCEPT !.plan = p, !.from = f, !.sub = s, !.customer = c, !.st = st]
           \in ReqRecord(m)
<1>1. \A q \in ReqRecord(m) :
        [q EXCEPT !.plan = p, !.from = f, !.sub = s, !.customer = c, !.st = st] \in ReqRecord(m)
  BY DEF ReqRecord
<1>2. 0 \in 0 .. m /\ "new" \in Plans!Progress /\ Plans!Free \in Plans!Plan
  BY DEF Plans!Progress, Plans!Free, Plans!Plan
<1>3. Plans!NoReq \in ReqRecord(m)
  BY <1>2 DEF ReqRecord, Plans!NoReq
<1> QED BY <1>1, <1>3

LEMMA Fetched ==
  ASSUME NEW m \in Nat, NEW q \in ReqRecord(m), NEW b \in BOOLEAN, NEW c \in BOOLEAN,
         NEW st \in Plans!Progress
  PROVE  [q EXCEPT !.cancel = b, !.schedule = c, !.st = st] \in ReqRecord(m)
BY DEF ReqRecord

LEMMA ReadKeeps ==
  ASSUME Plans!SubscriptionAssumption, PlanInv, NEW r \in Requests, Plans!Read(r)
  PROVE  PlanInv'
<1>0. Plans!TypeOK /\ stripe \in Nat
  BY Numbers DEF PlanInv
<1>1. PICK p \in Plans!Plan : \E st \in {Plans!CheckoutStep(p), Plans!ChangeStep(p)} :
         req' = [req EXCEPT ![r] =
           [Plans!NoReq EXCEPT !.plan = p, !.from = ws.plan, !.sub = ws.sub,
              !.customer = ws.customer, !.st = st]]
  BY DEF Plans!Read
<1>a. PICK st \in {Plans!CheckoutStep(p), Plans!ChangeStep(p)} :
         req' = [req EXCEPT ![r] =
           [Plans!NoReq EXCEPT !.plan = p, !.from = ws.plan, !.sub = ws.sub,
              !.customer = ws.customer, !.st = st]]
  BY <1>1
<1> DEFINE x == [Plans!NoReq EXCEPT !.plan = p, !.from = ws.plan, !.sub = ws.sub,
                    !.customer = ws.customer, !.st = st]
<1>2. /\ st \in {"done", "retrieve", "customer", "session"}
      /\ st = "retrieve" => ws.sub # None
      /\ st \in {"customer", "session"} => p # Plans!Free
      /\ st = "session" => ws.customer # None
  BY DEF Plans!CheckoutStep, Plans!ChangeStep
<1>3. ws.plan \in Plans!Plan /\ ws.sub \in StripeSubs \cup {None}
      /\ ws.customer \in Requests \cup {None}
  BY <1>0 DEF Plans!TypeOK
<1>4. st \in Plans!Progress
  BY <1>2 DEF Plans!Progress
<1>5. x \in ReqRecord(stripe)
  BY <1>0, <1>3, <1>4, Fresh
<1>6. x.st = st /\ x.plan = p /\ x.sub = ws.sub /\ x.customer = ws.customer
  BY DEF Plans!NoReq
<1>7. req' = [req EXCEPT ![r] = x]
  BY <1>a
<1> HIDE DEF x
<1>8. Sound(x) /\ x.st # "save"
  BY <1>2, <1>3, <1>6 DEF Sound, OnSub, Plans!Plan, Plans!Paid, Plans!Free
<1>9. faults' \in 0 .. MaxFaults /\ UNCHANGED <<ws, sub, events, stripe, applied, raced>>
  BY <1>0 DEF Plans!Read, Plans!Quiet, Plans!TypeOK
<1> QED BY <1>0, <1>5, <1>7, <1>8, <1>9, SameNow, QuietStep

LEMMA RetrieveKeeps ==
  ASSUME Plans!SubscriptionAssumption, PlanInv, NEW r \in Requests, Plans!Retrieve(r)
  PROVE  PlanInv'
<1>0. Plans!TypeOK /\ stripe \in Nat
  BY Numbers DEF PlanInv
<1> DEFINE s == req[r].sub
           x == [req[r] EXCEPT !.cancel = sub[s].cancel, !.schedule = (sub[s].next # None),
                         !.st = IF req[r].plan # Plans!Free /\ sub[s].cancel THEN "uncancel" ELSE "release"]
<1>1. s \in StripeSubs
  BY DEF PlanInv, Shape, Sound, OnSub, Plans!Retrieve, Plans!At
<1>2. x \in ReqRecord(stripe)
  <2>1. req[r] \in ReqRecord(stripe)
    BY <1>0 DEF Plans!TypeOK, ReqRecord
  <2>2. sub[s].cancel \in BOOLEAN /\ (sub[s].next # None) \in BOOLEAN
    BY <1>0, <1>1 DEF Plans!TypeOK
  <2>3. "uncancel" \in Plans!Progress /\ "release" \in Plans!Progress
    BY DEF Plans!Progress
  <2> QED BY <1>0, <2>1, <2>2, <2>3, Fetched
<1>3. x.sub = req[r].sub /\ x.st \in {"uncancel", "release"}
  BY <1>0 DEF Plans!TypeOK
<1>4. req' = [req EXCEPT ![r] = x]
  BY <1>0 DEF Plans!Retrieve, Plans!TypeOK
<1> HIDE DEF x
<1>5. Sound(x) /\ x.st # "save"
  BY <1>1, <1>3 DEF Sound
<1>6. faults' \in 0 .. MaxFaults /\ UNCHANGED <<ws, sub, events, stripe, applied, raced>>
  BY <1>0 DEF Plans!Retrieve, Plans!Quiet, Plans!TypeOK
<1> QED BY <1>0, <1>2, <1>4, <1>5, <1>6, SameNow, QuietStep

(* A step that only moves the request and, perhaps, the schedule.          *)
LEMMA MoveKeeps ==
  ASSUME Plans!SubscriptionAssumption, PlanInv, NEW r \in Requests, NEW st \in Plans!Progress,
         Plans!Go(r, st),
         UNCHANGED <<ws, events, stripe, applied, raced>>, faults' \in 0 .. MaxFaults,
         sub' \in [StripeSubs -> SubRecord], \A s \in StripeSubs : Same(s),
         st \notin {"save", "customer", "session"},
         st \in OnSub => req[r].sub \in StripeSubs, st = "upgrade" => req[r].plan \in Plans!Paid
  PROVE  PlanInv'
<1>0. Plans!TypeOK /\ stripe \in Nat
  BY Numbers DEF PlanInv
<1>1. PICK x \in ReqRecord(stripe) :
           /\ req' = [req EXCEPT ![r] = x] /\ x.st = st
           /\ x.plan = req[r].plan /\ x.sub = req[r].sub
  BY <1>0, PlanGoEffect
<1>2. Sound(x) /\ x.st # "save"
  BY <1>1 DEF Sound
<1> QED BY <1>1, <1>2, QuietStep

LEMMA ScheduleKeeps ==
  ASSUME Plans!SubscriptionAssumption, PlanInv, NEW r \in Requests,
         Plans!Release(r) \/ Plans!CreateSchedule(r) \/ Plans!SetPhases(r) \/ Plans!Fail(r)
  PROVE  PlanInv'
<1>0. Plans!TypeOK /\ MaxFaults \in Nat /\ faults \in 0 .. MaxFaults /\ req[r].plan \in Plans!Plan
  BY DEF PlanInv, Plans!TypeOK, Plans!SubscriptionAssumption
<1>9. Plans!Free \in Plans!Plan
  BY DEF Plans!Free, Plans!Plan
<1>1. CASE Plans!Release(r)
  <2>1. req[r].sub \in StripeSubs
    BY <1>1 DEF PlanInv, Shape, Sound, OnSub, Plans!Release, Plans!At
  <2>2. sub' \in [StripeSubs -> SubRecord] /\ \A t \in StripeSubs : Same(t)
    BY <1>0, <1>1, <2>1, NextEffect, SameNow DEF Plans!Release
  <2>3. /\ Plans!Target(r) \in Plans!Progress
        /\ Plans!Target(r) \notin {"save", "customer", "session"}
        /\ Plans!Target(r) = "upgrade" => req[r].plan \in Plans!Paid
    BY <1>0 DEF Plans!Target, Plans!Progress, Plans!Plan, Plans!Paid, Plans!Free
  <2>4. Plans!Go(r, Plans!Target(r)) /\ UNCHANGED <<ws, events, stripe, faults, applied, raced>>
    BY <1>1 DEF Plans!Release
  <2> QED BY <1>0, <2>1, <2>2, <2>3, <2>4, MoveKeeps
<1>2. CASE Plans!CreateSchedule(r)
  <2>1. req[r].sub \in StripeSubs
    BY <1>2 DEF PlanInv, Shape, Sound, OnSub, Plans!CreateSchedule, Plans!At
  <2>2. sub' \in [StripeSubs -> SubRecord] /\ \A t \in StripeSubs : Same(t)
    BY <1>0, <1>2, <2>1, <1>9, NextEffect DEF Plans!CreateSchedule
  <2>3. Plans!Go(r, "phases") /\ UNCHANGED <<ws, events, stripe, faults, applied, raced>>
    BY <1>2 DEF Plans!CreateSchedule
  <2> QED BY <1>0, <2>1, <2>2, <2>3, MoveKeeps DEF Plans!Progress
<1>3. CASE Plans!SetPhases(r)
  <2>1. req[r].sub \in StripeSubs
    BY <1>3 DEF PlanInv, Shape, Sound, OnSub, Plans!SetPhases, Plans!At
  <2>2. sub' \in [StripeSubs -> SubRecord] /\ \A t \in StripeSubs : Same(t)
    BY <1>0, <1>3, <2>1, NextEffect DEF Plans!SetPhases
  <2>3. Plans!Go(r, "done") /\ UNCHANGED <<ws, events, stripe, faults, applied, raced>>
    BY <1>3 DEF Plans!SetPhases
  <2> QED BY <1>0, <2>1, <2>2, <2>3, MoveKeeps DEF Plans!Progress
<1>4. CASE Plans!Fail(r)
  <2>1. Plans!Go(r, "failed") /\ UNCHANGED <<ws, sub, events, stripe, applied, raced>>
    BY <1>4 DEF Plans!Fail
  <2>2. faults' \in 0 .. MaxFaults
    BY <1>0, <1>4 DEF Plans!Fail
  <2> QED BY <1>0, <2>1, <2>2, SameNow, MoveKeeps DEF Plans!Progress, OnSub
<1> QED BY <1>1, <1>2, <1>3, <1>4

-----------------------------------------------------------------------------
(* The steps that change a subscription.                                   *)

LEMMA Active1 ==
  ASSUME PlanInv, NEW s \in StripeSubs, Plans!Active(s)
  PROVE  sub[s] \in SubRecord /\ sub[s].plan \in Plans!Paid /\ sub[s].customer \in Requests
         /\ sub[s].st = "active"
BY DEF PlanInv, Plans!TypeOK, Shape, Plans!Active, SubRecord

LEMMA Moved ==
  ASSUME NEW o \in SubRecord, NEW p \in Plans!Plan
  PROVE  [o EXCEPT !.plan = p, !.next = None] \in SubRecord
BY DEF SubRecord

LEMMA FirstValue ==
  ASSUME NEW p \in Plans!Plan, NEW c \in Requests
  PROVE  LET v == [Plans!NoSub EXCEPT !.st = "active", !.plan = p, !.customer = c]
         IN  v \in SubRecord /\ v.st = "active" /\ v.plan = p /\ v.customer = c
<1>1. \A o \in SubRecord :
        LET v == [o EXCEPT !.st = "active", !.plan = p, !.customer = c]
        IN  v \in SubRecord /\ v.st = "active" /\ v.plan = p /\ v.customer = c
  BY DEF SubRecord
<1>2. Plans!Free \in Plans!Plan
  BY DEF Plans!Free, Plans!Plan
<1>3. Plans!NoSub \in SubRecord
  BY <1>2 DEF SubRecord, Plans!NoSub
<1> QED BY <1>1, <1>3

(* By itself or in the portal.                                             *)
LEMMA StripeKeeps ==
  ASSUME Plans!SubscriptionAssumption, PlanInv, NEW s \in StripeSubs, NEW v \in SubRecord, NEW kind,
         Plans!Active(s), Plans!Changed(s, v, kind), v.plan \in Plans!Paid, v.customer \in Requests,
         \/ kind = "updated" /\ v.st = "active"
         \/ kind = "deleted" /\ v.st = "ended",
         UNCHANGED <<ws, req, faults, applied, raced>>
  PROVE  PlanInv'
<1>1. Plans!TypeOK /\ stripe \in Nat
  BY Numbers DEF PlanInv
<1>2. \A q \in Requests : req[q] \in ReqRecord(stripe + 1) /\ req[q].n <= stripe
  BY <1>1 DEF Plans!TypeOK, ReqRecord
<1>3. req' \in [Requests -> ReqRecord(stripe + 1)]
  BY <1>1, <1>2 DEF Plans!TypeOK
<1>4. \A q \in Requests : Sound(req'[q]) /\ req'[q].n <= stripe
  BY <1>2 DEF PlanInv, Shape
<1>5. raced' \in BOOLEAN /\ (~raced' => ~raced)
  BY <1>1 DEF Plans!TypeOK
<1> QED BY <1>3, <1>4, <1>5, Change

(* By a request.                                                           *)
LEMMA Billed ==
  ASSUME Plans!SubscriptionAssumption, PlanInv, NEW s \in StripeSubs, NEW v \in SubRecord,
         Plans!Changed(s, v, "updated"), v.plan \in Plans!Paid, v.customer \in Requests,
         v.st = "active",
         UNCHANGED <<ws, faults, applied>>, raced' \in BOOLEAN,
         ~raced' => ~raced /\ (Plans!Active(s) \/ \A t \in StripeSubs : ~Plans!Active(t)),
         NEW r \in Requests, NEW x \in ReqRecord(stripe + 1), req' = [req EXCEPT ![r] = x],
         Sound(x), x.st = "save" => x.plan = v.plan
  PROVE  PlanInv'
<1>1. Plans!TypeOK /\ stripe \in Nat /\ stripe <= stripe + 1 /\ stripe + 1 \in Nat
  BY Numbers DEF PlanInv
<1>2. /\ req' \in [Requests -> ReqRecord(stripe + 1)] /\ req'[r] = x
      /\ \A q \in Requests \ {r} : req'[q] = req[q]
  BY <1>1, ReqEffect
<1>3. \A q \in Requests : Sound(req'[q])
  BY <1>2 DEF PlanInv, Shape
<1>4. \A q \in Requests \ {r} : req'[q].n <= stripe
  BY <1>1, <1>2 DEF Plans!TypeOK
<1>5. \A q \in Requests : Plans!At(q, "save")' => \/ req'[q].n <= stripe
                                                  \/ v.st = "active" /\ req'[q].plan = v.plan
  <2> TAKE q \in Requests
  <2>1. CASE q = r
    BY <2>1, <1>2 DEF Plans!At
  <2>2. CASE q # r
    BY <2>2, <1>4
  <2> QED BY <2>1, <2>2
<1> QED BY <1>2, <1>3, <1>5, Change

LEMMA Room ==
  ASSUME Plans!TypeOK, stripe \in Nat, NEW q \in ReqRecord(stripe), NEW st \in Plans!Progress
  PROVE  /\ q \in ReqRecord(stripe + 1)
         /\ [q EXCEPT !.st = st, !.n = stripe + 1] \in ReqRecord(stripe + 1)
<1>1. 0 .. stripe \subseteq 0 .. stripe + 1 /\ stripe + 1 \in 0 .. stripe + 1
  OBVIOUS
<1>2. \A n \in 0 .. stripe + 1 : [q EXCEPT !.st = st, !.n = n] \in ReqRecord(stripe + 1)
  BY <1>1 DEF ReqRecord
<1>3. q \in ReqRecord(stripe + 1)
  BY <1>1 DEF ReqRecord
<1> QED BY <1>1, <1>2, <1>3

LEMMA RequestKeeps ==
  ASSUME Plans!SubscriptionAssumption, PlanInv, NEW r \in Requests,
         \/ Plans!Uncancel(r) \/ Plans!CancelAtPeriodEnd(r) \/ Plans!Upgrade(r)
         \/ \E s \in StripeSubs : Plans!Pay(r, s)
  PROVE  PlanInv'
<1>0. Plans!TypeOK /\ stripe \in Nat /\ raced \in BOOLEAN
      /\ (\A p \in Plans!Paid : p \in Plans!Plan)
  BY Numbers DEF PlanInv, Plans!TypeOK, Plans!Paid, Plans!Plan
<1>1. CASE Plans!Uncancel(r) \/ Plans!CancelAtPeriodEnd(r)
  <2>1. req[r].sub \in StripeSubs
    BY <1>1 DEF PlanInv, Shape, Sound, OnSub, Plans!Uncancel, Plans!CancelAtPeriodEnd, Plans!At
  <2>2. PICK b \in BOOLEAN, st \in {"release", "done"} :
           /\ Plans!Active(req[r].sub)
           /\ Plans!Changed(req[r].sub, [sub[req[r].sub] EXCEPT !.cancel = b], "updated")
           /\ Plans!Go(r, st) /\ UNCHANGED <<ws, faults, applied, raced>>
    BY <1>1 DEF Plans!Uncancel, Plans!CancelAtPeriodEnd
  <2>3. PICK s \in StripeSubs : s = req[r].sub
    BY <2>1
  <2> DEFINE v == [sub[s] EXCEPT !.cancel = b]
  <2>4. Plans!Active(s) /\ Plans!Changed(s, v, "updated")
    BY <2>2, <2>3
  <2>5. sub[s] \in SubRecord /\ sub[s].plan \in Plans!Paid /\ sub[s].customer \in Requests
        /\ sub[s].st = "active"
    BY <2>4, Active1
  <2>6. v \in SubRecord /\ v.plan \in Plans!Paid /\ v.customer \in Requests /\ v.st = "active"
    BY <2>5, <2>2 DEF SubRecord
  <2> HIDE DEF v
  <2>7. PICK x \in ReqRecord(stripe) : req' = [req EXCEPT ![r] = x] /\ x.st = st
                                       /\ x.sub = req[r].sub
    BY <1>0, <2>2, PlanGoEffect DEF Plans!Progress
  <2>8. Sound(x) /\ x.st # "save"
    BY <2>1, <2>2, <2>7 DEF Sound
  <2>9. x \in ReqRecord(stripe + 1)
    BY <1>0, <2>7 DEF ReqRecord
  <2> QED BY <1>0, <2>2, <2>4, <2>6, <2>7, <2>8, <2>9, Billed
<1>2. CASE Plans!Upgrade(r)
  <2>1. PICK s \in StripeSubs : s = req[r].sub
    BY <1>2 DEF PlanInv, Shape, Sound, OnSub, Plans!Upgrade, Plans!At
  <2> DEFINE v == [sub[s] EXCEPT !.plan = req[r].plan]
             x == [req[r] EXCEPT !.st = "save", !.n = stripe + 1]
  <2>2. /\ Plans!Active(s) /\ Plans!Changed(s, v, "updated") /\ req[r].plan \in Plans!Paid
        /\ UNCHANGED <<ws, faults, applied, raced>>
    BY <1>2, <2>1 DEF Plans!Upgrade, PlanInv, Shape, Sound, Plans!At
  <2>3. sub[s] \in SubRecord /\ sub[s].plan \in Plans!Paid /\ sub[s].customer \in Requests
        /\ sub[s].st = "active"
    BY <2>2, Active1
  <2>4. v \in SubRecord /\ v.plan = req[r].plan /\ v.customer \in Requests /\ v.st = "active"
    BY <1>0, <2>2, <2>3 DEF SubRecord
  <2>5. req[r] \in ReqRecord(stripe) /\ "save" \in Plans!Progress
    BY <1>0 DEF Plans!TypeOK, ReqRecord, Plans!Progress
  <2>6. x \in ReqRecord(stripe + 1)
    BY <1>0, <2>5, Room
  <2>7. x.st = "save" /\ x.plan = req[r].plan /\ x.sub = s
    BY <2>1, <2>5 DEF ReqRecord
  <2>8. req' = [req EXCEPT ![r] = x]
    BY <1>2 DEF Plans!Upgrade
  <2> HIDE DEF v, x
  <2>9. Sound(x)
    BY <2>7 DEF Sound
  <2> QED BY <1>0, <2>2, <2>4, <2>6, <2>7, <2>8, <2>9, Billed
<1>3. CASE \E s \in StripeSubs : Plans!Pay(r, s)
  <2>1. PICK s \in StripeSubs : Plans!Pay(r, s)
    BY <1>3
  <2> DEFINE v == [Plans!NoSub EXCEPT !.st = "active", !.plan = req[r].plan,
                                          !.customer = req[r].customer]
  <2>2. req[r].plan \in Plans!Paid /\ req[r].customer \in Requests
    BY <2>1 DEF Plans!Pay, PlanInv, Shape, Sound, Plans!At
  <2>3. v \in SubRecord /\ v.st = "active" /\ v.plan = req[r].plan
        /\ v.customer = req[r].customer
    BY <1>0, <2>2, FirstValue
  <2>4. /\ Plans!Changed(s, v, "updated") /\ Plans!Go(r, "done")
        /\ UNCHANGED <<ws, faults, applied>>
        /\ raced' = (raced \/ \E t \in StripeSubs : Plans!Active(t))
    BY <2>1 DEF Plans!Pay
  <2> HIDE DEF v
  <2>5. raced' \in BOOLEAN /\ (~raced' => ~raced /\ \A t \in StripeSubs : ~Plans!Active(t))
    BY <1>0, <2>4
  <2>6. PICK x \in ReqRecord(stripe) : req' = [req EXCEPT ![r] = x] /\ x.st = "done"
    BY <1>0, <2>4, PlanGoEffect DEF Plans!Progress
  <2>7. Sound(x) /\ x.st # "save"
    BY <2>6 DEF Sound, OnSub
  <2>8. x \in ReqRecord(stripe + 1)
    BY <1>0, <2>6 DEF ReqRecord
  <2> QED BY <2>2, <2>3, <2>4, <2>5, <2>6, <2>7, <2>8, Billed
<1> QED BY <1>1, <1>2, <1>3

LEMMA PeriodKeeps ==
  ASSUME Plans!SubscriptionAssumption, PlanInv, NEW s \in StripeSubs,
         Plans!PeriodEnd(s) \/ Plans!EndNow(s)
  PROVE  PlanInv'
<1>1. Plans!Active(s) /\ UNCHANGED <<ws, req, faults, applied, raced>>
  BY DEF Plans!PeriodEnd, Plans!EndNow
<1>2. sub[s] \in SubRecord /\ sub[s].plan \in Plans!Paid /\ sub[s].customer \in Requests
      /\ sub[s].st = "active"
  BY <1>1, Active1
<1>3. CASE Plans!Changed(s, [sub[s] EXCEPT !.st = "ended"], "deleted")
  <2> DEFINE v == [sub[s] EXCEPT !.st = "ended"]
  <2>1. v \in SubRecord /\ v.plan \in Plans!Paid /\ v.customer \in Requests /\ v.st = "ended"
    BY <1>2 DEF SubRecord
  <2>2. Plans!Changed(s, v, "deleted")
    BY <1>3
  <2> HIDE DEF v
  <2> QED BY <1>1, <2>1, <2>2, StripeKeeps
<1>4. CASE /\ sub[s].next \in Plans!Paid
           /\ Plans!Changed(s, [sub[s] EXCEPT !.plan = sub[s].next, !.next = None], "updated")
  <2> DEFINE v == [sub[s] EXCEPT !.plan = sub[s].next, !.next = None]
  <2>1. v \in SubRecord /\ v.plan \in Plans!Paid /\ v.customer \in Requests /\ v.st = "active"
    <3>1. sub[s].next \in Plans!Plan
      BY <1>4 DEF Plans!Paid, Plans!Plan
    <3>2. v \in SubRecord
      BY <1>2, <3>1, Moved
    <3>3. v.plan = sub[s].next /\ v.customer = sub[s].customer /\ v.st = sub[s].st
      BY <1>2 DEF SubRecord
    <3> QED BY <1>2, <1>4, <3>2, <3>3
  <2>2. Plans!Changed(s, v, "updated")
    BY <1>4
  <2> HIDE DEF v
  <2> QED BY <1>1, <2>1, <2>2, StripeKeeps
<1>5. CASE Plans!Changed(s, sub[s], "updated")
  BY <1>1, <1>2, <1>5, StripeKeeps
<1> QED BY <1>3, <1>4, <1>5 DEF Plans!PeriodEnd, Plans!EndNow

-----------------------------------------------------------------------------
(* The steps that write the workspace.                                     *)

LEMMA WriteStep ==
  ASSUME Plans!SubscriptionAssumption, PlanInv, UNCHANGED <<sub, events, stripe, faults, applied>>,
         ws' \in [plan : Plans!Plan, sub : StripeSubs \cup {None}, customer : Requests \cup {None}],
         raced' \in BOOLEAN, ~raced' => ~raced,
         ~raced' /\ applied = stripe => Plans!Agrees',
         NEW r \in Requests, NEW x \in ReqRecord(stripe), req' = [req EXCEPT ![r] = x],
         Sound(x), x.st # "save"
  PROVE  PlanInv'
<1>1. stripe \in Nat /\ stripe <= stripe /\ Plans!TypeOK
  BY Numbers DEF PlanInv
<1>2. /\ req' \in [Requests -> ReqRecord(stripe)] /\ req'[r] = x
      /\ \A q \in Requests \ {r} : req'[q] = req[q]
  BY <1>1, ReqEffect
<1>3. Plans!TypeOK'
  BY <1>1, <1>2 DEF Plans!TypeOK, ReqRecord
<1>4. Shape'
  BY <1>2 DEF PlanInv, Shape
<1>5. Follows'
  <2> SUFFICES ASSUME ~raced'
               PROVE  /\ One'
                      /\ (\A e \in events : e.n = stripe => Describes(e))'
                      /\ (applied = stripe \/ \E e \in events : e.n = stripe)'
                      /\ (applied = stripe => Plans!Agrees)'
                      /\ (\A q \in Requests : Plans!At(q, "save") /\ req[q].n = stripe => Upgraded(q))'
    BY DEF Follows
  <2>1. One'
    BY DEF PlanInv, Follows, One, Plans!Active
  <2>2. (\A e \in events : e.n = stripe => Describes(e))'
    <3>1. \A e \in events : e.n = stripe => Describes(e)
      BY DEF PlanInv, Follows
    <3> QED BY <3>1 DEF Describes, Plans!Active
  <2>3. (applied = stripe \/ \E e \in events : e.n = stripe)'
    BY DEF PlanInv, Follows
  <2>4. \A q \in Requests : Plans!At(q, "save")' /\ req'[q].n = stripe' => Upgraded(q)'
    <3> TAKE q \in Requests
    <3> HAVE Plans!At(q, "save")' /\ req'[q].n = stripe'
    <3>1. req'[q] = req[q] /\ Plans!At(q, "save") /\ req[q].n = stripe
      BY <1>2 DEF Plans!At
    <3>2. \E t \in StripeSubs : Plans!Active(t) /\ sub[t].plan = req[q].plan
      BY <3>1 DEF PlanInv, Follows, Upgraded
    <3> QED BY <3>1, <3>2 DEF Upgraded, Plans!Active
  <2> QED BY <2>1, <2>2, <2>3, <2>4
<1> QED BY <1>3, <1>4, <1>5 DEF PlanInv

(* A second customer comes from a workspace that had one, or had none and  *)
(* therefore no subscription that is paid.                                 *)
LEMMA CustomerKeeps ==
  ASSUME Plans!SubscriptionAssumption, PlanInv, NEW r \in Requests, Plans!SaveCustomer(r)
  PROVE  PlanInv'
<1>0. Plans!TypeOK /\ raced \in BOOLEAN
  BY DEF PlanInv, Plans!TypeOK
<1>1. /\ ws' \in [plan : Plans!Plan, sub : StripeSubs \cup {None}, customer : Requests \cup {None}]
      /\ ws'.plan = ws.plan /\ ws'.sub = ws.sub
  BY <1>0 DEF Plans!TypeOK, Plans!SaveCustomer
<1>2. raced' = (raced \/ ws.customer # None) /\ raced' \in BOOLEAN
  BY <1>0 DEF Plans!SaveCustomer
<1>3. ASSUME ~raced', applied = stripe PROVE Plans!Agrees'
  <2>1. Plans!Agrees /\ ws.customer = None
    BY <1>2, <1>3 DEF PlanInv, Follows
  <2>2. \A s \in StripeSubs : Plans!Active(s) => sub[s].customer # None
    BY DEF PlanInv, Shape, Plans!Active, Plans!SubscriptionAssumption
  <2>3. (\A s \in StripeSubs : ~Plans!Active(s)) /\ ws.plan = Plans!Free /\ ws.sub = None
    BY <2>1, <2>2 DEF Plans!Agrees
  <2>4. sub' = sub
    BY DEF Plans!SaveCustomer
  <2> QED BY <1>1, <2>3, <2>4 DEF Plans!Agrees, Plans!Active
<1> DEFINE x == [req[r] EXCEPT !.st = "session", !.customer = r]
<1>4. req[r] \in ReqRecord(stripe) /\ "session" \in Plans!Progress
  BY <1>0 DEF Plans!TypeOK, ReqRecord, Plans!Progress
<1>5. x \in ReqRecord(stripe) /\ x.st = "session" /\ x.customer = r /\ x.plan = req[r].plan
  BY <1>4 DEF ReqRecord
<1>6. req' = [req EXCEPT ![r] = x]
  BY DEF Plans!SaveCustomer
<1> HIDE DEF x
<1>7. req[r].plan \in Plans!Paid
  BY DEF Plans!SaveCustomer, PlanInv, Shape, Sound, Plans!At
<1>8. Sound(x) /\ x.st # "save"
  BY <1>5, <1>7 DEF Sound, OnSub
<1>9. UNCHANGED <<sub, events, stripe, faults, applied>>
  BY DEF Plans!SaveCustomer
<1> QED BY <1>1, <1>2, <1>3, <1>5, <1>6, <1>8, <1>9, WriteStep

LEMMA UpgradeKeeps ==
  ASSUME Plans!SubscriptionAssumption, PlanInv, NEW r \in Requests, Plans!SaveUpgrade(r)
  PROVE  PlanInv'
<1>0. Plans!TypeOK /\ raced \in BOOLEAN /\ stripe \in Nat
  BY Numbers DEF PlanInv, Plans!TypeOK
<1>1. req[r] \in ReqRecord(stripe)
  BY <1>0 DEF Plans!TypeOK, ReqRecord
<1>2. /\ ws' \in [plan : Plans!Plan, sub : StripeSubs \cup {None}, customer : Requests \cup {None}]
      /\ ws'.plan = req[r].plan /\ ws'.sub = ws.sub /\ ws'.customer = ws.customer
  BY <1>0, <1>1 DEF Plans!TypeOK, Plans!SaveUpgrade, ReqRecord
<1>3. raced' = (raced \/ applied > req[r].n) /\ raced' \in BOOLEAN
  BY <1>0 DEF Plans!SaveUpgrade
<1>4. ASSUME ~raced', applied = stripe PROVE Plans!Agrees'
  <2>1. req[r].n = stripe
    <3>1. applied \in Nat /\ req[r].n \in 0 .. stripe
      BY <1>0, <1>1, Numbers DEF ReqRecord
    <3>2. ~(applied > req[r].n)
      BY <1>3, <1>4
    <3> QED BY <1>0, <1>4, <3>1, <3>2
  <2>2. Upgraded(r) /\ Plans!Agrees /\ One
    BY <1>3, <1>4, <2>1 DEF PlanInv, Follows, Plans!SaveUpgrade
  <2>3. PICK s \in StripeSubs : Plans!Active(s) /\ sub[s].plan = req[r].plan
    BY <2>2 DEF Upgraded
  <2>4. ws.sub = s /\ ws.customer = sub[s].customer
    BY <2>2, <2>3 DEF Plans!Agrees, One
  <2>5. sub' = sub
    BY DEF Plans!SaveUpgrade
  <2> QED BY <1>2, <2>3, <2>4, <2>5 DEF Plans!Agrees, Plans!Active
<1>5. PICK x \in ReqRecord(stripe) : req' = [req EXCEPT ![r] = x] /\ x.st = "upgraded"
  BY <1>0, PlanGoEffect DEF Plans!SaveUpgrade, Plans!Progress
<1>6. Sound(x) /\ x.st # "save"
  BY <1>5 DEF Sound, OnSub
<1>7. UNCHANGED <<sub, events, stripe, faults, applied>>
  BY DEF Plans!SaveUpgrade
<1> QED BY <1>2, <1>3, <1>4, <1>5, <1>6, <1>7, WriteStep

-----------------------------------------------------------------------------
(* The webhook.                                                            *)

LEMMA HookStep ==
  ASSUME Plans!SubscriptionAssumption, PlanInv, UNCHANGED <<sub, stripe, req>>,
         NEW e \in events, NEW f \in EventRecord, f.n = e.n, f.sub = e.sub,
         Describes(e) => Describes(f),
         events \ {e} \subseteq events', events' \subseteq (events \ {e}) \cup {f},
         ws' \in [plan : Plans!Plan, sub : StripeSubs \cup {None}, customer : Requests \cup {None}],
         applied' \in 0 .. stripe, faults' \in 0 .. MaxFaults, raced' \in BOOLEAN,
         ~raced' => ~raced,
         ~raced' /\ e.n = stripe => f \in events' \/ applied' = stripe,
         ~raced' /\ applied = stripe => applied' = stripe,
         ~raced' /\ applied' = stripe => Plans!Agrees'
  PROVE  PlanInv'
<1>1. Plans!TypeOK
  BY DEF PlanInv
<1>2. Plans!TypeOK'
  BY <1>1 DEF Plans!TypeOK, EventRecord
<1>3. Shape'
  BY DEF PlanInv, Shape
<1>4. Follows'
  <2> SUFFICES ASSUME ~raced'
               PROVE  /\ One'
                      /\ (\A g \in events : g.n = stripe => Describes(g))'
                      /\ (applied = stripe \/ \E g \in events : g.n = stripe)'
                      /\ (applied = stripe => Plans!Agrees)'
                      /\ (\A q \in Requests : Plans!At(q, "save") /\ req[q].n = stripe => Upgraded(q))'
    BY DEF Follows
  <2>1. One'
    BY DEF PlanInv, Follows, One, Plans!Active
  <2>2. (\A g \in events : g.n = stripe => Describes(g))'
    <3>1. \A g \in events : g.n = stripe => Describes(g)
      BY DEF PlanInv, Follows
    <3>2. \A g \in events' : g.n = stripe => Describes(g)
      BY <3>1
    <3> QED BY <3>2 DEF Describes, Plans!Active
  <2>3. (applied = stripe \/ \E g \in events : g.n = stripe)'
    <3>1. applied = stripe \/ \E g \in events : g.n = stripe
      BY DEF PlanInv, Follows
    <3> QED BY <3>1
  <2>4. \A q \in Requests : Plans!At(q, "save")' /\ req'[q].n = stripe' => Upgraded(q)'
    <3>1. \A q \in Requests : Plans!At(q, "save") /\ req[q].n = stripe => Upgraded(q)
      BY DEF PlanInv, Follows
    <3> QED BY <3>1 DEF Plans!At, Upgraded, Plans!Active
  <2> QED BY <2>1, <2>2, <2>3, <2>4
<1> QED BY <1>2, <1>3, <1>4 DEF PlanInv

LEMMA EventValues ==
  ASSUME NEW e \in EventRecord, NEW p \in Plans!Paid
  PROVE  /\ [e EXCEPT !.fetched = TRUE, !.plan = p] \in EventRecord
         /\ [e EXCEPT !.late = TRUE] \in EventRecord
BY DEF EventRecord

LEMMA FetchKeeps ==
  ASSUME Plans!SubscriptionAssumption, PlanInv, NEW e \in events, Plans!Fetch(e)
  PROVE  PlanInv'
<1>0. Plans!TypeOK /\ e \in EventRecord /\ e.sub \in StripeSubs
  BY DEF PlanInv, Plans!TypeOK, EventRecord
<1>1. PICK p \in Plans!Paid : p = sub[e.sub].plan
  BY <1>0 DEF PlanInv, Shape
<1> DEFINE f == [e EXCEPT !.fetched = TRUE, !.plan = p]
<1>2. f \in EventRecord
  BY <1>0, EventValues
<1>3. /\ f.n = e.n /\ f.sub = e.sub /\ f.plan = p /\ f.customer = e.customer
      /\ f.kind = e.kind /\ e.kind = "updated"
  BY <1>0 DEF EventRecord, Plans!Fetch
<1>4. events' = (events \ {e}) \cup {f}
      /\ UNCHANGED <<ws, sub, stripe, req, faults, applied, raced>>
  BY <1>1 DEF Plans!Fetch
<1> HIDE DEF f
<1>5. Describes(e) => Describes(f)
  BY <1>1, <1>3 DEF Describes
<1>6. ws \in [plan : Plans!Plan, sub : StripeSubs \cup {None}, customer : Requests \cup {None}]
      /\ applied \in 0 .. stripe /\ faults \in 0 .. MaxFaults /\ raced \in BOOLEAN
  BY <1>0 DEF Plans!TypeOK
<1>7. ~raced /\ applied = stripe => Plans!Agrees
  BY DEF PlanInv, Follows
<1>8. Plans!Agrees' <=> Plans!Agrees
  BY <1>4 DEF Plans!Agrees, Plans!Active
<1> QED BY <1>2, <1>3, <1>4, <1>5, <1>6, <1>7, <1>8, HookStep

LEMMA MissKeeps ==
  ASSUME Plans!SubscriptionAssumption, PlanInv, NEW e \in events, Plans!Miss(e)
  PROVE  PlanInv'
<1>0. Plans!TypeOK /\ e \in EventRecord /\ 1 \in Plans!Paid
  BY DEF PlanInv, Plans!TypeOK, EventRecord, Plans!Paid
<1> DEFINE f == [e EXCEPT !.late = TRUE]
<1>2. f \in EventRecord
  BY <1>0, EventValues
<1>3. f.n = e.n /\ f.sub = e.sub /\ f.plan = e.plan /\ f.customer = e.customer /\ f.kind = e.kind
  BY <1>0 DEF EventRecord
<1>4. /\ events' = (events \ {e}) \cup {f} /\ UNCHANGED <<ws, sub, stripe, req, applied, raced>>
      /\ faults < MaxFaults /\ faults' = faults + 1
  BY DEF Plans!Miss
<1> HIDE DEF f
<1>5. Describes(e) => Describes(f)
  BY <1>3 DEF Describes
<1>6. ws \in [plan : Plans!Plan, sub : StripeSubs \cup {None}, customer : Requests \cup {None}]
      /\ applied \in 0 .. stripe /\ faults' \in 0 .. MaxFaults /\ raced \in BOOLEAN
  BY <1>0, <1>4 DEF Plans!TypeOK, Plans!SubscriptionAssumption
<1>7. ~raced /\ applied = stripe => Plans!Agrees
  BY DEF PlanInv, Follows
<1>8. Plans!Agrees' <=> Plans!Agrees
  BY <1>4 DEF Plans!Agrees, Plans!Active
<1> QED BY <1>2, <1>3, <1>4, <1>5, <1>6, <1>7, <1>8, HookStep

(* The latest change is the only event that may bring applied up to        *)
(* changes, and it says what Stripe has.                                   *)
LEMMA ApplyKeeps ==
  ASSUME Plans!SubscriptionAssumption, PlanInv, NEW e \in events, Plans!Apply(e)
  PROVE  PlanInv'
<1>0. /\ Plans!TypeOK /\ e \in EventRecord /\ 1 \in Plans!Paid /\ MaxFaults \in Nat
      /\ faults \in 0 .. MaxFaults
      /\ raced \in BOOLEAN
  BY DEF PlanInv, Plans!TypeOK, EventRecord, Plans!Paid, Plans!SubscriptionAssumption
<1>1. /\ stripe \in Nat /\ applied \in Nat /\ applied <= stripe /\ e.n \in Nat /\ e.n <= stripe
      /\ e.n >= 1
  BY <1>0, Numbers DEF PlanInv, Shape, EventRecord
<1> DEFINE f == [e EXCEPT !.late = TRUE]
<1>2. f \in EventRecord
  BY <1>0, EventValues
<1>3. f.n = e.n /\ f.sub = e.sub /\ f.plan = e.plan /\ f.customer = e.customer /\ f.kind = e.kind
  BY <1>0 DEF EventRecord
<1>4. /\ events' = events \ {e} \/ events' = (events \ {e}) \cup {f}
      /\ UNCHANGED <<sub, stripe, req>> /\ faults' \in 0 .. MaxFaults
  BY <1>0 DEF Plans!Apply
<1> HIDE DEF f
<1>5. Describes(e) => Describes(f)
  BY <1>3 DEF Describes
<1>6. ws' \in [plan : Plans!Plan, sub : StripeSubs \cup {None}, customer : Requests \cup {None}]
  <2>1. ws' = Plans!Written(e)
    BY DEF Plans!Apply
  <2>2. e.plan \in Plans!Plan /\ Plans!Free \in Plans!Plan
    BY <1>0 DEF EventRecord, Plans!Plan, Plans!Paid, Plans!Free
  <2> QED BY <1>0, <2>1, <2>2 DEF Plans!Written, Plans!TypeOK, EventRecord
<1>7. /\ raced' \in BOOLEAN /\ (~raced' => ~raced /\ applied <= e.n)
      /\ applied' \in 0 .. stripe /\ (~raced' => applied' = e.n)
  <2>1. raced' = (raced \/ e.n < applied) /\ applied' = IF e.n > applied THEN e.n ELSE applied
    BY DEF Plans!Apply
  <2>2. applied' \in 0 .. stripe
    BY <1>1, <2>1
  <2>3. ASSUME ~raced' PROVE ~raced /\ applied <= e.n /\ applied' = e.n
    <3>1. ~(e.n < applied)
      BY <2>1, <2>3
    <3>2. applied <= e.n /\ applied' = e.n
      BY <1>1, <2>1, <3>1
    <3>3. ~raced
      BY <2>1, <2>3
    <3> QED BY <3>2, <3>3
  <2>4. raced' \in BOOLEAN
    BY <1>0, <2>1
  <2> QED BY <2>2, <2>3, <2>4
<1>8. ASSUME ~raced', applied' = stripe PROVE Plans!Agrees'
  <2>1. Describes(e) /\ One
    BY <1>7, <1>8 DEF PlanInv, Follows
  <2>2. CASE e.kind = "updated"
    <3>1. Plans!Active(e.sub) /\ e.plan = sub[e.sub].plan /\ e.customer = sub[e.sub].customer
          /\ e.sub \in StripeSubs
      BY <1>0, <2>1, <2>2 DEF Describes, EventRecord
    <3>2. ws'.plan = e.plan /\ ws'.sub = e.sub /\ ws'.customer = e.customer
      BY <2>2 DEF Plans!Apply, Plans!Written
    <3> QED BY <1>4, <3>1, <3>2 DEF Plans!Agrees, Plans!Active
  <2>3. CASE e.kind # "updated"
    <3>1. \A s \in StripeSubs : ~Plans!Active(s)
      BY <2>1, <2>3 DEF Describes
    <3>2. ws'.plan = Plans!Free /\ ws'.sub = None
      BY <2>3 DEF Plans!Apply, Plans!Written
    <3> QED BY <1>4, <3>1, <3>2 DEF Plans!Agrees, Plans!Active
  <2> QED BY <2>2, <2>3
<1>9. /\ ~raced' /\ e.n = stripe => f \in events' \/ applied' = stripe
      /\ ~raced' /\ applied = stripe => applied' = stripe
      /\ events \ {e} \subseteq events' /\ events' \subseteq (events \ {e}) \cup {f}
  BY <1>1, <1>4, <1>7
<1> QED BY <1>2, <1>3, <1>4, <1>5, <1>6, <1>7, <1>8, <1>9, HookStep

-----------------------------------------------------------------------------
LEMMA InitHolds == ASSUME Plans!SubscriptionAssumption, Plans!Init PROVE PlanInv
<1>1. Plans!Free \in Plans!Plan /\ "new" \in Plans!Progress
  BY DEF Plans!Free, Plans!Plan, Plans!Progress
<1>2. Plans!TypeOK
  <2>1. Plans!NoSub \in SubRecord
    BY <1>1 DEF Plans!NoSub, SubRecord
  <2>2. Plans!NoReq \in ReqRecord(0)
    BY <1>1 DEF Plans!NoReq, ReqRecord
  <2>3. sub \in [StripeSubs -> SubRecord] /\ req \in [Requests -> ReqRecord(0)] /\ events = {}
        /\ stripe = 0 /\ applied = 0 /\ faults = 0 /\ raced = FALSE
    BY <2>1, <2>2 DEF Plans!Init
  <2>4. ws \in [plan : Plans!Plan, sub : StripeSubs \cup {None}, customer : Requests \cup {None}]
    BY <1>1 DEF Plans!Init
  <2>5. stripe \in 0 .. StripeMoves /\ applied \in 0 .. stripe /\ faults \in 0 .. MaxFaults
    BY <2>3 DEF Plans!SubscriptionAssumption
  <2>6. raced \in BOOLEAN
    BY <2>3
  <2>7. ReqRecord(stripe) = ReqRecord(0)
    BY <2>3
  <2> QED BY <2>3, <2>4, <2>5, <2>6, <2>7 DEF Plans!TypeOK, SubRecord, ReqRecord
<1>3. \A s \in StripeSubs : sub[s].st = "none" /\ ~Plans!Active(s)
  BY DEF Plans!Init, Plans!NoSub, Plans!Active
<1>4. \A r \in Requests : req[r].st = "new"
  BY DEF Plans!Init, Plans!NoReq
<1>5. Shape
  BY <1>3, <1>4 DEF Plans!Init, Shape, Sound, OnSub
<1>6. Plans!Agrees
  BY <1>3 DEF Plans!Agrees, Plans!Init
<1>7. Follows
  BY <1>3, <1>4, <1>6 DEF Follows, One, Plans!At, Plans!Init
<1> QED BY <1>2, <1>5, <1>7 DEF PlanInv

LEMMA StutterKeeps == ASSUME PlanInv, UNCHANGED Plans!vars PROVE PlanInv'
<1>1. Plans!TypeOK'
  BY DEF PlanInv, Plans!TypeOK, Plans!vars
<1>2. Shape'
  BY DEF PlanInv, Shape, Sound, Plans!vars
<1>3. Follows'
  BY DEF PlanInv, Follows, One, Describes, Plans!Agrees, Upgraded, Plans!At, Plans!Active,
         Plans!vars
<1> QED BY <1>1, <1>2, <1>3 DEF PlanInv

LEMMA NextKeeps ==
  ASSUME Plans!SubscriptionAssumption, PlanInv, [Plans!Next]_(Plans!vars)
  PROVE  PlanInv'
<1>1. ASSUME NEW r \in Requests, Plans!Route(r) PROVE PlanInv'
  BY <1>1, ReadKeeps, CustomerKeeps, RetrieveKeeps, ScheduleKeeps, RequestKeeps, UpgradeKeeps
     DEF Plans!Route
<1>2. ASSUME NEW s \in StripeSubs, Plans!PeriodEnd(s) \/ Plans!EndNow(s) PROVE PlanInv'
  BY <1>2, PeriodKeeps
<1>3. ASSUME NEW e \in events, Plans!Fetch(e) \/ Plans!Apply(e) \/ Plans!Miss(e) PROVE PlanInv'
  BY <1>3, FetchKeeps, ApplyKeeps, MissKeeps
<1>4. CASE UNCHANGED Plans!vars
  BY <1>4, StutterKeeps
<1> QED BY <1>1, <1>2, <1>3, <1>4 DEF Plans!Next



-----------------------------------------------------------------------------
(* Last the provider keys.  As long as no invalidation was missed, what is *)
(* cached, held by an agent or about to be is no older than the latest     *)
(* answered change.                                                        *)

MsgStates == {"idle", "read", "store", "context", "run", "find", "keep", "ran", "failed"}
MsgRecord == [st : MsgStates, session : ChatSessions, model : Providers!Model, key : Providers!Key, acked : Providers!Key]

(* What is acknowledged has been written.                                  *)
Ordered ==
  /\ acked <= row.key
  /\ \A w \in KeyWrites : write[w].key <= row.key
  /\ \A m \in Messages : msg[m].acked <= acked
  /\ \A m \in Messages : msg[m].st \in {"read", "store"} => msg[m].model = "byok"
  /\ \A m \in Messages : msg[m].st \in {"find", "keep"} => msg[m].model = "system"

(* A key that is cached, held or about to be, is no older than the latest  *)
(* answered change; one that runs was so when its message came.            *)
Current ==
  /\ cache.key # 0 => cache.key >= acked
  /\ \A s \in ChatSessions : agent[s].held /\ agent[s].model = "byok" => agent[s].key >= acked
  /\ \A m \in Messages : msg[m].st \in {"store", "keep"} => msg[m].key >= acked
  /\ \A m \in Messages : msg[m].st = "context" /\ msg[m].model = "byok" => msg[m].key >= acked
  /\ \A m \in Messages : msg[m].st \in {"run", "ran"} /\ msg[m].model = "byok" =>
                           msg[m].key >= msg[m].acked

ProviderInv == Providers!TypeOK /\ Ordered /\ (~missed => Current)

-----------------------------------------------------------------------------
(* The effect of a step on one handler.                                    *)

LEMMA MsgEffect ==
  ASSUME Providers!TypeOK, NEW m \in Messages, NEW r \in MsgRecord, msg' = [msg EXCEPT ![m] = r]
  PROVE  /\ msg' \in [Messages -> MsgRecord] /\ msg'[m] = r
         /\ \A n \in Messages \ {m} : msg'[n] = msg[n]
BY DEF Providers!TypeOK, MsgRecord, MsgStates

LEMMA NoMsgType ==
  ASSUME Providers!AgentKeysAssumption
  PROVE  Providers!NoMsg \in MsgRecord /\ Providers!NoMsg.st = "idle"
                                                              /\ Providers!NoMsg.acked = 0
<1>1. (CHOOSE s \in ChatSessions : TRUE) \in ChatSessions
  BY DEF Providers!AgentKeysAssumption
<1> QED BY <1>1 DEF Providers!NoMsg, MsgRecord, MsgStates, Providers!Model, Providers!Key, Providers!AgentKeysAssumption

LEMMA ArriveStep ==
  ASSUME Providers!AgentKeysAssumption, ProviderInv, NEW m \in Messages,
         Providers!Arrive(m) PROVE ProviderInv'
<1> USE DEF ProviderInv
<1>1. PICK s \in ChatSessions, model \in Providers!Model :
       LET cached == agent[s].held /\ agent[s].model = model
           hit    == model = "byok" /\ cache.key # 0 /\ cache.fresh
       IN
       /\ msg' = [msg EXCEPT ![m] =
            [st |-> IF cached THEN "run"
                    ELSE IF model = "system" \/ hit THEN "context" ELSE "read",
             session |-> s, model |-> model, acked |-> acked,
             key |-> IF cached THEN agent[s].key ELSE IF hit THEN cache.key ELSE 0]]
       /\ agent' = IF cached THEN agent ELSE [agent EXCEPT ![s].held = FALSE]
  BY DEF Providers!Arrive
<1>2. UNCHANGED <<cache, row, write, outages, acked, missed>>
  BY DEF Providers!Arrive, Providers!Db
<1> DEFINE cached == agent[s].held /\ agent[s].model = model
           hit    == model = "byok" /\ cache.key # 0 /\ cache.fresh
           r == [st |-> IF cached THEN "run"
                        ELSE IF model = "system" \/ hit THEN "context" ELSE "read",
                 session |-> s, model |-> model, acked |-> acked,
                 key |-> IF cached THEN agent[s].key ELSE IF hit THEN cache.key ELSE 0]
<1>3. agent[s].key \in Providers!Key /\ cache.key \in Providers!Key /\ 0 \in Providers!Key
      /\ acked \in Providers!Key
  BY DEF Providers!TypeOK, Providers!Key, Providers!AgentKeysAssumption
<1>4. r \in MsgRecord
  BY <1>3 DEF MsgRecord, MsgStates
<1>5. /\ r.st \in {"run", "context", "read"} /\ r.acked = acked /\ r.model = model
      /\ r.st = "read" => model = "byok"
      /\ r.st = "run" => agent[s].held /\ agent[s].model = model /\ r.key = agent[s].key
      /\ r.st = "context" /\ model = "byok" => cache.key # 0 /\ r.key = cache.key
  BY DEF Providers!Model
<1>6. msg' = [msg EXCEPT ![m] = r]
  BY <1>1
<1> HIDE DEF r
<1>7. /\ msg' \in [Messages -> MsgRecord] /\ msg'[m] = r
      /\ \A n \in Messages \ {m} : msg'[n] = msg[n]
  BY <1>4, <1>6, MsgEffect
<1>8.
      /\ agent' \in [ChatSessions -> [model : Providers!Model \cup {"none"}, key : Providers!Key, held : BOOLEAN]]
      /\ \A z \in ChatSessions : /\ agent'[z].model = agent[z].model /\ agent'[z].key = agent[z].key
                                 /\ agent'[z].held => agent[z].held
  <2> DEFINE a == [agent[s] EXCEPT !.held = FALSE]
             AgentRecord == [model : Providers!Model \cup {"none"}, key : Providers!Key, held : BOOLEAN]
  <2>1. agent \in [ChatSessions -> AgentRecord]
    BY DEF Providers!TypeOK
  <2>2. a \in AgentRecord /\ a.model = agent[s].model /\ a.key = agent[s].key /\ ~a.held
    BY <2>1
  <2>3. agent' = agent \/ agent' = [agent EXCEPT ![s] = a]
    BY <1>1
  <2> HIDE DEF a
  <2> QED BY <2>1, <2>2, <2>3
<1>9. Providers!TypeOK'
  BY <1>2, <1>7, <1>8 DEF Providers!TypeOK, MsgRecord, MsgStates
<1>10. Ordered'
  <2>1. r.acked <= acked
    BY <1>3, <1>5 DEF Providers!Key, Providers!AgentKeysAssumption
  <2> QED BY <1>2, <1>5, <1>7, <2>1 DEF Ordered
<1>11. ~missed' => Current'
  <2> SUFFICES ASSUME ~missed, Current PROVE Current' BY <1>2
  <2>1. r.model = "byok" /\ r.st \in {"run", "context"} => r.key >= acked
    BY <1>5 DEF Current
  <2> QED BY <1>2, <1>5, <1>7, <1>8, <2>1 DEF Current
<1> QED BY <1>9, <1>10, <1>11

(* A step of a handler that leaves the caches alone.                       *)
LEMMA MsgStep ==
  ASSUME Providers!AgentKeysAssumption, ProviderInv, NEW m \in Messages, NEW r \in MsgRecord,
         msg' = [msg EXCEPT ![m] = r],
         UNCHANGED <<row, cache, agent, write, outages, acked, missed>>,
         r.acked <= acked,
         r.st \in {"read", "store"} => r.model = "byok",
         r.st \in {"find", "keep"} => r.model = "system",
         ~missed /\ Current =>
           /\ r.st \in {"store", "keep"} => r.key >= acked
           /\ r.st = "context" /\ r.model = "byok" => r.key >= acked
           /\ r.st \in {"run", "ran"} /\ r.model = "byok" => r.key >= r.acked
  PROVE  ProviderInv'
<1>1. /\ msg' \in [Messages -> MsgRecord] /\ msg'[m] = r
      /\ \A n \in Messages \ {m} : msg'[n] = msg[n]
  BY MsgEffect DEF ProviderInv
<1>2. Providers!TypeOK'
  BY <1>1 DEF ProviderInv, Providers!TypeOK, MsgRecord, MsgStates
<1>3. Ordered'
  BY <1>1 DEF ProviderInv, Ordered
<1>4. ~missed' => Current'
  BY <1>1 DEF ProviderInv, Current
<1> QED BY <1>2, <1>3, <1>4 DEF ProviderInv

LEMMA ProviderNumbers ==
  ASSUME Providers!AgentKeysAssumption, ProviderInv
  PROVE  /\ Providers!Key \subseteq Nat /\ 0 \in Providers!Key /\ row.key \in Providers!Key /\ acked \in Providers!Key
         /\ cache.key \in Providers!Key /\ msg \in [Messages -> MsgRecord]
         /\ \A m \in Messages : msg[m] \in MsgRecord /\ msg[m].key \in Providers!Key /\ msg[m].acked \in Providers!Key
BY DEF Providers!AgentKeysAssumption, Providers!Key, ProviderInv, Providers!TypeOK, MsgRecord,
       MsgStates

LEMMA ReadRowStep ==
  ASSUME Providers!AgentKeysAssumption, ProviderInv, NEW m \in Messages,
         Providers!ReadRow(m) PROVE ProviderInv'
<1>1. /\ msg[m].st \in {"read", "find"}
      /\ UNCHANGED <<row, cache, agent, write, outages, acked, missed>>
  BY DEF Providers!ReadRow, Providers!Db
<1> DEFINE r == [msg[m] EXCEPT !.key = IF row.on THEN row.key ELSE 0,
                   !.st = IF msg[m].st = "read" THEN IF row.on THEN "store" ELSE "failed"
                          ELSE IF row.on THEN "keep" ELSE "ran"]
<1>2. /\ r \in MsgRecord /\ r.acked = msg[m].acked /\ r.model = msg[m].model
      /\ \/ r.st \in {"store", "failed"} /\ msg[m].st = "read"
         \/ r.st \in {"keep", "ran"} /\ msg[m].st = "find"
      /\ r.st \in {"store", "keep"} => r.key = row.key
  BY <1>1, ProviderNumbers DEF MsgRecord, MsgStates
<1>3. msg' = [msg EXCEPT ![m] = r]
  BY DEF Providers!ReadRow
<1> HIDE DEF r
<1>4. r.acked <= acked /\ acked <= row.key
  BY <1>2 DEF ProviderInv, Ordered
<1>5. /\ r.st \in {"read", "store"} => r.model = "byok"
      /\ r.st \in {"find", "keep", "ran"} => r.model = "system"
  BY <1>1, <1>2 DEF ProviderInv, Ordered
<1>6. /\ r.st \in {"store", "keep"} => r.key >= acked
      /\ r.st \notin {"context", "run"} /\ ~(r.st = "ran" /\ r.model = "byok")
  BY <1>2, <1>4, <1>5, ProviderNumbers
<1> QED BY <1>1, <1>2, <1>3, <1>4, <1>5, <1>6, MsgStep

LEMMA RunStep ==
  ASSUME Providers!AgentKeysAssumption, ProviderInv, NEW m \in Messages,
         Providers!Run(m) PROVE ProviderInv'
<1>1. /\ msg[m].st = "run"
      /\ UNCHANGED <<row, cache, agent, write, outages, acked, missed>>
  BY DEF Providers!Run, Providers!Db
<1>2. msg[m].acked <= acked
  BY DEF ProviderInv, Ordered
<1>3. CASE msg' = [msg EXCEPT ![m].st = "ran"]
  <2> DEFINE r == [msg[m] EXCEPT !.st = "ran"]
  <2>1. /\ r \in MsgRecord /\ r.st = "ran" /\ r.key = msg[m].key
        /\ r.acked = msg[m].acked /\ r.model = msg[m].model
    BY ProviderNumbers DEF MsgRecord, MsgStates
  <2>2. msg' = [msg EXCEPT ![m] = r]
    BY <1>3
  <2> HIDE DEF r
  <2>3. ~missed /\ Current /\ r.model = "byok" => r.key >= r.acked
    BY <1>1, <2>1 DEF Current
  <2> QED BY <1>1, <1>2, <2>1, <2>2, <2>3, MsgStep
<1>4. CASE /\ msg[m].model = "system"
           /\ msg' = [msg EXCEPT ![m].st = IF cache.fresh THEN "ran" ELSE "find",
                                 ![m].key = IF cache.fresh THEN cache.key ELSE 0]
  <2> DEFINE r == [msg[m] EXCEPT !.st = IF cache.fresh THEN "ran" ELSE "find",
                                 !.key = IF cache.fresh THEN cache.key ELSE 0]
  <2>1. /\ r \in MsgRecord /\ r.st \in {"ran", "find"}
        /\ r.acked = msg[m].acked /\ r.model = "system"
    BY <1>4, ProviderNumbers DEF MsgRecord, MsgStates
  <2>2. msg' = [msg EXCEPT ![m] = r]
    BY <1>4
  <2> HIDE DEF r
  <2> QED BY <1>1, <1>2, <2>1, <2>2, MsgStep
<1> QED BY <1>3, <1>4 DEF Providers!Run

LEMMA FinishStep ==
  ASSUME Providers!AgentKeysAssumption, ProviderInv, NEW m \in Messages,
         Providers!Finish(m) PROVE ProviderInv'
<1>1. /\ UNCHANGED <<row, cache, agent, write, outages, acked, missed>>
      /\ msg' = [msg EXCEPT ![m] = Providers!NoMsg]
  BY DEF Providers!Finish, Providers!Db
<1>2. Providers!NoMsg.acked <= acked
  BY NoMsgType, ProviderNumbers
<1> QED BY <1>1, <1>2, NoMsgType, MsgStep

-----------------------------------------------------------------------------
(* What fills the caches.                                                  *)

LEMMA StoreConfigStep ==
  ASSUME Providers!AgentKeysAssumption, ProviderInv, NEW m \in Messages,
         Providers!StoreConfig(m) PROVE ProviderInv'
<1> USE DEF ProviderInv
<1>1. /\ msg[m].st \in {"store", "keep"} /\ cache' = [key |-> msg[m].key, fresh |-> TRUE]
      /\ UNCHANGED <<agent, row, write, outages, acked, missed>>
  BY DEF Providers!StoreConfig, Providers!Db
<1> DEFINE st == IF msg[m].st = "store" THEN "context" ELSE "ran"
           r  == [msg[m] EXCEPT !.st = st]
<1>2. /\ r \in MsgRecord /\ r.key = msg[m].key
      /\ r.acked = msg[m].acked /\ r.model = msg[m].model
      /\ \/ r.st = "context" /\ msg[m].st = "store"
         \/ r.st = "ran" /\ msg[m].st = "keep"
  BY <1>1, ProviderNumbers DEF MsgRecord, MsgStates
<1>3. msg' = [msg EXCEPT ![m] = r]
  BY DEF Providers!StoreConfig
<1> HIDE DEF r
<1>4. /\ msg' \in [Messages -> MsgRecord] /\ msg'[m] = r
      /\ \A n \in Messages \ {m} : msg'[n] = msg[n]
  BY <1>2, <1>3, MsgEffect
<1>5. Providers!TypeOK'
  BY <1>1, <1>4, ProviderNumbers DEF Providers!TypeOK, MsgRecord, MsgStates
<1>6. Ordered'
  BY <1>1, <1>2, <1>4 DEF Ordered
<1>7. ~missed' => Current'
  <2> SUFFICES ASSUME ~missed, Current PROVE Current' BY <1>1
  <2>1. msg[m].key >= acked
    BY <1>1 DEF Current
  <2>2. r.st = "context" \/ r.model = "system"
    BY <1>2 DEF Ordered
  <2> QED BY <1>1, <1>2, <1>4, <2>1, <2>2 DEF Current
<1> QED BY <1>5, <1>6, <1>7

LEMMA StoreAgentStep ==
  ASSUME Providers!AgentKeysAssumption, ProviderInv, NEW m \in Messages,
         Providers!StoreAgent(m) PROVE ProviderInv'
<1> USE DEF ProviderInv
<1>1. /\ msg[m].st = "context" /\ UNCHANGED <<cache, row, write, outages, acked, missed>>
      /\ agent' = [agent EXCEPT ![msg[m].session] =
                     [model |-> msg[m].model, key |-> msg[m].key, held |-> TRUE]]
  BY DEF Providers!StoreAgent, Providers!Db
<1> DEFINE r == [msg[m] EXCEPT !.st = "run"]
           a == [model |-> msg[m].model, key |-> msg[m].key, held |-> TRUE]
<1>2. /\ r \in MsgRecord /\ r.key = msg[m].key /\ r.st = "run"
      /\ r.acked = msg[m].acked /\ r.model = msg[m].model
  BY ProviderNumbers DEF MsgRecord, MsgStates
<1>3. msg' = [msg EXCEPT ![m] = r]
  BY DEF Providers!StoreAgent
<1> HIDE DEF r
<1>4. /\ msg' \in [Messages -> MsgRecord] /\ msg'[m] = r
      /\ \A n \in Messages \ {m} : msg'[n] = msg[n]
  BY <1>2, <1>3, MsgEffect
<1>5. a \in [model : Providers!Model \cup {"none"}, key : Providers!Key, held : BOOLEAN]
      /\ a.model = msg[m].model /\ a.key = msg[m].key
  BY ProviderNumbers DEF MsgRecord
<1>6.
      /\ agent' \in [ChatSessions -> [model : Providers!Model \cup {"none"}, key : Providers!Key, held : BOOLEAN]]
      /\ \A s \in ChatSessions : agent'[s] = agent[s] \/ agent'[s] = a
  <2> HIDE DEF a
  <2> QED BY <1>1, <1>5 DEF Providers!TypeOK, a
<1>7. Providers!TypeOK'
  BY <1>1, <1>4, <1>6 DEF Providers!TypeOK, MsgRecord, MsgStates
<1>8. Ordered'
  BY <1>1, <1>2, <1>4 DEF Ordered
<1>9. ~missed' => Current'
  <2> SUFFICES ASSUME ~missed, Current PROVE Current' BY <1>1
  <2>1. msg[m].model = "byok" => msg[m].key >= acked /\ msg[m].key >= msg[m].acked
    BY <1>1, ProviderNumbers DEF Current, Ordered
  <2> HIDE DEF a
  <2> QED BY <1>1, <1>2, <1>4, <1>5, <1>6, <2>1 DEF Current
<1> QED BY <1>7, <1>8, <1>9

-----------------------------------------------------------------------------
(* Writes and invalidations.                                               *)

LEMMA ExpireStep ==
  ASSUME Providers!AgentKeysAssumption, ProviderInv, Providers!Expire
  PROVE  ProviderInv'
<1>1. /\ UNCHANGED <<agent, msg, row, write, outages, acked, missed>>
      /\ cache' = [cache EXCEPT !.fresh = FALSE]
  BY DEF Providers!Expire, Providers!Db
<1>2. cache' \in [key : Providers!Key, fresh : BOOLEAN] /\ cache'.key = cache.key
  BY <1>1 DEF ProviderInv, Providers!TypeOK
<1> QED BY <1>1, <1>2 DEF ProviderInv, Providers!TypeOK, Ordered, Current

LEMMA PostStep ==
  ASSUME Providers!AgentKeysAssumption, ProviderInv, Providers!Post
  PROVE  ProviderInv'
<1>1. /\ row.key < MaxKeys /\ row' = [key |-> row.key + 1, on |-> TRUE] /\ missed'
      /\ UNCHANGED <<cache, agent, msg, write, outages, acked>>
  BY DEF Providers!Post
<1>2. row'.key = row.key + 1 /\ row' \in [key : Providers!Key, on : BOOLEAN] /\ missed' = TRUE
  BY <1>1, ProviderNumbers DEF Providers!Post, Providers!Key, Providers!AgentKeysAssumption
<1>3. Providers!TypeOK'
  BY <1>1, <1>2 DEF ProviderInv, Providers!TypeOK
<1>4. Ordered'
  <2>1. \A k \in Providers!Key : k <= row.key => k <= row.key + 1
    BY ProviderNumbers
  <2>2. \A w \in KeyWrites : write[w].key \in Providers!Key
    BY DEF ProviderInv, Providers!TypeOK
  <2> QED BY <1>1, <1>2, <2>1, <2>2, ProviderNumbers DEF ProviderInv, Ordered
<1> QED BY <1>2, <1>3, <1>4 DEF ProviderInv

LEMMA WriteRowStep ==
  ASSUME Providers!AgentKeysAssumption, ProviderInv, NEW w \in KeyWrites,
         Providers!WriteRow(w) PROVE ProviderInv'
<1>1. /\ row.key < MaxKeys /\ UNCHANGED <<cache, agent, msg, outages, acked, missed>>
      /\ write' = [write EXCEPT ![w] = [st |-> "written", key |-> row.key + 1]]
  BY DEF Providers!WriteRow
<1>2. PICK on \in BOOLEAN : row' = [key |-> row.key + 1, on |-> on]
  BY DEF Providers!WriteRow
<1>3. row'.key = row.key + 1 /\ row' \in [key : Providers!Key, on : BOOLEAN]
      /\ row.key + 1 \in Providers!Key
  BY <1>1, <1>2, ProviderNumbers DEF Providers!Key, Providers!AgentKeysAssumption
<1>4. /\ write' \in [KeyWrites -> [st : {"idle", "written"}, key : Providers!Key]]
      /\ write'[w].key = row.key + 1 /\ \A v \in KeyWrites \ {w} : write'[v] = write[v]
  BY <1>1, <1>3 DEF ProviderInv, Providers!TypeOK
<1>5. Providers!TypeOK'
  BY <1>1, <1>3, <1>4 DEF ProviderInv, Providers!TypeOK
<1>6. Ordered'
  <2>1. \A k \in Providers!Key : k <= row.key => k <= row.key + 1
    BY ProviderNumbers
  <2>2. \A v \in KeyWrites : write[v].key \in Providers!Key
    BY DEF ProviderInv, Providers!TypeOK
  <2>3. row.key + 1 <= row'.key
    BY <1>3, ProviderNumbers
  <2> QED BY <1>1, <1>3, <1>4, <2>1, <2>2, <2>3, ProviderNumbers DEF ProviderInv, Ordered
<1> QED BY <1>1, <1>5, <1>6 DEF ProviderInv, Current

(* An invalidation that meets no handler between the caches and the rows   *)
(* leaves nothing behind that is older.                                    *)
LEMMA InvalidateStep ==
  ASSUME Providers!AgentKeysAssumption, ProviderInv, NEW w \in KeyWrites,
         Providers!Invalidate(w) PROVE ProviderInv'
<1> USE DEF ProviderInv
<1>1. /\ cache' = Providers!NoCache /\ UNCHANGED <<row, msg, outages>>
      /\ agent' = [s \in ChatSessions |-> IF agent[s].model = "byok" THEN Providers!NoAgent ELSE agent[s]]
      /\ acked' = IF write[w].key > acked THEN write[w].key ELSE acked
      /\ missed' = (missed \/ \E m \in Messages : Providers!Filling(m))
      /\ write' = [write EXCEPT ![w].st = "idle"]
  BY DEF Providers!Invalidate
<1>2. acked' \in Providers!Key /\ acked' <= row.key /\ acked <= acked'
  BY <1>1, ProviderNumbers DEF Providers!TypeOK, Ordered
<1>3. /\ write' \in [KeyWrites -> [st : {"idle", "written"}, key : Providers!Key]]
      /\ \A v \in KeyWrites : write'[v].key = write[v].key
  BY <1>1 DEF Providers!TypeOK
<1>4.
      /\ agent' \in [ChatSessions -> [model : Providers!Model \cup {"none"}, key : Providers!Key, held : BOOLEAN]]
      /\ \A s \in ChatSessions : agent'[s].model # "byok"
  BY <1>1, ProviderNumbers DEF Providers!TypeOK, Providers!NoAgent
<1>5. cache' \in [key : Providers!Key, fresh : BOOLEAN] /\ cache'.key = 0
  BY <1>1, ProviderNumbers DEF Providers!NoCache
<1>6. Providers!TypeOK'
  BY <1>1, <1>2, <1>3, <1>4, <1>5 DEF Providers!TypeOK
<1>7. Ordered'
  <2>1. \A k \in Providers!Key : k <= acked => k <= acked'
    BY <1>2, ProviderNumbers
  <2> QED BY <1>1, <1>2, <1>3, <2>1, ProviderNumbers DEF Ordered
<1>8. ~missed' => Current'
  <2> SUFFICES ASSUME ~missed' PROVE Current' OBVIOUS
  <2>1. Current /\ \A m \in Messages : ~Providers!Filling(m)
    BY <1>1
  <2> QED BY <1>1, <1>4, <1>5, <2>1 DEF Current, Providers!Filling
<1> QED BY <1>6, <1>7, <1>8

LEMMA InvalidateFailsStep ==
  ASSUME Providers!AgentKeysAssumption, ProviderInv, NEW w \in KeyWrites,
         Providers!InvalidateFails(w) PROVE ProviderInv'
<1>1. /\ outages < MaxFaults /\ outages' = outages + 1 /\ missed' = TRUE
      /\ write' = [write EXCEPT ![w].st = "idle"]
      /\ UNCHANGED <<row, cache, agent, msg, acked>>
  BY DEF Providers!InvalidateFails
<1>2. /\ write' \in [KeyWrites -> [st : {"idle", "written"}, key : Providers!Key]]
      /\ \A v \in KeyWrites : write'[v].key = write[v].key
  BY <1>1 DEF ProviderInv, Providers!TypeOK
<1>3. outages' \in 0 .. MaxFaults
  BY <1>1 DEF ProviderInv, Providers!TypeOK, Providers!AgentKeysAssumption
<1>4. Providers!TypeOK'
  BY <1>1, <1>2, <1>3 DEF ProviderInv, Providers!TypeOK
<1>5. Ordered'
  BY <1>1, <1>2 DEF ProviderInv, Ordered
<1> QED BY <1>1, <1>4, <1>5 DEF ProviderInv

LEMMA InitProviders ==
  ASSUME Providers!AgentKeysAssumption, Providers!Init
  PROVE  ProviderInv
<1>1. /\ row = [key |-> 1, on |-> TRUE] /\ cache = Providers!NoCache /\ outages = 0 /\ acked = 1
      /\ agent = [s \in ChatSessions |-> Providers!NoAgent] /\ msg = [m \in Messages |-> Providers!NoMsg]
      /\ write = [w \in KeyWrites |-> [st |-> "idle", key |-> 0]] /\ missed = FALSE
  BY DEF Providers!Init
<1>2. 0 \in Providers!Key /\ 1 \in Providers!Key /\ 0 \in 0 .. MaxFaults
  BY DEF Providers!Key, Providers!AgentKeysAssumption
<1>3. /\ msg \in [Messages -> MsgRecord]
      /\ \A m \in Messages : msg[m].st = "idle" /\ msg[m].acked = 0
  BY <1>1, NoMsgType
<1>4. Providers!TypeOK
  BY <1>1, <1>2, <1>3 DEF Providers!TypeOK, MsgRecord, MsgStates, Providers!NoCache, Providers!NoAgent
<1>5. Ordered
  BY <1>1, <1>3 DEF Ordered
<1>6. Current
  BY <1>1, <1>3 DEF Current, Providers!NoCache, Providers!NoAgent
<1> QED BY <1>4, <1>5, <1>6 DEF ProviderInv

LEMMA NextProviders ==
  ASSUME Providers!AgentKeysAssumption, ProviderInv, [Providers!Next]_(Providers!vars)
  PROVE  ProviderInv'
<1>1. CASE UNCHANGED Providers!vars
  BY <1>1 DEF Providers!vars, ProviderInv, Providers!TypeOK, Ordered, Current
<1>2. CASE Providers!Next
  BY <1>2, ArriveStep, ReadRowStep, StoreConfigStep, StoreAgentStep, RunStep, FinishStep,
     ExpireStep, PostStep, WriteRowStep, InvalidateStep, InvalidateFailsStep DEF Providers!Next, Providers!Handle
<1> QED BY <1>1, <1>2

-----------------------------------------------------------------------------
(* The workspace: each part keeps its own invariant, those of Membership   *)
(* as its theorems say.                                                    *)
WorkspaceInv ==
  /\ part = "keys"    => KeysInv
  /\ part = "roles"   => Roles!IInv
  /\ part = "seats"   => Seats!IInv
  /\ part = "full"    => Full!IInv
  /\ part = "invites" => Invites!IInv
  /\ part = "plan"    => PlanInv
  /\ part = "providers" => ProviderInv

LEMMA Assumed ==
  /\ Keys!AccessKeysAssumption /\ Plans!SubscriptionAssumption
  /\ Roles!MembershipAssumption /\ Seats!MembershipAssumption
  /\ Full!MembershipAssumption /\ Invites!MembershipAssumption
  /\ Providers!AgentKeysAssumption
BY WorkspaceAssumption DEF WorkspaceAssumption

LEMMA InitWorkspace == Init => WorkspaceInv
<1>1. /\ Init /\ part = "keys" => Keys!Init
      /\ Init /\ part = "roles" => Roles!Init
      /\ Init /\ part = "seats" => Seats!Init
      /\ Init /\ part = "full" => Full!Init
      /\ Init /\ part = "invites" => Invites!Init
      /\ Init /\ part = "plan" => Plans!Init
      /\ Init /\ part = "providers" => Providers!Init
  BY DEF Init
<1> QED BY <1>1, Assumed, InitAccess, InitHolds, Roles!InitMembership, Seats!InitMembership,
           Full!InitMembership, Invites!InitMembership, InitProviders DEF WorkspaceInv

LEMMA PartSteps ==
  ASSUME [Next]_vars
  PROVE  /\ part' = part
         /\ part = "keys" => [Keys!Next]_(Keys!vars)
         /\ part = "roles" => [Roles!Next]_(Roles!vars)
         /\ part = "seats" => [Seats!Next]_(Seats!vars)
         /\ part = "full" => [Full!Next]_(Full!vars)
         /\ part = "invites" => [Invites!Next]_(Invites!vars)
         /\ part = "plan" => [Plans!Next]_(Plans!vars)
         /\ part = "providers" => [Providers!Next]_(Providers!vars)
BY DEF Next, vars, keyVars, memberVars, planVars, chatVars, Providers!vars, Keys!vars,
       Keys!store, Roles!vars, Seats!vars,
       Full!vars, Invites!vars, Plans!vars

LEMMA NextWorkspace == WorkspaceInv /\ [Next]_vars => WorkspaceInv'
<1> SUFFICES ASSUME WorkspaceInv, [Next]_vars PROVE WorkspaceInv'
  OBVIOUS
<1>1. part = "keys" => KeysInv'
  BY PartSteps, Assumed, NextAccess DEF WorkspaceInv
<1>2. part = "roles" => Roles!IInv'
  BY PartSteps, Assumed, Roles!NextMembership DEF WorkspaceInv
<1>3. part = "seats" => Seats!IInv'
  BY PartSteps, Assumed, Seats!NextMembership DEF WorkspaceInv
<1>4. part = "full" => Full!IInv'
  BY PartSteps, Assumed, Full!NextMembership DEF WorkspaceInv
<1>5. part = "invites" => Invites!IInv'
  BY PartSteps, Assumed, Invites!NextMembership DEF WorkspaceInv
<1>6. part = "plan" => PlanInv'
  BY PartSteps, Assumed, NextKeeps DEF WorkspaceInv
<1>7. part = "providers" => ProviderInv'
  BY PartSteps, Assumed, NextProviders DEF WorkspaceInv
<1> QED BY PartSteps, <1>1, <1>2, <1>3, <1>4, <1>5, <1>6, <1>7 DEF WorkspaceInv

(* Requests, projects, keys, members, invites, subscriptions and events    *)
(* keep their types, and no counter passes its bound.                      *)
THEOREM TypeCorrect == Spec => []TypeOK
<1>1. WorkspaceInv => TypeOK
  BY DEF WorkspaceInv, TypeOK, KeysInv, Access, PlanInv, Roles!IInv, Seats!IInv, Full!IInv,
         Invites!IInv, ProviderInv
<1> QED BY <1>1, InitWorkspace, NextWorkspace, PTL DEF Spec

(* A route grants what was allowed at some moment of the request: spans    *)
(* are taken for a key that was usable and with a block flag the workspace *)
(* had, and an admin's route goes on for one who was an admin              *)
(* (requireAdminAccess and the ingestion's key lookup read once and write  *)
(* later).                                                                 *)
THEOREM GrantsAreChecked == Spec => []AccessIsChecked
<1>1. WorkspaceInv => AccessIsChecked
  BY DEF WorkspaceInv, AccessIsChecked, KeysInv, Access, Granted, Keys!AccessIsChecked,
         Keys!DeadKeyIsRefused, Keys!BlockIsCurrent, Keys!RoleIsChecked
<1> QED BY <1>1, InitWorkspace, NextWorkspace, PTL DEF Spec

(* Two projects of one name, and a workspace without an admin, take two    *)
(* requests that ran at the same time: createProject, renameProject and    *)
(* the routes of the members check before they write, and the check alone  *)
(* keeps both rules for requests that come one after the other.            *)
THEOREM BreachesNeedOverlap == Spec => []BreachNeedsOverlap
<1>1. KeysInv => Keys!TwinsNeedOverlap
  BY DEF KeysInv, TwinsMet, Overlapped, Keys!TwinsNeedOverlap
<1>2. Roles!IInv => Roles!LastAdminNeedsOverlap
  BY DEF Roles!IInv, Roles!Led, Roles!Rivals, Roles!LastAdminNeedsOverlap
<1>3. WorkspaceInv => BreachNeedsOverlap
  BY <1>1, <1>2 DEF WorkspaceInv, BreachNeedsOverlap
<1> QED BY <1>3, InitWorkspace, NextWorkspace, PTL DEF Spec

(* An invite or an acceptance that succeeds had a free seat at some moment *)
(* while it ran, and an invite lets one request in, which found it open.   *)
THEOREM SeatsAndInvitesAreChecked == Spec => []InvitesAreChecked
<1>1. Seats!IInv => Seats!SeatIsChecked
  BY DEF Seats!IInv, Seats!Seated, Seats!SeatIsChecked, Seats!Done
<1>2. Full!IInv => Full!SeatIsChecked
  BY DEF Full!IInv, Full!Seated, Full!SeatIsChecked, Full!Done
<1>3. Invites!IInv => Invites!InviteIsSpentOnce
  BY DEF Invites!IInv, Invites!Spent, Invites!InviteIsSpentOnce
<1>4. WorkspaceInv => InvitesAreChecked
  BY <1>1, <1>2, <1>3 DEF WorkspaceInv, InvitesAreChecked
<1> QED BY <1>4, InitWorkspace, NextWorkspace, PTL DEF Spec

(* At rest the plan of a workspace is that of its subscription at Stripe,  *)
(* unless a write of the upgrade route or of the webhook came out of order *)
(* or the workspace checked out twice.                                     *)
THEOREM PlanFollowsStripe == Spec => []DriftNeedsRace
<1>1. WorkspaceInv => DriftNeedsRace
  BY DEF WorkspaceInv, DriftNeedsRace, PlanInv, Follows, Plans!DriftNeedsRace, Plans!Settled
<1> QED BY <1>1, InitWorkspace, NextWorkspace, PTL DEF Spec

(* A message that comes after PATCH or DELETE of a provider has answered   *)
(* never runs with the key of before, unless the invalidation met a        *)
(* handler that was filling the caches, failed, or was not asked for       *)
(* (agent.ts).                                                             *)
THEOREM NoOldKey == Spec => []OldKeyNeedsMiss
<1>1. ProviderInv => Providers!OldKeyNeedsMiss
  BY DEF ProviderInv, Current, Providers!OldKeyNeedsMiss, Providers!RunsCurrent
<1>2. WorkspaceInv => OldKeyNeedsMiss
  BY <1>1 DEF WorkspaceInv, OldKeyNeedsMiss
<1> QED BY <1>2, InitWorkspace, NextWorkspace, PTL DEF Spec

(* No step brings back a deleted project or key, and a member who was      *)
(* removed comes back only by being added or by accepting an invite: no    *)
(* late write of a role does it.                                           *)
THEOREM DeletedForGood == Spec => GoneStaysGone
<1>1. ASSUME WorkspaceInv, [Next]_vars, part = "keys" PROVE [Keys!StaysDeleted]_(Keys!vars)
  <2>1. KeysInv /\ KeysInv' /\ [Keys!Next]_(Keys!vars)
    BY <1>1, NextWorkspace, PartSteps DEF WorkspaceInv
  <2>2. Keys!TypeOK /\ (Keys!TypeOK)'
    BY <2>1 DEF KeysInv, Access
  <2> QED BY <2>1, <2>2, Assumed, DeletedStays
<1>2. ASSUME WorkspaceInv, [Next]_vars, part = "roles" PROVE [Roles!LetIn]_(Roles!vars)
  <2>1. Roles!IInv /\ [Roles!Next]_(Roles!vars)
    BY <1>2, PartSteps DEF WorkspaceInv
  <2>2. Roles!TypeOK /\ Roles!Shape
    BY <2>1 DEF Roles!IInv
  <2> QED BY <2>1, <2>2, Roles!LetInStep
<1>3. ASSUME UNCHANGED Keys!vars PROVE Keys!StaysDeleted
  BY <1>3 DEF Keys!vars, Keys!store, Keys!StaysDeleted
<1>4. ASSUME UNCHANGED Roles!vars PROVE Roles!LetIn
  BY <1>4 DEF Roles!vars, Roles!LetIn, Roles!Member
<1>5. ASSUME WorkspaceInv, [Next]_vars, part = "invites" PROVE [Invites!LetIn]_(Invites!vars)
  <2>1. Invites!IInv /\ [Invites!Next]_(Invites!vars)
    BY <1>5, PartSteps DEF WorkspaceInv
  <2>2. Invites!TypeOK /\ Invites!Shape
    BY <2>1 DEF Invites!IInv
  <2> QED BY <2>1, <2>2, Invites!LetInStep
<1>6. ASSUME UNCHANGED Invites!vars PROVE Invites!LetIn
  BY <1>6 DEF Invites!vars, Invites!LetIn, Invites!Member
<1>7. WorkspaceInv /\ [Next]_vars =>
        [/\ part = "keys"    => Keys!StaysDeleted
         /\ part = "roles"   => Roles!LetIn
         /\ part = "invites" => Invites!LetIn]_vars
  BY <1>1, <1>2, <1>3, <1>4, <1>5, <1>6
<1> QED BY <1>7, InitWorkspace, NextWorkspace, PTL DEF Spec, GoneStaysGone
=============================================================================
