----------------------------- MODULE AccessKeys -----------------------------
(***************************************************************************)
(* One workspace: its projects, its API keys, the dashboard routes that    *)
(* change them and the two internal routes that decide who may write and   *)
(* who may read.  Every await of a route is a step of its own: a route     *)
(* reads, checks and only then writes, and nothing holds a lock between.   *)
(*                                                                         *)
(* Names and ids are model values, an expiry is a flag an environment      *)
(* action raises, a key's own name and a project's retention are left out. *)
(* The role of a user changes by the routes of module Membership, which    *)
(* appear here as SetRole; the block flag changes by the billing worker.   *)
(***************************************************************************)
EXTENDS Naturals, FiniteSets

CONSTANTS
  Call,        (* requests to the routes                                   *)
  User, Project, Key, Name,
  FirstProject, FirstKey, FirstName,  (* what exists at the start          *)
  MaxChanges   (* bound: role changes, block changes and expiries          *)

AccessKeysAssumption ==
  /\ FirstProject \in Project /\ FirstKey \in Key /\ FirstName \in Name
  /\ MaxChanges \in Nat

Role == {"NONE", "VIEWER", "MEMBER", "ADMIN"}
Rank == [NONE |-> 0, VIEWER |-> 1, MEMBER |-> 2, ADMIN |-> 3]

(* The routes and the role each asks for ("ingest" asks for a key).        *)
Needs == [createProject |-> "MEMBER", renameProject |-> "ADMIN",
          deleteProject |-> "ADMIN", createKey |-> "MEMBER",
          deleteKey |-> "ADMIN", deleteWorkspace |-> "ADMIN",
          read |-> "VIEWER", ingest |-> "NONE"]
Op == DOMAIN Needs

VARIABLES
  workspace, (* "live" or "gone"                                           *)
  project,   (* per id: its state and its name                             *)
  key,       (* per id: its state, project and whether it has expired      *)
  role,      (* per user: role in the workspace                            *)
  blocked,   (* workspace.ingestionBlocked                                 *)
  call,      (* per request: route, arguments, progress or answer          *)
  past,      (* per request, for the properties: what was so while it ran  *)
  changes    (* role changes, block changes and expiries so far            *)

store == <<workspace, project, key>>
vars == <<workspace, project, key, role, blocked, call, past, changes>>

Progress == {"new", "begun", "found", "authorised", "exists", "unique"}
Answer   == {"200", "401", "403", "404", "409", "500", "503"}

Live(p)   == project[p].st = "live"
Usable(k) == key[k].st = "active" /\ Live(key[k].project) /\ ~key[k].expired
May(u, op) == Rank[role[u]] >= Rank[Needs[op]]

Running(c) == call[c].st \in Progress \ {"new"}

Init ==
  /\ workspace = "live"
  /\ project = [p \in Project |-> [st   |-> IF p = FirstProject THEN "live" ELSE "unused",
                                   name |-> FirstName]]
  /\ key = [k \in Key |-> [st |-> IF k = FirstKey THEN "active" ELSE "unused",
                           project |-> FirstProject, expired |-> FALSE]]
  /\ role = [u \in User |-> "ADMIN"]
  /\ blocked = FALSE
  /\ \E u \in User :
       call = [c \in Call |-> [op |-> "read", user |-> u, project |-> FirstProject,
                              key |-> FirstKey, name |-> FirstName,
                              st |-> "new", blocked |-> FALSE]]
  /\ past = [c \in Call |-> [dead |-> FALSE, could |-> FALSE, flags |-> {},
                             met |-> {}]]
  /\ changes = 0

-----------------------------------------------------------------------------
(* Requests.  past[c] keeps whether the key was dead when c arrived,       *)
(* whether the user had the role at some moment since then, the values of  *)
(* the block flag, and the requests that overlapped.                       *)

Go(c, st) == call' = [call EXCEPT ![c].st = st]

(* The arguments a route takes; the others keep a fixed value.  A key that *)
(* nobody was given yet is never sent.                                     *)
Arguments(op) ==
  [op : {op}, user : User, st : {"begun"}, blocked : {FALSE},
   project : IF op \in {"createProject", "deleteWorkspace", "ingest"}
             THEN {FirstProject} ELSE {p \in Project : project[p].st # "unused"},
   key : IF op \in {"deleteKey", "ingest"}
         THEN {k \in Key : key[k].st # "unused"} ELSE {FirstKey},
   name : IF op \in {"createProject", "renameProject"} THEN Name ELSE {FirstName}]

Arrive(c) ==
  /\ call[c].st = "new"
  /\ \E op \in Op : \E a \in Arguments(op) :
       /\ call' = [call EXCEPT ![c] = a]
       /\ past' = [d \in Call |->
            IF d = c THEN [dead  |-> ~Usable(a.key), could |-> May(a.user, op),
                           flags |-> {blocked}, met |-> {e \in Call : Running(e)}]
            ELSE IF Running(d) THEN [past[d] EXCEPT !.met = @ \cup {c}] ELSE past[d]]
  /\ UNCHANGED <<store, role, blocked, changes>>

Reads == UNCHANGED <<store, role, blocked, past, changes>>

(* requireProjectAccess and validate-project-access look the project up    *)
(* before the membership; the project routes after it.                     *)
ViaProject == {"createKey", "deleteKey", "read"}

FindProject(c) ==
  /\ call[c].op \in ViaProject /\ call[c].st = "begun"
  /\ Go(c, IF Live(call[c].project) THEN "found" ELSE "404")
  /\ Reads

FindMembershipOnly(c) ==  \* mutant: any membership will do
  /\ call[c].op # "ingest"
  /\ call[c].st = IF call[c].op \in ViaProject THEN "found" ELSE "begun"
  /\ Go(c, IF role[call[c].user] = "NONE" THEN "403"
           ELSE IF call[c].op = "read" THEN "200" ELSE "authorised")
  /\ Reads

FindMembership(c) ==
  /\ call[c].op # "ingest"
  /\ call[c].st = IF call[c].op \in ViaProject THEN "found" ELSE "begun"
  /\ Go(c, IF ~May(call[c].user, call[c].op) THEN "403"
           ELSE IF call[c].op = "read" THEN "200" ELSE "authorised")
  /\ Reads

(* findFirst of the row to change; a project that keeps its name skips the *)
(* duplicate check.                                                        *)
FindExisting(c) ==
  /\ call[c].st = "authorised"
  /\ \/ /\ call[c].op = "deleteProject"
        /\ Go(c, IF Live(call[c].project) THEN "exists" ELSE "404")
     \/ /\ call[c].op = "renameProject"
        /\ Go(c, IF ~Live(call[c].project) THEN "404"
                 ELSE IF project[call[c].project].name = call[c].name THEN "unique"
                 ELSE "exists")
     \/ /\ call[c].op = "deleteKey"
        /\ Go(c, IF /\ key[call[c].key].st = "active"
                    /\ key[call[c].key].project = call[c].project
                 THEN "exists" ELSE "404")
  /\ Reads

TakenByDeleted(n, others) ==  \* mutant: the deleteTime filter is the wrong way round
  \E p \in others : project[p].st = "deleted" /\ project[p].name = n
Taken(n, others) == \E p \in others : Live(p) /\ project[p].name = n

FindDuplicate(c) ==
  /\ \/ /\ call[c].op = "createProject" /\ call[c].st = "authorised"
        /\ Go(c, IF Taken(call[c].name, Project) THEN "409" ELSE "unique")
     \/ /\ call[c].op = "renameProject" /\ call[c].st = "exists"
        /\ Go(c, IF Taken(call[c].name, Project \ {call[c].project}) THEN "409"
                 ELSE "unique")
  /\ Reads

-----------------------------------------------------------------------------
(* The writes.  Foreign keys and a missing row make Prisma throw: 500.     *)

Writes == UNCHANGED <<blocked, past, changes>>

CreateProject(c) ==
  /\ call[c].op = "createProject" /\ call[c].st = "unique"
  /\ \/ /\ workspace = "live"
        /\ \E p \in Project :
             /\ project[p].st = "unused"
             /\ project' = [project EXCEPT ![p] = [st |-> "live", name |-> call[c].name]]
             /\ call' = [call EXCEPT ![c].st = "200", ![c].project = p]
     \/ workspace = "gone" /\ Go(c, "500") /\ UNCHANGED project
  /\ UNCHANGED <<workspace, key, role>> /\ Writes

RenameRestores(c) ==  \* mutant: the row read earlier is written back whole
  /\ call[c].op = "renameProject" /\ call[c].st = "unique"
  /\ project[call[c].project].st # "gone"
  /\ project' = [project EXCEPT ![call[c].project] = [st |-> "live", name |-> call[c].name]]
  /\ Go(c, "200")
  /\ UNCHANGED <<workspace, key, role>> /\ Writes

(* update by id alone: it also renames a project deleted meanwhile.        *)
RenameProject(c) ==
  /\ call[c].op = "renameProject" /\ call[c].st = "unique"
  /\ \/ /\ project[call[c].project].st # "gone"
        /\ project' = [project EXCEPT ![call[c].project].name = call[c].name]
        /\ Go(c, "200")
     \/ project[call[c].project].st = "gone" /\ Go(c, "500") /\ UNCHANGED project
  /\ UNCHANGED <<workspace, key, role>> /\ Writes

(* Soft: deleteTime is set, the keys stay.                                 *)
DeleteProject(c) ==
  /\ call[c].op = "deleteProject" /\ call[c].st = "exists"
  /\ \/ /\ project[call[c].project].st # "gone"
        /\ project' = [project EXCEPT ![call[c].project].st = "deleted"]
        /\ Go(c, "200")
     \/ project[call[c].project].st = "gone" /\ Go(c, "500") /\ UNCHANGED project
  /\ UNCHANGED <<workspace, key, role>> /\ Writes

(* The project may have been soft-deleted since it was found.              *)
CreateKey(c) ==
  /\ call[c].op = "createKey" /\ call[c].st = "authorised"
  /\ \/ /\ project[call[c].project].st # "gone"
        /\ \E k \in Key :
             /\ key[k].st = "unused"
             /\ key' = [key EXCEPT ![k] = [st |-> "active", project |-> call[c].project,
                                           expired |-> FALSE]]
             /\ call' = [call EXCEPT ![c].st = "200", ![c].key = k]
     \/ project[call[c].project].st = "gone" /\ Go(c, "500") /\ UNCHANGED key
  /\ UNCHANGED <<workspace, project, role>> /\ Writes

DeleteKeySoftly(c) ==  \* mutant: the key is only marked
  /\ call[c].op = "deleteKey" /\ call[c].st = "exists"
  /\ key' = [key EXCEPT ![call[c].key].st = "revoked"]
  /\ Go(c, "200")
  /\ UNCHANGED <<workspace, project, role>> /\ Writes

DeleteKey(c) ==
  /\ call[c].op = "deleteKey" /\ call[c].st = "exists"
  /\ \/ /\ key[call[c].key].st = "active"
        /\ key' = [key EXCEPT ![call[c].key].st = "deleted"]
        /\ Go(c, "200")
     \/ key[call[c].key].st # "active" /\ Go(c, "500") /\ UNCHANGED key
  /\ UNCHANGED <<workspace, project, role>> /\ Writes

(* Hard: projects, keys and memberships go with it (onDelete: Cascade).    *)
DeleteWorkspace(c) ==
  /\ call[c].op = "deleteWorkspace" /\ call[c].st = "authorised"
  /\ \/ /\ workspace = "live"
        /\ workspace' = "gone"
        /\ project' = [p \in Project |->
             IF project[p].st = "unused" THEN project[p] ELSE [project[p] EXCEPT !.st = "gone"]]
        /\ key' = [k \in Key |->
             IF key[k].st = "active" THEN [key[k] EXCEPT !.st = "deleted"] ELSE key[k]]
        /\ role' = [u \in User |-> "NONE"]
        /\ Go(c, "200")
     \/ workspace = "gone" /\ Go(c, "500") /\ UNCHANGED <<store, role>>
  /\ Writes

-----------------------------------------------------------------------------
(* validate-api-key as authenticate_api_key uses it: one findUnique with   *)
(* the project and the workspace, then the update of lastUseTime, which    *)
(* throws when the key is gone by then: 500 there, 503 to the SDK.         *)

LookUpKeyOnly(c) ==  \* mutant: deleteTime of the project is not looked at
  /\ call[c].op = "ingest" /\ call[c].st = "begun"
  /\ call' = [call EXCEPT
       ![c].st = IF key[call[c].key].st = "active" /\ ~key[call[c].key].expired
                 THEN "found" ELSE "401",
       ![c].blocked = blocked]
  /\ Reads

LookUpKey(c) ==
  /\ call[c].op = "ingest" /\ call[c].st = "begun"
  /\ call' = [call EXCEPT ![c].st = IF Usable(call[c].key) THEN "found" ELSE "401",
                          ![c].blocked = blocked]
  /\ Reads

TouchForgets(c) ==  \* mutant: the answer is built without the flag
  /\ call[c].op = "ingest" /\ call[c].st = "found"
  /\ call' = [call EXCEPT ![c].st = IF key[call[c].key].st = "active" THEN "200" ELSE "503",
                          ![c].blocked = FALSE]
  /\ Reads

Touch(c) ==
  /\ call[c].op = "ingest" /\ call[c].st = "found"
  /\ Go(c, IF key[call[c].key].st = "active" THEN "200" ELSE "503")
  /\ Reads

(* The UI does not answer in time or answers an error.                     *)
AuthUnavailable(c) ==
  /\ call[c].op \in {"ingest", "read"} /\ Running(c)
  /\ Go(c, "503")
  /\ Reads

-----------------------------------------------------------------------------
(* The rest of the system.                                                 *)

Change == changes < MaxChanges /\ changes' = changes + 1

SetRole(u, r) ==
  /\ workspace = "live" /\ Change
  /\ r # role[u]
  /\ role' = [role EXCEPT ![u] = r]
  /\ past' = [c \in Call |-> [past[c] EXCEPT !.could = @ \/
       (Running(c) /\ call[c].user = u /\ Rank[r] >= Rank[Needs[call[c].op]])]]
  /\ UNCHANGED <<store, blocked, call>>

SetBlocked ==
  /\ workspace = "live" /\ Change
  /\ blocked' = ~blocked
  /\ past' = [c \in Call |->
       IF Running(c) THEN [past[c] EXCEPT !.flags = @ \cup {~blocked}] ELSE past[c]]
  /\ UNCHANGED <<store, role, call>>

Expire(k) ==
  /\ key[k].st = "active" /\ ~key[k].expired /\ Change
  /\ key' = [key EXCEPT ![k].expired = TRUE]
  /\ UNCHANGED <<workspace, project, role, blocked, call, past>>

Handle(c) ==
  \/ FindProject(c) \/ FindMembership(c) \/ FindExisting(c) \/ FindDuplicate(c)
  \/ CreateProject(c) \/ RenameProject(c) \/ DeleteProject(c)
  \/ CreateKey(c) \/ DeleteKey(c) \/ DeleteWorkspace(c)
  \/ LookUpKey(c) \/ Touch(c) \/ AuthUnavailable(c)

Next ==
  \/ \E c \in Call : Arrive(c) \/ Handle(c)
  \/ \E u \in User, r \in Role : SetRole(u, r)
  \/ SetBlocked
  \/ \E k \in Key : Expire(k)

Spec == Init /\ [][Next]_vars

-----------------------------------------------------------------------------
(* Properties.                                                             *)

TypeOK ==
  /\ workspace \in {"live", "gone"}
  /\ project \in [Project -> [st : {"unused", "live", "deleted", "gone"}, name : Name]]
  /\ key \in [Key -> [st : {"unused", "active", "deleted"}, project : Project,
                      expired : BOOLEAN]]
  /\ role \in [User -> Role]
  /\ blocked \in BOOLEAN
  /\ call \in [Call -> [op : Op, user : User, project : Project, key : Key,
                        name : Name, st : Progress \cup Answer, blocked : BOOLEAN]]
  /\ past \in [Call -> [dead : BOOLEAN, could : BOOLEAN, flags : SUBSET BOOLEAN,
                        met : SUBSET Call]]
  /\ changes \in Nat

(* validate-api-key: a key that was deleted or expired, or whose project   *)
(* was deleted, before the request arrived opens nothing, whatever creates *)
(* and renames were under way when it died.                                *)
DeadKeyIsRefused ==
  \A c \in Call : call[c].op = "ingest" /\ call[c].st = "200" => ~past[c].dead

(* The block flag a granted request carries to /public/traces is one the   *)
(* workspace had while the request ran, never an older one.                *)
BlockIsCurrent ==
  \A c \in Call : call[c].op = "ingest" /\ call[c].st = "200" =>
    call[c].blocked \in past[c].flags

(* No route succeeds for a user who never had the role it asks for while   *)
(* the request ran: a demotion before it arrives is always noticed.        *)
RoleIsChecked ==
  \A c \in Call : call[c].op # "ingest" /\ call[c].st = "200" => past[c].could

(* What a request may do is decided by what was so while it ran: its key,  *)
(* the block flag, the role of its user.                                   *)
AccessIsChecked == DeadKeyIsRefused /\ BlockIsCurrent /\ RoleIsChecked

(* A soft-deleted project never comes back and a deleted key never opens   *)
(* again, however late a concurrent rename or create writes.               *)
StaysDeleted ==
  /\ \A p \in Project : project[p].st = "deleted" => project'[p].st \in {"deleted", "gone"}
  /\ \A k \in Key : key[k].st = "deleted" => key'[k].st = "deleted"

Renamer(c, p) ==
  call[c].op \in {"createProject", "renameProject"} /\ call[c].st = "200"
  /\ call[c].project = p
Twins(p, q) == p # q /\ Live(p) /\ Live(q) /\ project[p].name = project[q].name

(* Two live projects share a name only when the requests that named them   *)
(* overlapped: handled one after the other, the duplicate check suffices.  *)
TwinsNeedOverlap ==
  \A p, q \in Project : Twins(p, q) =>
    \E c, d \in Call : Renamer(c, p) /\ Renamer(d, q) /\ d \in past[c].met
=============================================================================
