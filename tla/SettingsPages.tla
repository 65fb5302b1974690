---------------------------- MODULE SettingsPages ----------------------------
(* The pages of workspaces, projects, members and general settings: the    *)
(* forms that change them, and the cache of answers (React Query) all of   *)
(* them read.  A form that succeeds names the queries it has changed; one  *)
(* a shown page reads is asked again at once, any other is only marked and *)
(* asked again when a page reads it.  Two fetches are not begun again: one *)
(* without any data yet, and one of a page that has been left; what they   *)
(* read before the change takes the mark away.                             *)
(*                                                                         *)
(* One workspace is looked at, with the projects made in it and one other  *)
(* member; any role but ADMIN is MEMBER here (VIEWER may do less, on the   *)
(* server alone).  A request is one step of the server, the steps of the   *)
(* routes are in AccessKeys and Membership; router.push takes no time.     *)
(* Dialogs are filled and sent in one step, but for the text that confirms *)
(* a deletion; what an answer does to an open dialog is in KeysTab.        *)
EXTENDS Naturals, FiniteSets

CONSTANTS
  Name,      \* names of workspaces and projects
  None,
  Slot,      \* requests of the forms under way
  Tours      \* bounds: the pages the user opens, the requests under way at a
             \* time, what the user does, what others do and answers lost

VARIABLES
  tour,     \* the bounds of this behaviour
  db,       \* the rows
  queries,  \* the cache: data, isInvalidated, the fetch and what it has read
  place,    \* the page shown
  draft,    \* workspaceName or projectName, and deleteConfirmText
  calls,    \* mutations under way
  acts, others,
  hist      \* history for the properties

vars == <<tour, db, queries, place, draft, calls, acts, others, hist>>

Page == {"workspaces", "projects", "general", "members", "project"}
Query == {"workspaces", "workspace", "project", "members", "invites"}
Lists == {"workspaces", "workspace"}
Who == {"me", "other"}
Role == {"ADMIN", "MEMBER"}
Project == {1, 2}                       \* 1 is the one of the project's page
Live == {p \in Project : db.projects[p] \in Name}

Tour == [pages : SUBSET Page, slots : SUBSET Slot, acts : Nat, others : Nat]
Call ==
  [op : {"rename", "delete", "create", "invite", "cancel", "role", "remove"}, page : Page,
   who : Who \union {None}, value : Name \union Role \union {None},
   st : {"asked", "ok", "error"}, here : BOOLEAN]
AnyCard ==
  [name : Name \union {None}, role : Role \union {None}, count : 0 .. 2,
   projects : SUBSET (Project \X Name)]
Answer(q) ==
  CASE q = "workspaces" -> [rows : SUBSET AnyCard, more : 0 .. 1]
    [] q = "workspace"  -> [card : AnyCard, usage : 0 .. 1]
    [] q = "project"    -> [name : Name]
    [] q = "members"    -> [role : [Who -> Role \union {None}]]
    [] q = "invites"    -> [pending : SUBSET Name]

SettingsAssumption ==
  /\ Name # {} /\ Tours \subseteq Tour
  /\ None \notin Name \union Role \union Call /\ \A q \in Query : None \notin Answer(q)

-----------------------------------------------------------------------------
(* What the routes answer.                                                 *)

Mine == db.name # None /\ db.role["me"] # None

Card ==
  [name |-> db.name, role |-> db.role["me"],
   count |-> Cardinality({w \in Who : db.role[w] # None}),
   projects |-> {<<p, db.projects[p]>> : p \in Live}]

GetWorkspaces == [rows |-> IF Mine THEN {Card} ELSE {}, more |-> db.more]
GetWorkspace == [card |-> Card, usage |-> db.usage]
GetProject == [name |-> db.projects[1]]
GetMembers == [role |-> db.role]
GetInvites == [pending |-> db.invited]

View(q) ==
  CASE q = "workspaces" -> GetWorkspaces
    [] q = "workspace"  -> GetWorkspace
    [] q = "project"    -> GetProject
    [] q = "members"    -> GetMembers
    [] q = "invites"    -> GetInvites

Allowed(q) ==
  CASE q = "workspaces" -> TRUE
    [] q = "project"    -> Mine /\ 1 \in Live
    [] q = "invites"    -> Mine /\ db.role["me"] = "ADMIN"
    [] OTHER            -> Mine

-----------------------------------------------------------------------------
(* The cache.                                                              *)

Empty == [data |-> None, marked |-> FALSE, st |-> "idle", ans |-> None]
Fetching(Q, q) == [Q[q] EXCEPT !.st = "asked", !.ans = None]

\* What each page and its breadcrumb read (useQuery, enabled).
WorkspacesPage == {"workspaces"}
ProjectsPage == {"workspace"}
GeneralTab == {"workspace"}
MembersTab == {"workspace", "members", "invites"}
ProjectTab(Q) == {"project"} \union (IF Q["project"].data = None THEN {} ELSE {"workspace"})

Reads(page, Q) ==
  CASE page = "workspaces" -> WorkspacesPage
    [] page = "projects"   -> ProjectsPage
    [] page = "general"    -> GeneralTab
    [] page = "members"    -> MembersTab
    [] page = "project"    -> ProjectTab(Q)

\* A page begins to read: refetchOnMount, when there is no data or it is stale.
Mounted(Q, page, old) ==
  [q \in Query |->
     IF /\ q \in Reads(page, Q) /\ Q[q].st = "idle"
        /\ (Q[q].data = None \/ Q[q].marked \/ old)
     THEN Fetching(Q, q) ELSE Q[q]]

\* A fetch that goes on although what it may have read has changed.
IsActive(q) == q \in Reads(place, queries)
GoesOn(q) == queries[q].st # "idle" /\ (~IsActive(q) \/ queries[q].data = None)

\* mutant: only what is shown is asked again, the rest is not marked
InvalidatedShown(qs) ==
  [q \in Query |->
     IF q \notin qs \/ queries[q] = Empty \/ GoesOn(q) \/ ~IsActive(q) THEN queries[q]
     ELSE [Fetching(queries, q) EXCEPT !.marked = TRUE]]

\* invalidateQueries
Invalidated(qs) ==
  [q \in Query |->
     IF q \notin qs \/ queries[q] = Empty THEN queries[q]
     ELSE IF GoesOn(q) \/ ~IsActive(q) THEN [queries[q] EXCEPT !.marked = TRUE]
     ELSE [Fetching(queries, q) EXCEPT !.marked = TRUE]]

Crossed(qs) == {q \in qs : queries[q].st = "read" /\ GoesOn(q)}

-----------------------------------------------------------------------------
Blank == [name |-> None, confirm |-> None]

\* The general pages show the name of their query.
Shown(page) == IF page = "general" THEN "workspace" ELSE "project"
NameIn(q, d) == IF q = "workspace" THEN d.card.name ELSE d.name

\* useEffect: the name is taken from the data when the page is mounted.
DraftOf(page, Q) ==
  IF page \notin {"general", "project"} \/ Q[Shown(page)].data = None THEN Blank
  ELSE [Blank EXCEPT !.name = NameIn(Shown(page), Q[Shown(page)].data)]

Init ==
  /\ \E r \in Role, n \in Name :
       db = [name |-> n, projects |-> [p \in Project |-> IF p = 1 THEN n ELSE None],
             role |-> [w \in Who |-> IF w = "me" THEN "ADMIN" ELSE r],
             invited |-> {}, more |-> 0, usage |-> 0]
  /\ tour \in Tours
  /\ place \in tour.pages
  \* the app is opened on this page, or every page has been seen
  /\ \/ queries = Mounted([q \in Query |-> Empty], place, TRUE)
     \/ queries = [q \in Query |-> [Empty EXCEPT !.data = View(q)]]
  /\ draft = DraftOf(place, queries)
  /\ calls = [s \in Slot |-> None]
  /\ acts = 0 /\ others = 0
  /\ hist = [behind |-> FALSE, crossed |-> {}, gaps |-> {}, eager |-> FALSE,
             wiped |-> FALSE]

Act == acts < tour.acts /\ acts' = acts + 1
Data(q) == queries[q].data
OnGeneral == place \in {"general", "project"} /\ Data(Shown(place)) # None
NameShown == NameIn(Shown(place), Data(Shown(place)))
Busy ==
  \/ \E s \in Slot : calls[s] # None
  \/ \E q \in Query : IsActive(q) /\ queries[q].st # "idle"
Eager == [hist EXCEPT !.eager = @ \/ Busy]

\* A hook knows its own request; those of a page that was left are on their own.
isPending(op) == \E s \in Slot : calls[s] # None /\ calls[s].here /\ calls[s].op = op

Ask(op, who, value) ==
  \E s \in tour.slots :
    /\ calls[s] = None
    /\ calls' = [calls EXCEPT ![s] =
         [op |-> op, page |-> place, who |-> who, value |-> value, st |-> "asked",
          here |-> TRUE]]

-----------------------------------------------------------------------------
(* The user.                                                               *)

Visit ==
  /\ Act
  /\ \E page \in tour.pages \ {place}, old \in BOOLEAN :
       /\ place' = page
       /\ queries' = Mounted(queries, page, old)
       /\ draft' = DraftOf(page, queries)
  /\ calls' = [s \in Slot |->
       IF calls[s] = None THEN None ELSE [calls[s] EXCEPT !.here = FALSE]]
  /\ UNCHANGED <<db, others, hist>>

\* The name, and what is asked to confirm a deletion, is typed in either tab.
TypeName ==
  /\ Act /\ OnGeneral
  /\ \E n \in Name \ {draft.name} : draft' = [draft EXCEPT !.name = n]
  /\ hist' = Eager
  /\ UNCHANGED <<db, queries, place, calls, others>>

handleSave(page) ==
  /\ Act /\ OnGeneral /\ place = page /\ ~isPending("rename")
  /\ draft.name \notin {None, NameShown}
  /\ Ask("rename", None, draft.name)
  /\ hist' = Eager
  /\ UNCHANGED <<db, queries, place, draft, others>>

canManage == Data("workspace") # None /\ Data("workspace").card.role = "ADMIN"

MembersShown ==
  IF Data("members") = None THEN {} ELSE {w \in Who : Data("members").role[w] # None}

\* The text is kept when the dialog is closed.  Only an admin has the button
\* in the tab of the workspace, everyone in that of the project.
TypeConfirm(page) ==
  /\ Act /\ OnGeneral /\ place = page /\ (page = "general" => canManage)
  /\ \E n \in Name \ {draft.confirm} : draft' = [draft EXCEPT !.confirm = n]
  /\ hist' = Eager
  /\ UNCHANGED <<db, queries, place, calls, others>>

handleDeleteUnchecked(page) ==  \* mutant: the text is not compared
  /\ Act /\ OnGeneral /\ place = page /\ ~isPending("delete") /\ draft.confirm # None
  /\ Ask("delete", None, draft.confirm)
  /\ hist' = Eager
  /\ UNCHANGED <<db, queries, place, draft, others>>

handleDelete(page) ==
  /\ Act /\ OnGeneral /\ place = page /\ ~isPending("delete")
  /\ draft.confirm = NameShown
  /\ Ask("delete", None, draft.confirm)
  /\ hist' = Eager
  /\ UNCHANGED <<db, queries, place, draft, others>>

handleSubmit(page) ==
  /\ Act /\ place = page /\ ~isPending("create")
  /\ \E n \in Name : Ask("create", None, n)
  /\ UNCHANGED <<db, queries, place, draft, others, hist>>

handleInviteMember ==
  /\ Act /\ place = "members" /\ canManage /\ ~isPending("invite")
  /\ \E n \in Name : Ask("invite", None, n)
  /\ UNCHANGED <<db, queries, place, draft, others, hist>>

handleUpdateRole ==
  /\ Act /\ place = "members" /\ canManage /\ ~isPending("role")
  /\ \E w \in MembersShown, r \in Role : Ask("role", w, r)
  /\ UNCHANGED <<db, queries, place, draft, others, hist>>

\* One's own row has no button for the last admin, as both answers have it.
isLastAdmin == Cardinality({w \in MembersShown : Data("members").role[w] = "ADMIN"}) <= 1

RemoveMember ==
  /\ Act /\ place = "members" /\ canManage /\ ~isPending("remove")
  /\ \E w \in MembersShown : (w = "me" => ~isLastAdmin) /\ Ask("remove", w, None)
  /\ UNCHANGED <<db, queries, place, draft, others, hist>>

CancelInvite ==
  /\ Act /\ place = "members" /\ canManage /\ ~isPending("cancel")
  /\ Data("invites") # None
  /\ \E i \in Data("invites").pending : Ask("cancel", None, i)
  /\ UNCHANGED <<db, queries, place, draft, others, hist>>

CreateWorkspaceDialog == handleSubmit("workspaces")
CreateProjectDialog == handleSubmit("projects")
WorkspaceForms == handleSave("general") \/ TypeConfirm("general") \/ handleDelete("general")
ProjectForms == handleSave("project") \/ TypeConfirm("project") \/ handleDelete("project")

-----------------------------------------------------------------------------
(* The server.                                                             *)

Admin == Mine /\ db.role["me"] = "ADMIN"
NameIsFree(n, p) == \A o \in Live \ {p} : db.projects[o] # n
AdminLeft(role) == \E w \in Who : role[w] = "ADMIN"

\* What a request does to the rows, if the routes let it.
PutWorkspace(c) == c.op = "rename" /\ Admin /\ db' = [db EXCEPT !.name = c.value]
DeleteWorkspace(c) == c.op = "delete" /\ Admin /\ db' = [db EXCEPT !.name = None]
PostWorkspace == db' = [db EXCEPT !.more = 1]

PatchProject(c) ==
  /\ c.op = "rename" /\ Admin /\ 1 \in Live /\ NameIsFree(c.value, 1)
  /\ db' = [db EXCEPT !.projects[1] = c.value]

DeleteProject(c) ==
  c.op = "delete" /\ Admin /\ 1 \in Live /\ db' = [db EXCEPT !.projects[1] = None]

PostProject(c) ==
  /\ Mine /\ 2 \notin Live /\ NameIsFree(c.value, 2)
  /\ db' = [db EXCEPT !.projects[2] = c.value]

\* PUT and DELETE of a member, POST and DELETE of an invite.
ChangeMembers(c) ==
  /\ Admin
  /\ \/ LET role == [db.role EXCEPT ![c.who] = c.value] IN
        /\ c.op \in {"role", "remove"} /\ db.role[c.who] # None /\ AdminLeft(role)
        /\ db' = [db EXCEPT !.role = role]
     \/ c.op = "invite" /\ db' = [db EXCEPT !.invited = @ \union {c.value}]
     \/ /\ c.op = "cancel" /\ c.value \in db.invited
        /\ db' = [db EXCEPT !.invited = @ \ {c.value}]

Done(c) ==
  \/ c.page = "general" /\ (PutWorkspace(c) \/ DeleteWorkspace(c))
  \/ c.page = "project" /\ (PatchProject(c) \/ DeleteProject(c))
  \/ c.page = "workspaces" /\ PostWorkspace
  \/ c.page = "projects" /\ PostProject(c)
  \/ c.page = "members" /\ ChangeMembers(c)

\* What is changed without a word to the two lists.
Gap(c) ==
  CASE c.op = "rename" /\ c.page = "project" -> {"project names"}
    [] c.op = "remove" \/ (c.op = "role" /\ c.who = "me") -> {"members"}
    [] OTHER -> {}

Else == others < tour.others /\ others' = others + 1 /\ hist' = [hist EXCEPT !.behind = TRUE]

Serve(s) ==
  /\ calls[s] # None /\ calls[s].st = "asked"
  /\ \/ /\ Done(calls[s])
        /\ calls' = [calls EXCEPT ![s].st = "ok"]
        /\ hist' = [hist EXCEPT !.gaps = @ \union Gap(calls[s])]
     \/ calls' = [calls EXCEPT ![s].st = "error"] /\ UNCHANGED <<db, hist>>
  /\ UNCHANGED <<queries, place, draft, acts, others>>

Lose(s) ==
  /\ Else
  /\ calls[s] # None /\ calls[s].st = "ok"
  /\ calls' = [calls EXCEPT ![s].st = "error"]
  /\ UNCHANGED <<db, queries, place, draft, acts>>

Failed(s) ==
  /\ calls[s] # None /\ calls[s].st = "error"
  /\ calls' = [calls EXCEPT ![s] = None]
  /\ UNCHANGED <<db, queries, place, draft, acts, others, hist>>

\* Others, and the job that writes the usage.
Elsewhere ==
  /\ Else /\ db.name # None
  /\ \/ \E n \in Name \ {db.name} : db' = [db EXCEPT !.name = n]
     \/ db' = [db EXCEPT !.usage = 1 - @]
     \/ \E r \in (Role \union {None}) \ {db.role["me"]} :
          db.role["other"] = "ADMIN" /\ db' = [db EXCEPT !.role["me"] = r]
     \/ 1 \in Live /\ db' = [db EXCEPT !.projects[1] = None]
  /\ UNCHANGED <<queries, place, draft, calls, acts>>

-----------------------------------------------------------------------------
(* onSuccess.                                                              *)

\* The queries a form invalidates.
ChangedByGeneral(op) == IF op = "rename" THEN Lists ELSE {"workspaces"}
ChangedByProject(op) == IF op = "rename" THEN {"project"} ELSE Lists
ChangedByMembers(op) == IF op \in {"role", "remove"} THEN {"members"} ELSE {"invites"}
ChangedByNewProject == Lists
ChangedByNewWorkspace == {"workspaces"}

Changed(c) ==
  CASE c.page = "general"    -> ChangedByGeneral(c.op)
    [] c.page = "project"    -> ChangedByProject(c.op)
    [] c.page = "members"    -> ChangedByMembers(c.op)
    [] c.page = "projects"   -> ChangedByNewProject
    [] c.page = "workspaces" -> ChangedByNewWorkspace

Succeeds(s) ==
  /\ calls[s] # None /\ calls[s].st = "ok"
  /\ calls' = [calls EXCEPT ![s] = None]

Saved(s) ==
  /\ Succeeds(s) /\ calls[s].op # "delete"
  /\ queries' = Invalidated(Changed(calls[s]))
  /\ hist' = [hist EXCEPT !.crossed = @ \union Crossed(Changed(calls[s]))]
  /\ UNCHANGED <<db, place, draft, acts, others>>

\* The page of what was deleted is left, if the user has not left it before.
Gone(s) ==
  LET c == calls[s] IN
  LET page == IF c.page = "general" THEN "workspaces" ELSE "projects" IN
  /\ Succeeds(s) /\ c.op = "delete"
  /\ place' = page
  /\ queries' = LET Q == Invalidated(Changed(c)) IN
                IF page = place THEN Q ELSE Mounted(Q, page, FALSE)
  /\ draft' = IF page = place THEN draft ELSE Blank
  /\ hist' = [hist EXCEPT !.crossed = @ \union Crossed(Changed(c))]
  /\ UNCHANGED <<db, acts, others>>

-----------------------------------------------------------------------------
(* The queries.                                                            *)

Read(q) ==
  /\ queries[q].st = "asked" /\ Allowed(q)
  /\ queries' = [queries EXCEPT ![q].st = "read", ![q].ans = View(q)]
  /\ UNCHANGED <<db, place, draft, calls, acts, others, hist>>

\* The data stays, and so does the mark.
ReadFails(q) ==
  /\ queries[q].st = "asked"
  /\ queries' = [queries EXCEPT ![q].st = "idle"]
  /\ Else \/ (~Allowed(q) /\ UNCHANGED <<others, hist>>)
  /\ UNCHANGED <<db, place, draft, calls, acts>>

ShowsName(q) == place \in {"general", "project"} /\ q = Shown(place)
HasEffectAlways(q) == ShowsName(q)  \* mutant: every answer sets the name
\* The effect on [workspace], [project]: equal data is the same data
\* (structural sharing).
HasEffect(q) == ShowsName(q) /\ queries[q].ans # Data(q)

Settle(q) ==
  LET old == Data(q)
      new == queries[q].ans
      Q == [queries EXCEPT ![q] = [Empty EXCEPT !.data = new]] IN
  /\ queries[q].st = "read"
  /\ queries' = IF q = "project" /\ old = None THEN Mounted(Q, place, FALSE) ELSE Q
  /\ draft' = IF HasEffect(q) THEN [draft EXCEPT !.name = NameIn(q, new)] ELSE draft
  /\ hist' = [hist EXCEPT !.wiped = @ \/
       (HasEffect(q) /\ old # None /\ draft.name \notin {NameIn(q, old), NameIn(q, new)})]
  /\ UNCHANGED <<db, place, calls, acts, others>>

\* The window gets the focus after the answers have become old (staleTime).
Refocus ==
  /\ Act
  /\ queries' = Mounted(queries, place, TRUE) /\ queries' # queries
  /\ UNCHANGED <<db, place, draft, calls, others, hist>>

Next ==
  /\ UNCHANGED tour
  /\ \/ Visit \/ TypeName \/ WorkspaceForms \/ ProjectForms
     \/ CreateWorkspaceDialog \/ CreateProjectDialog
     \/ handleInviteMember \/ CancelInvite \/ handleUpdateRole \/ RemoveMember
     \/ Elsewhere \/ Refocus
     \/ \E s \in Slot : Serve(s) \/ Lose(s) \/ Failed(s) \/ Saved(s) \/ Gone(s)
     \/ \E q \in Query : Read(q) \/ ReadFails(q) \/ Settle(q)

Spec == Init /\ [][Next]_vars

-----------------------------------------------------------------------------
(* Properties.                                                             *)

TypeOK ==
  /\ db \in [name : Name \union {None}, projects : [Project -> Name \union {None}],
            role : [Who -> Role \union {None}], invited : SUBSET Name,
            more : 0 .. 1, usage : 0 .. 1]
  /\ \A q \in Query :
       /\ queries[q].st \in {"idle", "asked", "read"} /\ queries[q].marked \in BOOLEAN
       /\ Data(q) \in Answer(q) \union {None}
       /\ queries[q].ans \in (IF queries[q].st = "read" THEN Answer(q) ELSE {None})
  /\ calls \in [Slot -> Call \union {None}]
  /\ draft \in [name : Name \union {None}, confirm : Name \union {None}]
  /\ place \in tour.pages \union {"workspaces", "projects"}

\* At rest an answer that is not marked is what the route would answer now,
\* but for what others did, for a fetch that crossed a change, and for two
\* things the forms say nothing of: a renamed project keeps its old name in
\* the lists of projects, and the lists of workspaces keep the user's role
\* and the number of members.  (invalidateQueries)
SameCard(c, d) ==
  /\ c.name = d.name
  /\ IF "project names" \in hist.gaps
     THEN {p[1] : p \in c.projects} = {p[1] : p \in d.projects} ELSE c.projects = d.projects
  /\ "members" \notin hist.gaps => c.role = d.role /\ c.count = d.count

Current(q, d) ==
  CASE q = "workspaces" ->
         /\ d.more = db.more
         /\ IF Mine THEN \E c \in d.rows : SameCard(c, Card)
            ELSE "members" \in hist.gaps \/ d.rows = {}
    [] q = "workspace" -> SameCard(d.card, Card)
    [] OTHER -> d = View(q)

CacheIsCurrent ==
  /\ \A s \in Slot : calls[s] = None
  /\ \A q \in Query : queries[q].st = "idle"
  /\ ~hist.behind
  => \A q \in Query \ hist.crossed :
       Data(q) # None /\ ~queries[q].marked /\ Allowed(q) => Current(q, Data(q))

\* What the user has typed is only replaced by an answer if it was
\* begun while another was awaited, or if the answer brings what others did
\* or what no form had asked again.  (useEffect)
TypingIsKept ==
  hist.wiped => hist.eager \/ hist.behind \/ hist.gaps # {} \/ hist.crossed # {}

\* A deletion that is done hits a workspace or project of the name that was
\* typed, unless that name was old: others renamed it, or the user began
\* before the page had seen the last change.  (deleteConfirmText)
DeletesWhatWasTyped ==
  \A s \in Slot :
    /\ calls[s] # None /\ calls[s].op = "delete" /\ db' # db /\ calls'[s] # calls[s]
    /\ ~hist.behind /\ ~hist.eager /\ hist.crossed = {}
    => calls[s].value = IF calls[s].page = "general" THEN db.name ELSE db.projects[1]
=============================================================================
