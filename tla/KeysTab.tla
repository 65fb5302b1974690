------------------------------ MODULE KeysTab ------------------------------
(* The tab that makes, renames and deletes a project's API keys            *)
(* (AccessKeysTab.tsx).  A new key is shown once, in a box that the next   *)
(* one takes over.  Every kind of request has one hook (useMutation) that  *)
(* knows whether the LAST request of its kind is pending; what the hook    *)
(* does on success, it does for each of them, whatever is open by then.    *)
(*                                                                         *)
(* What the routes check is in AccessKeys; here a request is done or       *)
(* refused.  A secret is the id of its key.                                *)
EXTENDS Naturals, FiniteSets

CONSTANTS
  Name,
  Word,      \* "delete", what is typed for a key without a name
  None,
  MaxKey,    \* bound: keys ever made
  MaxStep    \* bound: what the user does

VARIABLES
  stored,    \* the key table: a name, None (no name), "unused" or "gone"
  list,      \* the query's data
  fetch,     \* the refetch, and the rows it has read
  creating,  \* showCreateDialog, newKeyName
  box,       \* newKeyData: whose secret is on the screen
  editing,   \* editingKey
  deleting,  \* keyToDelete and deleteConfirmText
  calls,     \* the requests under way, two at most
  hist,      \* history for the properties
  steps

vars == <<stored, list, fetch, creating, box, editing, deleting, calls, hist, steps>>

Id == 1 .. MaxKey
Slot == {1, 2}
Rows(t) == {k \in Id : t[k] \notin {"unused", "gone"}}
Note == Name \union {None}
Request ==
  [op : {"create", "rename", "delete"}, id : 0 .. MaxKey, name : Note,
   st : {"asked", "ok", "error"}, last : BOOLEAN, box : 0 .. MaxKey]

KeysTabAssumption ==
  /\ None \notin Name \union {Word, "unused", "gone"} \union Request
  /\ Word \notin Name /\ Name \intersect {"unused", "gone"} = {}
  /\ MaxKey \in Nat \ {0} /\ MaxStep \in Nat

Closed == [id |-> 0, name |-> None]

Init ==
  /\ stored = [k \in Id |-> IF k = 1 THEN None ELSE "unused"]
  /\ list = stored /\ fetch = [st |-> "idle", rows |-> None]
  /\ creating = [open |-> FALSE, name |-> None] /\ box = 0 /\ editing = Closed
  /\ deleting = [id |-> 0, name |-> None, text |-> None]
  /\ calls = [s \in Slot |-> None]
  /\ hist = [typedFor |-> 0, twice |-> FALSE, wentOn |-> FALSE, behind |-> FALSE,
             unseen |-> FALSE, wiped |-> FALSE]
  /\ steps = 0

Act == steps < MaxStep /\ steps' = steps + 1

UnderWay(op) == {s \in Slot : calls[s] # None /\ calls[s].op = op}
isPending(op) == \E s \in UnderWay(op) : calls[s].last

\* The user does not wait for the answer.
WentOn(op) == [hist EXCEPT !.wentOn = @ \/ UnderWay(op) # {}]

\* mutate.  The hook now watches this request.
Ask(op, id, name) ==
  \E s \in Slot :
    /\ calls[s] = None
    /\ calls' = [t \in Slot |->
         IF t = s THEN [op |-> op, id |-> id, name |-> name, st |-> "asked", last |-> TRUE,
                        box |-> box]
         ELSE IF t \in UnderWay(op) THEN [calls[t] EXCEPT !.last = FALSE] ELSE calls[t]]

-----------------------------------------------------------------------------
(* The dialog that makes a key, and its box.                               *)

OpenCreate ==
  /\ Act /\ ~creating.open /\ editing.id = 0 /\ deleting.id = 0
  /\ creating' = [creating EXCEPT !.open = TRUE]
  /\ UNCHANGED <<stored, list, fetch, box, editing, deleting, calls, hist>>

\* Cancel keeps the name that was typed.
CancelCreate ==
  /\ Act /\ creating.open
  /\ creating' = [creating EXCEPT !.open = FALSE]
  /\ hist' = WentOn("create")
  /\ UNCHANGED <<stored, list, fetch, box, editing, deleting, calls>>

TypeName ==
  /\ Act /\ creating.open
  /\ \E n \in (Name \union {None}) \ {creating.name} : creating' = [creating EXCEPT !.name = n]
  /\ hist' = WentOn("create")
  /\ UNCHANGED <<stored, list, fetch, box, editing, deleting, calls>>

handleCreateAnyTime ==  \* mutant: the button is not disabled while a request is pending
  /\ Act /\ creating.open
  /\ Ask("create", 0, creating.name)
  /\ UNCHANGED <<stored, list, fetch, creating, box, editing, deleting, hist>>

\* The button waits for the last request; the Enter key does not.
handleCreate ==
  /\ Act /\ creating.open
  /\ Ask("create", 0, creating.name)
  /\ hist' = [hist EXCEPT !.twice = @ \/ isPending("create")]
  /\ UNCHANGED <<stored, list, fetch, creating, box, editing, deleting>>

handleCloseNewKey ==
  /\ Act /\ box # 0
  /\ box' = 0
  /\ UNCHANGED <<stored, list, fetch, creating, editing, deleting, calls, hist>>

-----------------------------------------------------------------------------
(* The dialog that renames a key.                                          *)

OpenEdit ==
  /\ Act /\ editing.id = 0 /\ deleting.id = 0 /\ ~creating.open
  /\ \E k \in Rows(list) : editing' = [id |-> k, name |-> list[k]]
  /\ UNCHANGED <<stored, list, fetch, creating, box, deleting, calls, hist>>

TypeNote ==
  /\ Act /\ editing.id # 0
  /\ \E n \in (Name \union {None}) \ {editing.name} : editing' = [editing EXCEPT !.name = n]
  /\ hist' = WentOn("rename")
  /\ UNCHANGED <<stored, list, fetch, creating, box, deleting, calls>>

CancelEdit ==
  /\ Act /\ editing.id # 0
  /\ editing' = Closed
  /\ hist' = WentOn("rename")
  /\ UNCHANGED <<stored, list, fetch, creating, box, deleting, calls>>

handleSaveNote ==
  /\ Act /\ editing.id # 0
  /\ Ask("rename", editing.id, editing.name)
  /\ hist' = [hist EXCEPT !.twice = @ \/ isPending("rename")]
  /\ UNCHANGED <<stored, list, fetch, creating, box, editing, deleting>>

-----------------------------------------------------------------------------
(* The dialog that deletes a key.  The key it shows is the row as it was.  *)

\* mutant: opening keeps the text, as Cancel does
OpenDeleteKeepsText ==
  /\ Act /\ deleting.id = 0 /\ editing.id = 0 /\ ~creating.open /\ ~isPending("delete")
  /\ \E k \in Rows(list) : deleting' = [id |-> k, name |-> list[k], text |-> deleting.text]
  /\ hist' = [hist EXCEPT !.typedFor = 0]
  /\ UNCHANGED <<stored, list, fetch, creating, box, editing, calls>>

OpenDelete ==
  /\ Act /\ deleting.id = 0 /\ editing.id = 0 /\ ~creating.open /\ ~isPending("delete")
  /\ \E k \in Rows(list) : deleting' = [id |-> k, name |-> list[k], text |-> None]
  /\ hist' = [hist EXCEPT !.typedFor = 0]
  /\ UNCHANGED <<stored, list, fetch, creating, box, editing, calls>>

TypeConfirm ==
  /\ Act /\ deleting.id # 0
  /\ \E w \in (Name \union {Word}) \ {deleting.text} : deleting' = [deleting EXCEPT !.text = w]
  /\ hist' = [hist EXCEPT !.typedFor = deleting.id]
  /\ UNCHANGED <<stored, list, fetch, creating, box, editing, calls>>

\* Cancel keeps the text; Escape and a click outside clear it.
CancelDelete ==
  /\ Act /\ deleting.id # 0
  /\ \/ deleting' = [id |-> 0, name |-> None, text |-> deleting.text]
     \/ deleting' = [id |-> 0, name |-> None, text |-> None]
  /\ hist' = WentOn("delete")
  /\ UNCHANGED <<stored, list, fetch, creating, box, editing, calls>>

ConfirmDelete ==
  /\ Act /\ deleting.id # 0 /\ ~isPending("delete")
  /\ deleting.text = IF deleting.name = None THEN Word ELSE deleting.name
  /\ Ask("delete", deleting.id, None)
  /\ UNCHANGED <<stored, list, fetch, creating, box, editing, deleting, hist>>

-----------------------------------------------------------------------------
(* Requests and the query.                                                 *)

IsFresh(k) == stored[k] = "unused" /\ \A j \in Id : stored[j] = "unused" => k <= j

\* A request that finds its key is done; any may be refused.  The keys left
\* bound those that are made.
Serve(s) ==
  LET c == calls[s] IN
  /\ c # None /\ c.st = "asked"
  /\ \/ /\ c.op = "create"
        /\ \E k \in Id : /\ IsFresh(k) /\ stored' = [stored EXCEPT ![k] = c.name]
                         /\ calls' = [calls EXCEPT ![s].st = "ok", ![s].id = k]
     \/ /\ c.op # "create" /\ c.id \in Rows(stored)
        /\ stored' = [stored EXCEPT ![c.id] = IF c.op = "rename" THEN c.name ELSE "gone"]
        /\ calls' = [calls EXCEPT ![s].st = "ok"]
     \/ calls' = [calls EXCEPT ![s].st = "error"] /\ UNCHANGED stored
  /\ UNCHANGED <<list, fetch, creating, box, editing, deleting, hist, steps>>

\* The answer of a request that was done is lost.
Lose(s) ==
  /\ calls[s] # None /\ calls[s].st = "ok"
  /\ calls' = [calls EXCEPT ![s].st = "error"]
  /\ hist' = [hist EXCEPT !.behind = TRUE]
  /\ UNCHANGED <<stored, list, fetch, creating, box, editing, deleting, steps>>

\* An error leaves everything as it is.
Failed(s) ==
  /\ calls[s] # None /\ calls[s].st = "error"
  /\ calls' = [calls EXCEPT ![s] = None]
  /\ UNCHANGED <<stored, list, fetch, creating, box, editing, deleting, hist, steps>>

\* invalidateQueries: a refetch under way is given up for a new one.
Invalidated == [st |-> "asked", rows |-> None]

Succeeds(s, op) ==
  /\ calls[s] # None /\ calls[s].st = "ok" /\ calls[s].op = op
  /\ calls' = [calls EXCEPT ![s] = None]

\* The secret on the screen gives way to the new one.  It came there after
\* this key was asked for if it is not the one that was there then.
Created(s) ==
  /\ Succeeds(s, "create")
  /\ fetch' = Invalidated
  /\ box' = calls[s].id /\ creating' = [open |-> FALSE, name |-> None]
  /\ hist' = [hist EXCEPT
       !.unseen = @ \/ box \notin {0, calls[s].box},
       !.wiped = @ \/ (creating.open /\ creating.name # calls[s].name)]
  /\ UNCHANGED <<stored, list, editing, deleting, steps>>

RenamedNoRefetch(s) ==  \* mutant: the query is not invalidated
  /\ Succeeds(s, "rename")
  /\ editing' = Closed
  /\ UNCHANGED <<stored, list, fetch, creating, box, deleting, hist, steps>>

Renamed(s) ==
  /\ Succeeds(s, "rename")
  /\ fetch' = Invalidated /\ editing' = Closed
  /\ hist' = [hist EXCEPT
       !.wiped = @ \/ editing \notin {Closed, [id |-> calls[s].id, name |-> calls[s].name]}]
  /\ UNCHANGED <<stored, list, creating, box, deleting, steps>>

Deleted(s) ==
  /\ Succeeds(s, "delete")
  /\ fetch' = Invalidated /\ deleting' = [id |-> 0, name |-> None, text |-> None]
  /\ hist' = [hist EXCEPT !.wiped = @ \/ deleting.id \notin {0, calls[s].id}]
  /\ UNCHANGED <<stored, list, creating, box, editing, steps>>

Refetch ==
  /\ \/ fetch.st = "idle" /\ fetch' = Invalidated /\ UNCHANGED list  \* the window is focused
     \/ /\ fetch.st = "asked" /\ fetch' = [st |-> "read", rows |-> stored]
        /\ UNCHANGED list
     \/ /\ fetch.st = "read" /\ list' = fetch.rows
        /\ fetch' = [st |-> "idle", rows |-> None]
  /\ UNCHANGED <<stored, creating, box, editing, deleting, calls, hist, steps>>

\* Another admin deletes a key.
Elsewhere ==
  /\ Act
  /\ \E k \in Rows(stored) : stored' = [stored EXCEPT ![k] = "gone"]
  /\ hist' = [hist EXCEPT !.behind = TRUE]
  /\ UNCHANGED <<list, fetch, creating, box, editing, deleting, calls>>

Next ==
  \/ OpenCreate \/ CancelCreate \/ TypeName \/ handleCreate \/ handleCloseNewKey
  \/ OpenEdit \/ TypeNote \/ CancelEdit \/ handleSaveNote
  \/ OpenDelete \/ TypeConfirm \/ CancelDelete \/ ConfirmDelete
  \/ \E s \in Slot :
       Serve(s) \/ Lose(s) \/ Failed(s) \/ Created(s) \/ Renamed(s) \/ Deleted(s)
  \/ Refetch \/ Elsewhere

Spec == Init /\ [][Next]_vars

-----------------------------------------------------------------------------
(* Properties.                                                             *)

TypeOK ==
  /\ stored \in [Id -> Note \union {"unused", "gone"}]
  /\ list \in [Id -> Note \union {"unused", "gone"}]
  /\ creating \in [open : BOOLEAN, name : Note] /\ box \in 0 .. MaxKey
  /\ editing \in [id : 0 .. MaxKey, name : Note]
  /\ deleting \in [id : 0 .. MaxKey, name : Note, text : Note \union {Word}]
  /\ calls \in [Slot -> Request \union {None}]

\* As long as the user waits for each answer and presses Enter once, no secret
\* is replaced before it could be read and no answer closes a dialog that
\* holds anything else than what was sent.  (createMutation, updateMutation)
AloneIsClean == ~hist.twice /\ ~hist.wentOn => ~hist.unseen /\ ~hist.wiped

\* Once requests and the query are done the list is what is stored, unless
\* something changed behind the tab's back.  (invalidateQueries)
ListIsCurrent ==
  (\A s \in Slot : calls[s] = None) /\ fetch.st = "idle" /\ ~hist.behind =>
    list = stored

\* A key is only deleted on a confirmation typed in a dialog that showed that
\* key: no text is carried over from another key's.  (ConfirmDelete)
DeleteIsTyped ==
  \A s \in Slot :
    calls[s] = None /\ calls'[s] # None /\ calls'[s].op = "delete" =>
      calls'[s].id = hist.typedFor

TabSteps == ListIsCurrent' /\ DeleteIsTyped
=============================================================================
