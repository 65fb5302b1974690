---------------------------- MODULE ProviderForm ----------------------------
(* The settings tab in which an admin adds, edits and deletes the model    *)
(* providers of a workspace (ModelProvidersTab.tsx), over the routes that  *)
(* write them.  One form serves every dialog; a request goes on when the   *)
(* dialog that made it is closed, and its answer closes whatever is open.  *)
(*                                                                         *)
(* A credential is one value, an API key or an AWS credential.  The test   *)
(* of a connection changes nothing that is stored and is left out.         *)
EXTENDS Naturals, FiniteSets

CONSTANTS
  Adapter,
  Aws,         \* adapters whose credential is AWS's
  NeedsUrl,    \* adapters that require a base URL
  Name,        \* providers' names
  Label,       \* the name an adapter suggests
  Key,         \* credentials the admin may type
  Url,         \* base URLs the admin may type
  Model,       \* custom models, each with a protocol that can be overridden
  Null,        \* an empty field of the form, undefined in a request, null in a row
  MaxRow,      \* bound: rows made
  MaxStep,     \* bound: what the admin does
  MaxLost      \* bound: answers lost

VARIABLES
  rows,        \* the table: a record or Null for each id
  list,        \* what the query last answered
  refetch,     \* the query was invalidated
  dialog,      \* the form, and what it was opened for
  save,        \* the create or update under way
  late,        \* one whose error was shown before the server had read it
  deleting,    \* the delete under way
  steps, lost

vars == <<rows, list, refetch, dialog, save, late, deleting, steps, lost>>

Id == 1 .. MaxRow
Field == {"adapter", "name", "key", "url", "models", "over"}
Form == [adapter : Adapter \union {Null}, name : Name \union {Null},
         key : Key \union {Null}, url : Url \union {Null},
         models : SUBSET Model, over : SUBSET Model]
RowType == [adapter : Adapter, name : Name, key : Key, url : Url \union {Null},
            models : SUBSET Model, over : SUBSET Model]

FormAssumption ==
  /\ Aws \subseteq Adapter /\ NeedsUrl \subseteq Adapter /\ Label \in [Adapter -> Name]
  /\ Null \notin Adapter \union Name \union Key \union Url \union RowType
  /\ \A over \in SUBSET Model : over # Null
  /\ MaxRow \in Nat \ {0} /\ MaxStep \in Nat /\ MaxLost \in Nat

Closed == [open |-> FALSE]
NoSave == [on |-> FALSE]
NoDelete == [id |-> 0, done |-> FALSE]

Cleared == [adapter |-> Null, name |-> Null, key |-> Null, url |-> Null,
            models |-> {}, over |-> {}]

Init ==
  /\ rows = [i \in Id |-> Null] /\ list = rows /\ refetch = FALSE
  /\ dialog = Closed /\ save = NoSave /\ late = NoSave /\ deleting = NoDelete
  /\ steps = 0 /\ lost = 0

Act == steps < MaxStep /\ steps' = steps + 1

-----------------------------------------------------------------------------
(* Dialogs.                                                                *)

Opened(edit, form, base) ==
  [open |-> TRUE, edit |-> edit, form |-> form, base |-> base, touched |-> {}]

openAddDialog ==
  /\ Act /\ ~dialog.open
  /\ dialog' = Opened(0, Cleared, Null)
  /\ UNCHANGED <<rows, list, refetch, save, late, deleting, lost>>

\* The form takes the row's values, but for the credential, which a row of the
\* list does not carry.
openEditDialogNoModels ==
  /\ Act /\ ~dialog.open
  /\ \E i \in Id :
       /\ list[i] # Null
       /\ dialog' = Opened(i, [list[i] EXCEPT !.key = Null, !.models = {}], list[i])
  /\ UNCHANGED <<rows, list, refetch, save, late, deleting, lost>>

openEditDialog ==
  /\ Act /\ ~dialog.open
  /\ \E i \in Id :
       /\ list[i] # Null
       /\ dialog' = Opened(i, [list[i] EXCEPT !.key = Null], list[i])
  /\ UNCHANGED <<rows, list, refetch, save, late, deleting, lost>>

closeDialog ==
  /\ dialog.open
  /\ dialog' = Closed
  /\ UNCHANGED <<rows, list, refetch, save, late, deleting, steps, lost>>

Set(field, value) ==
  dialog' = [dialog EXCEPT !.form[field] = value, !.touched = @ \union {field}]

Toggled(m, set) == IF m \in set THEN set \ {m} ELSE set \union {m}

\* The adapter of a new provider.  Its label becomes the name, unless the admin
\* has chosen another; the other fields stay, hidden or not.
handleAdapterChange(a) ==
  LET form == dialog.form
      suggested == form.name = Null \/ (form.adapter # Null /\ form.name = Label[form.adapter])
  IN  /\ dialog.edit = 0 /\ a # form.adapter
      /\ dialog' = [dialog EXCEPT !.form.adapter = a, !.form.over = {},
                     !.form.name = IF suggested THEN Label[a] ELSE @,
                     !.touched = @ \union {"adapter", "name", "over"}]

\* A field is changed.  An adapter of AWS has no base URL to show,
\* and one protocol.
Type ==
  /\ Act /\ dialog.open
  /\ \/ \E a \in Adapter : handleAdapterChange(a)
     \/ \E n \in Name \ {dialog.form.name} : Set("name", n)
     \/ /\ dialog.form.adapter # Null
        /\ \/ \E k \in (Key \union {Null}) \ {dialog.form.key} : Set("key", k)
           \/ \E m \in Model : Set("models", Toggled(m, dialog.form.models))
           \/ /\ dialog.form.adapter \notin Aws
              /\ \/ \E u \in (Url \union {Null}) \ {dialog.form.url} : Set("url", u)
                 \/ \E m \in dialog.form.models : Set("over", Toggled(m, dialog.form.over))
  /\ UNCHANGED <<rows, list, refetch, save, late, deleting, lost>>

-----------------------------------------------------------------------------
(* Saving.                                                                 *)

\* canSave.  A stored API key may be kept, a stored AWS credential may not.
CanSave ==
  /\ dialog.form.adapter # Null /\ dialog.form.name # Null
  /\ dialog.form.key # Null \/ (dialog.edit # 0 /\ dialog.form.adapter \notin Aws)
  /\ dialog.form.adapter \in NeedsUrl => dialog.form.url # Null

\* What is sent.  An empty base URL is not, and neither are overrides when
\* there is none; those of models that were removed are left out.
Payload ==
  LET form == dialog.form
  IN  [form EXCEPT !.over = IF form.over \intersect form.models = {} THEN Null
                            ELSE form.over \intersect form.models]

\* The rows that are left bound the providers that are added.
handleSave ==
  /\ Act /\ dialog.open /\ CanSave /\ ~save.on
  /\ dialog.edit = 0 => \E i \in Id : rows[i] = Null
  /\ save' = [on |-> TRUE, st |-> "sent", edit |-> dialog.edit, data |-> Payload,
              form |-> dialog.form, base |-> dialog.base, touched |-> dialog.touched]
  /\ UNCHANGED <<rows, list, refetch, dialog, late, deleting, lost>>

Named(n) == {i \in Id : rows[i] # Null /\ rows[i].name = n}

\* POST: the row of that name is written over, but for a config that is not
\* sent (AWS's has the region), or a row is made.  A credential is required.
Upsert(d, ok) ==
  LET row == [d EXCEPT !.over = IF @ = Null THEN {} ELSE @]
      free == {i \in Id : rows[i] = Null}
  IN  \/ d.key = Null /\ ~ok /\ UNCHANGED rows
      \/ /\ d.key # Null /\ ok
         /\ \E i \in Named(d.name) :
              rows' = [rows EXCEPT ![i] = [row EXCEPT !.over =
                                             IF d.over # Null THEN @
                                             ELSE IF d.adapter \in Aws THEN {}
                                             ELSE rows[i].over]]
      \/ /\ d.key # Null /\ ok /\ Named(d.name) = {} /\ free # {}
         /\ LET i == CHOOSE j \in free : \A k \in free : j <= k
            IN  rows' = [rows EXCEPT ![i] = row]

\* PATCH: what is not sent stays.  A row that is gone is not found, and a name
\* that is taken breaks the unique index.
Refused(i, d) == rows[i] = Null \/ Named(d.name) \ {i} # {}

PatchWritesAll(i, d, ok) ==
  /\ ok = ~Refused(i, d)
  /\ rows' = IF ~ok THEN rows
             ELSE [rows EXCEPT ![i] =
                    [d EXCEPT !.adapter = rows[i].adapter,
                              !.over = IF @ = Null THEN {} ELSE @]]

Patch(i, d, ok) ==
  /\ ok = ~Refused(i, d)
  /\ rows' = IF ~ok THEN rows
             ELSE [rows EXCEPT ![i] =
                    [adapter |-> @.adapter, name |-> d.name,
                     key |-> IF d.key = Null THEN @.key ELSE d.key,
                     url |-> IF d.url = Null THEN @.url ELSE d.url,
                     models |-> d.models,
                     over |-> IF d.over = Null THEN @.over ELSE d.over]]

Write(q, ok) == IF q.edit = 0 THEN Upsert(q.data, ok) ELSE Patch(q.edit, q.data, ok)

Commit ==
  /\ save.on /\ save.st = "sent"
  /\ \E ok \in BOOLEAN :
       Write(save, ok) /\ save' = [save EXCEPT !.st = IF ok THEN "ok" ELSE "failed"]
  /\ UNCHANGED <<list, refetch, dialog, late, deleting, steps, lost>>

\* What became of it is told to nobody.
CommitLate ==
  /\ late.on /\ \E ok \in BOOLEAN : Write(late, ok)
  /\ late' = NoSave
  /\ UNCHANGED <<list, refetch, dialog, save, deleting, steps, lost>>

\* onSuccess: the query is made again, and the dialog that is open is closed.
\* onError leaves it open.
SavedNoRefetch ==
  /\ save.on /\ save.st \in {"ok", "failed"}
  /\ save' = NoSave
  /\ dialog' = IF save.st = "ok" THEN Closed ELSE dialog
  /\ UNCHANGED <<rows, list, refetch, late, deleting, steps, lost>>

Saved ==
  /\ save.on /\ save.st \in {"ok", "failed"}
  /\ save' = NoSave
  /\ IF save.st = "ok" THEN dialog' = Closed /\ refetch' = TRUE
     ELSE UNCHANGED <<dialog, refetch>>
  /\ UNCHANGED <<rows, list, late, deleting, steps, lost>>

\* The request or its answer is lost: an error, whatever became of the write,
\* which may also be done after it.
LoseSave ==
  /\ save.on /\ lost < MaxLost
  /\ save' = NoSave /\ lost' = lost + 1
  /\ \/ UNCHANGED late
     \/ save.st = "sent" /\ ~late.on /\ late' = save
  /\ UNCHANGED <<rows, list, refetch, dialog, deleting, steps>>

-----------------------------------------------------------------------------
(* Deleting, and the list.                                                 *)

AskDelete ==
  /\ Act /\ ~dialog.open /\ deleting.id = 0
  /\ \E i \in Id : list[i] # Null /\ deleting' = [id |-> i, done |-> FALSE]
  /\ UNCHANGED <<rows, list, refetch, dialog, save, late, lost>>

\* The row goes; one that is gone already is not found, which is an error.
CommitDelete ==
  /\ deleting.id # 0 /\ ~deleting.done
  /\ rows' = [rows EXCEPT ![deleting.id] = Null]
  /\ deleting' = IF rows[deleting.id] = Null THEN NoDelete ELSE [deleting EXCEPT !.done = TRUE]
  /\ UNCHANGED <<list, refetch, dialog, save, late, steps, lost>>

Deleted ==
  /\ deleting.done
  /\ deleting' = NoDelete /\ refetch' = TRUE
  /\ UNCHANGED <<rows, list, dialog, save, late, steps, lost>>

\* The list is fetched: after an invalidation, or when the window is focused.
Refetch ==
  /\ list' = rows /\ refetch' = FALSE
  /\ UNCHANGED <<rows, dialog, save, late, deleting, steps, lost>>

Next ==
  \/ openAddDialog \/ openEditDialog \/ closeDialog \/ Type \/ handleSave
  \/ Commit \/ CommitLate \/ Saved \/ LoseSave \/ AskDelete \/ CommitDelete \/ Deleted \/ Refetch

Spec == Init /\ [][Next]_vars

-----------------------------------------------------------------------------
(* Properties.                                                             *)

\* A row is complete: it has an adapter, a name, and a credential.
TypeOK ==
  /\ \A i \in Id : rows[i] # Null => rows[i] \in RowType
  /\ \A i \in Id : list[i] # Null => list[i] \in RowType
  /\ dialog.open => (dialog.form \in Form /\ dialog.edit \in 0 .. MaxRow)
  /\ save.on => (save.edit \in 0 .. MaxRow /\ save.st \in {"sent", "ok", "failed"})
  /\ late.on => (late.edit \in 0 .. MaxRow /\ late.st = "sent")
  /\ deleting.id \in 0 .. MaxRow /\ refetch \in BOOLEAN
  /\ steps \in 0 .. MaxStep /\ lost \in 0 .. MaxLost

\* The fields the admin did not change: the overrides are those of the models
\* a row has now.  (A row may have some of models it has no more, which are
\* dropped or kept as it comes.)
Kept(q, old, new) ==
  /\ \A f \in Field \ (q.touched \union {"over"}) : new[f] = old[f]
  /\ "over" \notin q.touched =>
       new.over \intersect new.models = old.over \intersect new.models

Keeps(q) ==
  q.edit # 0 /\ rows[q.edit] = q.base /\ rows[q.edit] # Null =>
    rows'[q.edit] = Null \/ Kept(q, rows[q.edit], rows'[q.edit])

\* An update changes only the fields the admin changed, if the row is still the
\* one the dialog was opened from: the credential that was left blank, the
\* models and the overrides not looked at stay, also when it is written after
\* its error was shown.  (openEditDialog, PATCH)
KeepsUntouched ==
  /\ save.on /\ save' # save => Keeps(save)
  /\ late.on /\ late' # late => Keeps(late)

\* Once requests and the query are done, the list shows what is stored, unless
\* an answer was lost.  (onSuccess)
ListIsCurrent ==
  ~save.on /\ deleting = NoDelete /\ ~refetch /\ lost = 0 => list = rows

\* A save changes what the admin changed, and the list comes to show it.
FormSteps == KeepsUntouched /\ ListIsCurrent'
=============================================================================
