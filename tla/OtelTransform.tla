--------------------------- MODULE OtelTransform ---------------------------
(***************************************************************************)
(* The spans of some traces arrive in batches, and the worker turns each   *)
(* batch into rows of the tables traces and spans by itself: one trace row *)
(* per root span, with a user collected from the batch.  Tasks run in any  *)
(* order and more than once; a later row of a trace replaces an earlier    *)
(* one.  (One attribute stands for user_id and session_id, which the code  *)
(* treats alike.)                                                          *)
(***************************************************************************)
EXTENDS Naturals, Sequences, SequencesExt

CONSTANTS
  Families, (* what clients may send: the trace of each span, the spans    *)
            (* without a parentSpanId and those without a start time       *)
  Batch,    (* uploads                                                     *)
  User,     (* values of the user attribute                                *)
  None

OtelTransformAssumption ==
  /\ None \notin User
  /\ \A f \in Families :
       /\ None \notin DOMAIN f.trace
       /\ f.roots \subseteq DOMAIN f.trace /\ f.broken \subseteq DOMAIN f.trace

VARIABLES
  forest,   (* what is sent                                                *)
  batch,    (* what each upload holds                                      *)
  user,     (* the user attribute of each span                             *)
  queue,    (* uploads whose task has not been acknowledged                *)
  traces,   (* the trace rows, merged                                      *)
  spans     (* the span rows, merged                                       *)

vars == <<forest, batch, user, queue, traces, spans>>

Trace == forest.trace
Span == DOMAIN Trace
Root == forest.roots
Broken == forest.broken
TraceId == {Trace[s] : s \in Span}
NoRow == [name |-> None, user |-> None]

(* Every span is in one upload, in some order.                             *)
Uploads == {b \in [Batch -> UNION {[1..n -> Span] : n \in 0..Cardinality(Span)}] :
              /\ \A k \in Batch : IsInjective(b[k])
              /\ \A s \in Span : \E k \in Batch : s \in ToSet(b[k])
              /\ \A j, k \in Batch : j # k => ToSet(b[j]) \cap ToSet(b[k]) = {}}

Init ==
  /\ forest \in Families
  /\ batch \in Uploads
  /\ user \in [Span -> User \cup {None}]
  /\ queue = Batch
  /\ traces = [t \in TraceId |-> NoRow]
  /\ spans = {}

-----------------------------------------------------------------------------
Or(a, b) == IF a # None THEN a ELSE b

CollectedFirst(attrs, s) == Or(attrs[Trace[s]], user[s])  \* mutant: roots too

(* A root overwrites the user collected so far, a child only fills it in.  *)
Collected(attrs, s) ==
  IF s \in Root THEN Or(user[s], attrs[Trace[s]]) ELSE Or(attrs[Trace[s]], user[s])

AnyMakesRow(s) == s \in Span  \* mutant: a trace row for every span
MakesRow(s) == s \in Root

(* One turn of the loop: acc has the users collected and the trace rows.   *)
Turn(acc, s) ==
  IF s \in Broken THEN acc
  ELSE LET u == Collected(acc.attrs, s) IN
       [attrs |-> [acc.attrs EXCEPT ![Trace[s]] = u],
        rows  |-> IF MakesRow(s)
                  THEN [acc.rows EXCEPT ![Trace[s]] = [name |-> s, user |-> u]]
                  ELSE acc.rows]

Backfill(attrs, row, t) ==
  IF row.name = None THEN row ELSE [row EXCEPT !.user = Or(row.user, attrs[t])]

(* transform_otel_to_clickhouse: the trace rows of a batch.                *)
Rows(b) ==
  LET acc == FoldLeft(Turn, [attrs |-> [t \in TraceId |-> None],
                             rows |-> [t \in TraceId |-> NoRow]], b)
  IN [t \in TraceId |-> Backfill(acc.attrs, acc.rows[t], t)]

-----------------------------------------------------------------------------
TaskNested(k) ==  \* mutant: the spans are inserted only along with a trace row
  /\ k \in queue
  /\ traces' = [t \in TraceId |->
       IF Rows(batch[k])[t] = NoRow THEN traces[t] ELSE Rows(batch[k])[t]]
  /\ spans' = IF \A t \in TraceId : Rows(batch[k])[t] = NoRow THEN spans
              ELSE spans \cup (ToSet(batch[k]) \ Broken)
  /\ queue' \in {queue, queue \ {k}}
  /\ UNCHANGED <<forest, batch, user>>

(* The task of an upload; it may be delivered again afterwards.            *)
Task(k) ==
  /\ k \in queue
  /\ traces' = [t \in TraceId |->
       IF Rows(batch[k])[t] = NoRow THEN traces[t] ELSE Rows(batch[k])[t]]
  /\ spans' = spans \cup (ToSet(batch[k]) \ Broken)
  /\ \/ queue' = queue \ {k}
     \/ queue' = queue
  /\ UNCHANGED <<forest, batch, user>>

Next == \E k \in Batch : Task(k)
Spec == Init /\ [][Next]_vars

-----------------------------------------------------------------------------
TypeOK ==
  /\ forest \in Families /\ batch \in Uploads /\ user \in [Span -> User \cup {None}]
  /\ queue \subseteq Batch /\ spans \subseteq Span \ Broken
  /\ traces \in [TraceId -> [name : (Root \ Broken) \cup {None}, user : User \cup {None}]]

(* Where the usable spans of a trace that name a user are in an upload.    *)
Naming(k, t, S) ==
  {i \in DOMAIN batch[k] : LET s == batch[k][i] IN
     Trace[s] = t /\ s \in S \ Broken /\ user[s] # None}

(* Whatever the order inside a batch, the user of its trace row is the one *)
(* of the last root that has one, or else of the first child that has one. *)
RootBeforeFirstChild ==
  \A k \in Batch, t \in TraceId :
    LET roots == Naming(k, t, Root)
        children == Naming(k, t, Span \ Root)
    IN Rows(batch[k])[t].name # None =>
         Rows(batch[k])[t].user = IF roots # {} THEN user[batch[k][Max(roots)]]
                                  ELSE IF children # {} THEN user[batch[k][Min(children)]]
                                  ELSE None

(* When all tasks are over, in whatever order and however often they ran,  *)
(* a trace with one root has the row of the upload that brought it, and    *)
(* every usable span is there.                                             *)
OneRootConverges ==
  queue = {} =>
    /\ spans = Span \ Broken
    /\ \A k \in Batch, t \in TraceId, s \in Root \ Broken :
         /\ s \in ToSet(batch[k]) /\ Trace[s] = t
         /\ \A r \in Root \ Broken : Trace[r] = t => r = s
         => traces[t].name = s /\ traces[t] = Rows(batch[k])[t]
=============================================================================
