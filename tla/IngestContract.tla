--------------------------- MODULE IngestContract ---------------------------
(***************************************************************************)
(* What ingestion promises to a project, without buckets, tasks and        *)
(* workers: a request is refused or admitted once; only rows of admitted   *)
(* batches appear, they never disappear, and the spans of a batch never    *)
(* appear before its trace; only an admitted request is abandoned.         *)
(***************************************************************************)
CONSTANTS
  Request, Batch,
  Rooted,     (* batches that hold the root span of a trace                *)
  NoBatch

VARIABLES
  verdict,    (* of each request: "open", "refused" or "admitted"          *)
  body,       (* the batch of each admitted request                        *)
  shown,      (* pairs of a table and a batch whose rows can be queried    *)
  abandoned   (* requests whose processing was given up                    *)

contract == <<verdict, body, shown, abandoned>>

Init ==
  /\ verdict = [r \in Request |-> "open"]
  /\ body = [r \in Request |-> NoBatch]
  /\ shown = {} /\ abandoned = {}

Refuse(r) ==
  /\ verdict[r] = "open"
  /\ verdict' = [verdict EXCEPT ![r] = "refused"]
  /\ UNCHANGED <<body, shown, abandoned>>

Admit(r, b) ==
  /\ verdict[r] = "open"
  /\ verdict' = [verdict EXCEPT ![r] = "admitted"]
  /\ body' = [body EXCEPT ![r] = b]
  /\ UNCHANGED <<shown, abandoned>>

Show(t, b) ==
  /\ \E r \in Request : verdict[r] = "admitted" /\ body[r] = b
  /\ t = "spans" /\ b \in Rooted => <<"traces", b>> \in shown
  /\ shown' = shown \cup {<<t, b>>}
  /\ UNCHANGED <<verdict, body, abandoned>>

Abandon(r) ==
  /\ verdict[r] = "admitted"
  /\ abandoned' = abandoned \cup {r}
  /\ UNCHANGED <<verdict, body, shown>>

Next ==
  \/ \E r \in Request : Refuse(r) \/ Abandon(r) \/ \E b \in Batch : Admit(r, b)
  \/ \E t \in {"traces", "spans"}, b \in Batch : Show(t, b)

Spec == Init /\ [][Next]_contract
=============================================================================
