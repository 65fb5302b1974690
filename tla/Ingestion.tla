----------------------------- MODULE Ingestion -----------------------------
(***************************************************************************)
(* The ingestion pipeline.  POST /public/traces answers an authenticated   *)
(* request, writes the decoded batch to S3 under a fresh key and enqueues  *)
(* a Celery task that names the object; a Celery worker downloads the      *)
(* object, transforms it and inserts first its trace rows and then its     *)
(* span rows into ClickHouse.                                              *)
(*                                                                         *)
(* A request stands for its S3 key: the key holds a fresh uuid.  An SDK    *)
(* that resends a batch makes another request for the same batch.          *)
(* Authentication is module AccessKeys; here its answer is an input.       *)
(***************************************************************************)
EXTENDS Naturals, FiniteSets

CONSTANTS
  Request,         (* HTTP requests, and the S3 objects they write         *)
  Batch,           (* OTLP export bodies the SDKs send                     *)
  Kind,            (* what each body holds                                 *)
  Worker,          (* Celery worker processes                              *)
  BillingEnabled,  (* is_billing_enabled() of the REST server              *)
  MaxRetries,      (* max_retries of process_s3_traces (5 in the code)     *)
  MaxFaults,       (* bound: failures of S3, Redis, ClickHouse, processes  *)
  NoBatch, NoTask  (* no value yet                                         *)

(* "full": a root span and its children; "rootless": child spans only;     *)
(* "empty": no span with ids and a start time; "poison": decodes, but the  *)
(* transformation raises; "garbled": gzip or protobuf decoding raises.     *)
BatchKind == {"full", "rootless", "empty", "poison", "garbled"}

Task  == [file : Request, retries : 0 .. MaxRetries]
Table == {"traces", "spans"}

ASSUME IngestionAssumption ==
  /\ Kind \in [Batch -> BatchKind]
  /\ BillingEnabled \in BOOLEAN
  /\ MaxRetries \in Nat /\ MaxFaults \in Nat
  /\ NoBatch \notin Batch /\ NoTask \notin Task

VARIABLES
  req,      (* per request: its stage or HTTP answer, batch, auth answer,  *)
            (* and whether a Celery task was published for it              *)
  s3,       (* the objects in the bucket                                   *)
  queue,    (* copies of each task waiting in Redis                        *)
  work,     (* per worker: stage, task, and whether Redis still reserves   *)
            (* that task for the worker (task_acks_late)                   *)
  rows,     (* physical copies of each batch's rows, per ClickHouse table  *)
  given_up, (* files whose task ended in Celery state FAILURE              *)
  faults    (* failures so far                                             *)

vars == <<req, s3, queue, work, rows, given_up, faults>>

AuthAnswer == {"granted", "blocked", "invalid", "unavailable"}
Answered   == {"200", "400", "401", "402", "500", "503", "cut"}
Stage      == {"new", "decoded", "stored"} \cup Answered
WorkStage  == {"idle", "download", "traces", "spans", "failed", "done"}

HasTraces(b) == Kind[b] = "full"
HasSpans(b)  == Kind[b] \in {"full", "rootless"}
HasRows(t, b) == IF t = "traces" THEN HasTraces(b) ELSE HasSpans(b)

Init ==
  /\ req = [r \in Request |-> [st |-> "new", batch |-> NoBatch,
                               auth |-> "granted", sent |-> FALSE]]
  /\ s3 = {}
  /\ queue = [m \in Task |-> 0]
  /\ work = [w \in Worker |-> [st |-> "idle", task |-> NoTask, held |-> FALSE]]
  /\ rows = [t \in Table |-> [b \in Batch |-> 0]]
  /\ given_up = {}
  /\ faults = 0

Fault == faults < MaxFaults /\ faults' = faults + 1
NoFault == UNCHANGED faults

Published(m) == [queue EXCEPT ![m] = @ + 1]

-----------------------------------------------------------------------------
(* The REST server.                                                        *)

(* The answer before anything is written: authentication, the free-plan    *)
(* block, an unreadable body.                                              *)
AdmittedUnchecked(auth) == auth \in {"granted", "blocked"}  \* mutant: no 402
Admitted(auth) == auth = "granted" \/ (auth = "blocked" /\ ~BillingEnabled)

Verdict(b, auth) ==
  CASE auth = "invalid"                             -> "401"
    [] auth = "unavailable"                         -> "503"
    [] auth = "blocked" /\ ~Admitted(auth)          -> "402"
    [] Admitted(auth) /\ Kind[b] = "garbled"        -> "400"
    [] Admitted(auth) /\ Kind[b] # "garbled"        -> "decoded"

Receive(r) ==
  /\ req[r].st = "new"
  /\ \E b \in Batch, auth \in AuthAnswer :
       req' = [req EXCEPT ![r] = [st |-> Verdict(b, auth), batch |-> b,
                                  auth |-> auth, sent |-> FALSE]]
  /\ UNCHANGED <<s3, queue, work, rows, given_up, faults>>

(* Mutant: the storage error is swallowed like the broker error.           *)
UploadSwallowed(r) ==
  /\ req[r].st = "decoded"
  /\ s3' \in {s3, s3 \cup {r}}
  /\ req' = [req EXCEPT ![r].st = "stored"]
  /\ Fault
  /\ UNCHANGED <<queue, work, rows, given_up>>

(* put_object; an error may reach the caller although the object is there. *)
Upload(r) ==
  /\ req[r].st = "decoded"
  /\ \/ s3' = s3 \cup {r} /\ req' = [req EXCEPT ![r].st = "stored"] /\ NoFault
     \/ s3' \in {s3, s3 \cup {r}} /\ req' = [req EXCEPT ![r].st = "500"] /\ Fault
  /\ UNCHANGED <<queue, work, rows, given_up>>

(* A broker error is logged and swallowed: the answer is 200 either way.   *)
Enqueue(r) ==
  /\ req[r].st = "stored"
  /\ \/ /\ queue' = Published([file |-> r, retries |-> 0])
        /\ req' = [req EXCEPT ![r].st = "200", ![r].sent = TRUE]
        /\ NoFault
     \/ /\ req' = [req EXCEPT ![r].st = "200"]
        /\ Fault
        /\ UNCHANGED queue
  /\ UNCHANGED <<s3, work, rows, given_up>>

(* The REST process dies between the steps of a request.                   *)
ServerCrash(r) ==
  /\ req[r].st \in {"decoded", "stored"}
  /\ Fault
  /\ req' = [req EXCEPT ![r].st = "cut"]
  /\ UNCHANGED <<s3, queue, work, rows, given_up>>

-----------------------------------------------------------------------------
(* The Celery worker running process_s3_traces.                            *)

BatchOf(w) == req[work[w].task.file].batch

Goto(w, st) == work' = [work EXCEPT ![w].st = st]

FetchTwice(w, m) ==  \* mutant: a task is handed out that is not waiting
  /\ work[w].st = "idle"
  /\ m.file \in s3
  /\ queue' = [queue EXCEPT ![m] = @ - 1]
  /\ work' = [work EXCEPT ![w] = [st |-> "download", task |-> m, held |-> TRUE]]
  /\ UNCHANGED <<req, s3, rows, given_up, faults>>

Fetch(w, m) ==
  /\ work[w].st = "idle"
  /\ queue[m] > 0
  /\ queue' = [queue EXCEPT ![m] = @ - 1]
  /\ work' = [work EXCEPT ![w] = [st |-> "download", task |-> m, held |-> TRUE]]
  /\ UNCHANGED <<req, s3, rows, given_up, faults>>

(* download_json and transform_otel_to_clickhouse.                         *)
Download(w) ==
  /\ work[w].st = "download"
  /\ \/ /\ work[w].task.file \in s3 /\ Kind[BatchOf(w)] # "poison"
        /\ Goto(w, "traces") /\ NoFault
     \/ /\ work[w].task.file \notin s3 \/ Kind[BatchOf(w)] = "poison"
        /\ Goto(w, "failed") /\ NoFault
     \/ Goto(w, "failed") /\ Fault
  /\ UNCHANGED <<req, s3, queue, rows, given_up>>

Inserted(t, b) ==
  IF HasRows(t, b) THEN [rows EXCEPT ![t] = [@ EXCEPT ![b] = rows[t][b] + 1]] ELSE rows

(* One batch insert; an error may come back although the rows are there.   *)
Insert(w, t, next) ==
  /\ work[w].st = t
  /\ \/ rows' = Inserted(t, BatchOf(w)) /\ Goto(w, next) /\ NoFault
     \/ /\ HasRows(t, BatchOf(w))
        /\ rows' \in {rows, Inserted(t, BatchOf(w))}
        /\ Goto(w, "failed") /\ Fault
  /\ UNCHANGED <<req, s3, queue, given_up>>

InsertTracesSwallowed(w) ==  \* mutant: a failed trace insert is only logged
  \/ Insert(w, "traces", "spans")
  \/ /\ work[w].st = "traces" /\ HasTraces(BatchOf(w))
     /\ Goto(w, "spans") /\ Fault
     /\ UNCHANGED <<req, s3, queue, rows, given_up>>
InsertTraces(w) == Insert(w, "traces", "spans")

InsertSpansRaises(w) == Insert(w, "spans", "failed")  \* mutant: raises after the insert
InsertSpans(w) == Insert(w, "spans", "done")

RetryForgets(w) ==  \* mutant: nothing records the task that is out of retries
  /\ work[w].st = "failed"
  /\ LET m == work[w].task IN
     IF m.retries < MaxRetries
     THEN queue' = Published([m EXCEPT !.retries = @ + 1]) ELSE UNCHANGED queue
  /\ Goto(w, "done")
  /\ UNCHANGED <<req, s3, rows, given_up, faults>>

(* autoretry_for: the task is published again with one more retry, up to   *)
(* max_retries; then, or when publishing fails, the task is a FAILURE.     *)
Retry(w) ==
  /\ work[w].st = "failed"
  /\ LET m == work[w].task IN
     \/ /\ m.retries < MaxRetries
        /\ queue' = Published([m EXCEPT !.retries = @ + 1])
        /\ NoFault /\ UNCHANGED given_up
     \/ /\ \/ m.retries >= MaxRetries /\ NoFault
           \/ m.retries < MaxRetries /\ Fault
        /\ given_up' = given_up \cup {m.file}
        /\ UNCHANGED queue
  /\ Goto(w, "done")
  /\ UNCHANGED <<req, s3, rows>>

(* task_acks_late: Redis drops the reservation once the task has ended.    *)
Ack(w) ==
  /\ work[w].st = "done"
  /\ work' = [work EXCEPT ![w] = [st |-> "idle", task |-> NoTask, held |-> FALSE]]
  /\ UNCHANGED <<req, s3, queue, rows, given_up, faults>>

RequeuedEarlyAck(w) == queue  \* mutant: acknowledged before the task ran
Requeued(w) ==
  IF work[w].held THEN Published(work[w].task) ELSE queue

(* task_reject_on_worker_lost: the unacknowledged task goes back.          *)
WorkerCrash(w) ==
  /\ work[w].st # "idle"
  /\ Fault
  /\ queue' = Requeued(w)
  /\ work' = [work EXCEPT ![w] = [st |-> "idle", task |-> NoTask, held |-> FALSE]]
  /\ UNCHANGED <<req, s3, rows, given_up>>

(* visibility_timeout: the task is redelivered while this worker runs it.  *)
Redeliver(w) ==
  /\ work[w].st # "idle" /\ work[w].held
  /\ Fault
  /\ queue' = Requeued(w)
  /\ work' = [work EXCEPT ![w].held = FALSE]
  /\ UNCHANGED <<req, s3, rows, given_up>>

(* ReplacingMergeTree collapses rows with one sorting key in a background  *)
(* merge.                                                                  *)
Merge(t, b) ==
  /\ rows[t][b] > 1
  /\ rows' = [rows EXCEPT ![t][b] = 1]
  /\ UNCHANGED <<req, s3, queue, work, given_up, faults>>

-----------------------------------------------------------------------------
ServerStep(r) == Receive(r) \/ Upload(r) \/ Enqueue(r)
WorkerStep(w) ==
  \/ \E m \in Task : Fetch(w, m)
  \/ Download(w) \/ InsertTraces(w) \/ InsertSpans(w) \/ Retry(w) \/ Ack(w)

Next ==
  \/ \E r \in Request : ServerStep(r) \/ ServerCrash(r)
  \/ \E w \in Worker : WorkerStep(w) \/ WorkerCrash(w) \/ Redeliver(w)
  \/ \E t \in Table, b \in Batch : Merge(t, b)

Spec == Init /\ [][Next]_vars

(* A request being served runs to its answer and a worker process with a   *)
(* broker keeps consuming; nobody promises a request, a fault or a merge.  *)
FairSpec ==
  /\ Spec
  /\ \A r \in Request : WF_vars(Upload(r) \/ Enqueue(r))
  /\ \A w \in Worker : WF_vars(WorkerStep(w))

-----------------------------------------------------------------------------
(* Properties.                                                             *)

TypeOK ==
  /\ req \in [Request -> [st : Stage, batch : Batch \cup {NoBatch},
                          auth : AuthAnswer, sent : BOOLEAN]]
  /\ s3 \in SUBSET Request
  /\ queue \in [Task -> Nat]
  /\ work \in [Worker -> [st : WorkStage, task : Task \cup {NoTask},
                          held : BOOLEAN]]
  /\ rows \in [Table -> [Batch -> Nat]]
  /\ given_up \in SUBSET Request
  /\ faults \in Nat

Busy(w) == work[w].st # "idle"
InFlight(r) ==
  \/ \E m \in Task : m.file = r /\ queue[m] > 0
  \/ \E w \in Worker : Busy(w) /\ work[w].held /\ work[w].task.file = r

Landed(b) ==
  /\ Kind[b] # "poison"
  /\ \A t \in Table : HasRows(t, b) => rows[t][b] > 0
Settled(r) ==
  \/ r \in given_up
  \/ req[r].batch # NoBatch /\ Landed(req[r].batch)

(* A task that waits or runs names an object that is in the bucket, with   *)
(* the batch of an admitted request: the upload precedes the enqueue.      *)
TaskHasObject ==
  /\ \A m \in Task : queue[m] > 0 => m.file \in s3
  /\ \A w \in Worker : Busy(w) => work[w].task.file \in s3

(* A request answered 400, 401, 402 or 503 left no object in S3, and every *)
(* row in ClickHouse comes from a batch some admitted request stored.      *)
RefusedLeavesNothing ==
  /\ \A r \in Request : req[r].st \in {"new", "400", "401", "402", "503"} =>
       r \notin s3
  /\ \A t \in Table, b \in Batch : rows[t][b] > 0 =>
       \E r \in s3 : /\ req[r].batch = b
                     /\ req[r].auth = "granted" \/ (req[r].auth = "blocked" /\ ~BillingEnabled)

(* At least once: a published file is waiting, reserved by a worker, in    *)
(* ClickHouse, or its task gave up after its last retry.                   *)
PublishedIsNotLost ==
  \A r \in Request : req[r].sent =>
    InFlight(r) \/ Settled(r)

(* The trace rows of a batch are there before its span rows, whichever     *)
(* attempts failed in between: no reader sees spans of a missing trace     *)
(* that came in the same batch.                                            *)
SpansFollowTraces ==
  \A b \in Batch : HasTraces(b) /\ rows["spans"][b] > 0 => rows["traces"][b] > 0

(* Objects, tasks and rows come in order: the object before the task that  *)
(* names it, the trace before its spans, and nothing of what was refused.  *)
StoreIsOrdered == TaskHasObject /\ RefusedLeavesNothing /\ SpansFollowTraces

(* What the usage query of /usage/details counts (physical rows, no FINAL) *)
(* exceeds the batch once per accepted request by at most one copy per     *)
(* failure: retries and redeliveries never multiply by themselves.         *)
CopiesAreBounded ==
  \A t \in Table, b \in Batch :
    rows[t][b] <= Cardinality({r \in Request : req[r].sent /\ req[r].batch = b}) + faults

(* A published batch reaches ClickHouse or its task gives up.              *)
PublishedIsSettled == \A r \in Request : req[r].sent ~> Settled(r)

(* What s3.py promises of a stored object and traces.py of a failed        *)
(* enqueue: later a worker processes the file.                             *)
AcceptedIsProcessed == \A r \in Request : req[r].st = "200" ~> Settled(r)

-----------------------------------------------------------------------------
(* The pipeline implements the contract of IngestContract.                 *)
Refused == {"400", "401", "402", "503"}
VerdictOf(st) == IF st = "new" THEN "open" ELSE IF st \in Refused THEN "refused" ELSE "admitted"

Contract == INSTANCE IngestContract WITH
  Rooted    <- {b \in Batch : HasTraces(b)},
  verdict   <- [r \in Request |-> VerdictOf(req[r].st)],
  body      <- [r \in Request |-> IF VerdictOf(req[r].st) = "admitted"
                                  THEN req[r].batch ELSE NoBatch],
  shown     <- {tb \in Table \X Batch : rows[tb[1]][tb[2]] > 0},
  abandoned <- given_up

(* Whatever fails, crashes or is delivered twice, a project sees what the  *)
(* contract allows.                                                        *)
Refines == Contract!Spec
=============================================================================
