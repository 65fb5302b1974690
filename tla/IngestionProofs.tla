--------------------------- MODULE IngestionProofs ---------------------------
(* Theorems about Ingestion, for every set of requests, batches and        *)
(* workers and every bound on retries and failures.                        *)
EXTENDS Ingestion, FiniteSetTheorems, TLAPS

(* TypeOK is not inductive: what a busy worker publishes again is its task *)
(* only if it has one.                                                     *)
TypeInv == TypeOK /\ \A w \in Worker : Busy(w) => work[w].task \in Task

(* What the stage of a request says about its object and its batch.        *)
RequestInv ==
  \A r \in Request :
    /\ req[r].st = "stored" => r \in s3
    /\ req[r].sent => r \in s3 /\ req[r].st = "200"
    /\ r \in s3 => req[r].st \in {"stored", "200", "500", "cut"}
    /\ req[r].st \in {"decoded", "stored", "200", "500", "cut"} =>
         req[r].batch \in Batch /\ Admitted(req[r].auth)

(* What the stage of a worker says about the batch it processes.           *)
WorkerInv ==
  \A w \in Worker :
    /\ work[w].st \in {"traces", "spans"} => Kind[BatchOf(w)] # "poison"
    /\ work[w].st = "spans" /\ HasTraces(BatchOf(w)) =>
         rows["traces"][BatchOf(w)] > 0

RowsInv ==
  \A t \in Table, b \in Batch :
    rows[t][b] > 0 => \E r \in s3 : req[r].batch = b /\ Admitted(req[r].auth)

StoreInv == TypeInv /\ RequestInv /\ TaskHasObject /\ WorkerInv
            /\ SpansFollowTraces /\ RowsInv

(* A published file is in the queue, under way at a worker that still      *)
(* reserves it and has not ended, or settled.                              *)
Waiting(r) == \E m \in Task : m.file = r /\ queue[m] > 0
RunBy(w, r) == work[w].st \notin {"idle", "done"} /\ work[w].held /\ work[w].task.file = r
Tracked(r) == Waiting(r) \/ (\E w \in Worker : RunBy(w, r)) \/ Settled(r)

TrackedInv == \A r \in Request : req[r].sent => Tracked(r)

IInv == StoreInv /\ TrackedInv

-----------------------------------------------------------------------------
USE IngestionAssumption

(* The answer to a request is one of the stages, and a request goes on     *)
(* only when it is admitted.                                               *)
LEMMA VerdictType ==
  ASSUME NEW b \in Batch, NEW a \in AuthAnswer
  PROVE  /\ Verdict(b, a) \in {"400", "401", "402", "503", "decoded"}
         /\ Verdict(b, a) = "decoded" => Admitted(a)
  BY DEF Verdict, Admitted, AuthAnswer

ReqRecord  == [st : Stage, batch : Batch \cup {NoBatch}, auth : AuthAnswer, sent : BOOLEAN]
WorkRecord == [st : WorkStage, task : Task \cup {NoTask}, held : BOOLEAN]

(* What an update of one request's stage changes.                          *)
LEMMA StageEffect ==
  ASSUME req \in [Request -> ReqRecord], NEW r \in Request, NEW s \in Stage,
         req' = [req EXCEPT ![r].st = s]
  PROVE  /\ req' \in [Request -> ReqRecord]
         /\ req'[r].st = s /\ req'[r].batch = req[r].batch
         /\ req'[r].auth = req[r].auth /\ req'[r].sent = req[r].sent
         /\ \A q \in Request \ {r} : req'[q] = req[q]
  BY DEF ReqRecord

(* What a successful enqueue changes of its request.                       *)
LEMMA SentEffect ==
  ASSUME req \in [Request -> ReqRecord], NEW r \in Request,
         req' = [req EXCEPT ![r].st = "200", ![r].sent = TRUE]
  PROVE  /\ req' \in [Request -> ReqRecord]
         /\ req'[r].st = "200" /\ req'[r].batch = req[r].batch
         /\ req'[r].auth = req[r].auth /\ req'[r].sent
         /\ \A q \in Request \ {r} : req'[q] = req[q]
<1>1. req[r] \in ReqRecord /\ DOMAIN req = Request
  OBVIOUS
<1>2. req'[r] = [[req[r] EXCEPT !.st = "200"] EXCEPT !.sent = TRUE]
  BY <1>1
<1>3. \A q \in Request \ {r} : req'[q] = req[q]
  BY <1>1
<1>4. "200" \in Stage
  BY DEF Stage, Answered
<1>5. [req[r] EXCEPT !.st = "200"] \in ReqRecord
  BY <1>1, <1>4 DEF ReqRecord
<1>6. req'[r] \in ReqRecord /\ req'[r].st = "200" /\ req'[r].batch = req[r].batch
      /\ req'[r].auth = req[r].auth /\ req'[r].sent = TRUE
  BY <1>1, <1>2, <1>5 DEF ReqRecord
<1>7. DOMAIN req' = Request /\ req' = [q \in DOMAIN req' |-> req'[q]]
  BY <1>1
<1> QED
  BY <1>3, <1>6, <1>7, <1>1

(* What an update of one worker's stage changes.                           *)
LEMMA GotoEffect ==
  ASSUME work \in [Worker -> WorkRecord], NEW w \in Worker, NEW s \in WorkStage, Goto(w, s)
  PROVE  /\ work' \in [Worker -> WorkRecord]
         /\ work'[w].st = s /\ work'[w].task = work[w].task
         /\ work'[w].held = work[w].held
         /\ \A x \in Worker \ {w} : work'[x] = work[x]
  BY DEF WorkRecord, Goto

(* Redelivery takes the reservation and nothing else from the worker.      *)
LEMMA ReleaseEffect ==
  ASSUME work \in [Worker -> WorkRecord], NEW w \in Worker,
         work' = [work EXCEPT ![w].held = FALSE]
  PROVE  /\ work' \in [Worker -> WorkRecord]
         /\ work'[w].st = work[w].st /\ work'[w].task = work[w].task
         /\ work'[w].held = FALSE
         /\ \A x \in Worker \ {w} : work'[x] = work[x]
  BY DEF WorkRecord

(* A task published again stays a task while it has retries left.          *)
LEMMA RetriedIsTask ==
  ASSUME NEW m \in Task, m.retries < MaxRetries
  PROVE  [m EXCEPT !.retries = @ + 1] \in Task /\ [m EXCEPT !.retries = @ + 1].file = m.file
  BY DEF Task

(* Publishing adds one copy of one task.                                   *)
LEMMA PublishedType ==
  ASSUME queue \in [Task -> Nat], NEW m \in Task
  PROVE  /\ Published(m) \in [Task -> Nat]
         /\ Published(m)[m] = queue[m] + 1
         /\ \A k \in Task \ {m} : Published(m)[k] = queue[k]
  BY DEF Published

(* An insert adds a copy of one batch's rows to one table, or nothing.     *)
LEMMA InsertedEffect ==
  ASSUME rows \in [Table -> [Batch -> Nat]], NEW t \in Table, NEW b
  PROVE  /\ Inserted(t, b) \in [Table -> [Batch -> Nat]]
         /\ \A u \in Table, c \in Batch :
              /\ Inserted(t, b)[u][c] >= rows[u][c]
              /\ u # t \/ c # b => Inserted(t, b)[u][c] = rows[u][c]
              /\ u = t /\ c = b /\ HasRows(t, b) => Inserted(t, b)[u][c] > 0
<1> DEFINE table == [rows[t] EXCEPT ![b] = rows[t][b] + 1]
<1>1. rows[t] \in [Batch -> Nat]
  OBVIOUS
<1>2. /\ table \in [Batch -> Nat]
      /\ \A c \in Batch : /\ table[c] >= rows[t][c]
                          /\ c # b => table[c] = rows[t][c]
                          /\ c = b => table[c] > 0
  <2>1. CASE b \in Batch
    BY <1>1, <2>1
  <2>2. CASE b \notin Batch
    <3>1. table = [c \in Batch |-> IF c = b THEN rows[t][b] + 1 ELSE rows[t][c]]
      BY <1>1
    <3>2. table = [c \in Batch |-> rows[t][c]]
      BY <2>2, <3>1
    <3> HIDE DEF table
    <3> QED BY <1>1, <2>2, <3>2
  <2> QED BY <2>1, <2>2
<1>3. CASE HasRows(t, b)
  <2>1. Inserted(t, b) = [rows EXCEPT ![t] = table]
    BY <1>3 DEF Inserted
  <2> HIDE DEF table
  <2>2. Inserted(t, b) \in [Table -> [Batch -> Nat]]
    BY <2>1, <1>2
  <2>3. ASSUME NEW u \in Table PROVE Inserted(t, b)[u] = IF u = t THEN table ELSE rows[u]
    BY <2>1
  <2> QED BY <2>2, <2>3, <1>2
<1>4. CASE ~HasRows(t, b)
  BY <1>4 DEF Inserted
<1> QED BY <1>3, <1>4

(* No count of waiting tasks falls below zero, no task is published with   *)
(* more than MaxRetries retries, no worker runs without a task.            *)
LEMMA TypeStep == TypeInv /\ [Next]_vars => TypeInv'
<1> SUFFICES ASSUME TypeInv, [Next]_vars PROVE TypeInv'
  OBVIOUS
<1>a. /\ req \in [Request -> ReqRecord] /\ work \in [Worker -> WorkRecord]
      /\ s3 \in SUBSET Request /\ queue \in [Task -> Nat]
      /\ rows \in [Table -> [Batch -> Nat]]
      /\ given_up \in SUBSET Request /\ faults \in Nat
      /\ \A w \in Worker : work[w].st # "idle" => work[w].task \in Task
  BY DEF TypeInv, TypeOK, ReqRecord, WorkRecord, Busy
<1>b. ASSUME req' \in [Request -> ReqRecord], work' \in [Worker -> WorkRecord],
             s3' \in SUBSET Request, queue' \in [Task -> Nat],
             rows' \in [Table -> [Batch -> Nat]],
             given_up' \in SUBSET Request, faults' \in Nat,
             \A w \in Worker : work'[w].st # "idle" => work'[w].task \in Task
      PROVE  TypeInv'
  BY <1>b DEF TypeInv, TypeOK, ReqRecord, WorkRecord, Busy
<1>c. \A x \in WorkStage : x # "idle" <=> x \in WorkStage \ {"idle"}
  OBVIOUS
<1>1. ASSUME NEW r \in Request, Receive(r) PROVE TypeInv'
  <2>1. req' \in [Request -> ReqRecord]
    BY <1>1, <1>a, VerdictType DEF Receive, Stage, Answered, ReqRecord
  <2> QED BY <1>1, <1>a, <1>b, <2>1 DEF Receive
<1>2. ASSUME NEW r \in Request, Upload(r) PROVE TypeInv'
  <2>1. req' \in [Request -> ReqRecord]
    BY <1>2, <1>a, StageEffect DEF Upload, Stage, Answered
  <2> QED BY <1>2, <1>a, <1>b, <2>1 DEF Upload, Fault, NoFault
<1>3. ASSUME NEW r \in Request, Enqueue(r) PROVE TypeInv'
  <2>1. req' \in [Request -> ReqRecord]
    BY <1>3, <1>a, StageEffect, SentEffect DEF Enqueue, Stage, Answered
  <2>2. [file |-> r, retries |-> 0] \in Task
    BY DEF Task
  <2> QED BY <1>3, <1>a, <1>b, <2>1, <2>2, PublishedType DEF Enqueue, Fault, NoFault
<1>4. ASSUME NEW r \in Request, ServerCrash(r) PROVE TypeInv'
  <2>1. req' \in [Request -> ReqRecord]
    BY <1>4, <1>a, StageEffect DEF ServerCrash, Stage, Answered
  <2> QED BY <1>4, <1>a, <1>b, <2>1 DEF ServerCrash, Fault
<1>5. ASSUME NEW w \in Worker, NEW m \in Task, Fetch(w, m) PROVE TypeInv'
  BY <1>5, <1>a, <1>b DEF Fetch, WorkStage, WorkRecord
<1>6. ASSUME NEW w \in Worker, Download(w) PROVE TypeInv'
  BY <1>6, <1>a, <1>b, GotoEffect DEF Download, Fault, NoFault, WorkStage
<1>7. ASSUME NEW w \in Worker, NEW t \in Table, NEW n \in {"spans", "done"}, Insert(w, t, n)
      PROVE TypeInv'
  <2>1. Inserted(t, BatchOf(w)) \in [Table -> [Batch -> Nat]]
    BY <1>a, InsertedEffect
  <2>2. work[w].st # "idle"
    BY <1>7 DEF Insert, Table
  <2>3. Goto(w, n) \/ Goto(w, "failed")
    BY <1>7 DEF Insert
  <2>4. /\ work' \in [Worker -> WorkRecord]
        /\ \A x \in Worker : work'[x].st # "idle" => work'[x].task \in Task
    BY <2>2, <2>3, <1>a, GotoEffect DEF WorkStage
  <2> QED
    BY <1>7, <1>a, <1>b, <2>1, <2>4 DEF Insert, Fault, NoFault
<1>8. ASSUME NEW w \in Worker, Retry(w) PROVE TypeInv'
  <2>1. work[w].task \in Task /\ work[w].task.file \in Request
    BY <1>8, <1>a DEF Retry, Task
  <2>2. /\ work' \in [Worker -> WorkRecord]
        /\ \A x \in Worker : work'[x].st # "idle" => work'[x].task \in Task
    BY <1>8, <2>1, <1>a, GotoEffect DEF Retry, WorkStage
  <2>3. queue' \in [Task -> Nat]
    BY <1>8, <1>a, <2>1, RetriedIsTask, PublishedType DEF Retry
  <2> QED
    BY <1>8, <1>a, <1>b, <2>1, <2>2, <2>3 DEF Retry, Fault, NoFault
<1>9. ASSUME NEW w \in Worker, Ack(w) PROVE TypeInv'
  BY <1>9, <1>a, <1>b DEF Ack, WorkStage, WorkRecord
<1>10. ASSUME NEW w \in Worker, WorkerCrash(w) PROVE TypeInv'
  <2>1. Requeued(w) \in [Task -> Nat]
    BY <1>10, <1>a, PublishedType DEF Requeued, WorkerCrash
  <2> QED
    BY <1>10, <1>a, <1>b, <2>1 DEF WorkerCrash, Fault, WorkStage, WorkRecord
<1>11. ASSUME NEW w \in Worker, Redeliver(w) PROVE TypeInv'
  <2>1. Requeued(w) \in [Task -> Nat]
    BY <1>11, <1>a, PublishedType DEF Requeued, Redeliver
  <2>2. work' = [work EXCEPT ![w].held = FALSE]
    BY <1>11 DEF Redeliver
  <2>3. /\ work' \in [Worker -> WorkRecord]
        /\ \A x \in Worker : work'[x].st = work[x].st /\ work'[x].task = work[x].task
    BY <2>2, <1>a, ReleaseEffect
  <2> QED
    BY <1>11, <1>a, <1>b, <2>1, <2>3 DEF Redeliver, Fault
<1>12. ASSUME NEW t \in Table, NEW b \in Batch, Merge(t, b) PROVE TypeInv'
  BY <1>12, <1>a, <1>b DEF Merge
<1>13. CASE UNCHANGED vars
  BY <1>13, <1>a, <1>b DEF vars
<1> QED
  BY <1>1, <1>2, <1>3, <1>4, <1>5, <1>6, <1>7, <1>8, <1>9, <1>10, <1>11, <1>12, <1>13
  DEF Next, ServerStep, WorkerStep, InsertTraces, InsertSpans, Table

(* Type correctness of the pipeline.                                       *)
THEOREM TypeCorrect == Spec => []TypeOK
<1>1. Init => TypeInv
  BY DEF Init, TypeInv, TypeOK, Busy, Task, Table, Stage, WorkStage, AuthAnswer
<1>2. TypeInv => TypeOK
  BY DEF TypeInv
<1> QED
  BY <1>1, <1>2, TypeStep, PTL DEF Spec

-----------------------------------------------------------------------------
(* The typing facts in the form the steps below use.                       *)
LEMMA TypeFacts ==
  ASSUME TypeInv
  PROVE  /\ req \in [Request -> ReqRecord] /\ work \in [Worker -> WorkRecord]
         /\ s3 \in SUBSET Request /\ queue \in [Task -> Nat]
         /\ rows \in [Table -> [Batch -> Nat]] /\ given_up \in SUBSET Request
         /\ \A w \in Worker : work[w].st # "idle" =>
              work[w].task \in Task /\ work[w].task.file \in Request
  BY DEF TypeInv, TypeOK, ReqRecord, WorkRecord, Busy, Task

(* A step of the server never takes an object from the bucket nor changes  *)
(* the batch or the authentication of a request that stored one, and it    *)
(* keeps the stages of requests in order.                                  *)
LEMMA ServerKeepsObjects ==
  ASSUME StoreInv, NEW r \in Request, ServerStep(r) \/ ServerCrash(r)
  PROVE  /\ UNCHANGED <<work, rows, given_up>>
         /\ s3 \subseteq s3'
         /\ \A q \in s3 : req'[q].batch = req[q].batch /\ req'[q].auth = req[q].auth
         /\ RequestInv'
<1> USE TypeFacts DEF StoreInv, RequestInv
<1>1. CASE Receive(r)
  <2>1. /\ req'[r].st \in {"400", "401", "402", "503", "decoded"} /\ ~req'[r].sent
        /\ req'[r].batch \in Batch
        /\ req'[r].st = "decoded" => Admitted(req'[r].auth)
    BY <1>1, VerdictType DEF Receive
  <2>2. \A q \in Request \ {r} : req'[q] = req[q]
    BY <1>1 DEF Receive
  <2>3. r \notin s3 /\ UNCHANGED <<work, rows, given_up, s3>>
    BY <1>1 DEF Receive
  <2>4. \A q \in s3 : q \in Request /\ q # r
    BY <2>3
  <2> QED BY <2>1, <2>2, <2>3, <2>4
<1>2. CASE Upload(r)
  <2>1. \/ s3' = s3 \cup {r} /\ req' = [req EXCEPT ![r].st = "stored"]
        \/ s3' \in {s3, s3 \cup {r}} /\ req' = [req EXCEPT ![r].st = "500"]
    BY <1>2 DEF Upload
  <2>2. /\ req'[r].st \in {"stored", "500"}
        /\ req'[r].st = "stored" => r \in s3'
        /\ req'[r].batch = req[r].batch /\ req'[r].auth = req[r].auth
        /\ req'[r].sent = req[r].sent
        /\ \A q \in Request \ {r} : req'[q] = req[q]
    BY <2>1, StageEffect DEF Stage, Answered
  <2>3. s3' \in {s3, s3 \cup {r}} /\ UNCHANGED <<work, rows, given_up>> /\ req[r].st = "decoded"
    BY <1>2 DEF Upload
  <2> QED BY <2>2, <2>3
<1>3. CASE Enqueue(r)
  <2>1. /\ req'[r].st = "200" /\ req'[r].batch = req[r].batch /\ req'[r].auth = req[r].auth
        /\ \A q \in Request \ {r} : req'[q] = req[q]
    BY <1>3, StageEffect, SentEffect DEF Enqueue, Stage, Answered
  <2>2. UNCHANGED <<work, rows, given_up, s3>> /\ req[r].st = "stored"
    BY <1>3 DEF Enqueue
  <2> QED BY <2>1, <2>2
<1>4. CASE ServerCrash(r)
  <2>1. /\ req'[r].st = "cut" /\ req'[r].batch = req[r].batch /\ req'[r].auth = req[r].auth
        /\ req'[r].sent = req[r].sent
        /\ \A q \in Request \ {r} : req'[q] = req[q]
    BY <1>4, StageEffect DEF ServerCrash, Stage, Answered
  <2>2. UNCHANGED <<work, rows, given_up, s3>> /\ req[r].st \in {"decoded", "stored"}
    BY <1>4 DEF ServerCrash
  <2> QED BY <2>1, <2>2
<1> QED BY <1>1, <1>2, <1>3, <1>4 DEF ServerStep

(* A published task names a stored object: only a request whose object is  *)
(* there publishes, and a worker republishes its own task.                 *)
LEMMA ServerStoreStep ==
  ASSUME StoreInv, TypeInv', NEW r \in Request, ServerStep(r) \/ ServerCrash(r)
  PROVE  StoreInv'
<1> USE TypeFacts, ServerKeepsObjects
<1>1. TaskHasObject'
  <2>1. CASE Enqueue(r)
    <3>1. [file |-> r, retries |-> 0] \in Task /\ r \in s3 /\ s3' = s3
      BY <2>1 DEF Enqueue, Task, StoreInv, RequestInv
    <3>2. \A m \in Task : queue'[m] > 0 => queue[m] > 0 \/ m.file = r
      BY <2>1, <3>1, PublishedType DEF Enqueue, StoreInv
    <3> QED BY <3>1, <3>2 DEF StoreInv, TaskHasObject, Busy
  <2>2. CASE ~Enqueue(r)
    <3>1. queue' = queue
      BY <2>2 DEF ServerStep, ServerCrash, Receive, Upload
    <3> QED BY <3>1 DEF StoreInv, TaskHasObject, Busy
  <2> QED BY <2>1, <2>2
<1>2. WorkerInv'
  <2>1. \A w \in Worker : work[w].st \in {"traces", "spans"} => BatchOf(w)' = BatchOf(w)
    BY DEF BatchOf, StoreInv, TaskHasObject, Busy
  <2> QED BY <2>1 DEF StoreInv, WorkerInv, HasTraces
<1>3. RowsInv'
  BY DEF StoreInv, RowsInv, Admitted
<1>4. SpansFollowTraces'
  BY DEF StoreInv, SpansFollowTraces, HasTraces
<1> QED
  BY <1>1, <1>2, <1>3, <1>4 DEF StoreInv

(* The stored object and the admitted batch behind a busy worker.          *)
LEMMA BusyFacts ==
  ASSUME StoreInv, NEW w \in Worker, work[w].st # "idle"
  PROVE  /\ work[w].task \in Task /\ work[w].task.file \in s3
         /\ BatchOf(w) \in Batch /\ Admitted(req[work[w].task.file].auth)
  BY TypeFacts DEF StoreInv, TaskHasObject, RequestInv, Busy, BatchOf

(* Fetching, failing, retrying, acknowledging, crashing, redelivery: no    *)
(* row changes, and the tasks are those that were there before.            *)
LEMMA TaskStoreStep ==
  ASSUME StoreInv, TypeInv', NEW w \in Worker,
         (\E m \in Task : Fetch(w, m)) \/ Download(w) \/ Retry(w) \/ Ack(w)
           \/ WorkerCrash(w) \/ Redeliver(w)
  PROVE  StoreInv'
<1> USE TypeFacts DEF StoreInv
<1>1. UNCHANGED <<req, s3, rows>>
  BY DEF Fetch, Download, Retry, Ack, WorkerCrash, Redeliver
<1>2. CASE \E m \in Task : Fetch(w, m)
  <2>1. PICK m \in Task : Fetch(w, m)
    BY <1>2
  <2>2. /\ work'[w].st = "download" /\ work'[w].task = m /\ queue[m] > 0
        /\ \A x \in Worker \ {w} : work'[x] = work[x]
    BY <2>1 DEF Fetch
  <2>3. \A k \in Task : queue'[k] > 0 => queue[k] > 0
    BY <2>1 DEF Fetch
  <2>4. TaskHasObject'
    BY <1>1, <2>2, <2>3 DEF TaskHasObject, Busy
  <2>5. WorkerInv'
    BY <1>1, <2>2 DEF WorkerInv, BatchOf, HasTraces
  <2> QED BY <1>1, <2>4, <2>5 DEF RequestInv, RowsInv, SpansFollowTraces, HasTraces, Admitted
<1>3. CASE Download(w)
  <2>1. UNCHANGED queue /\ work[w].st = "download"
    BY <1>3 DEF Download
  <2>2. \/ Goto(w, "traces") /\ Kind[BatchOf(w)] # "poison"
        \/ Goto(w, "failed")
    BY <1>3 DEF Download
  <2>3. /\ work'[w].st \in {"traces", "failed"} /\ work'[w].task = work[w].task
        /\ \A x \in Worker \ {w} : work'[x] = work[x]
        /\ work'[w].st = "traces" => Kind[BatchOf(w)] # "poison"
    BY <2>2, GotoEffect DEF WorkStage
  <2>4. TaskHasObject'
    BY <1>1, <2>1, <2>3 DEF TaskHasObject, Busy
  <2>5. WorkerInv'
    BY <1>1, <2>3 DEF WorkerInv, BatchOf, HasTraces
  <2> QED BY <1>1, <2>4, <2>5 DEF RequestInv, RowsInv, SpansFollowTraces, HasTraces, Admitted
<1>4. CASE Retry(w) \/ Ack(w) \/ WorkerCrash(w) \/ Redeliver(w)
  <2>1. work[w].st # "idle"
    BY <1>4 DEF Retry, Ack, WorkerCrash, Redeliver
  <2>2. /\ work[w].task \in Task /\ work[w].task.file \in s3
    BY <2>1, BusyFacts
  <2>3. /\ \A x \in Worker \ {w} : work'[x] = work[x]
        /\ \/ work'[w].st \in {"idle", "done"}
           \/ work'[w].st = work[w].st
        /\ work'[w].st = "idle" \/ work'[w].task = work[w].task
    <3>1. CASE Retry(w)
      BY <3>1, GotoEffect DEF Retry, WorkStage
    <3>2. CASE Ack(w) \/ WorkerCrash(w)
      BY <3>2 DEF Ack, WorkerCrash
    <3>3. CASE Redeliver(w)
      <4>1. work' = [work EXCEPT ![w].held = FALSE]
        BY <3>3 DEF Redeliver
      <4> QED BY <4>1, ReleaseEffect
    <3> QED BY <1>4, <3>1, <3>2, <3>3
  <2>4. \A k \in Task : queue'[k] > 0 => queue[k] > 0 \/ k.file = work[w].task.file
    <3>1. \/ queue' = queue
          \/ queue' = Published(work[w].task)
          \/ /\ work[w].task.retries < MaxRetries
             /\ queue' = Published([work[w].task EXCEPT !.retries = @ + 1])
      BY <1>4 DEF Retry, Ack, WorkerCrash, Redeliver, Requeued
    <3>2. ASSUME NEW m \in Task, m.file = work[w].task.file, queue' = Published(m)
          PROVE  \A k \in Task : queue'[k] > 0 => queue[k] > 0 \/ k.file = work[w].task.file
      BY <3>2, PublishedType
    <3> QED BY <2>2, <3>1, <3>2, RetriedIsTask
  <2>5. TaskHasObject'
    BY <1>1, <2>1, <2>2, <2>3, <2>4 DEF TaskHasObject, Busy
  <2>6. WorkerInv'
    BY <1>1, <2>1, <2>3 DEF WorkerInv, BatchOf, HasTraces
  <2> QED BY <1>1, <2>5, <2>6 DEF RequestInv, RowsInv, SpansFollowTraces, HasTraces, Admitted
<1> QED BY <1>2, <1>3, <1>4

(* An insert writes the rows of the batch of a stored, admitted request,   *)
(* and the span insert comes after the trace insert.                       *)
LEMMA InsertStoreStep ==
  ASSUME StoreInv, TypeInv', NEW w \in Worker, InsertTraces(w) \/ InsertSpans(w)
  PROVE  StoreInv'
<1> USE TypeFacts DEF StoreInv
<1>1. PICK t \in Table, n \in {"spans", "done"} :
        Insert(w, t, n) /\ (t = "traces" <=> n = "spans")
  BY DEF InsertTraces, InsertSpans, Table
<1>2. UNCHANGED <<req, s3, queue>> /\ work[w].st = t /\ t \in {"traces", "spans"}
  BY <1>1 DEF Insert, Table
<1>3. /\ work[w].task.file \in s3 /\ BatchOf(w) \in Batch
      /\ Admitted(req[work[w].task.file].auth)
      /\ BatchOf(w) = req[work[w].task.file].batch
  BY <1>2, BusyFacts DEF BatchOf
<1>4. /\ \/ rows' = Inserted(t, BatchOf(w)) /\ Goto(w, n)
         \/ rows' \in {rows, Inserted(t, BatchOf(w))} /\ Goto(w, "failed")
  BY <1>1 DEF Insert
<1>5. /\ work'[w].st \in {n, "failed"} /\ work'[w].task = work[w].task
      /\ work'[w].st = n => rows' = Inserted(t, BatchOf(w))
      /\ \A x \in Worker \ {w} : work'[x] = work[x]
  BY <1>4, GotoEffect DEF WorkStage
<1>6. \A u \in Table, c \in Batch :
        /\ rows'[u][c] >= rows[u][c]
        /\ u # t \/ c # BatchOf(w) => rows'[u][c] = rows[u][c]
  BY <1>4, InsertedEffect
<1>7. TaskHasObject'
  BY <1>2, <1>5 DEF TaskHasObject, Busy
<1>8. WorkerInv'
  <2>1. \A x \in Worker : work'[x].st # "idle" => BatchOf(x)' = BatchOf(x)
    BY <1>2, <1>5 DEF BatchOf
  <2>2. \A x \in Worker \ {w} : work[x].st \in {"traces", "spans"} => BatchOf(x) \in Batch
    BY BusyFacts
  <2>3. work'[w].st = "spans" /\ HasTraces(BatchOf(w)) => rows'["traces"][BatchOf(w)] > 0
    BY <1>1, <1>3, <1>5, InsertedEffect DEF HasRows
  <2>4. ASSUME NEW x \in Worker \ {w}, work[x].st = "spans", HasTraces(BatchOf(x))
        PROVE rows'["traces"][BatchOf(x)] > 0
    <3>1. rows["traces"][BatchOf(x)] > 0 /\ BatchOf(x) \in Batch /\ "traces" \in Table
      BY <2>2, <2>4 DEF WorkerInv, Table
    <3>2. rows'["traces"][BatchOf(x)] \in Nat /\ rows["traces"][BatchOf(x)] \in Nat
      BY <3>1, TypeFacts DEF TypeInv, TypeOK
    <3> QED BY <1>6, <3>1, <3>2
  <2> QED BY <1>2, <1>5, <2>1, <2>3, <2>4 DEF WorkerInv, HasTraces
<1>9. RowsInv'
  BY <1>2, <1>3, <1>6 DEF RowsInv, Admitted
<1>10. SpansFollowTraces'
  <2> SUFFICES ASSUME NEW b \in Batch, HasTraces(b), rows'["spans"][b] > 0
               PROVE  rows'["traces"][b] > 0
    BY DEF SpansFollowTraces, HasTraces
  <2>1. /\ rows'["traces"][b] \in Nat /\ rows["traces"][b] \in Nat
        /\ rows'["traces"][b] >= rows["traces"][b]
    BY <1>6 DEF TypeInv, TypeOK, Table
  <2>2. CASE rows["spans"][b] > 0
    BY <2>1, <2>2 DEF SpansFollowTraces
  <2>3. CASE ~(rows["spans"][b] > 0)
    <3>1. t = "spans" /\ b = BatchOf(w)
      BY <2>3, <1>6 DEF Table
    <3> QED BY <2>1, <3>1, <1>2 DEF WorkerInv
  <2> QED BY <2>2, <2>3
<1> QED BY <1>2, <1>7, <1>8, <1>9, <1>10 DEF RequestInv, Admitted

LEMMA StoreStep == StoreInv /\ [Next]_vars => StoreInv'
<1> SUFFICES ASSUME StoreInv, [Next]_vars PROVE StoreInv'
  OBVIOUS
<1>1. TypeInv'
  BY TypeStep DEF StoreInv
<1>2. ASSUME NEW t \in Table, NEW b \in Batch, Merge(t, b) PROVE StoreInv'
  <2>1. UNCHANGED <<req, s3, queue, work>>
        /\ \A u \in Table, c \in Batch : rows[u][c] > 0 <=> rows'[u][c] > 0
    BY <1>2, TypeFacts DEF Merge, StoreInv
  <2>2. WorkerInv'
    BY <2>1, BusyFacts DEF StoreInv, WorkerInv, BatchOf, HasTraces, Table
  <2> QED
    BY <1>1, <2>1, <2>2
    DEF StoreInv, RequestInv, TaskHasObject, Busy, SpansFollowTraces, HasTraces, RowsInv,
        Admitted, Table
<1>3. CASE UNCHANGED vars
  BY <1>3, <1>1
  DEF vars, StoreInv, RequestInv, TaskHasObject, Busy, WorkerInv, BatchOf, HasTraces,
      SpansFollowTraces, RowsInv, Admitted
<1> QED
  BY <1>1, <1>2, <1>3, ServerStoreStep, TaskStoreStep, InsertStoreStep
  DEF Next, WorkerStep

-----------------------------------------------------------------------------
(* A row that ClickHouse has stays there: a merge leaves one copy.         *)
LEMMA RowsStay ==
  ASSUME StoreInv, Next
  PROVE  \A t \in Table, b \in Batch : rows[t][b] > 0 => rows'[t][b] > 0
<1> USE TypeFacts DEF StoreInv
<1>1. ASSUME NEW w \in Worker, InsertTraces(w) \/ InsertSpans(w)
      PROVE  \A t \in Table, b \in Batch : rows[t][b] > 0 => rows'[t][b] > 0
  <2>1. PICK t \in Table : rows' \in {rows, Inserted(t, BatchOf(w))}
    BY <1>1 DEF InsertTraces, InsertSpans, Insert, Table
  <2>2. \A u \in Table, c \in Batch : rows'[u][c] >= rows[u][c] /\ rows'[u][c] \in Nat
    BY <2>1, InsertedEffect
  <2> QED BY <2>2
<1>2. ASSUME NEW t \in Table, NEW b \in Batch, Merge(t, b)
      PROVE  \A u \in Table, c \in Batch : rows[u][c] > 0 => rows'[u][c] > 0
  BY <1>2 DEF Merge
<1> QED
  BY <1>1, <1>2
  DEF Next, ServerStep, WorkerStep, Receive, Upload, Enqueue, ServerCrash, Fetch, Download,
      Retry, Ack, WorkerCrash, Redeliver

(* A stored request keeps its batch, whoever moves.                        *)
LEMMA StoredKeepsBatch ==
  ASSUME StoreInv, Next, NEW r \in s3
  PROVE  r \in Request /\ req'[r].batch = req[r].batch
<1>1. CASE UNCHANGED req
  BY <1>1, TypeFacts DEF StoreInv
<1>2. ASSUME NEW q \in Request, ServerStep(q) \/ ServerCrash(q)
      PROVE  r \in Request /\ req'[r].batch = req[r].batch
  BY <1>2, ServerKeepsObjects, TypeFacts DEF StoreInv
<1> QED
  BY <1>1, <1>2
  DEF Next, WorkerStep, InsertTraces, InsertSpans, Insert, Fetch, Download, Retry, Ack,
      WorkerCrash, Redeliver, Merge

(* What has landed or was given up stays so.                               *)
LEMMA SettledStays ==
  ASSUME StoreInv, Next, NEW r \in s3, Settled(r)
  PROVE  Settled(r)'
<1>1. given_up \subseteq given_up'
  BY DEF Next, ServerStep, WorkerStep, Receive, Upload, Enqueue, ServerCrash, Fetch, Download,
         Retry, Ack, WorkerCrash, Redeliver, InsertTraces, InsertSpans, Insert, Merge
<1>2. ASSUME req[r].batch # NoBatch, Landed(req[r].batch) PROVE Settled(r)'
  <2>1. req[r].batch \in Batch /\ req'[r].batch = req[r].batch
    BY StoredKeepsBatch, TypeFacts DEF StoreInv, RequestInv
  <2>2. Landed(req[r].batch)'
    BY <1>2, <2>1, RowsStay DEF Landed, HasRows, HasTraces, HasSpans
  <2> QED BY <1>2, <2>1, <2>2 DEF Settled
<1> QED BY <1>1, <1>2 DEF Settled

(* A published task does not get lost: each step hands it on.              *)
LEMMA TrackedStep == IInv /\ StoreInv' /\ Next => TrackedInv'
<1> SUFFICES ASSUME IInv, StoreInv', Next, NEW r \in Request, req'[r].sent
             PROVE  Tracked(r)'
  BY DEF TrackedInv
<1> USE TypeFacts DEF IInv, StoreInv
<1>0. Tracked(r)' <=> \/ \E m \in Task : m.file = r /\ queue'[m] > 0
                      \/ \E w \in Worker : /\ work'[w].st \notin {"idle", "done"}
                                           /\ work'[w].held /\ work'[w].task.file = r
                      \/ Settled(r)'
  BY DEF Tracked, Waiting, RunBy
<1>1. CASE ~req[r].sent
  <2>1. Enqueue(r)
    <3>1. ASSUME NEW q \in Request, Receive(q) \/ Upload(q) \/ ServerCrash(q), ~req'[r].sent
          PROVE Enqueue(r)
      BY <3>1
    <3>2. ASSUME NEW q \in Request, Receive(q) PROVE ~req'[r].sent
      BY <1>1, <3>2 DEF Receive
    <3>3. ASSUME NEW q \in Request, Upload(q) \/ ServerCrash(q) PROVE ~req'[r].sent
      <4>1. PICK st \in {"stored", "500", "cut"} : req' = [req EXCEPT ![q].st = st]
        BY <3>3 DEF Upload, ServerCrash
      <4> QED BY <1>1, <4>1, StageEffect DEF Stage, Answered
    <3>4. ASSUME NEW q \in Request, Enqueue(q), q # r PROVE ~req'[r].sent
      BY <1>1, <3>4, StageEffect, SentEffect DEF Enqueue, Stage, Answered
    <3>5. UNCHANGED req => ~req'[r].sent
      BY <1>1
    <3> QED
      BY <3>2, <3>3, <3>4, <3>5
      DEF Next, ServerStep, WorkerStep, InsertTraces, InsertSpans, Insert, Fetch, Download,
          Retry, Ack, WorkerCrash, Redeliver, Merge
  <2>2. queue' = Published([file |-> r, retries |-> 0])
    <3>1. CASE req' = [req EXCEPT ![r].st = "200"]
      BY <1>1, <3>1, StageEffect DEF Stage, Answered
    <3> QED BY <2>1, <3>1 DEF Enqueue
  <2>3. [file |-> r, retries |-> 0] \in Task
    BY DEF Task
  <2> QED BY <1>0, <2>2, <2>3, PublishedType
<1>2. CASE req[r].sent
  <2>1. r \in s3 /\ (Settled(r) => Settled(r)')
    BY <1>2, SettledStays DEF RequestInv
  <2>2. \/ \E m \in Task : m.file = r /\ queue[m] > 0
        \/ \E w \in Worker : /\ work[w].st \notin {"idle", "done"}
                             /\ work[w].held /\ work[w].task.file = r
        \/ Settled(r)
    BY <1>2 DEF TrackedInv, Tracked, Waiting, RunBy
  <2>3. ASSUME NEW q \in Request, ServerStep(q) \/ ServerCrash(q) PROVE Tracked(r)'
    <3>1. work' = work
      BY <2>3, ServerKeepsObjects
    <3>2. \A m \in Task : queue[m] > 0 => queue'[m] > 0
      <4>1. [file |-> q, retries |-> 0] \in Task
        BY DEF Task
      <4>2. queue' = queue \/ queue' = Published([file |-> q, retries |-> 0])
        BY <2>3 DEF ServerStep, ServerCrash, Receive, Upload, Enqueue
      <4>3. ASSUME NEW k \in Task, queue' = Published(k)
            PROVE \A m \in Task : queue[m] > 0 => queue'[m] > 0
        BY <4>3, PublishedType
      <4> QED BY <4>1, <4>2, <4>3
    <3> QED BY <1>0, <2>1, <2>2, <3>1, <3>2
  <2>4. ASSUME NEW w \in Worker, NEW m \in Task, Fetch(w, m) PROVE Tracked(r)'
    <3>1. /\ work[w].st = "idle" /\ work'[w] = [st |-> "download", task |-> m, held |-> TRUE]
          /\ \A x \in Worker \ {w} : work'[x] = work[x]
          /\ \A k \in Task \ {m} : queue'[k] = queue[k]
      BY <2>4 DEF Fetch
    <3>2. CASE m.file = r
      BY <1>0, <3>1, <3>2
    <3>3. CASE m.file # r
      BY <1>0, <2>1, <2>2, <3>1, <3>3
    <3> QED BY <3>2, <3>3
  <2>5. ASSUME NEW w \in Worker, Download(w) PROVE Tracked(r)'
    <3>1. UNCHANGED queue /\ (Goto(w, "traces") \/ Goto(w, "failed"))
      BY <2>5 DEF Download
    <3>2. /\ work'[w].st \in {"traces", "failed"} /\ work'[w].task = work[w].task
          /\ work'[w].held = work[w].held
          /\ \A x \in Worker \ {w} : work'[x] = work[x]
      BY <3>1, GotoEffect DEF WorkStage
    <3> QED BY <1>0, <2>1, <2>2, <3>1, <3>2
  <2>6. ASSUME NEW w \in Worker, InsertTraces(w) \/ InsertSpans(w) PROVE Tracked(r)'
    <3>1. UNCHANGED queue /\ work[w].st \in {"traces", "spans"}
      BY <2>6 DEF InsertTraces, InsertSpans, Insert
    <3>2. \/ Goto(w, "spans") \/ Goto(w, "failed")
          \/ /\ Goto(w, "done") /\ work[w].st = "spans"
             /\ rows' = Inserted("spans", BatchOf(w))
      BY <2>6 DEF InsertTraces, InsertSpans, Insert
    <3>3. CASE Goto(w, "spans") \/ Goto(w, "failed")
      <4>1. /\ work'[w].st \in {"spans", "failed"} /\ work'[w].task = work[w].task
            /\ work'[w].held = work[w].held
            /\ \A x \in Worker \ {w} : work'[x] = work[x]
        BY <3>3, GotoEffect DEF WorkStage
      <4> QED BY <1>0, <2>1, <2>2, <3>1, <4>1
    <3>4. CASE /\ Goto(w, "done") /\ work[w].st = "spans"
               /\ rows' = Inserted("spans", BatchOf(w))
      <4>1. \A x \in Worker \ {w} : work'[x] = work[x]
        BY <3>4, GotoEffect DEF WorkStage
      <4>2. CASE work[w].task.file = r
        <5>1. BatchOf(w) \in Batch /\ BatchOf(w) = req[r].batch /\ req'[r].batch = req[r].batch
          BY <2>1, <3>1, <4>2, BusyFacts, StoredKeepsBatch DEF BatchOf
        <5>2. Kind[BatchOf(w)] # "poison"
              /\ (HasTraces(BatchOf(w)) => rows["traces"][BatchOf(w)] > 0)
          BY <3>4 DEF WorkerInv
        <5>3. HasTraces(BatchOf(w)) => rows'["traces"][BatchOf(w)] > 0
          BY <5>1, <5>2, RowsStay DEF Table
        <5>4. HasSpans(BatchOf(w)) => rows'["spans"][BatchOf(w)] > 0
          BY <3>4, <5>1, InsertedEffect DEF Table, HasRows
        <5>5. Settled(r)'
          BY <5>1, <5>2, <5>3, <5>4 DEF Settled, Landed, HasRows, HasTraces, HasSpans, Table
        <5> QED BY <1>0, <5>5
      <4>3. CASE work[w].task.file # r
        BY <1>0, <2>1, <2>2, <3>1, <4>1, <4>3
      <4> QED BY <4>2, <4>3
    <3> QED BY <3>2, <3>3, <3>4
  <2>7. ASSUME NEW w \in Worker, Retry(w) PROVE Tracked(r)'
    <3>1. /\ work[w].task \in Task
          /\ \A x \in Worker \ {w} : work'[x] = work[x]
      BY <2>7, GotoEffect DEF Retry, WorkStage
    <3>2. CASE /\ work[w].task.retries < MaxRetries
               /\ queue' = Published([work[w].task EXCEPT !.retries = @ + 1])
      <4>1. PICK k \in Task : k.file = work[w].task.file /\ queue' = Published(k)
        BY <3>1, <3>2, RetriedIsTask
      <4>2. queue'[k] > 0 /\ \A m \in Task : queue[m] > 0 => queue'[m] > 0
        BY <4>1, PublishedType
      <4> QED BY <1>0, <2>1, <2>2, <3>1, <4>1, <4>2
    <3>3. CASE UNCHANGED queue /\ given_up' = given_up \cup {work[w].task.file}
      <4>1. work[w].task.file = r => Settled(r)'
        BY <3>3 DEF Settled
      <4> QED BY <1>0, <2>1, <2>2, <3>1, <3>3, <4>1
    <3> QED BY <2>7, <3>2, <3>3 DEF Retry
  <2>8. ASSUME NEW w \in Worker, Ack(w) PROVE Tracked(r)'
    <3>1. /\ work[w].st = "done" /\ UNCHANGED queue
          /\ \A x \in Worker \ {w} : work'[x] = work[x]
      BY <2>8 DEF Ack
    <3> QED BY <1>0, <2>1, <2>2, <3>1
  <2>9. ASSUME NEW w \in Worker, WorkerCrash(w) \/ Redeliver(w) PROVE Tracked(r)'
    <3>1. /\ work[w].task \in Task /\ queue' = Requeued(w)
          /\ \A x \in Worker \ {w} : work'[x] = work[x]
      BY <2>9 DEF WorkerCrash, Redeliver
    <3>2. /\ \A m \in Task : queue[m] > 0 => queue'[m] > 0
          /\ work[w].held => queue'[work[w].task] > 0
      <4>1. ASSUME NEW k \in Task, queue' = Published(k)
            PROVE queue'[k] > 0 /\ \A m \in Task : queue[m] > 0 => queue'[m] > 0
        BY <4>1, PublishedType
      <4>2. CASE work[w].held
        <5>1. queue' = Published(work[w].task)
          BY <3>1, <4>2 DEF Requeued
        <5> QED BY <3>1, <4>1, <5>1
      <4>3. CASE ~work[w].held
        <5>1. queue' = queue
          BY <3>1, <4>3 DEF Requeued
        <5> QED BY <4>3, <5>1
      <4> QED BY <4>2, <4>3
    <3> QED BY <1>0, <2>1, <2>2, <3>1, <3>2
  <2>10. ASSUME NEW t \in Table, NEW b \in Batch, Merge(t, b) PROVE Tracked(r)'
    BY <1>0, <2>1, <2>2, <2>10 DEF Merge
  <2> QED
    BY <2>3, <2>4, <2>5, <2>6, <2>7, <2>8, <2>9, <2>10 DEF Next, WorkerStep
<1> QED BY <1>1, <1>2

(* The inductive invariant of the pipeline.                                *)
THEOREM InductiveInvariant == Spec => []IInv
<1>1. Init => IInv
  <2> SUFFICES ASSUME Init PROVE IInv
    OBVIOUS
  <2>1. TypeInv
    BY DEF Init, TypeInv, TypeOK, Busy, Task, Table, Stage, WorkStage, AuthAnswer
  <2>2. \A r \in Request : req[r].st = "new" /\ ~req[r].sent
    BY DEF Init
  <2>3. \A w \in Worker : work[w].st = "idle"
    BY DEF Init
  <2>4. /\ s3 = {} /\ \A m \in Task : queue[m] = 0
        /\ \A t \in Table, b \in Batch : rows[t][b] = 0
    BY DEF Init
  <2> QED
    BY <2>1, <2>2, <2>3, <2>4
    DEF IInv, StoreInv, RequestInv, TaskHasObject, WorkerInv, SpansFollowTraces, RowsInv,
        TrackedInv, Busy, Table
<1>2. IInv /\ [Next]_vars => IInv'
  <2>1. CASE UNCHANGED vars
    BY <2>1, StoreStep
    DEF vars, IInv, TrackedInv, Tracked, Waiting, RunBy, Settled, Landed, HasRows,
        HasTraces, HasSpans
  <2>2. CASE Next
    BY <2>2, StoreStep, TrackedStep DEF IInv
  <2> QED BY <2>1, <2>2
<1> QED BY <1>1, <1>2, PTL DEF Spec

(* Whatever fails, a published file is waiting, reserved by a worker, in   *)
(* ClickHouse or given up after its last retry.                            *)
THEOREM AtLeastOnce == Spec => []PublishedIsNotLost
<1>1. IInv => PublishedIsNotLost
  BY DEF IInv, TrackedInv, Tracked, Waiting, RunBy, PublishedIsNotLost, InFlight, Busy
<1> QED BY <1>1, InductiveInvariant, PTL

(* No task runs without its object, no span row precedes the trace rows of *)
(* its batch, a refused request stores nothing and only admitted batches   *)
(* have rows.                                                              *)
THEOREM StorageOrder == Spec => []StoreIsOrdered
<1>1. IInv => TaskHasObject /\ SpansFollowTraces
  BY DEF IInv, StoreInv
<1>2. IInv => RefusedLeavesNothing
  BY DEF IInv, StoreInv, RequestInv, RowsInv, RefusedLeavesNothing, Admitted
<1>3. IInv => StoreIsOrdered
  BY <1>1, <1>2 DEF StoreIsOrdered
<1> QED BY <1>3, InductiveInvariant, PTL

-----------------------------------------------------------------------------
(* Copies.  What can still add to a table: a copy of a task that waits,    *)
(* and a worker that is not past the insert or will publish its task again.*)
Announced(b) == {r \in Request : req[r].sent /\ req[r].batch = b}
Copies(b) == {x \in Task \X Nat : req[x[1].file].batch = b /\ x[2] < queue[x[1]]}
Ahead(s, t) == s \in {"download", "traces", "failed"} \/ (t = "spans" /\ s = "spans")
Underway(t, b) == {w \in Worker : Ahead(work[w].st, t) /\ BatchOf(w) = b}

CountInv(t, b) ==
  /\ IsFiniteSet(Announced(b)) /\ IsFiniteSet(Copies(b)) /\ IsFiniteSet(Underway(t, b))
  /\ rows[t][b] + Cardinality(Copies(b)) + Cardinality(Underway(t, b))
       <= Cardinality(Announced(b)) + faults

(* Each published copy, each insert and each retry is paid for by an       *)
(* accepted request or by a failure, in every table and for every batch.   *)
CopyInv == \A t \in Table, b \in Batch : CountInv(t, b)

(* A set that gains at most one element, and one that loses one.           *)
LEMMA OneMore ==
  ASSUME NEW S, NEW T, NEW x, IsFiniteSet(S), T \subseteq S \cup {x}
  PROVE  /\ IsFiniteSet(T) /\ Cardinality(T) \in Nat /\ Cardinality(S) \in Nat
         /\ Cardinality(T) <= Cardinality(S) + 1
<1>1. Cardinality(S) \in Nat
  BY FS_CardinalityType
<1>2. IsFiniteSet(S \cup {x}) /\ Cardinality(S \cup {x}) <= Cardinality(S) + 1
  <2>1. /\ IsFiniteSet(S \cup {x})
        /\ Cardinality(S \cup {x}) = IF x \in S THEN Cardinality(S) ELSE Cardinality(S) + 1
    BY FS_AddElement
  <2> QED BY <1>1, <2>1
<1>3. IsFiniteSet(T) /\ Cardinality(T) <= Cardinality(S \cup {x})
  BY <1>2, FS_Subset
<1>4. Cardinality(T) \in Nat /\ Cardinality(S \cup {x}) \in Nat
  BY <1>2, <1>3, FS_CardinalityType
<1> QED BY <1>1, <1>2, <1>3, <1>4

LEMMA NoMore ==
  ASSUME NEW S, NEW T, IsFiniteSet(S), T \subseteq S
  PROVE  /\ IsFiniteSet(T) /\ Cardinality(T) \in Nat /\ Cardinality(S) \in Nat
         /\ Cardinality(T) <= Cardinality(S)
BY FS_Subset, FS_CardinalityType

LEMMA OneLess ==
  ASSUME NEW S, NEW T, NEW x \in S, IsFiniteSet(S), T \subseteq S \ {x}
  PROVE  /\ IsFiniteSet(T) /\ Cardinality(T) \in Nat /\ Cardinality(S) \in Nat
         /\ Cardinality(T) + 1 <= Cardinality(S)
<1>1. IsFiniteSet(S \ {x}) /\ Cardinality(S \ {x}) = Cardinality(S) - 1
  BY FS_RemoveElement
<1>2. IsFiniteSet(T) /\ Cardinality(T) <= Cardinality(S \ {x})
  BY <1>1, FS_Subset
<1> QED BY <1>1, <1>2, FS_CardinalityType

LEMMA NewElement ==
  ASSUME NEW S, NEW x, x \notin S, IsFiniteSet(S)
  PROVE  /\ IsFiniteSet(S \cup {x}) /\ Cardinality(S) \in Nat
         /\ Cardinality(S \cup {x}) = Cardinality(S) + 1
BY FS_AddElement, FS_CardinalityType

(* An insert adds one copy at most.                                        *)
LEMMA InsertedAddsOne ==
  ASSUME rows \in [Table -> [Batch -> Nat]], NEW t \in Table, NEW b \in Batch
  PROVE  Inserted(t, b)[t][b] <= rows[t][b] + 1
<1>1. rows[t] \in [Batch -> Nat] /\ rows[t][b] \in Nat
  OBVIOUS
<1>2. CASE HasRows(t, b)
  <2>1. Inserted(t, b)[t] = [rows[t] EXCEPT ![b] = rows[t][b] + 1]
    BY <1>2 DEF Inserted
  <2>2. [rows[t] EXCEPT ![b] = rows[t][b] + 1][b] = rows[t][b] + 1
    BY <1>1
  <2> QED BY <1>1, <2>1, <2>2
<1>3. CASE ~HasRows(t, b)
  BY <1>1, <1>3 DEF Inserted
<1> QED BY <1>2, <1>3

(* Publishing a task adds one copy, of its own batch; taking it removes    *)
(* one.  The batches of the requests must be those from before.            *)
LEMMA PublishedCopies ==
  ASSUME queue \in [Task -> Nat], NEW m \in Task, queue' = Published(m),
         \A r \in Request : req'[r].batch = req[r].batch, NEW b
  PROVE  /\ Copies(b)' \subseteq Copies(b) \cup {<<m, queue[m]>>}
         /\ req[m.file].batch # b => Copies(b)' \subseteq Copies(b)
<1>1. SUFFICES ASSUME NEW x \in Task \X Nat, req'[x[1].file].batch = b, x[2] < queue'[x[1]]
               PROVE  /\ x \in Copies(b) \/ x = <<m, queue[m]>>
                      /\ req[m.file].batch # b => x \in Copies(b)
  BY DEF Copies
<1>2. PICK k \in Task, n \in Nat : x = <<k, n>>
  OBVIOUS
<1>3. k.file \in Request /\ m.file \in Request
  BY DEF Task
<1>4. req[k.file].batch = b /\ n < queue'[k]
  BY <1>1, <1>2, <1>3
<1>5. CASE k = m
  <2>1. n < queue[m] + 1 /\ queue[m] \in Nat
    BY <1>4, <1>5, PublishedType
  <2>2. n < queue[m] \/ n = queue[m]
    BY <2>1
  <2> QED BY <1>2, <1>4, <1>5, <2>2 DEF Copies
<1>6. CASE k # m
  <2>1. n < queue[k]
    BY <1>4, <1>6, PublishedType
  <2> QED BY <1>2, <1>4, <2>1 DEF Copies
<1> QED BY <1>5, <1>6

LEMMA TakenCopies ==
  ASSUME queue \in [Task -> Nat], NEW m \in Task, queue[m] > 0,
         queue' = [queue EXCEPT ![m] = @ - 1], UNCHANGED req, NEW b
  PROVE  /\ Copies(b)' \subseteq Copies(b)
         /\ req[m.file].batch = b =>
              /\ <<m, queue[m] - 1>> \in Copies(b)
              /\ Copies(b)' \subseteq Copies(b) \ {<<m, queue[m] - 1>>}
<1>1. queue[m] \in Nat /\ queue[m] - 1 \in Nat
  OBVIOUS
<1>2. ASSUME NEW x \in Task \X Nat, req[x[1].file].batch = b, x[2] < queue'[x[1]]
      PROVE  x \in Copies(b) /\ x # <<m, queue[m] - 1>>
  <2>1. PICK k \in Task, n \in Nat : x = <<k, n>>
    OBVIOUS
  <2>2. n < queue'[k] /\ req[k.file].batch = b
    BY <1>2, <2>1
  <2>3. CASE k = m
    <3>1. n < queue[m] - 1
      BY <2>2, <2>3
    <3>2. n < queue[m] /\ n # queue[m] - 1
      BY <1>1, <3>1
    <3> QED BY <2>1, <2>2, <2>3, <3>2 DEF Copies
  <2>4. CASE k # m
    <3>1. n < queue[k]
      BY <2>2, <2>4
    <3> QED BY <2>1, <2>2, <2>4, <3>1 DEF Copies
  <2> QED BY <2>3, <2>4
<1>3. req[m.file].batch = b => <<m, queue[m] - 1>> \in Copies(b)
  BY <1>1 DEF Copies
<1>4. \A x \in Copies(b)' : x \in Task \X Nat /\ req[x[1].file].batch = b /\ x[2] < queue'[x[1]]
  BY DEF Copies
<1> QED BY <1>2, <1>3, <1>4

-----------------------------------------------------------------------------
(* The steps.  How the three counts of one table and batch may move.       *)
LEMMA CountFacts ==
  ASSUME TypeInv, NEW t \in Table, NEW b \in Batch, CountInv(t, b)
  PROVE  /\ rows[t][b] \in Nat /\ faults \in Nat
         /\ Cardinality(Copies(b)) \in Nat /\ Cardinality(Underway(t, b)) \in Nat
         /\ Cardinality(Announced(b)) \in Nat
BY FS_CardinalityType DEF CountInv, TypeInv, TypeOK

(* The batch of a stored request, and so of a task and of a busy worker,   *)
(* stays.                                                                  *)
LEMMA ServerCountStep ==
  ASSUME StoreInv, StoreInv', CopyInv, NEW t \in Table, NEW b \in Batch,
         NEW r \in Request, ServerStep(r) \/ ServerCrash(r)
  PROVE  CountInv(t, b)'
<1> USE TypeFacts DEF StoreInv
<1>a. CountInv(t, b) /\ (req[r].sent => req[r].st = "200")
  BY DEF CopyInv, RequestInv
<1>b. /\ UNCHANGED <<work, rows>>
      /\ \A q \in s3 : req'[q].batch = req[q].batch
  BY ServerKeepsObjects
<1>c. Underway(t, b)' = Underway(t, b)
  <2>1. ASSUME NEW w \in Worker, Ahead(work[w].st, t) PROVE BatchOf(w)' = BatchOf(w)
    <3>1. work[w].st # "idle"
      BY <2>1 DEF Ahead
    <3> QED BY <1>b, <3>1, BusyFacts DEF BatchOf
  <2> QED BY <1>b, <2>1 DEF Underway
<1>d. ASSUME UNCHANGED queue PROVE Copies(b)' = Copies(b)
  <2>1. ASSUME NEW m \in Task, NEW n \in Nat, n < queue[m]
        PROVE  req'[m.file].batch = req[m.file].batch
    <3>1. queue[m] > 0
      BY <2>1
    <3> QED BY <1>b, <3>1 DEF TaskHasObject
  <2>2. \A x \in Task \X Nat : x[2] < queue[x[1]] => req'[x[1].file].batch = req[x[1].file].batch
    BY <2>1
  <2> QED BY <1>d, <2>2 DEF Copies
<1>e. \A q \in Request \ {r} : req'[q] = req[q]
  BY StageEffect, SentEffect DEF ServerStep, ServerCrash, Receive, Upload, Enqueue, Stage, Answered
<1>1. CASE Receive(r)
  <2>1. ~req'[r].sent /\ req[r].st = "new" /\ UNCHANGED <<queue, faults>>
    BY <1>1 DEF Receive
  <2>2. ~req[r].sent
    BY <1>a, <2>1
  <2>3. Announced(b)' = Announced(b)
    BY <1>e, <2>1, <2>2 DEF Announced
  <2> QED BY <1>a, <1>b, <1>c, <1>d, <2>1, <2>3 DEF CountInv
<1>2. CASE Upload(r) \/ ServerCrash(r)
  <2>1. /\ req[r].st \in {"decoded", "stored"} /\ UNCHANGED queue
        /\ req'[r].batch = req[r].batch /\ req'[r].sent = req[r].sent
        /\ faults' \in {faults, faults + 1}
    BY <1>2, StageEffect DEF Upload, ServerCrash, Stage, Answered, Fault, NoFault
  <2>2. ~req[r].sent
    BY <1>a, <2>1
  <2>3. Announced(b)' = Announced(b)
    BY <1>e, <2>1, <2>2 DEF Announced
  <2> QED BY <1>a, <1>b, <1>c, <1>d, <2>1, <2>2, <2>3, CountFacts DEF CountInv
<1>3. CASE Enqueue(r)
  <2> DEFINE m == [file |-> r, retries |-> 0]
  <2>0. req[r].st = "stored"
    BY <1>3 DEF Enqueue
  <2>4. m \in Task /\ m.file = r
    <3>1. m \in Task
      BY DEF Task
    <3> QED BY <3>1
  <2>1. ~req[r].sent /\ r \notin Announced(b)
    BY <1>a, <2>0 DEF Announced
  <2>2. CASE /\ queue' = Published(m) /\ UNCHANGED faults
             /\ req' = [req EXCEPT ![r].st = "200", ![r].sent = TRUE]
    <3>1. req'[r].st = "200" /\ req'[r].sent /\ req'[r].batch = req[r].batch
      BY <2>2, SentEffect
    <3>2. /\ Copies(b)' \subseteq Copies(b) \cup {<<m, queue[m]>>}
          /\ req[r].batch # b => Copies(b)' \subseteq Copies(b)
      BY <1>e, <2>2, <2>4, <3>1, PublishedCopies
    <3>3. CASE req[r].batch = b
      <4>1. Announced(b)' = Announced(b) \cup {r}
        BY <1>e, <3>1, <3>3 DEF Announced
      <4>2. /\ IsFiniteSet(Announced(b)')
            /\ Cardinality(Announced(b)') = Cardinality(Announced(b)) + 1
        BY <1>a, <2>1, <4>1, NewElement DEF CountInv
      <4>3. /\ IsFiniteSet(Copies(b)') /\ Cardinality(Copies(b)') \in Nat
            /\ Cardinality(Copies(b)') <= Cardinality(Copies(b)) + 1
        BY <1>a, <3>2, OneMore DEF CountInv
      <4> QED BY <1>a, <1>b, <1>c, <2>2, <3>1, <4>2, <4>3, CountFacts DEF CountInv
    <3>4. CASE req[r].batch # b
      <4>1. Announced(b)' = Announced(b)
        BY <1>e, <3>1, <2>1, <3>4 DEF Announced
      <4>2. /\ IsFiniteSet(Copies(b)') /\ Cardinality(Copies(b)') \in Nat
            /\ Cardinality(Copies(b)') <= Cardinality(Copies(b))
        BY <1>a, <3>2, <3>4, NoMore DEF CountInv
      <4> QED BY <1>a, <1>b, <1>c, <2>2, <3>1, <4>1, <4>2, CountFacts DEF CountInv
    <3> QED BY <3>3, <3>4
  <2>3. CASE req' = [req EXCEPT ![r].st = "200"] /\ UNCHANGED queue /\ faults' = faults + 1
    <3>1. /\ req'[r].batch = req[r].batch /\ req'[r].sent = req[r].sent
          /\ req'[r].st = "200"
      BY <2>3, StageEffect DEF Stage, Answered
    <3>2. Announced(b)' = Announced(b)
      BY <1>e, <3>1 DEF Announced
    <3> QED BY <1>a, <1>b, <1>c, <1>d, <2>3, <3>1, <3>2, CountFacts DEF CountInv
  <2> QED BY <1>3, <2>2, <2>3 DEF Enqueue, Fault, NoFault
<1> QED BY <1>1, <1>2, <1>3 DEF ServerStep

(* A worker that fetches takes a copy; whatever else it does short of an   *)
(* insert leaves at most what it published again.                          *)
LEMMA TaskCountStep ==
  ASSUME StoreInv, CopyInv, NEW t \in Table, NEW b \in Batch, NEW w \in Worker,
         (\E m \in Task : Fetch(w, m)) \/ Download(w) \/ Retry(w) \/ Ack(w)
           \/ WorkerCrash(w) \/ Redeliver(w)
  PROVE  CountInv(t, b)'
<1> USE TypeFacts DEF StoreInv
<1>a. CountInv(t, b)
  BY DEF CopyInv
<1>b. UNCHANGED <<req, rows>> /\ Announced(b)' = Announced(b)
  BY DEF Fetch, Download, Retry, Ack, WorkerCrash, Redeliver, Announced
<1>c. ASSUME \A x \in Worker \ {w} : work'[x] = work[x]
      PROVE  /\ Underway(t, b)' \subseteq Underway(t, b) \cup {w}
             /\ w \notin Underway(t, b)' => Underway(t, b)' \subseteq Underway(t, b) \ {w}
  BY <1>b, <1>c DEF Underway, BatchOf
<1>d. /\ faults \in Nat /\ rows[t][b] \in Nat /\ Cardinality(Announced(b)) \in Nat
      /\ Cardinality(Copies(b)) \in Nat /\ Cardinality(Underway(t, b)) \in Nat
  BY <1>a, CountFacts
<1>1. ASSUME NEW m \in Task, Fetch(w, m) PROVE CountInv(t, b)'
  <2>1. /\ queue[m] > 0 /\ queue' = [queue EXCEPT ![m] = @ - 1] /\ UNCHANGED faults
        /\ work'[w].task = m /\ \A x \in Worker \ {w} : work'[x] = work[x]
    BY <1>1 DEF Fetch
  <2>2. /\ Copies(b)' \subseteq Copies(b)
        /\ req[m.file].batch = b =>
             /\ <<m, queue[m] - 1>> \in Copies(b)
             /\ Copies(b)' \subseteq Copies(b) \ {<<m, queue[m] - 1>>}
    BY <1>b, <2>1, TakenCopies
  <2>3. CASE req[m.file].batch = b
    <3>1. /\ IsFiniteSet(Copies(b)') /\ Cardinality(Copies(b)') \in Nat
          /\ Cardinality(Copies(b)') + 1 <= Cardinality(Copies(b))
      BY <1>a, <2>2, <2>3, OneLess DEF CountInv
    <3>2. /\ IsFiniteSet(Underway(t, b)') /\ Cardinality(Underway(t, b)') \in Nat
          /\ Cardinality(Underway(t, b)') <= Cardinality(Underway(t, b)) + 1
      BY <1>a, <1>c, <2>1, OneMore DEF CountInv
    <3> QED BY <1>a, <1>b, <1>d, <2>1, <3>1, <3>2 DEF CountInv
  <2>4. CASE req[m.file].batch # b
    <3>1. /\ IsFiniteSet(Copies(b)') /\ Cardinality(Copies(b)') \in Nat
          /\ Cardinality(Copies(b)') <= Cardinality(Copies(b))
      BY <1>a, <2>2, NoMore DEF CountInv
    <3>2. w \notin Underway(t, b)'
      BY <1>b, <2>1, <2>4 DEF Underway, BatchOf
    <3>3. /\ IsFiniteSet(Underway(t, b)') /\ Cardinality(Underway(t, b)') \in Nat
          /\ Cardinality(Underway(t, b)') <= Cardinality(Underway(t, b))
      BY <1>a, <1>c, <2>1, <3>2, NoMore DEF CountInv
    <3> QED BY <1>a, <1>b, <1>d, <2>1, <3>1, <3>3 DEF CountInv
  <2> QED BY <2>3, <2>4
<1>2. CASE Download(w) \/ Ack(w)
  <2>1. /\ UNCHANGED queue /\ faults' \in {faults, faults + 1}
        /\ \A x \in Worker \ {w} : work'[x] = work[x]
        /\ \/ work[w].st = "download" /\ work'[w].task = work[w].task
           \/ work'[w].st = "idle"
    <3>1. CASE Download(w)
      BY <3>1, GotoEffect DEF Download, WorkStage, Fault, NoFault
    <3>2. CASE Ack(w)
      BY <3>2 DEF Ack
    <3> QED BY <1>2, <3>1, <3>2
  <2>2. Copies(b)' = Copies(b)
    BY <1>b, <2>1 DEF Copies
  <2>3. Underway(t, b)' \subseteq Underway(t, b)
    BY <1>b, <1>c, <2>1 DEF Underway, BatchOf, Ahead
  <2>4. /\ IsFiniteSet(Underway(t, b)') /\ Cardinality(Underway(t, b)') \in Nat
        /\ Cardinality(Underway(t, b)') <= Cardinality(Underway(t, b))
    BY <1>a, <2>3, NoMore DEF CountInv
  <2> QED BY <1>a, <1>b, <1>d, <2>1, <2>2, <2>4 DEF CountInv
<1>3. CASE Retry(w)
  <2>1. /\ work[w].st = "failed" /\ work'[w].st = "done" /\ work[w].task \in Task
        /\ \A x \in Worker \ {w} : work'[x] = work[x]
    BY <1>3, GotoEffect DEF Retry, WorkStage
  <2>2. w \notin Underway(t, b)'
    BY <2>1 DEF Underway, Ahead, Table
  <2>3. Underway(t, b)' \subseteq Underway(t, b) \ {w}
    BY <1>c, <2>1, <2>2
  <2>4. CASE /\ work[w].task.retries < MaxRetries
             /\ queue' = Published([work[w].task EXCEPT !.retries = @ + 1])
             /\ UNCHANGED faults
    <3>1. PICK k \in Task : k.file = work[w].task.file /\ queue' = Published(k)
      BY <2>1, <2>4, RetriedIsTask
    <3>2. /\ Copies(b)' \subseteq Copies(b) \cup {<<k, queue[k]>>}
          /\ req[k.file].batch # b => Copies(b)' \subseteq Copies(b)
      BY <1>b, <3>1, PublishedCopies
    <3>3. CASE BatchOf(w) = b
      <4>1. w \in Underway(t, b)
        BY <2>1, <3>3 DEF Underway, Ahead
      <4>2. /\ IsFiniteSet(Underway(t, b)') /\ Cardinality(Underway(t, b)') \in Nat
            /\ Cardinality(Underway(t, b)') + 1 <= Cardinality(Underway(t, b))
        BY <1>a, <2>3, <4>1, OneLess DEF CountInv
      <4>3. /\ IsFiniteSet(Copies(b)') /\ Cardinality(Copies(b)') \in Nat
            /\ Cardinality(Copies(b)') <= Cardinality(Copies(b)) + 1
        BY <1>a, <3>2, OneMore DEF CountInv
      <4> QED BY <1>a, <1>b, <1>d, <2>4, <4>2, <4>3 DEF CountInv
    <3>4. CASE BatchOf(w) # b
      <4>1. /\ IsFiniteSet(Underway(t, b)') /\ Cardinality(Underway(t, b)') \in Nat
            /\ Cardinality(Underway(t, b)') <= Cardinality(Underway(t, b))
        BY <1>a, <2>3, NoMore DEF CountInv
      <4>2. Copies(b)' \subseteq Copies(b)
        BY <3>1, <3>2, <3>4 DEF BatchOf
      <4>3. /\ IsFiniteSet(Copies(b)') /\ Cardinality(Copies(b)') \in Nat
            /\ Cardinality(Copies(b)') <= Cardinality(Copies(b))
        BY <1>a, <4>2, NoMore DEF CountInv
      <4> QED BY <1>a, <1>b, <1>d, <2>4, <4>1, <4>3 DEF CountInv
    <3> QED BY <3>3, <3>4
  <2>5. CASE UNCHANGED queue /\ faults' \in {faults, faults + 1}
    <3>1. Copies(b)' = Copies(b)
      BY <1>b, <2>5 DEF Copies
    <3>2. /\ IsFiniteSet(Underway(t, b)') /\ Cardinality(Underway(t, b)') \in Nat
          /\ Cardinality(Underway(t, b)') <= Cardinality(Underway(t, b))
      BY <1>a, <2>3, NoMore DEF CountInv
    <3> QED BY <1>a, <1>b, <1>d, <2>5, <3>1, <3>2 DEF CountInv
  <2> QED BY <1>3, <2>4, <2>5 DEF Retry, Fault, NoFault
<1>4. CASE WorkerCrash(w) \/ Redeliver(w)
  <2>1. /\ work[w].task \in Task /\ queue' = Requeued(w) /\ faults' = faults + 1
        /\ \A x \in Worker \ {w} : work'[x] = work[x]
        /\ \/ work'[w].st = "idle"
           \/ work'[w].st = work[w].st /\ work'[w].task = work[w].task
    <3>1. CASE WorkerCrash(w)
      BY <3>1 DEF WorkerCrash, Fault
    <3>2. CASE Redeliver(w)
      <4>1. work' = [work EXCEPT ![w].held = FALSE]
        BY <3>2 DEF Redeliver
      <4> QED BY <3>2, <4>1, ReleaseEffect DEF Redeliver, Fault
    <3> QED BY <1>4, <3>1, <3>2
  <2>2. Underway(t, b)' \subseteq Underway(t, b)
    BY <1>b, <1>c, <2>1 DEF Underway, BatchOf, Ahead, Table
  <2>3. /\ IsFiniteSet(Underway(t, b)') /\ Cardinality(Underway(t, b)') \in Nat
        /\ Cardinality(Underway(t, b)') <= Cardinality(Underway(t, b))
    BY <1>a, <2>2, NoMore DEF CountInv
  <2>4. Copies(b)' \subseteq Copies(b) \cup {<<work[w].task, queue[work[w].task]>>}
    <3>1. CASE work[w].held
      BY <1>b, <2>1, <3>1, PublishedCopies DEF Requeued
    <3>2. CASE ~work[w].held
      BY <1>b, <2>1, <3>2 DEF Requeued, Copies
    <3> QED BY <3>1, <3>2
  <2>5. /\ IsFiniteSet(Copies(b)') /\ Cardinality(Copies(b)') \in Nat
        /\ Cardinality(Copies(b)') <= Cardinality(Copies(b)) + 1
    BY <1>a, <2>4, OneMore DEF CountInv
  <2> QED BY <1>a, <1>b, <1>d, <2>1, <2>3, <2>5 DEF CountInv
<1> QED BY <1>1, <1>2, <1>3, <1>4

(* An insert uses up the worker's turn on its own table; a failure after   *)
(* it gives the turn back and is counted.                                  *)
LEMMA InsertCountStep ==
  ASSUME StoreInv, StoreInv', CopyInv, NEW t \in Table, NEW b \in Batch,
         NEW w \in Worker, InsertTraces(w) \/ InsertSpans(w)
  PROVE  CountInv(t, b)'
<1> USE TypeFacts DEF StoreInv
<1>a. CountInv(t, b)
  BY DEF CopyInv
<1>1. PICK u \in Table, n \in {"spans", "done"} :
        Insert(w, u, n) /\ (u = "traces" <=> n = "spans")
  BY DEF InsertTraces, InsertSpans, Table
<1>2. UNCHANGED <<req, queue>> /\ work[w].st = u /\ u \in {"traces", "spans"}
  BY <1>1 DEF Insert, Table
<1>b. Announced(b)' = Announced(b) /\ Copies(b)' = Copies(b)
  BY <1>2 DEF Announced, Copies
<1>d. /\ faults \in Nat /\ rows[t][b] \in Nat /\ Cardinality(Announced(b)) \in Nat
      /\ Cardinality(Copies(b)) \in Nat /\ Cardinality(Underway(t, b)) \in Nat
  BY <1>a, CountFacts
<1>e. rows'[t][b] \in Nat
  BY DEF TypeInv, TypeOK
<1>f. ASSUME NEW s \in WorkStage, Goto(w, s)
      PROVE  /\ work'[w].st = s /\ BatchOf(w)' = BatchOf(w)
             /\ Underway(t, b)' \subseteq Underway(t, b) \cup {w}
             /\ w \notin Underway(t, b)' => Underway(t, b)' \subseteq Underway(t, b) \ {w}
  <2>1. /\ work'[w].st = s /\ work'[w].task = work[w].task
        /\ \A x \in Worker \ {w} : work'[x] = work[x]
    BY <1>f, GotoEffect
  <2> QED BY <1>2, <2>1 DEF Underway, BatchOf
<1>3. CASE u = t /\ BatchOf(w) = b
  <2>1. w \in Underway(t, b)
    BY <1>2, <1>3 DEF Underway, Ahead
  <2>2. rows'[t][b] <= rows[t][b] + 1
    <3>1. rows' = rows \/ rows' = Inserted(u, BatchOf(w))
      BY <1>1 DEF Insert
    <3> QED BY <1>3, <1>d, <3>1, InsertedAddsOne
  <2>3. CASE Goto(w, n) /\ UNCHANGED faults
    <3>1. ~Ahead(n, t)
      BY <1>1, <1>2, <1>3 DEF Ahead
    <3>2. w \notin Underway(t, b)'
      BY <1>f, <2>3, <3>1 DEF Underway, WorkStage
    <3>3. Underway(t, b)' \subseteq Underway(t, b) \ {w}
      BY <1>f, <2>3, <3>2 DEF WorkStage
    <3>4. /\ IsFiniteSet(Underway(t, b)') /\ Cardinality(Underway(t, b)') \in Nat
          /\ Cardinality(Underway(t, b)') + 1 <= Cardinality(Underway(t, b))
      BY <1>a, <2>1, <3>3, OneLess DEF CountInv
    <3> QED BY <1>a, <1>b, <1>d, <1>e, <2>2, <2>3, <3>4 DEF CountInv
  <2>4. CASE Goto(w, "failed") /\ faults' = faults + 1
    <3>1. Underway(t, b)' \subseteq Underway(t, b)
      BY <1>f, <2>1, <2>4 DEF WorkStage
    <3>2. /\ IsFiniteSet(Underway(t, b)') /\ Cardinality(Underway(t, b)') \in Nat
          /\ Cardinality(Underway(t, b)') <= Cardinality(Underway(t, b))
      BY <1>a, <3>1, NoMore DEF CountInv
    <3> QED BY <1>a, <1>b, <1>d, <1>e, <2>2, <2>4, <3>2 DEF CountInv
  <2> QED BY <1>1, <2>3, <2>4 DEF Insert, Fault, NoFault
<1>4. CASE ~(u = t /\ BatchOf(w) = b)
  <2>1. rows'[t][b] = rows[t][b]
    <3>1. rows' = rows \/ rows' = Inserted(u, BatchOf(w))
      BY <1>1 DEF Insert
    <3> QED BY <1>4, <3>1, InsertedEffect
  <2>2. CASE Goto(w, n) /\ UNCHANGED faults
    <3>1. ASSUME w \in Underway(t, b)' PROVE w \in Underway(t, b)
      <4>1. BatchOf(w) = b /\ Ahead(n, t)
        BY <1>f, <2>2, <3>1 DEF Underway, WorkStage
      <4> QED BY <1>1, <1>2, <4>1 DEF Underway, Ahead
    <3>2. Underway(t, b)' \subseteq Underway(t, b)
      BY <1>f, <2>2, <3>1 DEF WorkStage
    <3>3. /\ IsFiniteSet(Underway(t, b)') /\ Cardinality(Underway(t, b)') \in Nat
          /\ Cardinality(Underway(t, b)') <= Cardinality(Underway(t, b))
      BY <1>a, <3>2, NoMore DEF CountInv
    <3> QED BY <1>a, <1>b, <1>d, <2>1, <2>2, <3>3 DEF CountInv
  <2>3. CASE Goto(w, "failed") /\ faults' = faults + 1
    <3>1. /\ IsFiniteSet(Underway(t, b)') /\ Cardinality(Underway(t, b)') \in Nat
          /\ Cardinality(Underway(t, b)') <= Cardinality(Underway(t, b)) + 1
      BY <1>a, <1>f, <2>3, OneMore DEF CountInv, WorkStage
    <3> QED BY <1>a, <1>b, <1>d, <2>1, <2>3, <3>1 DEF CountInv
  <2> QED BY <1>1, <2>2, <2>3 DEF Insert, Fault, NoFault
<1> QED BY <1>3, <1>4

(* Every step keeps the count of every table and batch.                    *)
LEMMA CopyStep == StoreInv /\ StoreInv' /\ CopyInv /\ [Next]_vars => CopyInv'
<1> SUFFICES ASSUME StoreInv, StoreInv', CopyInv, [Next]_vars PROVE CopyInv'
  OBVIOUS
<1> USE TypeFacts DEF StoreInv
<1>1. ASSUME NEW r \in Request, ServerStep(r) \/ ServerCrash(r) PROVE CopyInv'
  <2> SUFFICES ASSUME NEW t \in Table, NEW b \in Batch PROVE CountInv(t, b)'
    BY DEF CopyInv
  <2> QED BY <1>1, ServerCountStep
<1>2. ASSUME NEW w \in Worker, WorkerStep(w) \/ WorkerCrash(w) \/ Redeliver(w) PROVE CopyInv'
  <2> SUFFICES ASSUME NEW t \in Table, NEW b \in Batch PROVE CountInv(t, b)'
    BY DEF CopyInv
  <2> QED BY <1>2, TaskCountStep, InsertCountStep DEF WorkerStep
<1>3. ASSUME NEW u \in Table, NEW c \in Batch, Merge(u, c) PROVE CopyInv'
  <2>1. UNCHANGED <<req, queue, work, faults>>
    BY <1>3 DEF Merge
  <2> SUFFICES ASSUME NEW t \in Table, NEW b \in Batch PROVE CountInv(t, b)'
    BY DEF CopyInv
  <2>2. CountInv(t, b)'
    <3>1. CountInv(t, b)
      BY DEF CopyInv
    <3>2. rows'[t][b] \in Nat /\ rows'[t][b] <= rows[t][b]
      BY <1>3 DEF Merge
    <3>3. /\ Copies(b)' = Copies(b) /\ Underway(t, b)' = Underway(t, b)
          /\ Announced(b)' = Announced(b)
      BY <2>1 DEF Copies, Underway, Announced, BatchOf
    <3> QED BY <2>1, <3>1, <3>2, <3>3, CountFacts DEF CountInv
  <2> QED BY <2>2
<1>4. CASE UNCHANGED vars
  <2>1. UNCHANGED <<req, queue, work, rows, faults>>
    BY <1>4 DEF vars
  <2>2. ASSUME NEW t \in Table, NEW b \in Batch
        PROVE  /\ Copies(b)' = Copies(b) /\ Underway(t, b)' = Underway(t, b)
               /\ Announced(b)' = Announced(b)
    BY <2>1 DEF Copies, Underway, Announced, BatchOf
  <2> SUFFICES ASSUME NEW t \in Table, NEW b \in Batch PROVE CountInv(t, b)'
    BY DEF CopyInv
  <2>3. CountInv(t, b)
    BY DEF CopyInv
  <2> QED BY <2>1, <2>2, <2>3 DEF CountInv
<1> QED BY <1>1, <1>2, <1>3, <1>4 DEF Next

(* A table never holds more copies of a batch than it was accepted for,    *)
(* but for one per failure.                                                *)
THEOREM CopiesArePaidFor == Spec => []CopiesAreBounded
<1>1. Init => CopyInv
  <2> SUFFICES ASSUME Init PROVE CopyInv
    OBVIOUS
  <2>1. ASSUME NEW t \in Table, NEW b \in Batch PROVE CountInv(t, b)
    <3>1. Announced(b) = {} /\ Underway(t, b) = {}
      BY DEF Init, Announced, Underway, Ahead
    <3>2. Copies(b) = {}
      BY DEF Init, Copies
    <3>3. rows[t][b] = 0 /\ faults = 0
      BY DEF Init
    <3> QED BY <3>1, <3>2, <3>3, FS_EmptySet DEF CountInv
  <2> QED BY <2>1 DEF CopyInv
<1>2. IInv => StoreInv
  BY DEF IInv
<1>3. StoreInv /\ CopyInv => CopiesAreBounded
  <2> SUFFICES ASSUME StoreInv, CopyInv, NEW t \in Table, NEW b \in Batch
               PROVE  rows[t][b] <= Cardinality(Announced(b)) + faults
    BY DEF CopiesAreBounded, Announced
  <2>1. CountInv(t, b)
    BY DEF CopyInv
  <2> QED BY <2>1, CountFacts DEF CountInv, StoreInv
<1> QED BY <1>1, <1>2, <1>3, CopyStep, InductiveInvariant, PTL DEF Spec

-----------------------------------------------------------------------------
(* The pipeline implements its contract.                                   *)

ShownPairs == {tb \in Table \X Batch : rows[tb[1]][tb[2]] > 0}
BodyOf(q)  == IF VerdictOf(q.st) = "admitted" THEN q.batch ELSE NoBatch

(* Nothing a project sees changes while each request keeps its verdict and *)
(* its batch, each table its batches, and no task is given up.             *)
LEMMA QuietStep ==
  ASSUME req \in [Request -> ReqRecord], req' \in [Request -> ReqRecord],
         \A r \in Request : /\ VerdictOf(req'[r].st) = VerdictOf(req[r].st)
                            /\ BodyOf(req'[r]) = BodyOf(req[r]),
         ShownPairs' = ShownPairs, UNCHANGED given_up
  PROVE  UNCHANGED Contract!contract
  BY DEF Contract!contract, ShownPairs, BodyOf

(* Serving an admitted request changes neither its verdict nor its batch.  *)
LEMMA ServerRefines ==
  ASSUME StoreInv, TypeInv', NEW r \in Request, ServerStep(r) \/ ServerCrash(r)
  PROVE  [Contract!Next]_(Contract!contract)
<1> USE TypeFacts DEF StoreInv
<1>1. UNCHANGED <<rows, given_up>> /\ ShownPairs' = ShownPairs
  BY ServerKeepsObjects DEF ShownPairs
<1>2. req \in [Request -> ReqRecord] /\ req' \in [Request -> ReqRecord]
  BY DEF TypeInv, TypeOK, ReqRecord
<1>3. CASE Receive(r)
  <2>1. PICK b \in Batch, auth \in AuthAnswer :
          req' = [req EXCEPT ![r] = [st |-> Verdict(b, auth), batch |-> b,
                                     auth |-> auth, sent |-> FALSE]]
    BY <1>3 DEF Receive
  <2>2. /\ \A q \in Request \ {r} : req'[q] = req[q]
        /\ VerdictOf(req[r].st) = "open" /\ BodyOf(req[r]) = NoBatch
        /\ req'[r].batch = b
        /\ req'[r].st \in {"400", "401", "402", "503", "decoded"}
    BY <1>2, <1>3, <2>1, VerdictType DEF Receive, VerdictOf, BodyOf
  <2>3. CASE req'[r].st = "decoded"
    <3>1. VerdictOf(req'[r].st) = "admitted" /\ BodyOf(req'[r]) = b
      BY <2>2, <2>3 DEF VerdictOf, Refused, BodyOf
    <3>2. Contract!Admit(r, b)
      BY <1>1, <2>2, <3>1 DEF Contract!Admit, ShownPairs, BodyOf
    <3> QED BY <3>2 DEF Contract!Next
  <2>4. CASE req'[r].st # "decoded"
    <3>1. VerdictOf(req'[r].st) = "refused" /\ BodyOf(req'[r]) = NoBatch
      BY <2>2, <2>4 DEF VerdictOf, Refused, BodyOf
    <3>2. Contract!Refuse(r)
      BY <1>1, <2>2, <3>1 DEF Contract!Refuse, ShownPairs, BodyOf
    <3> QED BY <3>2 DEF Contract!Next
  <2> QED BY <2>3, <2>4
<1>4. CASE Upload(r) \/ Enqueue(r) \/ ServerCrash(r)
  <2>1. req[r].st \in {"decoded", "stored"}
    BY <1>4 DEF Upload, Enqueue, ServerCrash
  <2>2. /\ req'[r].st \in {"stored", "500", "200", "cut"} /\ req'[r].batch = req[r].batch
        /\ \A q \in Request \ {r} : req'[q] = req[q]
    BY <1>4, StageEffect, SentEffect DEF Upload, Enqueue, ServerCrash, Stage, Answered
  <2>3. \A q \in Request : /\ VerdictOf(req'[q].st) = VerdictOf(req[q].st)
                           /\ BodyOf(req'[q]) = BodyOf(req[q])
    BY <2>1, <2>2 DEF VerdictOf, Refused, BodyOf
  <2> QED BY <1>1, <1>2, <2>3, QuietStep
<1> QED BY <1>3, <1>4 DEF ServerStep

(* The file of a busy worker belongs to an admitted request whose body is  *)
(* the batch the worker processes.                                         *)
LEMMA BusyIsAdmitted ==
  ASSUME StoreInv, NEW w \in Worker, work[w].st # "idle"
  PROVE  /\ work[w].task.file \in Request /\ BatchOf(w) \in Batch
         /\ VerdictOf(req[work[w].task.file].st) = "admitted"
         /\ BodyOf(req[work[w].task.file]) = BatchOf(w)
<1>1. /\ work[w].task.file \in Request /\ work[w].task.file \in s3 /\ BatchOf(w) \in Batch
  BY BusyFacts, TypeFacts DEF StoreInv
<1>2. req[work[w].task.file].st \in {"stored", "200", "500", "cut"}
  BY <1>1 DEF StoreInv, RequestInv
<1>3. VerdictOf(req[work[w].task.file].st) = "admitted"
  BY <1>2 DEF VerdictOf, Refused
<1> QED BY <1>1, <1>3 DEF BodyOf, BatchOf

(* An insert shows the batch of an admitted request, its trace first.      *)
LEMMA InsertRefines ==
  ASSUME StoreInv, StoreInv', NEW w \in Worker, InsertTraces(w) \/ InsertSpans(w)
  PROVE  [Contract!Next]_(Contract!contract)
<1> USE TypeFacts DEF StoreInv
<1>1. PICK t \in Table, n \in {"spans", "done"} : Insert(w, t, n)
  BY DEF InsertTraces, InsertSpans, Table
<1>2. UNCHANGED <<req, given_up>> /\ work[w].st = t /\ t \in {"traces", "spans"}
  BY <1>1 DEF Insert, Table
<1>3. PICK f \in Request, b \in Batch :
        b = BatchOf(w) /\ VerdictOf(req[f].st) = "admitted" /\ BodyOf(req[f]) = b
  BY <1>2, BusyIsAdmitted
<1>4. rows' = rows \/ rows' = Inserted(t, b)
  BY <1>1, <1>3 DEF Insert
<1>5. CASE rows' = rows \/ ~HasRows(t, b)
  <2>1. rows' = rows
    BY <1>4, <1>5 DEF Inserted
  <2> QED BY <2>1, <1>2, QuietStep DEF ShownPairs
<1>6. CASE rows' = Inserted(t, b) /\ HasRows(t, b)
  <2>1. /\ rows'[t][b] > 0
        /\ \A u \in Table, c \in Batch : u # t \/ c # b => rows'[u][c] = rows[u][c]
    BY <1>3, <1>6, InsertedEffect
  <2>2. ShownPairs' = ShownPairs \cup {<<t, b>>}
    <3>1. \A u \in Table, c \in Batch :
            rows'[u][c] > 0 <=> rows[u][c] > 0 \/ (u = t /\ c = b)
      BY <2>1
    <3>2. \A tb \in Table \X Batch :
            rows'[tb[1]][tb[2]] > 0 <=> rows[tb[1]][tb[2]] > 0 \/ tb = <<t, b>>
      BY <3>1
    <3> QED BY <3>2, <1>3 DEF ShownPairs
  <2>3. t = "spans" /\ b \in {c \in Batch : HasTraces(c)} => <<"traces", b>> \in ShownPairs
    BY <1>2, <1>3 DEF WorkerInv, ShownPairs, Table
  <2>4. Contract!Show(t, b)
    BY <1>2, <1>3, <2>2, <2>3 DEF Contract!Show, ShownPairs, BodyOf
  <2> QED BY <1>2, <2>4 DEF Contract!Next
<1> QED BY <1>4, <1>5, <1>6

(* Everything else a worker or the broker does is invisible, except that   *)
(* a task is given up.                                                     *)
LEMMA TaskRefines ==
  ASSUME StoreInv, NEW w \in Worker,
         (\E m \in Task : Fetch(w, m)) \/ Download(w) \/ Retry(w) \/ Ack(w)
           \/ WorkerCrash(w) \/ Redeliver(w)
  PROVE  [Contract!Next]_(Contract!contract)
<1> USE TypeFacts DEF StoreInv
<1>1. UNCHANGED <<req, rows>> /\ ShownPairs' = ShownPairs
  BY DEF Fetch, Download, Retry, Ack, WorkerCrash, Redeliver, ShownPairs
<1>2. CASE UNCHANGED given_up
  BY <1>1, <1>2, QuietStep
<1>3. CASE given_up' # given_up
  <2>1. given_up' = given_up \cup {work[w].task.file} /\ work[w].st = "failed"
    BY <1>3 DEF Fetch, Download, Retry, Ack, WorkerCrash, Redeliver
  <2>2. Contract!Abandon(work[w].task.file) /\ work[w].task.file \in Request
    BY <1>1, <2>1, BusyIsAdmitted DEF Contract!Abandon, ShownPairs, BodyOf
  <2> QED BY <2>2 DEF Contract!Next
<1> QED BY <1>2, <1>3

LEMMA StepRefines ==
  ASSUME StoreInv, StoreInv', [Next]_vars
  PROVE  [Contract!Next]_(Contract!contract)
<1>1. CASE UNCHANGED vars
  BY <1>1, QuietStep, TypeFacts DEF vars, ShownPairs, StoreInv
<1>2. ASSUME NEW t \in Table, NEW b \in Batch, Merge(t, b)
      PROVE  UNCHANGED Contract!contract
  <2>1. \A u \in Table, c \in Batch : rows'[u][c] > 0 <=> rows[u][c] > 0
    BY <1>2, TypeFacts DEF Merge, StoreInv
  <2>2. UNCHANGED <<req, given_up>> /\ ShownPairs' = ShownPairs
    BY <1>2, <2>1 DEF Merge, ShownPairs
  <2> QED BY <2>2, QuietStep, TypeFacts DEF StoreInv
<1> QED
  BY <1>1, <1>2, ServerRefines, InsertRefines, TaskRefines DEF Next, WorkerStep, StoreInv

(* Every behaviour of the pipeline is one its contract allows.             *)
THEOREM Refinement == Spec => Refines
<1>1. Init => Contract!Init
  <2> SUFFICES ASSUME Init PROVE Contract!Init
    OBVIOUS
  <2>1. \A r \in Request : VerdictOf(req[r].st) = "open"
    BY DEF Init, VerdictOf
  <2>2. \A t \in Table, b \in Batch : ~(rows[t][b] > 0)
    BY DEF Init
  <2> QED BY <2>1, <2>2 DEF Init, Contract!Init
<1>2. IInv => StoreInv
  BY DEF IInv
<1> QED
  BY <1>1, <1>2, StepRefines, InductiveInvariant, PTL DEF Refines, Contract!Spec, Spec
=============================================================================
