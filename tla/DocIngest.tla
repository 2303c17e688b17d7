----------------------------- MODULE DocIngest -----------------------------
(***************************************************************************)
(* Document ingestion: POST /documents/upload                              *)
(* (api_gateway/documents_router.py), the Celery task parse_document_task  *)
(* (doc_processor/tasks.py) and index() (doc_processor/indexer.py), which  *)
(* writes a document's chunks to Qdrant and then to PostgreSQL.            *)
(*                                                                         *)
(* The upload saves the file, commits a Document row with status pending   *)
(* and sends a message.  A worker that takes the message sets the status   *)
(* to processing, parses, chunks and embeds, upserts the points in batches,*)
(* inserts the rows in one transaction and sets the status to ready.  The  *)
(* task is retried once after an exception, by a new message.  Messages    *)
(* are acknowledged when the task is over, so a message is delivered again *)
(* when its worker is lost, and also when the worker is slower than the    *)
(* broker's visibility timeout.                                            *)
(*                                                                         *)
(* Every execution draws new chunk ids (uuid4, doc_processor/models.py):   *)
(* its points and rows are identified by its number, attempt.              *)
(***************************************************************************)
EXTENDS Naturals, FiniteSets

CONSTANTS
    Documents,  \* uploads
    Workers,    \* Celery worker processes
    Batches,    \* batches of QDRANT_BATCH_SIZE points of each document
    MaxRetries, \* max_retries of parse_document_task: 1 in the code
    MaxFaults,  \* bound on the failures of each kind
    MaxInAll    \* bound on the failures of all kinds together

\* caught:    an exception parse_document_task handles: httpx.HTTPError,
\*            OSError, RuntimeError
\* uncaught:  one it does not: StorageError, ParserError, EmbedderError,
\*            IndexerError, ValueError
\* status:    the transaction of _update_document_status fails, or its reply is lost
\* upload:    a step of the upload fails, or the API process is killed
\* broker:    the sending of a message fails, whether or not it was sent
\* crash:     a worker is lost
\* redeliver: the visibility timeout passes while the task runs
FaultKinds == {"caught", "uncaught", "status", "upload", "broker", "crash", "redeliver"}

ASSUME DocAssumption ==
    /\ Batches \in [Documents -> Nat]
    /\ MaxRetries \in Nat
    /\ MaxFaults \in [FaultKinds -> Nat]
    /\ MaxInAll \in Nat

VARIABLES
    upload,    \* where each upload is
    files,     \* documents whose file is stored
    status,    \* Document.status, "none" before the row exists
    queue,     \* waiting messages, by document and number of retries
    pc,        \* where each worker is
    job,       \* what each worker executes
    attempts,  \* executions so far
    points,    \* <<document, attempt, batch>>: batches of points in Qdrant
    rows,      \* <<document, attempt>>: executions whose chunks are in PostgreSQL
    faults     \* failures so far

uploadVars == <<upload, files>>
storeVars == <<points, rows>>
vars == <<uploadVars, status, queue, pc, job, attempts, storeVars, faults>>

Statuses == {"none", "pending", "processing", "ready", "failed"}
Steps == {"idle", "begin", "parse", "upsert", "rows", "ready",
          "caught", "uncaught", "markFailed", "retry", "ack"}

\* upserted: batches sent; owned: the broker still has the message as unacked.
Job == [document : Documents, retries : 0..MaxRetries, attempt : Nat,
        upserted : Nat, owned : BOOLEAN]
NoJob == [document |-> "none", retries |-> 0, attempt |-> 0, upserted |-> 0, owned |-> FALSE]

TypeOK ==
    /\ upload \in [Documents -> {"new", "saved", "inserted", "accepted", "refused"}]
    /\ files \subseteq Documents
    /\ status \in [Documents -> Statuses]
    /\ queue \in [Documents -> [0..MaxRetries -> Nat]]
    /\ pc \in [Workers -> Steps]
    /\ job \in [Workers -> Job \cup {NoJob}]
    /\ attempts \in Nat
    /\ points \subseteq Documents \X Nat \X Nat
    /\ rows \subseteq Documents \X Nat
    /\ faults \in [FaultKinds -> Nat]

Init ==
    /\ upload = [d \in Documents |-> "new"]
    /\ files = {}
    /\ status = [d \in Documents |-> "none"]
    /\ queue = [d \in Documents |-> [n \in 0..MaxRetries |-> 0]]
    /\ pc = [w \in Workers |-> "idle"]
    /\ job = [w \in Workers |-> NoJob]
    /\ attempts = 0
    /\ points = {}
    /\ rows = {}
    /\ faults = [k \in FaultKinds |-> 0]

-----------------------------------------------------------------------------
NoFault == UNCHANGED faults

\* Failures so far, without those the upload met and those before any row was written.
Paid == faults["uncaught"] + faults["status"] + faults["crash"] + faults["redeliver"]

Fault(k) ==
    /\ faults[k] < MaxFaults[k]
    /\ Paid + faults["caught"] + faults["upload"] + faults["broker"] < MaxInAll
    /\ faults' = [faults EXCEPT ![k] = @ + 1]

Send(d, retries) == queue' = [queue EXCEPT ![d][retries] = @ + 1]

GoTo(w, step) == pc' = [pc EXCEPT ![w] = step]

SetStatus(w, s) == status' = [status EXCEPT ![job[w].document] = s]

-----------------------------------------------------------------------------
(* upload_document, one request per document.                              *)

UploadStep(d, from, to) ==
    /\ upload[d] = from
    /\ upload' = [upload EXCEPT ![d] = to]
    /\ UNCHANGED <<pc, job, attempts, storeVars>>

SaveUpload(d) ==
    /\ UploadStep(d, "new", "saved")
    /\ files' = files \cup {d}
    /\ NoFault
    /\ UNCHANGED <<status, queue>>

\* A user of no workspace is told so after the file was stored.
RefuseUpload(d) ==
    /\ UploadStep(d, "saved", "refused")
    /\ NoFault
    /\ UNCHANGED <<files, status, queue>>

InsertDocument(d) ==
    /\ UploadStep(d, "saved", "inserted")
    /\ status' = [status EXCEPT ![d] = "pending"]
    /\ NoFault
    /\ UNCHANGED <<files, queue>>

\* Mutant of EnqueueParse: the message is sent twice.
EnqueueParseTwice(d) ==
    /\ UploadStep(d, "inserted", "accepted")
    /\ queue' = [queue EXCEPT ![d][0] = @ + 2]
    /\ NoFault
    /\ UNCHANGED <<files, status>>

EnqueueParse(d) ==
    /\ UploadStep(d, "inserted", "accepted")
    /\ Send(d, 0)
    /\ NoFault
    /\ UNCHANGED <<files, status>>

\* The request ends in an error or is killed: what it did so far stays, and the step
\* it was at may have taken effect.
UploadFails(d) ==
    /\ \/ /\ UploadStep(d, "new", "refused")
          /\ files' \in {files, files \cup {d}}
          /\ UNCHANGED <<status, queue>>
       \/ /\ UploadStep(d, "saved", "refused")
          /\ status' \in {status, [status EXCEPT ![d] = "pending"]}
          /\ UNCHANGED <<files, queue>>
       \/ /\ UploadStep(d, "inserted", "refused")
          /\ Send(d, 0) \/ UNCHANGED queue
          /\ UNCHANGED <<files, status>>
    /\ Fault("upload")

-----------------------------------------------------------------------------
(* parse_document_task                                                     *)

WorkerStep(w, from, to) ==
    /\ pc[w] = from
    /\ GoTo(w, to)
    /\ UNCHANGED uploadVars

Take(w, d, retries) ==
    /\ WorkerStep(w, "idle", "begin")
    /\ queue[d][retries] > 0
    /\ queue' = [queue EXCEPT ![d][retries] = @ - 1]
    /\ attempts' = attempts + 1
    /\ job' = [job EXCEPT ![w] = [document |-> d, retries |-> retries, upserted |-> 0,
                                  attempt |-> attempts', owned |-> TRUE]]
    /\ NoFault
    /\ UNCHANGED <<status, storeVars>>

BeginProcessing(w) ==
    /\ WorkerStep(w, "begin", "parse")
    /\ SetStatus(w, "processing")
    /\ NoFault
    /\ UNCHANGED <<queue, job, attempts, storeVars>>

\* resolve_document_file, parsing, chunking and embedding.
Parse(w) ==
    /\ \/ WorkerStep(w, "parse", "upsert") /\ NoFault
       \/ \E kind \in {"caught", "uncaught"} : WorkerStep(w, "parse", kind) /\ Fault(kind)
    /\ UNCHANGED <<status, queue, job, attempts, storeVars>>

\* One batch of index().
Upsert(w) ==
    LET d == job[w].document
        batch == job[w].upserted + 1
    IN  /\ WorkerStep(w, "upsert", "upsert")
        /\ batch <= Batches[d]
        /\ points' = points \cup {<<d, job[w].attempt, batch>>}
        /\ job' = [job EXCEPT ![w].upserted = batch]
        /\ NoFault
        /\ UNCHANGED <<status, queue, attempts, rows>>

\* Qdrant fails, before or after it took the batch.
UpsertFails(w) ==
    LET d == job[w].document
        batch == job[w].upserted + 1
    IN  /\ WorkerStep(w, "upsert", "uncaught")
        /\ batch <= Batches[d]
        /\ points' \in {points, points \cup {<<d, job[w].attempt, batch>>}}
        /\ Fault("uncaught")
        /\ UNCHANGED <<status, queue, job, attempts, rows>>

UpsertDone(w) ==
    /\ WorkerStep(w, "upsert", "rows")
    /\ job[w].upserted = Batches[job[w].document]
    /\ NoFault
    /\ UNCHANGED <<status, queue, job, attempts, storeVars>>

\* Mutant of InsertRows: the exception of the transaction is swallowed.
InsertRowsQuietly(w) ==
    /\ WorkerStep(w, "rows", "ready")
    /\ rows' \in {rows, rows \cup {<<job[w].document, job[w].attempt>>}}
    /\ NoFault
    /\ UNCHANGED <<status, queue, job, attempts, points>>

\* The transaction of index().
InsertRows(w) ==
    LET written == rows \cup {<<job[w].document, job[w].attempt>>}
    IN  /\ \/ WorkerStep(w, "rows", "ready") /\ rows' = written /\ NoFault
           \/ /\ WorkerStep(w, "rows", "uncaught")
              /\ rows' \in {rows, written}
              /\ Fault("uncaught")
        /\ UNCHANGED <<status, queue, job, attempts, points>>

MarkReady(w) ==
    /\ WorkerStep(w, "ready", "ack")
    /\ SetStatus(w, "ready")
    /\ NoFault
    /\ UNCHANGED <<queue, job, attempts, storeVars>>

\* Setting processing or ready fails, before the COMMIT takes effect or, its reply
\* lost, after it: both calls are outside the task's try.
StatusFails(w) ==
    /\ \/ /\ WorkerStep(w, "begin", "uncaught")
          /\ SetStatus(w, "processing") \/ UNCHANGED status
       \/ /\ WorkerStep(w, "ready", "uncaught")
          /\ SetStatus(w, "ready") \/ UNCHANGED status
    /\ Fault("status")
    /\ UNCHANGED <<queue, job, attempts, storeVars>>

\* Mutant of HandleError: the handler never sets failed.
HandleErrorSilent(w) ==
    /\ \E kind \in {"caught", "uncaught"} :
          WorkerStep(w, kind, IF job[w].retries = MaxRetries THEN "ack" ELSE "retry")
    /\ NoFault
    /\ UNCHANGED <<status, queue, job, attempts, storeVars>>

\* The exception reaches the handler, which sets failed on the last attempt
\* only, or goes past it; Celery then retries or gives up.
HandleError(w) ==
    LET last == job[w].retries = MaxRetries
    IN  /\ \/ WorkerStep(w, "caught", IF last THEN "markFailed" ELSE "retry")
           \/ WorkerStep(w, "uncaught", IF last THEN "ack" ELSE "retry")
        /\ NoFault
        /\ UNCHANGED <<status, queue, job, attempts, storeVars>>

MarkFailed(w) ==
    /\ WorkerStep(w, "markFailed", "ack")
    /\ \/ SetStatus(w, "failed") /\ NoFault
       \/ (SetStatus(w, "failed") \/ UNCHANGED status) /\ Fault("status")
    /\ UNCHANGED <<queue, job, attempts, storeVars>>

Retry(w) ==
    /\ WorkerStep(w, "retry", "ack")
    /\ \/ Send(job[w].document, job[w].retries + 1) /\ NoFault
       \/ /\ Send(job[w].document, job[w].retries + 1) \/ UNCHANGED queue
          /\ Fault("broker")
    /\ UNCHANGED <<status, job, attempts, storeVars>>

Ack(w) ==
    /\ WorkerStep(w, "ack", "idle")
    /\ job' = [job EXCEPT ![w] = NoJob]
    /\ NoFault
    /\ UNCHANGED <<status, queue, attempts, storeVars>>

\* Mutant of WorkerLost: the message was acknowledged early.
WorkerLostForGood(w) ==
    /\ \E from \in Steps \ {"idle"} : WorkerStep(w, from, "idle")
    /\ job' = [job EXCEPT ![w] = NoJob]
    /\ Fault("crash")
    /\ UNCHANGED <<status, queue, attempts, storeVars>>

\* task_reject_on_worker_lost: the message returns to the queue.
WorkerLost(w) ==
    /\ \E from \in Steps \ {"idle"} : WorkerStep(w, from, "idle")
    /\ IF job[w].owned THEN Send(job[w].document, job[w].retries) ELSE UNCHANGED queue
    /\ job' = [job EXCEPT ![w] = NoJob]
    /\ Fault("crash")
    /\ UNCHANGED <<status, attempts, storeVars>>

\* The broker takes the running task for lost.
VisibilityTimeout(w) ==
    /\ \E at \in Steps \ {"idle"} : WorkerStep(w, at, at)
    /\ job[w].owned
    /\ Send(job[w].document, job[w].retries)
    /\ job' = [job EXCEPT ![w].owned = FALSE]
    /\ Fault("redeliver")
    /\ UNCHANGED <<status, attempts, storeVars>>

-----------------------------------------------------------------------------
Upload(d) == SaveUpload(d) \/ InsertDocument(d) \/ EnqueueParse(d)

TakeAny(w) == \E d \in Documents, retries \in 0..MaxRetries : Take(w, d, retries)

Execute(w) ==
    \/ BeginProcessing(w) \/ Parse(w) \/ Upsert(w) \/ UpsertDone(w) \/ InsertRows(w)
    \/ MarkReady(w) \/ HandleError(w) \/ MarkFailed(w) \/ Retry(w) \/ Ack(w)

Next ==
    \/ \E d \in Documents : Upload(d) \/ RefuseUpload(d) \/ UploadFails(d)
    \/ \E w \in Workers :
          \/ TakeAny(w) \/ Execute(w)
          \/ UpsertFails(w) \/ StatusFails(w) \/ WorkerLost(w) \/ VisibilityTimeout(w)

Spec == Init /\ [][Next]_vars

\* Workers take messages while there are some and go on with what they took;
\* nothing is assumed of the uploads.
FairSpec == Spec /\ \A w \in Workers : WF_vars(TakeAny(w)) /\ WF_vars(Execute(w))
-----------------------------------------------------------------------------
(* Properties                                                              *)

Without(kinds) == \A k \in kinds : faults[k] = 0

AllPoints(d, attempt) ==
    \A batch \in 1..Batches[d] : <<d, attempt, batch>> \in points

\* A ready document is searchable and stored: one of its executions left all its
\* points in Qdrant and its rows in PostgreSQL, whatever the others did.
ReadyIsIndexed ==
    \A d \in Documents :
        status[d] = "ready" =>
            \E a \in 1..attempts : <<d, a>> \in rows /\ AllPoints(d, a)

\* A chunk in PostgreSQL is in Qdrant: no reader of the rows finds a chunk that
\* retrieval cannot return.
RowsAreSearchable ==
    \A d \in Documents, a \in 1..attempts : <<d, a>> \in rows => AllPoints(d, a)

\* A document that has a row has its file: a worker never finds it missing.
DocumentHasFile == \A d \in Documents : status[d] # "none" => d \in files

\* No store promises what another does not hold: a ready document can be searched, a
\* stored chunk found, and the file of a document read.
StoresAgree == ReadyIsIndexed /\ RowsAreSearchable /\ DocumentHasFile

\* Nothing is left to happen to an accepted document.
AtRest(d) ==
    /\ upload[d] = "accepted"
    /\ \A n \in 0..MaxRetries : queue[d][n] = 0
    /\ \A w \in Workers : pc[w] # "idle" => job[w].document # d

\* Exceptions of the kinds the task handles and lost workers end in a status the
\* API can show (tasks.py, "pending -> processing -> ready | failed").  (A second
\* delivery can leave processing behind: the first execution, no longer owned,
\* starts late and its worker is lost.)
HandledFailureSurfaces ==
    Without({"uncaught", "status", "broker", "redeliver"}) =>
        \A d \in Documents : AtRest(d) => status[d] \in {"ready", "failed"}

\* Each execution indexes under new chunk ids, so a document can have several sets of
\* rows (tasks.py retries a task whose rows are committed; a lost worker's message and
\* one that is delivered twice are executed again, also after the document is ready or
\* failed): but each set after the first is paid for by a failure.
DuplicatesPaidFor ==
    \A d \in Documents :
        Cardinality({a \in 1..attempts : <<d, a>> \in rows})
            <= 1 + Paid

\* An accepted document is ready or failed in the end, although workers are lost
\* and tasks retried, unless a failure the task does not handle gets in the way.
EventuallySurfaces ==
    \A d \in Documents :
        (upload[d] = "accepted") ~>
            (\/ status[d] \in {"ready", "failed"}
             \/ ~Without({"uncaught", "status", "broker", "redeliver"}))

\* "On second failure, we mark status='failed' so the API can surface the error to
\* the user" (tasks.py), whatever the exception is.
SecondFailureSurfaces ==
    \A d \in Documents : AtRest(d) => status[d] \in {"ready", "failed"}

\* "a re-run (retry, manual reindex, two CI workers racing) appended a duplicate row
\* per chunk. After the fix [...] the second pass is a no-op for row count"
\* (test_indexer_upsert_idempotent.py): a document has one set of rows.
RerunAddsNoRows ==
    \A d \in Documents, a, b \in 1..attempts : {<<d, a>>, <<d, b>>} \subseteq rows => a = b

=============================================================================
