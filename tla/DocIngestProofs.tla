--------------------------- MODULE DocIngestProofs ---------------------------
(***************************************************************************)
(* The way of a document, for any documents, workers, numbers of batches   *)
(* and retries, and failures; and for any papers and budgets.              *)
(*                                                                         *)
(* The three stores of ingestion agree.  StoresAgree is not inductive: a   *)
(* worker sets ready because of what it wrote several steps earlier.       *)
(* DocInv says of each worker, by its step, what its own execution has left*)
(* in Qdrant and in PostgreSQL by then, and that every upload, message and *)
(* job is about a document with a file.                                    *)
(*                                                                         *)
(* What a file says is in the vectors, once and in its order.  TextSound   *)
(* speaks of the end of the pipeline; TextInv carries it there.  Every     *)
(* extractor leaves an outline (Outlined): sections of ascending lines,    *)
(* each section ahead of the next, with the lines that are wanted and no   *)
(* other text.  The chunker keeps an outline (Chunked): children within the*)
(* budget, and over it only where one block is, in the order of the        *)
(* sections.                                                               *)
(***************************************************************************)
EXTENDS DocIngest, DocText, QueueLemmas, TLAPS

\* What the execution of a worker has done by the step it is at.
JobSound(w) ==
    /\ job[w] \in Job
    /\ job[w].document \in files
    /\ job[w].attempt \in 1..attempts
    /\ \A batch \in 1..job[w].upserted : <<job[w].document, job[w].attempt, batch>> \in points
    /\ pc[w] = "rows" => AllPoints(job[w].document, job[w].attempt)
    /\ pc[w] = "ready" => <<job[w].document, job[w].attempt>> \in rows
    /\ pc[w] = "retry" => job[w].retries # MaxRetries

JobsSound == \A w \in Workers : pc[w] # "idle" => JobSound(w)

\* Whatever can set a document's status is about a document with a file.
FilesFirst ==
    /\ \A d \in Documents : upload[d] \in {"saved", "inserted", "accepted"} => d \in files
    /\ \A d \in Documents, n \in 0..MaxRetries : queue[d][n] > 0 => d \in files

\* Rows belong to an execution that took place and sent all its points.
RowsSound == \A row \in rows : row[2] \in 1..attempts /\ AllPoints(row[1], row[2])

\* A ready document has the rows of an execution.
ReadyHasRows == \A d \in Documents : status[d] = "ready" => \E a \in 1..attempts : <<d, a>> \in rows

DocInv == TypeOK /\ JobsSound /\ FilesFirst /\ RowsSound /\ ReadyHasRows /\ DocumentHasFile

-----------------------------------------------------------------------------
(* Lemmas                                                                  *)

\* The invariant is what StoresAgree asks for.
LEMMA InvAgrees == DocInv => StoresAgree
<1> SUFFICES ASSUME DocInv PROVE StoresAgree
  OBVIOUS
<1>1. ASSUME NEW d \in Documents, NEW a \in 1..attempts, <<d, a>> \in rows
      PROVE  AllPoints(d, a)
  BY <1>1 DEF DocInv, RowsSound
<1>2. RowsAreSearchable
  BY <1>1 DEF RowsAreSearchable
<1>3. ReadyIsIndexed
  BY <1>1 DEF ReadyIsIndexed, DocInv, ReadyHasRows
<1>4. QED
  BY <1>2, <1>3 DEF StoresAgree, DocInv

LEMMA DocInit == Init => DocInv
BY DocAssumption DEF Init, DocInv, TypeOK, Statuses, Steps, NoJob, Job, FaultKinds, JobsSound,
   FilesFirst, RowsSound, ReadyHasRows, DocumentHasFile

\* A failure is counted, or nothing is.
LEMMA FaultsCount ==
    ASSUME TypeOK, NoFault \/ \E k \in FaultKinds : Fault(k)
    PROVE  faults' \in [FaultKinds -> Nat]
BY DEF TypeOK, NoFault, Fault

\* The queue grows by messages about documents with a file.
LEMMA SendKeepsQueue ==
    ASSUME DocInv, NEW d \in files, NEW n \in 0..MaxRetries, Send(d, n), files' = files
    PROVE  /\ queue' \in [Documents -> [0..MaxRetries -> Nat]]
           /\ \A e \in Documents, m \in 0..MaxRetries : queue'[e][m] > 0 => e \in files'
<1>1. /\ d \in Documents
      /\ queue \in [Documents -> [0..MaxRetries -> Nat]]
  BY DEF DocInv, TypeOK
<1>2. \A e \in Documents, m \in 0..MaxRetries :
         queue'[e][m] = IF e = d /\ m = n THEN queue[e][m] + 1 ELSE queue[e][m]
  BY <1>1 DEF Send
<1>3. queue' \in [Documents -> [0..MaxRetries -> Nat]]
  <2>1. queue[d] \in [0..MaxRetries -> Nat]
    BY <1>1
  <2>2. queue[d][n] \in Nat
    BY <2>1
  <2>3. queue[d][n] + 1 \in Nat
    BY <2>2
  <2>4. [queue[d] EXCEPT ![n] = queue[d][n] + 1] \in [0..MaxRetries -> Nat]
    BY <2>1, <2>3
  <2>5. QED
    BY <1>1, <2>4 DEF Send
<1>4. QED
  BY <1>1, <1>2, <1>3 DEF DocInv, FilesFirst

\* Stores that only grow keep what was said of them.
LEMMA StoresGrow ==
    ASSUME DocInv, points \subseteq points', rows \subseteq rows',
           attempts' \in Nat, attempts <= attempts'
    PROVE  /\ \A d, a : AllPoints(d, a) => AllPoints(d, a)'
           /\ 1..attempts \subseteq 1..attempts'
BY DEF DocInv, TypeOK, AllPoints

\* A worker that goes on with its job, in stores that only grow: the invariant holds
\* again if it holds of that job, and if a document that becomes ready has its rows.
LEMMA WorkerGoesOn ==
    ASSUME DocInv, NEW w \in Workers, NEW from, NEW to \in Steps, WorkerStep(w, from, to),
           from # "idle",
           NoFault \/ \E k \in FaultKinds : Fault(k),
           points \subseteq points', points' \subseteq Documents \X Nat \X Nat,
           rows \subseteq rows', rows' \subseteq Documents \X Nat, UNCHANGED attempts,
           job' \in [Workers -> Job \cup {NoJob}],
           \A v \in Workers \ {w} : job'[v] = job[v],
           to # "idle" => JobSound(w)',
           \A row \in rows' : row[2] \in 1..attempts /\ AllPoints(row[1], row[2])',
           status' \in [Documents -> Statuses],
           \A d \in Documents : status'[d] # status[d] =>
               /\ d = job[w].document
               /\ status'[d] = "ready" => \E a \in 1..attempts : <<d, a>> \in rows',
           queue' = queue \/ \E n \in 0..MaxRetries : Send(job[w].document, n)
    PROVE  DocInv'
<1>1. pc[w] # "idle" /\ JobSound(w)
  BY DEF WorkerStep, DocInv, JobsSound
<1>2. /\ \A d, a : AllPoints(d, a) => AllPoints(d, a)'
      /\ attempts \in Nat /\ attempts' = attempts
      /\ UNCHANGED <<upload, files>>
  BY StoresGrow DEF WorkerStep, uploadVars, DocInv, TypeOK
<1>3. /\ pc' \in [Workers -> Steps]
      /\ pc'[w] = to
      /\ \A v \in Workers \ {w} : pc'[v] = pc[v]
  BY DEF WorkerStep, GoTo, DocInv, TypeOK
<1>4. JobsSound'
  <2>1. ASSUME NEW v \in Workers, pc'[v] # "idle", v # w PROVE JobSound(v)'
    <3>1. pc[v] # "idle" /\ pc'[v] = pc[v] /\ job'[v] = job[v] /\ JobSound(v)
      BY <1>3, <2>1 DEF DocInv, JobsSound
    <3>2. QED
      BY <1>2, <3>1 DEF JobSound
  <2>2. QED
    BY <1>3, <2>1 DEF JobsSound
<1>5. /\ queue' \in [Documents -> [0..MaxRetries -> Nat]]
      /\ \A e \in Documents, m \in 0..MaxRetries : queue'[e][m] > 0 => e \in files'
  <2>1. CASE queue' = queue
    BY <1>2, <2>1 DEF DocInv, TypeOK, FilesFirst
  <2>2. CASE \E n \in 0..MaxRetries : Send(job[w].document, n)
    BY <1>1, <1>2, <2>2, SendKeepsQueue DEF JobSound
  <2>3. QED
    BY <2>1, <2>2
<1>6. FilesFirst'
  BY <1>2, <1>5 DEF DocInv, FilesFirst
<1>7. TypeOK'
  BY <1>2, <1>3, <1>5, FaultsCount DEF DocInv, TypeOK
<1>8. DocumentHasFile'
  BY <1>1, <1>2 DEF DocInv, DocumentHasFile, JobSound
<1>9. RowsSound' /\ ReadyHasRows'
  BY <1>2 DEF DocInv, RowsSound, ReadyHasRows
<1>10. QED
  BY <1>4, <1>6, <1>7, <1>8, <1>9 DEF DocInv

\* Uploads.
LEMMA UploadKeeps ==
    ASSUME DocInv, NEW d \in Documents,
           Upload(d) \/ RefuseUpload(d) \/ UploadFails(d)
    PROVE  DocInv'
<1>1. /\ UNCHANGED <<pc, job, attempts, points, rows>>
      /\ upload' \in [Documents -> {"new", "saved", "inserted", "accepted", "refused"}]
      /\ \A e \in Documents \ {d} : upload'[e] = upload[e]
  BY DEF Upload, SaveUpload, InsertDocument, EnqueueParse, RefuseUpload, UploadFails, UploadStep,
         storeVars, DocInv, TypeOK
<1>2. /\ files' \in SUBSET Documents
      /\ files \subseteq files'
      /\ upload'[d] \in {"saved", "inserted", "accepted"} => d \in files'
  BY DEF Upload, SaveUpload, InsertDocument, EnqueueParse, RefuseUpload, UploadFails, UploadStep,
         DocInv, TypeOK, FilesFirst
<1>3. faults' \in [FaultKinds -> Nat]
  BY FaultsCount DEF Upload, SaveUpload, InsertDocument, EnqueueParse, RefuseUpload, UploadFails,
                     FaultKinds, DocInv
<1>4. /\ status' \in [Documents -> Statuses]
      /\ \A e \in Documents : status'[e] # status[e] => status'[e] = "pending" /\ e \in files'
  BY DEF Upload, SaveUpload, InsertDocument, EnqueueParse, RefuseUpload, UploadFails, UploadStep,
         DocInv, TypeOK, FilesFirst, Statuses
<1>5. /\ queue' \in [Documents -> [0..MaxRetries -> Nat]]
      /\ \A e \in Documents, m \in 0..MaxRetries : queue'[e][m] > 0 => e \in files'
  <2>1. CASE EnqueueParse(d)
    <3>1. d \in files /\ 0 \in 0..MaxRetries /\ Send(d, 0) /\ files' = files
      BY <2>1, DocAssumption DEF EnqueueParse, UploadStep, DocInv, FilesFirst
    <3>2. QED
      BY <3>1, SendKeepsQueue
  <2>2. CASE queue' = queue
    BY <1>2, <2>2 DEF DocInv, TypeOK, FilesFirst
  <2>3. CASE UploadFails(d) /\ Send(d, 0)
    <3>1. CASE upload[d] = "inserted"
      <4>1. d \in files /\ 0 \in 0..MaxRetries /\ files' = files
        BY <2>3, <3>1, DocAssumption DEF UploadFails, UploadStep, DocInv, FilesFirst
      <4>2. QED
        BY <2>3, <4>1, SendKeepsQueue
    <3>2. CASE upload[d] # "inserted"
      BY <2>2, <2>3, <3>2 DEF UploadFails, UploadStep
    <3>3. QED
      BY <3>1, <3>2
  <2>4. QED
    BY <2>1, <2>2, <2>3 DEF Upload, SaveUpload, InsertDocument, RefuseUpload, UploadFails
<1>6. TypeOK'
  BY <1>1, <1>2, <1>3, <1>4, <1>5 DEF DocInv, TypeOK
<1>7. JobsSound' /\ RowsSound'
  BY <1>1, <1>2 DEF DocInv, JobsSound, JobSound, RowsSound, AllPoints
<1>8. FilesFirst' /\ DocumentHasFile'
  BY <1>1, <1>2, <1>4, <1>5 DEF DocInv, FilesFirst, DocumentHasFile
<1>9. ReadyHasRows'
  BY <1>1, <1>4 DEF DocInv, ReadyHasRows
<1>10. QED
  BY <1>6, <1>7, <1>8, <1>9 DEF DocInv

\* What a worker without writes to the stores can do.
LEMMA StoresUntouched ==
    ASSUME DocInv, UNCHANGED <<points, rows, attempts>>
    PROVE  /\ points \subseteq points' /\ points' \subseteq Documents \X Nat \X Nat
           /\ rows \subseteq rows' /\ rows' \subseteq Documents \X Nat
           /\ UNCHANGED attempts
           /\ \A row \in rows' : row[2] \in 1..attempts /\ AllPoints(row[1], row[2])'
BY DEF DocInv, TypeOK, RowsSound, AllPoints

\* A worker takes a message.
LEMMA TakeKeeps ==
    ASSUME DocInv, NEW w \in Workers, TakeAny(w)
    PROVE  DocInv'
<1>1. PICK d \in Documents, n \in 0..MaxRetries : Take(w, d, n)
  BY DEF TakeAny
<1>2. /\ attempts \in Nat /\ attempts' = attempts + 1 /\ attempts' \in Nat
      /\ UNCHANGED <<upload, files, status, points, rows, faults>>
  BY <1>1 DEF Take, WorkerStep, uploadVars, storeVars, NoFault, DocInv, TypeOK
<1>3. 1..attempts \subseteq 1..attempts' /\ attempts' \in 1..attempts'
  BY <1>2
<1>4. /\ pc' \in [Workers -> Steps] /\ pc'[w] = "begin"
      /\ \A v \in Workers \ {w} : pc'[v] = pc[v] /\ job'[v] = job[v]
      /\ job'[w] = [document |-> d, retries |-> n, upserted |-> 0,
                    attempt |-> attempts', owned |-> TRUE]
  BY <1>1 DEF Take, WorkerStep, GoTo, DocInv, TypeOK, Steps
<1>5. d \in files
  BY <1>1 DEF Take, DocInv, FilesFirst
<1>6. job'[w] \in Job
  BY <1>2, <1>4 DEF Job
<1>7. job' \in [Workers -> Job \cup {NoJob}]
  BY <1>1, <1>6 DEF Take, DocInv, TypeOK
<1>8. /\ queue' \in [Documents -> [0..MaxRetries -> Nat]]
      /\ \A e \in Documents, m \in 0..MaxRetries : queue'[e][m] > 0 => queue[e][m] > 0
  <2>1. queue \in [Documents -> [0..MaxRetries -> Nat]] /\ queue[d] \in [0..MaxRetries -> Nat]
    BY DEF DocInv, TypeOK
  <2>2. queue[d][n] \in Nat /\ queue[d][n] > 0
    BY <1>1, <2>1 DEF Take
  <2>3. queue[d][n] - 1 \in Nat
    BY <2>2
  <2>4. [queue[d] EXCEPT ![n] = queue[d][n] - 1] \in [0..MaxRetries -> Nat]
    BY <2>1, <2>3
  <2>5. queue' \in [Documents -> [0..MaxRetries -> Nat]]
    BY <1>1, <2>1, <2>4 DEF Take
  <2>6. \A e \in Documents, m \in 0..MaxRetries :
           queue'[e][m] = IF e = d /\ m = n THEN queue[e][m] - 1 ELSE queue[e][m]
    BY <1>1, <2>1 DEF Take
  <2>7. QED
    BY <2>2, <2>5, <2>6
<1>9. TypeOK'
  BY <1>2, <1>4, <1>7, <1>8 DEF DocInv, TypeOK
<1>10. JobSound(w)'
  BY <1>2, <1>3, <1>4, <1>5, <1>6 DEF JobSound
<1>11. ASSUME NEW v \in Workers, v # w, pc'[v] # "idle" PROVE JobSound(v)'
  <2>1. pc[v] # "idle" /\ pc'[v] = pc[v] /\ job'[v] = job[v] /\ JobSound(v)
    BY <1>4, <1>11 DEF DocInv, JobsSound
  <2>2. QED
    BY <1>2, <1>3, <2>1 DEF JobSound, AllPoints
<1>12. JobsSound'
  BY <1>10, <1>11 DEF JobsSound
<1>13. FilesFirst' /\ DocumentHasFile'
  BY <1>2, <1>8 DEF DocInv, FilesFirst, DocumentHasFile
<1>14. RowsSound' /\ ReadyHasRows'
  BY <1>2, <1>3 DEF DocInv, RowsSound, ReadyHasRows, AllPoints
<1>15. QED
  BY <1>9, <1>12, <1>13, <1>14 DEF DocInv

\* A worker's step that writes to neither store and does not end its job.
LEMMA QuietKeeps ==
    ASSUME DocInv, NEW w \in Workers,
           \/ BeginProcessing(w) \/ Parse(w) \/ UpsertDone(w) \/ MarkReady(w) \/ StatusFails(w)
           \/ HandleError(w) \/ MarkFailed(w) \/ Retry(w)
    PROVE  DocInv'
<1>1. UNCHANGED <<points, rows, attempts, job>>
  BY DEF BeginProcessing, Parse, UpsertDone, MarkReady, StatusFails, HandleError, MarkFailed, Retry,
         storeVars
<1>2. PICK from \in Steps \ {"idle"}, to \in Steps \ {"idle"} :
         /\ WorkerStep(w, from, to)
         /\ to = "rows" => from = "upsert" /\ job[w].upserted = Batches[job[w].document]
         /\ to # "ready"
         /\ to = "retry" => job[w].retries # MaxRetries
  BY DEF BeginProcessing, Parse, UpsertDone, MarkReady, StatusFails, HandleError, MarkFailed, Retry,
         Steps, WorkerStep
<1>3. NoFault \/ \E k \in FaultKinds : Fault(k)
  BY DEF BeginProcessing, Parse, UpsertDone, MarkReady, StatusFails, HandleError, MarkFailed, Retry,
         FaultKinds
<1>4. pc[w] = from /\ pc'[w] = to /\ files' = files /\ JobSound(w)
  BY <1>2 DEF WorkerStep, GoTo, uploadVars, DocInv, TypeOK, JobsSound
<1>5. JobSound(w)'
  BY <1>1, <1>2, <1>4 DEF JobSound, AllPoints
<1>6. queue' = queue \/ \E n \in 0..MaxRetries : Send(job[w].document, n)
  <2>1. CASE Retry(w)
    <3>1. queue' = queue \/ Send(job[w].document, job[w].retries + 1)
      BY <2>1 DEF Retry
    <3>2. job[w].retries \in 0..MaxRetries /\ job[w].retries # MaxRetries
      BY <1>4, <2>1 DEF Retry, WorkerStep, JobSound, Job
    <3>3. job[w].retries + 1 \in 0..MaxRetries
      BY <3>2, DocAssumption
    <3>4. QED
      BY <3>1, <3>3
  <2>2. CASE queue' = queue
    BY <2>2
  <2>3. QED
    BY <2>1, <2>2 DEF BeginProcessing, Parse, UpsertDone, MarkReady, StatusFails, HandleError, MarkFailed
<1>7. /\ status' \in [Documents -> Statuses]
      /\ \A d \in Documents : status'[d] # status[d] =>
            /\ d = job[w].document
            /\ status'[d] = "ready" => pc[w] = "ready"
  <2>1. \/ status' = status
        \/ \E s \in {"processing", "ready", "failed"} :
              status' = [status EXCEPT ![job[w].document] = s] /\ (s = "ready" => pc[w] = "ready")
    BY DEF BeginProcessing, Parse, UpsertDone, MarkReady, StatusFails, HandleError, MarkFailed,
           Retry, SetStatus, WorkerStep
  <2>2. status \in [Documents -> Statuses] /\ job[w].document \in Documents
    BY <1>4 DEF DocInv, TypeOK, JobSound, Job
  <2>3. QED
    BY <2>1, <2>2 DEF Statuses
<1>8. pc[w] = "ready" => <<job[w].document, job[w].attempt>> \in rows' /\ job[w].attempt \in 1..attempts
  BY <1>1, <1>4 DEF JobSound
<1>9. \A d \in Documents : status'[d] # status[d] =>
         /\ d = job[w].document
         /\ status'[d] = "ready" => \E a \in 1..attempts : <<d, a>> \in rows'
  BY <1>7, <1>8
<1>10. job' \in [Workers -> Job \cup {NoJob}] /\ \A v \in Workers \ {w} : job'[v] = job[v]
  BY <1>1 DEF DocInv, TypeOK
<1>11. QED
  BY <1>1, <1>2, <1>3, <1>5, <1>6, <1>7, <1>9, <1>10, StoresUntouched, WorkerGoesOn

\* A batch reaches Qdrant, perhaps unknown to the worker.
LEMMA UpsertKeeps ==
    ASSUME DocInv, NEW w \in Workers, Upsert(w) \/ UpsertFails(w)
    PROVE  DocInv'
<1> DEFINE d == job[w].document
           batch == job[w].upserted + 1
           point == <<d, job[w].attempt, batch>>
<1>1. /\ UNCHANGED <<rows, attempts, status, queue>>
      /\ NoFault \/ \E k \in FaultKinds : Fault(k)
  BY DEF Upsert, UpsertFails, FaultKinds
<1>2. PICK to \in {"upsert", "uncaught"} : WorkerStep(w, "upsert", to)
  BY DEF Upsert, UpsertFails
<1>3. pc[w] = "upsert" /\ pc'[w] = to /\ files' = files /\ JobSound(w)
  BY <1>2 DEF WorkerStep, GoTo, uploadVars, DocInv, TypeOK, JobsSound
<1>4. /\ d \in Documents /\ job[w].attempt \in Nat /\ job[w].upserted \in Nat /\ batch \in Nat
      /\ job[w] \in Job
  BY <1>3 DEF JobSound, Job
<1>5. points' \in {points, points \cup {point}}
  BY DEF Upsert, UpsertFails
<1>6. points \subseteq points' /\ points' \subseteq Documents \X Nat \X Nat
  BY <1>4, <1>5 DEF DocInv, TypeOK
<1>7. \/ job' = job
      \/ job' = [job EXCEPT ![w].upserted = batch] /\ point \in points'
  BY DEF Upsert, UpsertFails
<1>8. /\ job'[w].document = d /\ job'[w].attempt = job[w].attempt
      /\ job'[w].retries = job[w].retries
      /\ job'[w] \in Job
      /\ job' \in [Workers -> Job \cup {NoJob}]
      /\ \A v \in Workers \ {w} : job'[v] = job[v]
      /\ \/ job'[w].upserted = job[w].upserted
         \/ job'[w].upserted = batch /\ point \in points'
  <2>1. CASE job' = job
    BY <1>4, <2>1 DEF DocInv, TypeOK
  <2>2. CASE job' = [job EXCEPT ![w].upserted = batch] /\ point \in points'
    <3>1. [job[w] EXCEPT !.upserted = batch] \in Job
      BY <1>4 DEF Job
    <3>2. job \in [Workers -> Job \cup {NoJob}]
      BY DEF DocInv, TypeOK
    <3>3. job'[w] = [job[w] EXCEPT !.upserted = batch]
      BY <2>2, <3>2
    <3>4. /\ job'[w].document = d /\ job'[w].attempt = job[w].attempt
          /\ job'[w].retries = job[w].retries /\ job'[w].upserted = batch
      BY <1>4, <3>3 DEF Job
    <3>5. job' \in [Workers -> Job \cup {NoJob}] /\ \A v \in Workers \ {w} : job'[v] = job[v]
      BY <2>2, <3>1, <3>2
    <3>6. QED
      BY <2>2, <3>1, <3>3, <3>4, <3>5
  <2>3. QED
    BY <1>7, <2>1, <2>2
<1>9. \A b \in 1..job'[w].upserted : <<job'[w].document, job'[w].attempt, b>> \in points'
  BY <1>3, <1>4, <1>6, <1>8 DEF JobSound
<1>10. JobSound(w)'
  BY <1>1, <1>3, <1>8, <1>9 DEF JobSound
<1>11. /\ rows \subseteq rows' /\ rows' \subseteq Documents \X Nat
       /\ \A row \in rows' : row[2] \in 1..attempts /\ AllPoints(row[1], row[2])'
  BY <1>1, <1>6 DEF DocInv, TypeOK, RowsSound, AllPoints
<1>12. status' \in [Documents -> Statuses]
  BY <1>1 DEF DocInv, TypeOK
<1>13. "upsert" # "idle" /\ to \in Steps
  BY <1>2 DEF Steps
<1>14. QED
  BY <1>1, <1>2, <1>6, <1>8, <1>10, <1>11, <1>12, <1>13, WorkerGoesOn

\* The rows are committed, perhaps unknown to the worker, or are not.
LEMMA InsertRowsKeeps ==
    ASSUME DocInv, NEW w \in Workers, InsertRows(w)
    PROVE  DocInv'
<1> DEFINE row == <<job[w].document, job[w].attempt>>
<1>1. /\ UNCHANGED <<points, attempts, status, queue, job>>
      /\ NoFault \/ \E k \in FaultKinds : Fault(k)
      /\ rows' \in {rows, rows \cup {row}}
  BY DEF InsertRows, FaultKinds
<1>2. PICK to \in {"ready", "uncaught"} :
         WorkerStep(w, "rows", to) /\ (to = "ready" => row \in rows')
  BY DEF InsertRows
<1>3. pc[w] = "rows" /\ pc'[w] = to /\ files' = files /\ JobSound(w)
  BY <1>2 DEF WorkerStep, GoTo, uploadVars, DocInv, TypeOK, JobsSound
<1>4. /\ job[w] \in Job /\ row \in Documents \X Nat /\ row[2] \in 1..attempts
      /\ AllPoints(row[1], row[2])
  BY <1>3 DEF JobSound, Job
<1>5. rows \subseteq rows' /\ rows' \subseteq Documents \X Nat
  BY <1>1, <1>4 DEF DocInv, TypeOK
<1>6. \A r \in rows' : r[2] \in 1..attempts /\ AllPoints(r[1], r[2])'
  BY <1>1, <1>4 DEF DocInv, RowsSound, AllPoints
<1>7. JobSound(w)'
  BY <1>1, <1>2, <1>3, <1>5 DEF JobSound, AllPoints
<1>8. points \subseteq points' /\ points' \subseteq Documents \X Nat \X Nat
  BY <1>1 DEF DocInv, TypeOK
<1>9. /\ status' \in [Documents -> Statuses] /\ job' \in [Workers -> Job \cup {NoJob}]
      /\ \A v \in Workers \ {w} : job'[v] = job[v]
  BY <1>1 DEF DocInv, TypeOK
<1>10. "rows" # "idle" /\ to \in Steps
  BY <1>2 DEF Steps
<1>11. QED
  BY <1>1, <1>2, <1>5, <1>6, <1>7, <1>8, <1>9, <1>10, WorkerGoesOn

\* A job ends, or its message is delivered once more.
LEMMA MessageKeeps ==
    ASSUME DocInv, NEW w \in Workers, Ack(w) \/ WorkerLost(w) \/ VisibilityTimeout(w)
    PROVE  DocInv'
<1>1. /\ UNCHANGED <<points, rows, attempts, status>>
      /\ NoFault \/ \E k \in FaultKinds : Fault(k)
  BY DEF Ack, WorkerLost, VisibilityTimeout, storeVars, FaultKinds
<1>2. PICK from \in Steps \ {"idle"}, to \in Steps :
         /\ WorkerStep(w, from, to)
         /\ \/ to = "idle" /\ job' = [job EXCEPT ![w] = NoJob]
            \/ to = from /\ job' = [job EXCEPT ![w].owned = FALSE]
  BY DEF Ack, WorkerLost, VisibilityTimeout, Steps
<1>3. pc[w] = from /\ pc'[w] = to /\ files' = files /\ JobSound(w)
  BY <1>2 DEF WorkerStep, GoTo, uploadVars, DocInv, TypeOK, JobsSound
<1>4. job[w] \in Job /\ job \in [Workers -> Job \cup {NoJob}]
  BY <1>3 DEF JobSound, DocInv, TypeOK
<1>5. /\ job' \in [Workers -> Job \cup {NoJob}]
      /\ \A v \in Workers \ {w} : job'[v] = job[v]
      /\ to # "idle" => /\ job'[w] \in Job
                        /\ job'[w].document = job[w].document
                        /\ job'[w].attempt = job[w].attempt
                        /\ job'[w].upserted = job[w].upserted
                        /\ job'[w].retries = job[w].retries
  <2>1. [job[w] EXCEPT !.owned = FALSE] \in Job
    BY <1>4 DEF Job
  <2>2. CASE to = "idle" /\ job' = [job EXCEPT ![w] = NoJob]
    BY <1>4, <2>2
  <2>3. CASE to = from /\ job' = [job EXCEPT ![w].owned = FALSE]
    <3>1. job'[w] = [job[w] EXCEPT !.owned = FALSE]
      BY <1>4, <2>3
    <3>2. QED
      BY <1>4, <2>1, <2>3, <3>1 DEF Job
  <2>4. QED
    BY <1>2, <2>2, <2>3
<1>6. to # "idle" => JobSound(w)'
  BY <1>1, <1>2, <1>3, <1>5 DEF JobSound, AllPoints
<1>7. queue' = queue \/ \E n \in 0..MaxRetries : Send(job[w].document, n)
  BY <1>4 DEF Ack, WorkerLost, VisibilityTimeout, Job
<1>8. status' \in [Documents -> Statuses]
  BY <1>1 DEF DocInv, TypeOK
<1>9. QED
  BY <1>1, <1>2, <1>5, <1>6, <1>7, <1>8, StoresUntouched, WorkerGoesOn

\* Every step preserves the invariant.
LEMMA DocInductive == DocInv /\ [Next]_vars => DocInv'
<1>1. ASSUME DocInv, UNCHANGED vars PROVE DocInv'
  BY <1>1 DEF vars, uploadVars, storeVars, DocInv, TypeOK, JobsSound, JobSound, FilesFirst, RowsSound,
              ReadyHasRows, DocumentHasFile, AllPoints
<1>2. ASSUME DocInv, Next PROVE DocInv'
  <2>1. ASSUME NEW w \in Workers, Execute(w) PROVE DocInv'
    BY <1>2, <2>1, QuietKeeps, UpsertKeeps, InsertRowsKeeps, MessageKeeps DEF Execute
  <2>2. QED
    BY <1>2, <2>1, UploadKeeps, TakeKeeps, UpsertKeeps, QuietKeeps, MessageKeeps DEF Next
<1>3. QED
  BY <1>1, <1>2

-----------------------------------------------------------------------------
(* Theorems                                                                *)

\* Uploads, workers and stores keep their types and their agreement, whatever fails
\* and however often a message is delivered.
THEOREM IngestInvariant == Spec => []DocInv
  BY DocInit, DocInductive, PTL DEF Spec

\* No store promises what another does not hold: a ready document has all its points
\* in Qdrant and its rows in PostgreSQL, a stored chunk can be searched, and a
\* document has its file, although the stores share no transaction.
THEOREM StoresNeverDisagree == Spec => []StoresAgree
  BY IngestInvariant, InvAgrees, PTL


-----------------------------------------------------------------------------
(* Handled failures surface                                                *)

Harsh == {"uncaught", "status", "broker", "redeliver"}

\* A worker that has yet to give the document a status, or a message for another.
Live == {"begin", "parse", "upsert", "rows", "ready", "caught", "markFailed", "retry"}
Pursued(d) ==
    \/ \E n \in 0..MaxRetries : queue[d][n] > 0
    \/ \E w \in Workers : pc[w] \in Live /\ job[w].document = d

\* HandledFailureSurfaces says nothing of documents that are not at rest; this does.
SurfaceInv ==
    Without(Harsh) =>
        /\ \A w \in Workers : pc[w] # "idle" => pc[w] # "uncaught" /\ job[w].owned
        /\ \A d \in Documents :
              upload[d] = "accepted" => status[d] \in {"ready", "failed"} \/ Pursued(d)

LEMMA SurfaceMeaning == DocInv /\ SurfaceInv => HandledFailureSurfaces
<1> SUFFICES ASSUME SurfaceInv, Without(Harsh), NEW d \in Documents, AtRest(d)
             PROVE  status[d] \in {"ready", "failed"}
  BY DEF HandledFailureSurfaces, Harsh
<1>1. /\ upload[d] = "accepted"
      /\ \A n \in 0..MaxRetries : ~(queue[d][n] > 0)
      /\ \A w \in Workers : ~(pc[w] \in Live /\ job[w].document = d)
  BY DEF AtRest, Live
<1>2. QED
  BY <1>1 DEF SurfaceInv, Pursued

\* A step after which no failure of some kinds was counted is none of them.
LEMMA FaultsGrow ==
    ASSUME DocInv, NEW kinds \in SUBSET FaultKinds, Without(kinds)', NoFault \/ \E k \in FaultKinds : Fault(k)
    PROVE  Without(kinds) /\ \A k \in kinds : ~Fault(k)
<1>1. faults \in [FaultKinds -> Nat] /\ kinds \subseteq FaultKinds
  BY DEF DocInv, TypeOK
<1>2. CASE NoFault
  <2>1. ASSUME NEW k \in kinds, Fault(k) PROVE FALSE
    <3>1. faults[k] \in Nat /\ faults'[k] = faults[k] + 1 /\ faults' = faults
      BY <1>1, <1>2, <2>1 DEF NoFault, Fault
    <3>2. QED
      BY <3>1
  <2>2. QED
    BY <1>2, <2>1 DEF NoFault, Without
<1>3. ASSUME NEW j \in FaultKinds, Fault(j) PROVE Without(kinds) /\ \A k \in kinds : ~Fault(k)
  <2>1. faults[j] \in Nat /\ faults'[j] = faults[j] + 1 /\ faults'[j] # 0
    BY <1>1, <1>3 DEF Fault
  <2>2. j \notin kinds
    BY <2>1 DEF Without
  <2>3. \A k \in kinds : faults'[k] = faults[k] /\ faults[k] = 0 /\ k \in FaultKinds
    BY <1>1, <1>3, <2>2 DEF Fault, Without
  <2>4. ASSUME NEW k \in kinds, Fault(k) PROVE FALSE
    <3>1. faults'[k] = faults[k] + 1 /\ faults[k] = 0 /\ faults'[k] = 0
      BY <1>1, <2>3, <2>4 DEF Fault
    <3>2. QED
      BY <3>1
  <2>5. QED
    BY <2>3, <2>4 DEF Without
<1>4. QED
  BY <1>2, <1>3

LEMMA HarshGrow ==
    ASSUME DocInv, Without(Harsh)', NoFault \/ \E k \in FaultKinds : Fault(k)
    PROVE  Without(Harsh) /\ \A k \in Harsh : ~Fault(k)
BY FaultsGrow DEF Harsh, FaultKinds

\* Messages and workers stay on a document's track unless the step is about it.
LEMMA StillPursued ==
    ASSUME DocInv, NEW d \in Documents, Pursued(d), NEW w \in Workers,
           \A v \in Workers \ {w} : pc'[v] = pc[v] /\ job'[v] = job[v],
           \A n \in 0..MaxRetries : queue[d][n] > 0 => queue'[d][n] > 0,
           pc[w] \in Live /\ job[w].document = d => pc'[w] \in Live /\ job'[w].document = d
    PROVE  Pursued(d)'
<1>1. CASE \E n \in 0..MaxRetries : queue[d][n] > 0
  BY <1>1 DEF Pursued
<1>2. CASE \E v \in Workers : pc[v] \in Live /\ job[v].document = d
  BY <1>2 DEF Pursued
<1>3. QED
  BY <1>1, <1>2 DEF Pursued

\* Sending a message takes none away and puts its document back on track.
LEMMA SendPursues ==
    ASSUME DocInv, NEW d \in Documents, NEW n \in 0..MaxRetries, Send(d, n)
    PROVE  /\ Pursued(d)'
           /\ \A e \in Documents, m \in 0..MaxRetries : queue[e][m] > 0 => queue'[e][m] > 0
<1>1. /\ queue \in [Documents -> [0..MaxRetries -> Nat]]
      /\ queue[d] \in [0..MaxRetries -> Nat]
      /\ queue[d][n] \in Nat
      /\ \A e \in Documents, m \in 0..MaxRetries : queue[e][m] \in Nat
  BY DEF DocInv, TypeOK
<1>2. \A e \in Documents, m \in 0..MaxRetries :
         queue'[e][m] = IF e = d /\ m = n THEN queue[e][m] + 1 ELSE queue[e][m]
  BY <1>1 DEF Send
<1>3. queue'[d][n] > 0
  BY <1>1, <1>2
<1>4. QED
  BY <1>1, <1>2, <1>3 DEF Pursued

\* A worker goes on: its document has a status, or a message, or is still its.
LEMMA SurfaceStep ==
    ASSUME DocInv, SurfaceInv, Without(Harsh), NEW w \in Workers, UNCHANGED upload,
           \A v \in Workers \ {w} : pc'[v] = pc[v] /\ job'[v] = job[v],
           pc'[w] # "idle" => pc'[w] # "uncaught" /\ job'[w].owned,
           \A d \in Documents, n \in 0..MaxRetries : queue[d][n] > 0 => queue'[d][n] > 0,
           \A d \in Documents :
              status'[d] # status[d] => status'[d] \in {"ready", "failed"} \/ Pursued(d)',
           \A d \in Documents :
              pc[w] \in Live /\ job[w].document = d =>
                 \/ pc'[w] \in Live /\ job'[w].document = d
                 \/ status'[d] \in {"ready", "failed"}
                 \/ Pursued(d)'
    PROVE  SurfaceInv'
<1>1. ASSUME NEW d \in Documents, upload'[d] = "accepted", status'[d] \notin {"ready", "failed"}
      PROVE  Pursued(d)'
  <2>1. CASE status'[d] # status[d]
    BY <1>1, <2>1
  <2>2. CASE status'[d] = status[d]
    <3>1. Pursued(d)
      BY <1>1, <2>2 DEF SurfaceInv
    <3>2. QED
      BY <1>1, <3>1, StillPursued
  <2>3. QED
    BY <2>1, <2>2
<1>2. ASSUME NEW v \in Workers, pc'[v] # "idle" PROVE pc'[v] # "uncaught" /\ job'[v].owned
  BY <1>2 DEF SurfaceInv
<1>3. QED
  BY <1>1, <1>2 DEF SurfaceInv

\* Every step keeps an accepted document's track.
LEMMA SurfaceInductive == DocInv /\ SurfaceInv /\ [Next]_vars => SurfaceInv'
<1> SUFFICES ASSUME DocInv, SurfaceInv, [Next]_vars, Without(Harsh)' PROVE SurfaceInv'
  BY DEF SurfaceInv
<1>1. CASE UNCHANGED vars
  BY <1>1 DEF vars, uploadVars, SurfaceInv, Without, Pursued
<1>2. ASSUME NEW d \in Documents, Upload(d) \/ RefuseUpload(d) \/ UploadFails(d)
      PROVE  SurfaceInv'
  <2>1. /\ NoFault \/ \E k \in FaultKinds : Fault(k)
        /\ UNCHANGED <<pc, job>>
        /\ \A e \in Documents \ {d} : upload'[e] = upload[e] /\ status'[e] = status[e]
    BY <1>2 DEF Upload, SaveUpload, InsertDocument, EnqueueParse, RefuseUpload, UploadFails,
                UploadStep, FaultKinds, DocInv, TypeOK
  <2>2. Without(Harsh)
    BY <2>1, HarshGrow
  <2>3. upload'[d] = "accepted" => Send(d, 0)
    BY <1>2 DEF Upload, SaveUpload, InsertDocument, EnqueueParse, RefuseUpload, UploadFails,
                UploadStep, DocInv, TypeOK
  <2>4. queue' = queue \/ Send(d, 0)
    BY <1>2 DEF Upload, SaveUpload, InsertDocument, EnqueueParse, RefuseUpload, UploadFails
  <2>5. 0 \in 0..MaxRetries
    BY DocAssumption
  <2>6. \A e \in Documents, n \in 0..MaxRetries : queue[e][n] > 0 => queue'[e][n] > 0
    BY <2>4, <2>5, SendPursues
  <2>7. ASSUME NEW e \in Documents, upload'[e] = "accepted", status'[e] \notin {"ready", "failed"}
        PROVE  Pursued(e)'
    <3>1. CASE e = d
      BY <2>3, <2>5, <2>7, <3>1, SendPursues
    <3>2. CASE e # d
      <4>1. Pursued(e)
        BY <2>1, <2>2, <2>7, <3>2 DEF SurfaceInv
      <4>2. QED
        BY <2>1, <2>6, <4>1 DEF Pursued
    <3>3. QED
      BY <3>1, <3>2
  <2>8. QED
    BY <2>1, <2>2, <2>7 DEF SurfaceInv
<1>3. ASSUME NEW w \in Workers, TakeAny(w) PROVE SurfaceInv'
  <2>1. PICK d \in Documents, n \in 0..MaxRetries : Take(w, d, n)
    BY <1>3 DEF TakeAny
  <2>2. /\ UNCHANGED <<upload, status>>
        /\ pc[w] = "idle" /\ pc'[w] = "begin"
        /\ job'[w].document = d /\ job'[w].owned
        /\ \A v \in Workers \ {w} : pc'[v] = pc[v] /\ job'[v] = job[v]
    BY <2>1 DEF Take, WorkerStep, GoTo, uploadVars, DocInv, TypeOK
  <2>3. Without(Harsh)
    BY <2>1, HarshGrow DEF Take
  <2>4. \A e \in Documents \ {d} : queue'[e] = queue[e]
    BY <2>1 DEF Take, DocInv, TypeOK
  <2>5. ASSUME NEW e \in Documents, Pursued(e) PROVE Pursued(e)'
    <3>1. CASE e = d
      BY <2>2, <3>1 DEF Pursued, Live
    <3>2. CASE e # d
      BY <2>2, <2>4, <2>5, <3>2 DEF Pursued, Live
    <3>3. QED
      BY <3>1, <3>2
  <2>6. QED
    BY <2>2, <2>3, <2>5 DEF SurfaceInv
<1>4. ASSUME NEW w \in Workers,
             Execute(w) \/ UpsertFails(w) \/ StatusFails(w) \/ WorkerLost(w) \/ VisibilityTimeout(w)
      PROVE  SurfaceInv'
  <2>1. NoFault \/ \E k \in FaultKinds : Fault(k)
    BY <1>4 DEF Execute, BeginProcessing, Parse, Upsert, UpsertDone, InsertRows, MarkReady, HandleError,
                MarkFailed, Retry, Ack, UpsertFails, StatusFails, WorkerLost, VisibilityTimeout, FaultKinds
  <2>2. Without(Harsh) /\ \A k \in Harsh : ~Fault(k)
    BY <2>1, HarshGrow
  <2>3. ~UpsertFails(w) /\ ~StatusFails(w) /\ ~VisibilityTimeout(w)
    BY <2>2 DEF UpsertFails, StatusFails, VisibilityTimeout, Harsh
  <2>4. pc[w] # "idle"
    BY <1>4, <2>3 DEF Execute, BeginProcessing, Parse, Upsert, UpsertDone, InsertRows, MarkReady,
                      HandleError, MarkFailed, Retry, Ack, WorkerLost, WorkerStep, Steps
  <2>5. /\ JobSound(w) /\ job[w].owned /\ pc[w] # "uncaught"
        /\ job[w] \in Job /\ job[w].document \in Documents /\ job[w].retries \in 0..MaxRetries
    BY <2>2, <2>4 DEF DocInv, JobsSound, JobSound, SurfaceInv, Job
  <2>6. /\ UNCHANGED upload
        /\ \A v \in Workers \ {w} : pc'[v] = pc[v] /\ job'[v] = job[v]
    BY <1>4, <2>3 DEF Execute, BeginProcessing, Parse, Upsert, UpsertDone, InsertRows, MarkReady,
                      HandleError, MarkFailed, Retry, Ack, WorkerLost, WorkerStep, GoTo, uploadVars,
                      DocInv, TypeOK
  <2>7. CASE queue' = queue /\ pc'[w] \in Live /\ UNCHANGED status
             /\ job'[w].document = job[w].document /\ job'[w].owned
    BY <2>2, <2>5, <2>6, <2>7, SurfaceStep DEF Live
  <2>8. CASE BeginProcessing(w)
    <3>1. /\ queue' = queue /\ pc'[w] = "parse" /\ job' = job
          /\ \A d \in Documents : status'[d] # status[d] => d = job[w].document
      BY <2>8 DEF BeginProcessing, WorkerStep, GoTo, SetStatus, DocInv, TypeOK
    <3>2. Pursued(job[w].document)'
      BY <3>1 DEF Pursued, Live
    <3>3. QED
      BY <2>2, <2>5, <2>6, <3>1, <3>2, SurfaceStep DEF Live
  <2>9. CASE Parse(w) \/ Upsert(w) \/ UpsertDone(w) \/ InsertRows(w) \/ HandleError(w)
    <3>1. queue' = queue /\ UNCHANGED status
      BY <2>9 DEF Parse, Upsert, UpsertDone, InsertRows, HandleError
    <3>2. pc'[w] \in Live
      BY <2>2, <2>5, <2>9
         DEF Parse, Upsert, UpsertDone, InsertRows, HandleError, WorkerStep, GoTo, Live, Harsh,
             DocInv, TypeOK
    <3>3. job'[w].document = job[w].document /\ job'[w].owned
      <4>1. CASE Upsert(w)
        <5>1. job'[w] = [job[w] EXCEPT !.upserted = job[w].upserted + 1]
          BY <4>1 DEF Upsert, DocInv, TypeOK
        <5>2. QED
          BY <2>5, <5>1 DEF Job
      <4>2. CASE job' = job
        BY <2>5, <4>2
      <4>3. QED
        BY <2>9, <4>1, <4>2 DEF Parse, UpsertDone, InsertRows, HandleError
    <3>4. QED
      BY <2>7, <3>1, <3>2, <3>3
  <2>10. CASE MarkReady(w) \/ MarkFailed(w)
    <3>1. queue' = queue /\ pc'[w] = "ack" /\ job' = job
      BY <2>10 DEF MarkReady, MarkFailed, WorkerStep, GoTo, DocInv, TypeOK
    <3>2. SetStatus(w, "ready") \/ SetStatus(w, "failed")
      BY <2>2, <2>10 DEF MarkReady, MarkFailed, Harsh
    <3>3. /\ status'[job[w].document] \in {"ready", "failed"}
          /\ \A d \in Documents : status'[d] # status[d] => d = job[w].document
      BY <2>5, <3>2 DEF SetStatus, DocInv, TypeOK
    <3>4. QED
      BY <2>2, <2>5, <2>6, <3>1, <3>3, SurfaceStep DEF Live
  <2>11. CASE Retry(w)
    <3>1. /\ Send(job[w].document, job[w].retries + 1)
          /\ pc'[w] = "ack" /\ job' = job /\ UNCHANGED status
      BY <2>2, <2>11 DEF Retry, WorkerStep, GoTo, Harsh, DocInv, TypeOK
    <3>2. job[w].retries + 1 \in 0..MaxRetries
      BY <2>5, <2>11, DocAssumption DEF Retry, WorkerStep, JobSound
    <3>3. /\ Pursued(job[w].document)'
          /\ \A e \in Documents, n \in 0..MaxRetries : queue[e][n] > 0 => queue'[e][n] > 0
      BY <2>5, <3>1, <3>2, SendPursues
    <3>4. QED
      BY <2>2, <2>5, <2>6, <3>1, <3>3, SurfaceStep
  <2>12. CASE Ack(w)
    <3>1. queue' = queue /\ pc[w] = "ack" /\ pc'[w] = "idle" /\ UNCHANGED status
      BY <2>12 DEF Ack, WorkerStep, GoTo, DocInv, TypeOK
    <3>2. QED
      BY <2>2, <2>6, <3>1, SurfaceStep DEF Live
  <2>13. CASE WorkerLost(w)
    <3>1. PICK d \in Documents : d = job[w].document
      BY <2>5
    <3>2. Send(d, job[w].retries) /\ UNCHANGED status
      BY <2>5, <2>13, <3>1 DEF WorkerLost
    <3>3. pc'[w] = "idle"
      BY <2>13 DEF WorkerLost, WorkerStep, GoTo, DocInv, TypeOK
    <3>4. /\ Pursued(d)'
          /\ \A e \in Documents, n \in 0..MaxRetries : queue[e][n] > 0 => queue'[e][n] > 0
      BY <2>5, <3>2, SendPursues
    <3>5. QED
      BY <2>2, <2>6, <3>1, <3>2, <3>3, <3>4, SurfaceStep
  <2>14. QED
    BY <1>4, <2>3, <2>8, <2>9, <2>10, <2>11, <2>12, <2>13 DEF Execute
<1>5. QED
  BY <1>1, <1>2, <1>3, <1>4 DEF Next

\* Handled exceptions and lost workers, however many, end in a status the API shows:
\* once nothing is left to happen to an accepted document it is ready or failed.
THEOREM HandledFailuresSurface == Spec => []HandledFailureSurfaces
<1>1. Init => SurfaceInv
  BY DEF Init, SurfaceInv
<1>2. QED
  BY <1>1, IngestInvariant, SurfaceInductive, SurfaceMeaning, PTL DEF Spec
-----------------------------------------------------------------------------
(* Sums                                                                    *)

\* The sums of the first elements of w, that Added goes through.
AddsUp(c, w) ==
    /\ c \in [0..Len(w) -> Nat] /\ c[0] = 0
    /\ \A n \in 1..Len(w) : c[n] = c[n - 1] + w[n]

\* Added ends with the last of the sums.
LEMMA AddedSteps ==
    ASSUME NEW w \in Seq(Nat)
    PROVE  \E c : AddsUp(c, w) /\ Added(w) = c[Len(w)]
<1> DEFINE N == Len(w)
           step == [n \in 1..N |-> [v \in Nat |-> v + w[n]]]
           Sums(f) == f = [n \in 0..N |-> IF n = 0 THEN 0 ELSE f[n - 1] + w[n]]
           c == CHOOSE f : Sums(f)
<1>1. N \in Nat /\ \A n \in 1..N : w[n] \in Nat
  BY LenProperties, ElementOfSeq
<1>2. step \in [1..N -> [Nat -> Nat]]
  BY <1>1
<1>3. \A n \in 1..N, v \in Nat : step[n][v] = v + w[n]
  OBVIOUS
<1>4. Added(w) = c[N]
  BY DEF Added
<1> HIDE DEF step, N
<1>5. PICK f : Iterates(f, Nat, 0, N, step)
  BY <1>1, <1>2, IterationExists
<1>6. /\ f \in [0..N -> Nat] /\ f[0] = 0
      /\ \A n \in 1..N : f[n] = step[n][f[n - 1]]
  BY <1>5 DEF Iterates
<1>7. ASSUME NEW n \in 0..N PROVE f[n] = IF n = 0 THEN 0 ELSE f[n - 1] + w[n]
  <2>1. n # 0 => n \in 1..N /\ f[n - 1] \in Nat
    BY <1>1, <1>6
  <2>2. QED
    BY <1>3, <1>6, <2>1
<1>8. Sums(f)
  BY <1>6, <1>7
<1> HIDE DEF Sums
<1>9. Sums(c)
  BY <1>8
<1> HIDE DEF c
<1>10. c = [n \in 0..N |-> IF n = 0 THEN 0 ELSE c[n - 1] + w[n]]
  BY <1>9 DEF Sums
<1>11. c[0] = 0 /\ \A n \in 1..N : c[n] = c[n - 1] + w[n]
  BY <1>1, <1>10
<1>12. \A n \in 0..N : c[n] \in Nat
  <2>1. \A n \in 1..N : c[n - 1] \in Nat => c[n] \in Nat
    BY <1>1, <1>11
  <2>2. c[0] \in Nat
    BY <1>11
  <2>3. QED
    BY <1>1, <2>1, <2>2, IterationType
<1>13. c \in [0..N -> Nat]
  BY <1>10, <1>12
<1>14. AddsUp(c, w)
  BY <1>11, <1>13 DEF AddsUp, N
<1>15. QED
  BY <1>4, <1>14 DEF N

\* Two sequences with the same beginning have the same sums so far.
LEMMA SumsAgree ==
    ASSUME NEW w \in Seq(Nat), NEW v \in Seq(Nat), NEW c, NEW d, AddsUp(c, w), AddsUp(d, v),
           Len(v) <= Len(w), \A n \in 1..Len(v) : v[n] = w[n]
    PROVE  \A n \in 0..Len(v) : c[n] = d[n]
<1> DEFINE T == {n \in 0..Len(v) : c[n] = d[n]}
<1>1. Len(v) \in Nat /\ Len(w) \in Nat
  BY LenProperties
<1>2. 0 \in T
  BY <1>1 DEF AddsUp
<1>3. ASSUME NEW n \in 1..Len(v), n - 1 \in T PROVE n \in T
  <2>1. n \in 1..Len(w) /\ n \in 0..Len(v)
    BY <1>1
  <2>2. c[n - 1] = d[n - 1] /\ c[n] = c[n - 1] + w[n] /\ d[n] = d[n - 1] + v[n]
    BY <1>3, <2>1 DEF AddsUp
  <2>3. QED
    BY <2>1, <2>2
<1> HIDE DEF T
<1>4. 0..Len(v) \subseteq T
  BY <1>1, <1>2, <1>3, UpToInduction
<1>5. QED
  BY <1>4 DEF T

LEMMA AddedEmpty == Added(<<>>) = 0
<1>1. <<>> \in Seq(Nat) /\ Len(<<>>) = 0
  BY EmptySeq
<1>2. PICK c : AddsUp(c, <<>>) /\ Added(<<>>) = c[0]
  BY <1>1, AddedSteps
<1>3. QED
  BY <1>2 DEF AddsUp

\* One more length adds itself to the sum.
LEMMA AddedAppend ==
    ASSUME NEW w \in Seq(Nat), NEW x \in Nat
    PROVE  /\ Added(w) \in Nat /\ Added(Append(w, x)) = Added(w) + x
<1>1. PICK v : v = Append(w, x)
  OBVIOUS
<1>2. v \in Seq(Nat) /\ Len(v) = Len(w) + 1 /\ v[Len(w) + 1] = x /\ \A n \in 1..Len(w) : v[n] = w[n]
  BY <1>1, AppendProperties
<1>3. PICK c : AddsUp(c, w) /\ Added(w) = c[Len(w)]
  BY AddedSteps
<1>4. PICK d : AddsUp(d, v) /\ Added(v) = d[Len(v)]
  BY <1>2, AddedSteps
<1>5. Len(w) \in Nat
  BY LenProperties
<1>6. Len(w) <= Len(v) /\ \A n \in 1..Len(w) : w[n] = v[n]
  BY <1>2, <1>5
<1>7. d[Len(w)] = c[Len(w)]
  <2>1. AddsUp(d, v) /\ AddsUp(c, w)
    BY <1>3, <1>4
  <2>2. \A n \in 0..Len(w) : d[n] = c[n]
    BY <1>2, <1>6, <2>1, SumsAgree
  <2>3. QED
    BY <1>5, <2>2
<1>8. d[Len(v)] = d[Len(v) - 1] + v[Len(v)] /\ Len(v) - 1 = Len(w)
  <2>1. Len(v) - 1 = Len(w) /\ Len(v) \in 1..Len(v)
    BY <1>2, <1>5
  <2>2. QED
    BY <1>4, <2>1 DEF AddsUp
<1>9. c[Len(w)] \in Nat
  BY <1>3, <1>5 DEF AddsUp
<1>10. QED
  BY <1>1, <1>2, <1>3, <1>4, <1>7, <1>8, <1>9

\* An element of a sum is no larger than the sum.
LEMMA AddedBounds ==
    ASSUME NEW w \in Seq(Nat)
    PROVE  /\ Added(w) \in Nat
           /\ \A n \in 1..Len(w) : w[n] <= Added(w)
<1>1. PICK c : AddsUp(c, w) /\ Added(w) = c[Len(w)]
  BY AddedSteps
<1>2. /\ c \in [0..Len(w) -> Nat] /\ Len(w) \in Nat
      /\ \A n \in 1..Len(w) : c[n] = c[n - 1] + w[n] /\ w[n] \in Nat
  BY <1>1, LenProperties, ElementOfSeq DEF AddsUp
<1> DEFINE T == {m \in 0..Len(w) : \A n \in 1..m : w[n] <= c[m]}
<1>3. 0 \in T
  BY <1>2
<1>4. ASSUME NEW m \in 1..Len(w), m - 1 \in T PROVE m \in T
  <2>1. m \in 0..Len(w) /\ m - 1 \in 0..Len(w) /\ c[m - 1] \in Nat /\ c[m] \in Nat /\ w[m] \in Nat /\ c[m] = c[m - 1] + w[m]
    BY <1>2
  <2>2. ASSUME NEW n \in 1..m PROVE w[n] <= c[m]
    <3>1. CASE n = m
      BY <2>1, <3>1
    <3>2. CASE n # m
      <4>1. n \in 1..m - 1 /\ n \in 1..Len(w)
        BY <1>2, <3>2
      <4>2. w[n] <= c[m - 1] /\ w[n] \in Nat
        BY <1>2, <1>4, <4>1
      <4>3. QED
        BY <2>1, <4>2
    <3>3. QED
      BY <3>1, <3>2
  <2>3. QED
    BY <2>1, <2>2
<1> HIDE DEF T
<1>5. 0..Len(w) \subseteq T
  BY <1>2, <1>3, <1>4, UpToInduction
<1>6. Len(w) \in T
  BY <1>2, <1>5
<1>7. QED
  BY <1>1, <1>2, <1>6 DEF T

-----------------------------------------------------------------------------
(* What Only leaves of a sequence                                          *)

\* What the first elements of s leave, that Only goes through.
Leaves(f, s, S, X) ==
    /\ f \in [0..Len(s) -> Seq(X)] /\ f[0] = <<>>
    /\ \A n \in 1..Len(s) : f[n] = IF s[n] \in S THEN Append(f[n - 1], s[n]) ELSE f[n - 1]

LEMMA OnlySteps ==
    ASSUME NEW X, NEW s \in Seq(X), NEW S
    PROVE  \E f : Leaves(f, s, S, X) /\ Only(s, S) = f[Len(s)]
<1> DEFINE N == Len(s)
           Next1(n, v) == IF s[n] \in S THEN Append(v, s[n]) ELSE v
           step == [n \in 1..N |-> [v \in Seq(X) |-> Next1(n, v)]]
           Solves(f) == f = [n \in 0..N |->
               IF n = 0 THEN <<>> ELSE IF s[n] \in S THEN Append(f[n - 1], s[n]) ELSE f[n - 1]]
           c == CHOOSE f : Solves(f)
<1>1. N \in Nat /\ \A n \in 1..N : s[n] \in X
  BY LenProperties, ElementOfSeq
<1>2. \A n \in 1..N, v \in Seq(X) : Next1(n, v) \in Seq(X)
  BY <1>1, AppendProperties
<1>3. Only(s, S) = c[N]
  BY DEF Only
<1> HIDE DEF N, Next1
<1>4. step \in [1..N -> [Seq(X) -> Seq(X)]]
  BY <1>2
<1>5. \A n \in 1..N, v \in Seq(X) : step[n][v] = Next1(n, v)
  OBVIOUS
<1> HIDE DEF step
<1>6. <<>> \in Seq(X)
  BY EmptySeq
<1>7. PICK f : Iterates(f, Seq(X), <<>>, N, step)
  BY <1>1, <1>4, <1>6, IterationExists
<1>8. /\ f \in [0..N -> Seq(X)] /\ f[0] = <<>>
      /\ \A n \in 1..N : f[n] = step[n][f[n - 1]]
  BY <1>7 DEF Iterates
<1>9. ASSUME NEW n \in 1..N PROVE f[n] = Next1(n, f[n - 1])
  <2>1. n \in 1..N /\ n - 1 \in 0..N
    BY <1>1
  <2>2. f[n - 1] \in Seq(X)
    BY <1>8, <2>1
  <2>3. QED
    BY <1>5, <1>8, <2>2
<1>10. ASSUME NEW n \in 0..N
       PROVE  f[n] = IF n = 0 THEN <<>> ELSE IF s[n] \in S THEN Append(f[n - 1], s[n]) ELSE f[n - 1]
  <2>1. CASE n = 0
    BY <1>8, <2>1
  <2>2. CASE n # 0
    <3>1. n \in 1..N
      BY <1>1, <2>2
    <3>2. QED
      BY <1>9, <2>2, <3>1 DEF Next1
  <2>3. QED
    BY <2>1, <2>2
<1>11. Solves(f)
  BY <1>8, <1>10
<1> HIDE DEF Solves
<1>12. Solves(c)
  BY <1>11
<1> HIDE DEF c
<1>13. c = [n \in 0..N |->
               IF n = 0 THEN <<>> ELSE IF s[n] \in S THEN Append(c[n - 1], s[n]) ELSE c[n - 1]]
  BY <1>12 DEF Solves
<1>14. c[0] = <<>>
  BY <1>1, <1>13
<1>15. ASSUME NEW n \in 1..N
       PROVE  c[n] = IF s[n] \in S THEN Append(c[n - 1], s[n]) ELSE c[n - 1]
  <2>1. n \in 0..N /\ n # 0
    BY <1>1
  <2>2. QED
    BY <1>13, <2>1
<1>16. \A n \in 0..N : c[n] \in Seq(X)
  <2>1. \A n \in 1..N : c[n - 1] \in Seq(X) => c[n] \in Seq(X)
    BY <1>2, <1>15 DEF Next1
  <2>2. c[0] \in Seq(X)
    BY <1>6, <1>14
  <2>3. QED
    BY <1>1, <2>1, <2>2, IterationType
<1>17. c \in [0..N -> Seq(X)]
  BY <1>13, <1>16
<1>18. Leaves(c, s, S, X)
  BY <1>14, <1>15, <1>17 DEF Leaves, N
<1>19. QED
  BY <1>3, <1>18 DEF N

\* r has the elements of s up to the n-th that are in S, at the places e, in their order.
Embeds(e, r, s, n, S) ==
    /\ e \in [1..Len(r) -> 1..n]
    /\ \A k \in 1..Len(r) : r[k] = s[e[k]] /\ s[e[k]] \in S
    /\ \A j \in 1..Len(r) : \A k \in 1..Len(r) : j < k => e[j] < e[k]
    /\ \A i \in 1..n : s[i] \in S => \E k \in 1..Len(r) : e[k] = i

LEMMA OneMoreEmbeds ==
    ASSUME NEW X, NEW s \in Seq(X), NEW S, NEW n \in 1..Len(s), NEW r \in Seq(X),
           NEW e, Embeds(e, r, s, n - 1, S), s[n] \in S
    PROVE  \E g : Embeds(g, Append(r, s[n]), s, n, S)
<1>1. PICK t, x, m : t = Append(r, x) /\ x = s[n] /\ m = Len(r)
  OBVIOUS
<1>2. n \in Nat /\ n \in 1..n /\ n # 0 /\ x \in X /\ m \in Nat
  BY <1>1, LenProperties, ElementOfSeq
<1>3. Len(t) = m + 1 /\ t[m + 1] = x /\ \A k \in 1..m : t[k] = r[k]
  BY <1>1, <1>2, AppendProperties
<1> DEFINE g == [k \in 1..m + 1 |-> IF k = m + 1 THEN n ELSE e[k]]
<1>4. /\ e \in [1..m -> 1..n - 1]
      /\ \A k \in 1..m : r[k] = s[e[k]] /\ s[e[k]] \in S
      /\ \A j \in 1..m : \A k \in 1..m : j < k => e[j] < e[k]
      /\ \A i \in 1..n - 1 : s[i] \in S => \E k \in 1..m : e[k] = i
  BY <1>1 DEF Embeds
<1>5. \A k \in 1..m : k \in 1..m + 1 /\ k # m + 1 /\ g[k] = e[k] /\ e[k] \in 1..n /\ e[k] < n
  BY <1>2, <1>4
<1>6. g[m + 1] = n /\ m + 1 \in 1..m + 1 /\ \A k \in 1..m + 1 : k = m + 1 \/ k \in 1..m
  BY <1>2
<1>7. DOMAIN g = 1..m + 1 /\ g = [k \in 1..m + 1 |-> g[k]]
  OBVIOUS
<1> HIDE DEF g
<1>8. \A k \in 1..m + 1 : g[k] \in 1..n
  BY <1>2, <1>5, <1>6
<1>9. g \in [1..m + 1 -> 1..n]
  BY <1>7, <1>8
<1>10. \A k \in 1..m + 1 : t[k] = s[g[k]] /\ s[g[k]] \in S
  BY <1>1, <1>3, <1>4, <1>5, <1>6
<1>11. ASSUME NEW j \in 1..m + 1, NEW k \in 1..m + 1, j < k PROVE g[j] < g[k]
  <2>1. j \in 1..m
    BY <1>2, <1>11
  <2>2. CASE k = m + 1
    BY <1>5, <1>6, <2>1, <2>2
  <2>3. CASE k \in 1..m
    BY <1>4, <1>5, <1>11, <2>1, <2>3
  <2>4. QED
    BY <1>6, <2>2, <2>3
<1>12. ASSUME NEW i \in 1..n, s[i] \in S PROVE \E k \in 1..m + 1 : g[k] = i
  <2>1. CASE i = n
    BY <1>6, <2>1
  <2>2. CASE i # n
    <3>1. i \in 1..n - 1
      BY <1>2, <2>2
    <3>2. PICK k \in 1..m : e[k] = i
      BY <1>4, <1>12, <3>1
    <3>3. QED
      BY <1>5, <3>2
  <2>3. QED
    BY <2>1, <2>2
<1>13. Embeds(g, t, s, n, S)
  BY <1>3, <1>9, <1>10, <1>11, <1>12 DEF Embeds
<1>14. QED
  BY <1>1, <1>13

\* Only keeps elements of S, all of them, and their order.
LEMMA OnlyEmbeds ==
    ASSUME NEW X, NEW s \in Seq(X), NEW S
    PROVE  /\ Only(s, S) \in Seq(X)
           /\ \E e : Embeds(e, Only(s, S), s, Len(s), S)
<1>1. PICK f : Leaves(f, s, S, X) /\ Only(s, S) = f[Len(s)]
  BY OnlySteps
<1>2. PICK N : N = Len(s)
  OBVIOUS
<1>3. /\ N \in Nat /\ f \in [0..N -> Seq(X)] /\ f[0] = <<>>
      /\ \A n \in 1..N : f[n] = IF s[n] \in S THEN Append(f[n - 1], s[n]) ELSE f[n - 1]
  BY <1>1, <1>2, LenProperties DEF Leaves
<1> DEFINE T == {n \in 0..N : \E e : Embeds(e, f[n], s, n, S)}
<1>4. 0 \in T
  <2> DEFINE e == [k \in 1..0 |-> 0]
  <2>1. Len(<<>>) = 0
    BY EmptySeq
  <2>2. e \in [1..0 -> 1..0]
    OBVIOUS
  <2> HIDE DEF e
  <2>3. Embeds(e, <<>>, s, 0, S)
    BY <2>1, <2>2 DEF Embeds
  <2>4. QED
    BY <1>3, <2>3
<1>5. ASSUME NEW n \in 1..N, n - 1 \in T PROVE n \in T
  <2>1. PICK e : Embeds(e, f[n - 1], s, n - 1, S)
    BY <1>5
  <2>2. n - 1 \in 0..N /\ n \in 0..N /\ n \in 1..Len(s)
    BY <1>2, <1>3
  <2>3. PICK r \in Seq(X) : r = f[n - 1]
    BY <1>3, <2>2
  <2>4. Embeds(e, r, s, n - 1, S)
    BY <2>1, <2>3
  <2>5. CASE s[n] \in S
    <3>1. f[n] = Append(r, s[n])
      BY <1>3, <2>3, <2>5
    <3>2. \E g : Embeds(g, Append(r, s[n]), s, n, S)
      BY <2>2, <2>4, <2>5, OneMoreEmbeds
    <3>3. QED
      BY <2>2, <3>1, <3>2
  <2>6. CASE s[n] \notin S
    <3>1. f[n] = r
      BY <1>3, <2>3, <2>6
    <3>2. \A i \in 1..n - 1 : i \in 1..n
      BY <2>2
    <3>3. \A i \in 1..n : i = n \/ i \in 1..n - 1
      BY <2>2
    <3>4. Embeds(e, r, s, n, S)
      BY <2>4, <2>6, <3>2, <3>3 DEF Embeds
    <3>5. QED
      BY <2>2, <3>1, <3>4
  <2>7. QED
    BY <2>5, <2>6
<1> HIDE DEF T
<1>6. 0..N \subseteq T
  BY <1>3, <1>4, <1>5, UpToInduction
<1>7. N \in T
  BY <1>3, <1>6
<1>8. f[N] \in Seq(X)
  BY <1>3
<1>9. QED
  BY <1>1, <1>2, <1>7, <1>8 DEF T

-----------------------------------------------------------------------------
(* Sequences of sequences, one behind the other                            *)

\* The joined sequences after each of seqs, that FlattenSeq goes through.
Joins(f, seqs, X) ==
    /\ f \in [0..Len(seqs) -> Seq(X)] /\ f[0] = <<>>
    /\ \A n \in 1..Len(seqs) : f[n] = f[n - 1] \o seqs[n]

LEMMA FlattenSteps ==
    ASSUME NEW X, NEW seqs \in Seq(Seq(X))
    PROVE  \E f : Joins(f, seqs, X) /\ FlattenSeq(seqs) = f[Len(seqs)]
<1> DEFINE N == Len(seqs)
           step == [n \in 1..N |-> [v \in Seq(X) |-> v \o seqs[n]]]
           Solves(f) == f = [n \in 1..N |-> IF n = 1 THEN seqs[n] ELSE f[n - 1] \o seqs[n]]
           c == CHOOSE f : Solves(f)
<1>1. N \in Nat /\ \A n \in 1..N : seqs[n] \in Seq(X)
  BY LenProperties, ElementOfSeq
<1>2. FlattenSeq(seqs) = IF N = 0 THEN seqs ELSE c[N]
  BY DEF FlattenSeq
<1>3. N = 0 => seqs = <<>>
  BY EmptySeq
<1> HIDE DEF N
<1>4. \A n \in 1..N, v \in Seq(X) : v \o seqs[n] \in Seq(X)
  BY <1>1, ConcatProperties
<1>5. step \in [1..N -> [Seq(X) -> Seq(X)]]
  BY <1>4
<1>6. \A n \in 1..N, v \in Seq(X) : step[n][v] = v \o seqs[n]
  OBVIOUS
<1> HIDE DEF step
<1>7. <<>> \in Seq(X)
  BY EmptySeq
<1>8. PICK f : Iterates(f, Seq(X), <<>>, N, step)
  BY <1>1, <1>5, <1>7, IterationExists
<1>9. /\ f \in [0..N -> Seq(X)] /\ f[0] = <<>>
      /\ \A n \in 1..N : f[n] = step[n][f[n - 1]]
  BY <1>8 DEF Iterates
<1>10. ASSUME NEW n \in 1..N PROVE f[n] = f[n - 1] \o seqs[n]
  <2>1. n - 1 \in 0..N
    BY <1>1
  <2>2. f[n - 1] \in Seq(X)
    BY <1>9, <2>1
  <2>3. QED
    BY <1>6, <1>9, <2>2
<1>11. N # 0 => f[1] = seqs[1]
  <2>1. N # 0 => 1 \in 1..N /\ 1 - 1 = 0
    BY <1>1
  <2>2. N # 0 => f[1] = <<>> \o seqs[1]
    BY <1>9, <1>10, <2>1
  <2>3. N # 0 => seqs[1] \in Seq(X)
    BY <1>1, <2>1
  <2>4. QED
    BY <2>2, <2>3, ConcatEmptySeq
<1> DEFINE g == [n \in 1..N |-> f[n]]
<1>12. g = [n \in 1..N |-> IF n = 1 THEN seqs[n] ELSE g[n - 1] \o seqs[n]]
  <2>1. ASSUME NEW n \in 1..N PROVE g[n] = IF n = 1 THEN seqs[n] ELSE g[n - 1] \o seqs[n]
    <3>1. CASE n = 1
      BY <1>1, <1>11, <3>1
    <3>2. CASE n # 1
      <4>1. n - 1 \in 1..N
        BY <1>1, <3>2
      <4>2. QED
        BY <1>10, <3>2, <4>1
    <3>3. QED
      BY <3>1, <3>2
  <2>2. DOMAIN g = 1..N /\ g = [n \in 1..N |-> g[n]]
    OBVIOUS
  <2> HIDE DEF g
  <2>3. QED
    BY <2>1, <2>2
<1>13. Solves(g)
  BY <1>12
<1> HIDE DEF g, Solves
<1>14. Solves(c)
  BY <1>13
<1> HIDE DEF c
<1>15. c = [n \in 1..N |-> IF n = 1 THEN seqs[n] ELSE c[n - 1] \o seqs[n]]
  BY <1>14 DEF Solves
<1> DEFINE h == [n \in 0..N |-> IF n = 0 THEN <<>> ELSE c[n]]
<1>16. h[0] = <<>> /\ \A n \in 1..N : h[n] = c[n]
  BY <1>1
<1>17. DOMAIN h = 0..N /\ h = [n \in 0..N |-> h[n]]
  OBVIOUS
<1> HIDE DEF h
<1>18. ASSUME NEW n \in 1..N PROVE h[n] = h[n - 1] \o seqs[n]
  <2>1. CASE n = 1
    <3>1. h[n] = seqs[n] /\ h[n - 1] = <<>>
      BY <1>15, <1>16, <2>1
    <3>2. QED
      BY <1>1, <3>1, ConcatEmptySeq
  <2>2. CASE n # 1
    <3>1. n - 1 \in 1..N
      BY <1>1, <2>2
    <3>2. c[n] = c[n - 1] \o seqs[n]
      BY <1>15, <2>2
    <3>3. QED
      BY <1>16, <3>1, <3>2
  <2>3. QED
    BY <2>1, <2>2
<1>19. \A n \in 0..N : h[n] \in Seq(X)
  <2>1. \A n \in 1..N : h[n - 1] \in Seq(X) => h[n] \in Seq(X)
    BY <1>4, <1>18
  <2>2. h[0] \in Seq(X)
    BY <1>7, <1>16
  <2>3. QED
    BY <1>1, <2>1, <2>2, IterationType
<1>20. Joins(h, seqs, X)
  BY <1>16, <1>17, <1>18, <1>19 DEF Joins, N
<1>21. FlattenSeq(seqs) = h[N]
  <2>1. CASE N = 0
    BY <1>2, <1>3, <1>16, <2>1
  <2>2. CASE N # 0
    <3>1. N \in 1..N
      BY <1>1, <2>2
    <3>2. QED
      BY <1>2, <1>16, <2>2, <3>1
  <2>3. QED
    BY <2>1, <2>2
<1>22. QED
  BY <1>20, <1>21 DEF N

-----------------------------------------------------------------------------
(* Places in order                                                         *)

\* The elements ascend.
Rising(s) == \A j \in 1..Len(s) : \A k \in 1..Len(s) : j < k => s[j] < s[k]

\* All of S comes before all of T.
Ahead(S, T) == \A x \in S : \A y \in T : x < y

\* s has the numbers of S, in ascending order.
Lists(s, S) ==
    /\ s \in Seq(Nat) /\ Rising(s)
    /\ \A k \in 1..Len(s) : s[k] \in S
    /\ \A x \in S : \E k \in 1..Len(s) : s[k] = x

LEMMA ListsNumbers == ASSUME NEW s, NEW S, Lists(s, S) PROVE S \subseteq Nat /\ Range(s) = S
<1>1. s \in Seq(Nat) /\ Len(s) \in Nat /\ \A k \in 1..Len(s) : s[k] \in Nat
  BY LenProperties, ElementOfSeq DEF Lists
<1>2. Range(s) = {s[k] : k \in 1..Len(s)}
  BY <1>1, RangeEquality
<1>3. QED
  BY <1>1, <1>2 DEF Lists

\* Places lists a range of lines.
LEMMA PlacesAre ==
    ASSUME NEW from \in Nat \ {0}, NEW to \in Nat
    PROVE  Lists(Places(from, to), from..to)
<1> DEFINE n == to - from + 1
           s == [i \in 1..n |-> from + i - 1]
<1>1. Places(from, to) = s
  BY DEF Places
<1>2. PICK m \in Nat : (to < from => m = 0) /\ (to >= from => m = n) /\ 1..n = 1..m
  <2>1. CASE to < from
    <3>1. 1..n = 1..0
      BY <2>1
    <3>2. QED
      BY <2>1, <3>1
  <2>2. CASE to >= from
    BY <2>2
  <2>3. QED
    BY <2>1, <2>2
<1>3. s = [i \in 1..m |-> from + i - 1]
  BY <1>2
<1> HIDE DEF s, n
<1>4. \A i \in 1..m : s[i] = from + i - 1 /\ s[i] \in Nat
  BY <1>3
<1>5. s \in Seq(Nat) /\ Len(s) = m
  BY <1>3, <1>4
<1>6. \A k \in 1..m : s[k] \in from..to
  BY <1>2, <1>4 DEF n
<1>7. ASSUME NEW x \in from..to PROVE \E k \in 1..m : s[k] = x
  <2>1. x - from + 1 \in 1..m
    BY <1>2 DEF n
  <2>2. s[x - from + 1] = x
    BY <1>4, <2>1
  <2>3. QED
    BY <2>1, <2>2
<1>8. Rising(s)
  BY <1>4, <1>5 DEF Rising
<1>9. QED
  BY <1>1, <1>5, <1>6, <1>7, <1>8 DEF Lists

\* Leaving elements out of a list leaves a list.
LEMMA OnlyLists ==
    ASSUME NEW s, NEW T, Lists(s, T), NEW S
    PROVE  Lists(Only(s, S), T \cap S)
<1>1. PICK r : r = Only(s, S)
  OBVIOUS
<1>2. s \in Seq(Nat)
  BY DEF Lists
<1>3. r \in Seq(Nat) /\ \E e : Embeds(e, r, s, Len(s), S)
  BY <1>1, <1>2, OnlyEmbeds
<1>4. PICK e : Embeds(e, r, s, Len(s), S)
  BY <1>3
<1>5. PICK n, m : n = Len(s) /\ m = Len(r)
  OBVIOUS
<1>6. n \in Nat /\ m \in Nat
  BY <1>2, <1>3, <1>5, LenProperties
<1>7. /\ e \in [1..m -> 1..n]
      /\ \A k \in 1..m : r[k] = s[e[k]] /\ s[e[k]] \in S
      /\ \A j \in 1..m : \A k \in 1..m : j < k => e[j] < e[k]
      /\ \A i \in 1..n : s[i] \in S => \E k \in 1..m : e[k] = i
  BY <1>4, <1>5 DEF Embeds
<1>8. /\ \A j \in 1..n : \A k \in 1..n : j < k => s[j] < s[k]
      /\ \A k \in 1..n : s[k] \in T
      /\ \A x \in T : \E k \in 1..n : s[k] = x
  BY <1>5 DEF Lists, Rising
<1>9. \A j \in 1..m : \A k \in 1..m : j < k => r[j] < r[k]
  BY <1>7, <1>8
<1>10. \A k \in 1..m : r[k] \in T \cap S
  BY <1>7, <1>8
<1>11. ASSUME NEW x \in T \cap S PROVE \E k \in 1..m : r[k] = x
  <2>1. PICK i \in 1..n : s[i] = x
    BY <1>8
  <2>2. PICK k \in 1..m : e[k] = i
    BY <1>7, <2>1
  <2>3. QED
    BY <1>7, <2>1, <2>2
<1>12. QED
  BY <1>1, <1>3, <1>5, <1>9, <1>10, <1>11 DEF Lists, Rising

\* Lists one ahead of the other make one list.
LEMMA ListsConcat ==
    ASSUME NEW s, NEW S, Lists(s, S), NEW t, NEW T, Lists(t, T), Ahead(S, T)
    PROVE  Lists(s \o t, S \cup T)
<1>1. PICK r, m, n : r = s \o t /\ m = Len(s) /\ n = Len(t)
  OBVIOUS
<1>2. s \in Seq(Nat) /\ t \in Seq(Nat) /\ m \in Nat /\ n \in Nat
  BY <1>1, LenProperties DEF Lists
<1>3. /\ r \in Seq(Nat) /\ Len(r) = m + n
      /\ \A i \in 1..m + n : r[i] = IF i <= m THEN s[i] ELSE t[i - m]
  BY <1>1, <1>2, ConcatProperties
<1>4. \A i \in 1..m : i \in 1..m + n /\ r[i] = s[i]
  BY <1>2, <1>3
<1>5. \A i \in 1..n : m + i \in 1..m + n /\ r[m + i] = t[i]
  <2>1. TAKE i \in 1..n
  <2>2. m + i \in 1..m + n /\ ~(m + i <= m) /\ (m + i) - m = i
    BY <1>2
  <2>3. QED
    BY <1>3, <2>2
<1>6. \A i \in 1..m + n : i \in 1..m \/ (i - m \in 1..n /\ i = m + (i - m) /\ r[i] = t[i - m])
  BY <1>2, <1>3
<1>7. /\ \A k \in 1..m : s[k] \in S
      /\ \A x \in S : \E k \in 1..m : s[k] = x
      /\ \A k \in 1..n : t[k] \in T
      /\ \A x \in T : \E k \in 1..n : t[k] = x
  BY <1>1 DEF Lists
<1>8. /\ \A j \in 1..m : \A k \in 1..m : j < k => s[j] < s[k]
      /\ \A j \in 1..n : \A k \in 1..n : j < k => t[j] < t[k]
  BY <1>1 DEF Lists, Rising
<1>9. ASSUME NEW j \in 1..m + n, NEW k \in 1..m + n, j < k PROVE r[j] < r[k]
  <2>1. CASE k \in 1..m
    <3>1. j \in 1..m
      BY <1>2, <1>9, <2>1
    <3>2. QED
      BY <1>4, <1>8, <1>9, <2>1, <3>1
  <2>2. CASE k \notin 1..m
    <3>1. k - m \in 1..n /\ r[k] = t[k - m]
      BY <1>6, <2>2
    <3>2. CASE j \in 1..m
      BY <1>4, <1>7, <3>1, <3>2 DEF Ahead
    <3>3. CASE j \notin 1..m
      <4>1. j - m \in 1..n /\ r[j] = t[j - m]
        BY <1>6, <3>3
      <4>2. j - m < k - m
        BY <1>2, <1>9
      <4>3. QED
        BY <1>8, <3>1, <4>1, <4>2
    <3>4. QED
      BY <3>2, <3>3
  <2>3. QED
    BY <2>1, <2>2
<1>10. \A k \in 1..m + n : r[k] \in S \cup T
  BY <1>4, <1>6, <1>7
<1>11. ASSUME NEW x \in S \cup T PROVE \E k \in 1..m + n : r[k] = x
  <2>1. CASE x \in S
    BY <1>4, <1>7, <2>1
  <2>2. CASE x \in T
    BY <1>5, <1>7, <2>2
  <2>3. QED
    BY <2>1, <2>2
<1>12. QED
  BY <1>1, <1>3, <1>9, <1>10, <1>11 DEF Lists, Rising

LEMMA ListsEmpty == Lists(<<>>, {})
<1>1. <<>> \in Seq(Nat) /\ Len(<<>>) = 0
  BY EmptySeq
<1>2. QED
  BY <1>1 DEF Lists, Rising

LEMMA ListsSingle == ASSUME NEW x \in Nat PROVE Lists(<<x>>, {x})
<1>1. <<x>> \in Seq(Nat) /\ Len(<<x>>) = 1 /\ <<x>>[1] = x
  OBVIOUS
<1>2. QED
  BY <1>1 DEF Lists, Rising

\* So do many.
LEMMA FlattenLists ==
    ASSUME NEW seqs \in Seq(Seq(Nat)), NEW D,
           \A n \in 1..Len(seqs) : Lists(seqs[n], D[n]),
           \A n \in 1..Len(seqs) : \A m \in 1..Len(seqs) : m < n => Ahead(D[m], D[n])
    PROVE  Lists(FlattenSeq(seqs), UNION {D[n] : n \in 1..Len(seqs)})
<1>1. PICK f : Joins(f, seqs, Nat) /\ FlattenSeq(seqs) = f[Len(seqs)]
  BY FlattenSteps
<1>2. PICK N : N = Len(seqs)
  OBVIOUS
<1>3. /\ N \in Nat /\ f[0] = <<>> /\ \A n \in 1..N : f[n] = f[n - 1] \o seqs[n]
  BY <1>1, <1>2, LenProperties DEF Joins
<1> DEFINE U(n) == UNION {D[m] : m \in 1..n}
           T == {n \in 0..N : Lists(f[n], U(n))}
<1>4. U(0) = {} /\ \A n \in 1..N : U(n) = U(n - 1) \cup D[n]
  <2>1. U(0) = {}
    OBVIOUS
  <2>2. ASSUME NEW n \in 1..N PROVE U(n) = U(n - 1) \cup D[n]
    <3>1. 1..n = (1..n - 1) \cup {n}
      BY <1>3
    <3>2. QED
      BY <3>1
  <2>3. QED
    BY <2>1, <2>2
<1>5. \A n \in 1..N : Ahead(U(n - 1), D[n])
  <2>1. TAKE n \in 1..N
  <2>2. \A m \in 1..n - 1 : m \in 1..N /\ m < n
    BY <1>3
  <2>3. \A m \in 1..n - 1 : Ahead(D[m], D[n])
    BY <1>2, <2>2
  <2>4. QED
    BY <2>3 DEF Ahead
<1> HIDE DEF U
<1>6. 0 \in T
  <2>1. U(0) = {} /\ f[0] = <<>> /\ 0 \in 0..N
    BY <1>3, <1>4
  <2>2. Lists(f[0], U(0))
    BY <2>1, ListsEmpty
  <2>3. QED
    BY <2>1, <2>2
<1>7. ASSUME NEW n \in 1..N, n - 1 \in T PROVE n \in T
  <2>1. PICK a, b, A, B : a = f[n - 1] /\ b = seqs[n] /\ A = U(n - 1) /\ B = D[n]
    OBVIOUS
  <2>2. Lists(a, A) /\ Lists(b, B) /\ Ahead(A, B)
    BY <1>2, <1>5, <1>7, <2>1
  <2>3. Lists(a \o b, A \cup B)
    BY <2>2, ListsConcat
  <2>4. f[n] = a \o b /\ U(n) = A \cup B
    BY <1>3, <1>4, <2>1
  <2>5. n \in 0..N
    BY <1>3
  <2>6. Lists(f[n], U(n))
    BY <2>3, <2>4
  <2>7. QED
    BY <2>5, <2>6
<1> HIDE DEF T
<1>8. 0..N \subseteq T
  BY <1>3, <1>6, <1>7, UpToInduction
<1>9. N \in T
  BY <1>3, <1>8
<1>10. Lists(f[N], U(N))
  BY <1>9 DEF T
<1>11. QED
  BY <1>1, <1>2, <1>10 DEF U

-----------------------------------------------------------------------------
(* Blocks                                                                  *)

\* What is a function on 1 .. n is a sequence.
LEMMA MadeSequence ==
    ASSUME NEW S, NEW n \in Nat, NEW s, s = [i \in 1..n |-> s[i]], \A i \in 1..n : s[i] \in S
    PROVE  s \in Seq(S) /\ Len(s) = n
  OBVIOUS

\* What Block makes.
Blocks == [kind : {"text", "heading", "list", "table", "figure", "caption"}, places : Seq(Nat)]

PlacesOf(b) == Range(b.places)
\* The lines of all blocks of bs.
AllOf(bs) == UNION {PlacesOf(bs[j]) : j \in 1..Len(bs)}

\* A block of places in their order.
Ordered(b) == b \in Blocks /\ Lists(b.places, PlacesOf(b))

\* Blocks of places in their order.
InOrder(bs) ==
    /\ bs \in Seq(Blocks)
    /\ \A j \in 1..Len(bs) : Ordered(bs[j])
    /\ \A k \in 1..Len(bs) : \A j \in 1..Len(bs) : j < k => Ahead(PlacesOf(bs[j]), PlacesOf(bs[k]))

LEMMA InOrderEmpty == InOrder(<<>>) /\ AllOf(<<>>) = {}
<1>1. <<>> \in Seq(Blocks) /\ Len(<<>>) = 0
  BY EmptySeq
<1>2. QED
  BY <1>1 DEF InOrder, AllOf

LEMMA InOrderAppend ==
    ASSUME NEW bs, InOrder(bs), NEW b, Ordered(b), Ahead(AllOf(bs), PlacesOf(b))
    PROVE  InOrder(Append(bs, b)) /\ AllOf(Append(bs, b)) = AllOf(bs) \cup PlacesOf(b)
<1>1. PICK t, n : t = Append(bs, b) /\ n = Len(bs)
  OBVIOUS
<1>2. bs \in Seq(Blocks) /\ b \in Blocks /\ n \in Nat
  BY <1>1, LenProperties DEF InOrder, Ordered
<1>3. /\ t \in Seq(Blocks) /\ Len(t) = n + 1 /\ t[n + 1] = b
      /\ \A j \in 1..n : t[j] = bs[j]
  BY <1>1, <1>2, AppendProperties
<1>4. /\ \A j \in 1..n : Ordered(bs[j])
      /\ \A k \in 1..n : \A j \in 1..n : j < k => Ahead(PlacesOf(bs[j]), PlacesOf(bs[k]))
  BY <1>1 DEF InOrder
<1>5. \A j \in 1..n + 1 : j = n + 1 \/ j \in 1..n
  BY <1>2
<1>6. \A j \in 1..n : PlacesOf(bs[j]) \subseteq AllOf(bs)
  BY <1>1 DEF AllOf
<1>7. \A j \in 1..n + 1 : Ordered(t[j])
  BY <1>3, <1>4, <1>5
<1>8. ASSUME NEW k \in 1..n + 1, NEW j \in 1..n + 1, j < k PROVE Ahead(PlacesOf(t[j]), PlacesOf(t[k]))
  <2>1. j \in 1..n
    BY <1>2, <1>8
  <2>2. CASE k \in 1..n
    BY <1>3, <1>4, <1>8, <2>1, <2>2
  <2>3. CASE k = n + 1
    <3>1. t[k] = b /\ t[j] = bs[j]
      BY <1>3, <2>1, <2>3
    <3>2. QED
      BY <1>6, <2>1, <3>1 DEF Ahead
  <2>4. QED
    BY <1>5, <2>2, <2>3
<1>9. InOrder(t)
  BY <1>3, <1>7, <1>8 DEF InOrder
<1>10. AllOf(t) = AllOf(bs) \cup PlacesOf(b)
  <2>1. \A x \in AllOf(t) : x \in AllOf(bs) \cup PlacesOf(b)
    <3>1. TAKE x \in AllOf(t)
    <3>2. PICK j \in 1..n + 1 : x \in PlacesOf(t[j])
      BY <1>3 DEF AllOf
    <3>3. QED
      BY <1>3, <1>5, <1>6, <3>2
  <2>2. \A x \in AllOf(bs) : x \in AllOf(t)
    <3>1. TAKE x \in AllOf(bs)
    <3>2. PICK j \in 1..n : x \in PlacesOf(bs[j])
      BY <1>1 DEF AllOf
    <3>3. j \in 1..n + 1 /\ t[j] = bs[j]
      BY <1>2, <1>3
    <3>4. QED
      BY <1>3, <3>2, <3>3 DEF AllOf
  <2>3. \A x \in PlacesOf(b) : x \in AllOf(t)
    <3>1. n + 1 \in 1..n + 1
      BY <1>2
    <3>2. QED
      BY <1>3, <3>1 DEF AllOf
  <2>4. QED
    BY <2>1, <2>2, <2>3
<1>11. QED
  BY <1>1, <1>9, <1>10

LEMMA InOrderSingle ==
    ASSUME NEW b, Ordered(b)
    PROVE  InOrder(<<b>>) /\ AllOf(<<b>>) = PlacesOf(b)
<1>1. b \in Blocks
  BY DEF Ordered
<1>2. <<b>> \in Seq(Blocks) /\ Len(<<b>>) = 1 /\ <<b>>[1] = b
  BY <1>1
<1>3. QED
  BY <1>2 DEF InOrder, AllOf

\* The text of blocks in order.
LEMMA InOrderLists ==
    ASSUME NEW bs, InOrder(bs)
    PROVE  Lists(FlattenSeq([k \in DOMAIN bs |-> bs[k].places]), AllOf(bs))
<1> DEFINE seqs == [k \in DOMAIN bs |-> bs[k].places]
           D == [k \in DOMAIN bs |-> PlacesOf(bs[k])]
<1>1. PICK n : n = Len(bs)
  OBVIOUS
<1>2. bs \in Seq(Blocks) /\ n \in Nat /\ DOMAIN bs = 1..n
  BY <1>1, LenProperties DEF InOrder
<1>3. \A k \in 1..n : Lists(bs[k].places, PlacesOf(bs[k])) /\ bs[k].places \in Seq(Nat)
  BY <1>1 DEF InOrder, Ordered, Lists
<1>4. \A k \in 1..n : seqs[k] = bs[k].places /\ D[k] = PlacesOf(bs[k])
  BY <1>2
<1>5. seqs = [k \in 1..n |-> seqs[k]]
  BY <1>2
<1> HIDE DEF seqs, D
<1>6. \A k \in 1..n : seqs[k] \in Seq(Nat)
  BY <1>3, <1>4
<1>7. seqs \in Seq(Seq(Nat)) /\ Len(seqs) = n
  BY <1>2, <1>5, <1>6, MadeSequence
<1>8. \A k \in 1..n : Lists(seqs[k], D[k])
  BY <1>3, <1>4
<1>9. \A k \in 1..n : \A m \in 1..n : m < k => Ahead(D[m], D[k])
  BY <1>1, <1>4 DEF InOrder
<1>10. Lists(FlattenSeq(seqs), UNION {D[k] : k \in 1..n})
  BY <1>7, <1>8, <1>9, FlattenLists
<1>11. UNION {D[k] : k \in 1..n} = AllOf(bs)
  BY <1>1, <1>4 DEF AllOf
<1>12. QED
  BY <1>10, <1>11 DEF seqs

-----------------------------------------------------------------------------
(* Lengths                                                                 *)

LEMMA LengthIs ==
    ASSUME NEW i PROVE Length(i) \in Nat /\ (Length(i) = 0 <=> Lines[i] \in Empty)
<1>1. LongLine \in Nat /\ LongLine # 0
  BY TextAssumption
<1>2. QED
  BY <1>1 DEF Length, Empty

\* No characters mean that every line is empty.
LEMMA CharsOf ==
    ASSUME NEW p, p \in Seq(Nat)
    PROVE  Chars(p) \in Nat /\ (Chars(p) = 0 => \A x \in Range(p) : Lines[x] \in Empty)
<1> DEFINE w == [k \in DOMAIN p |-> Length(p[k])]
<1>1. PICK n : n = Len(p)
  OBVIOUS
<1>2. n \in Nat /\ DOMAIN p = 1..n
  BY <1>1, LenProperties
<1>3. \A k \in 1..n : w[k] = Length(p[k])
  BY <1>2
<1>4. w = [k \in 1..n |-> w[k]] /\ Chars(p) = Added(w)
  BY <1>2 DEF Chars
<1> HIDE DEF w
<1>5. \A k \in 1..n : w[k] \in Nat
  BY <1>3, LengthIs
<1>6. w \in Seq(Nat) /\ Len(w) = n
  BY <1>2, <1>4, <1>5, MadeSequence
<1>7. Added(w) \in Nat /\ \A k \in 1..n : w[k] <= Added(w)
  BY <1>6, AddedBounds
<1>8. ASSUME Added(w) = 0, NEW x \in Range(p) PROVE Lines[x] \in Empty
  <2>1. PICK k \in 1..n : p[k] = x
    BY <1>1, RangeEquality
  <2>2. w[k] = 0
    BY <1>5, <1>7, <1>8
  <2>3. QED
    BY <1>3, <2>1, <2>2, LengthIs
<1>9. QED
  BY <1>4, <1>7, <1>8

\* w has the lengths of the blocks bs.
Measures(w, bs) == w = [k \in DOMAIN bs |-> Chars(bs[k].places)]

LEMMA BlockLengths ==
    ASSUME NEW bs, bs \in Seq(Blocks), NEW w, Measures(w, bs)
    PROVE  /\ w \in Seq(Nat) /\ Len(w) = Len(bs) /\ BlocksChars(bs) = Added(w)
           /\ \A k \in 1..Len(bs) : w[k] = Chars(bs[k].places)
<1>1. PICK n : n = Len(bs)
  OBVIOUS
<1>2. n \in Nat /\ DOMAIN bs = 1..n
  BY <1>1, LenProperties
<1>3. \A k \in 1..n : w[k] = Chars(bs[k].places)
  BY <1>2 DEF Measures
<1>4. w = [k \in 1..n |-> w[k]]
  BY <1>2 DEF Measures
<1>9. BlocksChars(bs) = Added(w)
  BY DEF BlocksChars, Measures
<1>5. \A k \in 1..n : bs[k].places \in Seq(Nat)
  <2>1. TAKE k \in 1..n
  <2>2. bs[k] \in Blocks
    BY <1>1, ElementOfSeq
  <2>3. QED
    BY <2>2 DEF Blocks
<1>6. \A k \in 1..n : w[k] \in Nat
  BY <1>3, <1>5, CharsOf
<1>7. w \in Seq(Nat) /\ Len(w) = n
  BY <1>2, <1>4, <1>6, MadeSequence
<1>8. QED
  BY <1>1, <1>3, <1>7, <1>9

LEMMA BlocksCharsEmpty == BlocksChars(<<>>) = 0
<1>1. PICK w : Measures(w, <<>>)
  BY DEF Measures
<1>2. w \in Seq(Nat) /\ Len(w) = 0 /\ BlocksChars(<<>>) = Added(w)
  <2>1. <<>> \in Seq(Blocks) /\ Len(<<>>) = 0
    BY EmptySeq
  <2>2. QED
    BY <1>1, <2>1, BlockLengths
<1>3. w = <<>>
  BY <1>2, EmptySeq
<1>4. QED
  BY <1>2, <1>3, AddedEmpty

\* One more block adds its characters.
LEMMA BlocksCharsAppend ==
    ASSUME NEW bs, bs \in Seq(Blocks), NEW b, b \in Blocks
    PROVE  /\ BlocksChars(bs) \in Nat /\ Chars(b.places) \in Nat
           /\ BlocksChars(Append(bs, b)) = BlocksChars(bs) + Chars(b.places)
<1>1. PICK t, n : t = Append(bs, b) /\ n = Len(bs)
  OBVIOUS
<1>2. n \in Nat /\ t \in Seq(Blocks) /\ Len(t) = n + 1 /\ t[n + 1] = b /\ \A j \in 1..n : t[j] = bs[j]
  BY <1>1, LenProperties, AppendProperties
<1>3. PICK w : Measures(w, bs)
  BY DEF Measures
<1>4. PICK v : Measures(v, t)
  BY DEF Measures
<1>5. /\ w \in Seq(Nat) /\ Len(w) = n /\ BlocksChars(bs) = Added(w)
      /\ \A k \in 1..n : w[k] = Chars(bs[k].places)
  BY <1>1, <1>3, BlockLengths
<1>6. /\ v \in Seq(Nat) /\ Len(v) = n + 1 /\ BlocksChars(t) = Added(v)
      /\ \A k \in 1..n + 1 : v[k] = Chars(t[k].places)
  BY <1>2, <1>4, BlockLengths
<1>7. PICK x : x = Chars(b.places)
  OBVIOUS
<1>8. x \in Nat
  BY <1>7, CharsOf DEF Blocks
<1>9. v = Append(w, x)
  <2>1. PICK u : u = Append(w, x)
    OBVIOUS
  <2>2. u \in Seq(Nat) /\ Len(u) = n + 1 /\ u[n + 1] = x /\ \A k \in 1..n : u[k] = w[k]
    BY <1>5, <1>8, <2>1, AppendProperties
  <2>3. \A k \in 1..n + 1 : v[k] = u[k]
    <3>1. TAKE k \in 1..n + 1
    <3>2. CASE k = n + 1
      BY <1>2, <1>6, <1>7, <2>2, <3>2
    <3>3. CASE k # n + 1
      <4>1. k \in 1..n
        BY <1>2, <3>3
      <4>2. QED
        BY <1>2, <1>5, <1>6, <2>2, <4>1
    <3>4. QED
      BY <3>2, <3>3
  <2>4. v = u
    BY <1>6, <2>2, <2>3, SeqEqual
  <2>5. QED
    BY <2>1, <2>4
<1>10. Added(w) \in Nat /\ Added(Append(w, x)) = Added(w) + x
  BY <1>5, <1>8, AddedAppend
<1>11. QED
  BY <1>1, <1>5, <1>6, <1>7, <1>8, <1>9, <1>10

\* No block is longer than all of them.
LEMMA BlocksCharsOf ==
    ASSUME NEW bs, bs \in Seq(Blocks)
    PROVE  /\ BlocksChars(bs) \in Nat
           /\ \A j \in 1..Len(bs) : Chars(bs[j].places) <= BlocksChars(bs) /\ Chars(bs[j].places) \in Nat
           /\ BlocksChars(bs) = 0 => \A x \in AllOf(bs) : Lines[x] \in Empty
<1>1. PICK n : n = Len(bs)
  OBVIOUS
<1>2. PICK w : Measures(w, bs)
  BY DEF Measures
<1>3. /\ w \in Seq(Nat) /\ Len(w) = n /\ BlocksChars(bs) = Added(w)
      /\ \A k \in 1..n : w[k] = Chars(bs[k].places)
  BY <1>1, <1>2, BlockLengths
<1>4. Added(w) \in Nat /\ \A k \in 1..n : w[k] <= Added(w)
  BY <1>3, AddedBounds
<1>5. \A k \in 1..n : bs[k].places \in Seq(Nat)
  <2>1. TAKE k \in 1..n
  <2>2. bs[k] \in Blocks
    BY <1>1, ElementOfSeq
  <2>3. QED
    BY <2>2 DEF Blocks
<1>6. \A k \in 1..n : Chars(bs[k].places) \in Nat
  BY <1>5, CharsOf
<1>7. ASSUME BlocksChars(bs) = 0, NEW x \in AllOf(bs) PROVE Lines[x] \in Empty
  <2>1. PICK k \in 1..n : x \in Range(bs[k].places)
    BY <1>1 DEF AllOf, PlacesOf
  <2>2. Chars(bs[k].places) = 0
    BY <1>3, <1>4, <1>6, <1>7
  <2>3. QED
    BY <1>5, <2>1, <2>2, CharsOf
<1>8. QED
  BY <1>1, <1>3, <1>4, <1>6, <1>7

-----------------------------------------------------------------------------
(* The chunker                                                             *)

ChildKind == {"text", "heading", "list", "table", "figure", "caption"}
\* What Child makes.
Children == [kind : ChildKind, blocks : Seq(Blocks), parent : Nat]

\* More than one block with a text only within the budget, and no atomic block with another.
Tight(bs) ==
    \A k \in 1..Len(bs) : \A j \in 1..Len(bs) :
        j < k /\ Chars(bs[j].places) > 0 /\ Chars(bs[k].places) > 0 =>
            BlocksChars(bs) <= ChildMax /\ bs[1].kind \notin Atomic

\* A child as the chunker makes them.
Made(c) ==
    /\ c \in Children /\ InOrder(c.blocks) /\ c.blocks # <<>>
    /\ c.kind = c.blocks[1].kind /\ Tight(c.blocks)

\* The last of cs leaves no room for a block of x characters, if it is a text.
Follows(cs, x) ==
    cs # <<>> /\ cs[Len(cs)].kind \notin Atomic =>
        \/ BlocksChars(cs[Len(cs)].blocks) >= ChildMax
        \/ BlocksChars(cs[Len(cs)].blocks) + x > ChildMax

\* The second of two children would not have fitted behind the first.
Neighbours(b, c) ==
    b.parent = c.parent /\ b.kind \notin Atomic /\ c.kind \notin Atomic =>
        \/ BlocksChars(b.blocks) >= ChildMax
        \/ BlocksChars(b.blocks) + Chars(c.blocks[1].places) > ChildMax

\* The children cs have the lines A, each once and in their order; their parents are in M.
Chunked(cs, A, M) ==
    /\ cs \in Seq(Children)
    /\ \A c \in 1..Len(cs) : Made(cs[c]) /\ cs[c].parent \in M /\ AllOf(cs[c].blocks) \subseteq A
    /\ \A c \in 1..Len(cs) : \A b \in 1..Len(cs) : b < c =>
          Ahead(AllOf(cs[b].blocks), AllOf(cs[c].blocks))
    /\ \A c \in 1..Len(cs) : c > 1 => Neighbours(cs[c - 1], cs[c])
    /\ \A x \in A : Lines[x] \notin Empty => \E c \in 1..Len(cs) : x \in AllOf(cs[c].blocks)

LEMMA ChunkedEmpty == ASSUME NEW M PROVE Chunked(<<>>, {}, M)
<1>1. <<>> \in Seq(Children) /\ Len(<<>>) = 0
  BY EmptySeq
<1>2. QED
  BY <1>1 DEF Chunked

\* Lines without a text are in no child and need none.
LEMMA ChunkedDrops ==
    ASSUME NEW cs, NEW A, NEW M, Chunked(cs, A, M), NEW B, \A x \in B : Lines[x] \in Empty
    PROVE  Chunked(cs, A \cup B, M)
  BY DEF Chunked

\* One more child, behind the others and with no room in the last of them.
LEMMA ChunkedAppend ==
    ASSUME NEW cs, NEW A, NEW M, Chunked(cs, A, M), NEW d, Made(d), d.parent \in M,
           Ahead(A, AllOf(d.blocks)),
           d.kind \notin Atomic => Follows(cs, Chars(d.blocks[1].places))
    PROVE  Chunked(Append(cs, d), A \cup AllOf(d.blocks), M)
<1>1. PICK t, n, D : t = Append(cs, d) /\ n = Len(cs) /\ D = AllOf(d.blocks)
  OBVIOUS
<1>2. cs \in Seq(Children) /\ d \in Children /\ n \in Nat
  BY <1>1, LenProperties DEF Chunked, Made
<1>3. t \in Seq(Children) /\ Len(t) = n + 1 /\ t[n + 1] = d /\ \A c \in 1..n : t[c] = cs[c]
  BY <1>1, <1>2, AppendProperties
<1>4. /\ \A c \in 1..n : Made(cs[c]) /\ cs[c].parent \in M /\ AllOf(cs[c].blocks) \subseteq A
      /\ \A c \in 1..n : \A b \in 1..n : b < c => Ahead(AllOf(cs[b].blocks), AllOf(cs[c].blocks))
      /\ \A c \in 1..n : c > 1 => Neighbours(cs[c - 1], cs[c])
      /\ \A x \in A : Lines[x] \notin Empty => \E c \in 1..n : x \in AllOf(cs[c].blocks)
  BY <1>1 DEF Chunked
<1>5. \A c \in 1..n + 1 : c = n + 1 \/ c \in 1..n
  BY <1>2
<1>6. ASSUME NEW c \in 1..n + 1
      PROVE  Made(t[c]) /\ t[c].parent \in M /\ AllOf(t[c].blocks) \subseteq A \cup D
  <2>1. CASE c = n + 1
    BY <1>1, <1>3, <2>1
  <2>2. CASE c \in 1..n
    BY <1>3, <1>4, <2>2
  <2>3. QED
    BY <1>5, <2>1, <2>2
<1>7. ASSUME NEW c \in 1..n + 1, NEW b \in 1..n + 1, b < c
      PROVE  Ahead(AllOf(t[b].blocks), AllOf(t[c].blocks))
  <2>1. b \in 1..n
    BY <1>2, <1>7
  <2>2. CASE c \in 1..n
    BY <1>3, <1>4, <1>7, <2>1, <2>2
  <2>3. CASE c = n + 1
    <3>1. t[c] = d /\ t[b] = cs[b] /\ AllOf(cs[b].blocks) \subseteq A
      BY <1>3, <1>4, <2>1, <2>3
    <3>2. QED
      BY <3>1 DEF Ahead
  <2>4. QED
    BY <1>5, <2>2, <2>3
<1>8. ASSUME NEW c \in 1..n + 1, c > 1 PROVE Neighbours(t[c - 1], t[c])
  <2>1. c - 1 \in 1..n
    BY <1>2, <1>8
  <2>2. CASE c \in 1..n
    BY <1>3, <1>4, <1>8, <2>1, <2>2
  <2>3. CASE c = n + 1
    <3>1. c - 1 = n /\ t[c] = d /\ t[c - 1] = cs[n]
      BY <1>2, <1>3, <2>1, <2>3
    <3>2. cs # <<>>
      BY <1>1, <2>1, <3>1, EmptySeq
    <3>3. QED
      BY <1>1, <3>1, <3>2 DEF Neighbours, Follows
  <2>4. QED
    BY <1>5, <2>2, <2>3
<1>9. ASSUME NEW x \in A \cup D, Lines[x] \notin Empty PROVE \E c \in 1..n + 1 : x \in AllOf(t[c].blocks)
  <2>1. CASE x \in A
    <3>1. PICK c \in 1..n : x \in AllOf(cs[c].blocks)
      BY <1>4, <1>9, <2>1
    <3>2. c \in 1..n + 1 /\ t[c] = cs[c]
      BY <1>2, <1>3
    <3>3. QED
      BY <3>1, <3>2
  <2>2. CASE x \in D
    <3>1. n + 1 \in 1..n + 1
      BY <1>2
    <3>2. QED
      BY <1>1, <1>3, <2>2, <3>1
  <2>3. QED
    BY <2>1, <2>2
<1>10. Chunked(t, A \cup D, M)
  BY <1>3, <1>6, <1>7, <1>8, <1>9 DEF Chunked
<1>11. QED
  BY <1>1, <1>10

\* The children of two parents.
LEMMA ChunkedConcat ==
    ASSUME NEW cs, NEW A, NEW M, Chunked(cs, A, M), NEW ds, NEW B, NEW N, Chunked(ds, B, N),
           Ahead(A, B), M \cap N = {}
    PROVE  Chunked(cs \o ds, A \cup B, M \cup N)
<1>1. PICK t, m, n : t = cs \o ds /\ m = Len(cs) /\ n = Len(ds)
  OBVIOUS
<1>2. cs \in Seq(Children) /\ ds \in Seq(Children) /\ m \in Nat /\ n \in Nat
  BY <1>1, LenProperties DEF Chunked
<1>3. /\ t \in Seq(Children) /\ Len(t) = m + n
      /\ \A i \in 1..m + n : t[i] = IF i <= m THEN cs[i] ELSE ds[i - m]
  BY <1>1, <1>2, ConcatProperties
<1>4. \A i \in 1..m : i \in 1..m + n /\ t[i] = cs[i]
  BY <1>2, <1>3
<1>5. \A i \in 1..n : m + i \in 1..m + n /\ t[m + i] = ds[i]
  <2>1. TAKE i \in 1..n
  <2>2. m + i \in 1..m + n /\ ~(m + i <= m) /\ (m + i) - m = i
    BY <1>2
  <2>3. QED
    BY <1>3, <2>2
<1>6. \A i \in 1..m + n : i \in 1..m \/ (i \notin 1..m /\ i - m \in 1..n /\ t[i] = ds[i - m])
  BY <1>2, <1>3
<1>7. /\ \A c \in 1..m : Made(cs[c]) /\ cs[c].parent \in M /\ AllOf(cs[c].blocks) \subseteq A
      /\ \A c \in 1..m : \A b \in 1..m : b < c => Ahead(AllOf(cs[b].blocks), AllOf(cs[c].blocks))
      /\ \A c \in 1..m : c > 1 => Neighbours(cs[c - 1], cs[c])
      /\ \A x \in A : Lines[x] \notin Empty => \E c \in 1..m : x \in AllOf(cs[c].blocks)
  BY <1>1 DEF Chunked
<1>8. /\ \A c \in 1..n : Made(ds[c]) /\ ds[c].parent \in N /\ AllOf(ds[c].blocks) \subseteq B
      /\ \A c \in 1..n : \A b \in 1..n : b < c => Ahead(AllOf(ds[b].blocks), AllOf(ds[c].blocks))
      /\ \A c \in 1..n : c > 1 => Neighbours(ds[c - 1], ds[c])
      /\ \A x \in B : Lines[x] \notin Empty => \E c \in 1..n : x \in AllOf(ds[c].blocks)
  BY <1>1 DEF Chunked
<1>9. ASSUME NEW c \in 1..m + n
      PROVE  Made(t[c]) /\ t[c].parent \in M \cup N /\ AllOf(t[c].blocks) \subseteq A \cup B
  <2>1. CASE c \in 1..m
    BY <1>4, <1>7, <2>1
  <2>2. CASE c \notin 1..m
    BY <1>6, <1>8, <2>2
  <2>3. QED
    BY <2>1, <2>2
<1>10. ASSUME NEW c \in 1..m + n, NEW b \in 1..m + n, b < c
       PROVE  Ahead(AllOf(t[b].blocks), AllOf(t[c].blocks))
  <2>1. CASE c \in 1..m
    <3>1. b \in 1..m
      BY <1>2, <1>10, <2>1
    <3>2. QED
      BY <1>4, <1>7, <1>10, <2>1, <3>1
  <2>2. CASE c \notin 1..m
    <3>1. c - m \in 1..n /\ t[c] = ds[c - m]
      BY <1>6, <2>2
    <3>2. CASE b \in 1..m
      <4>1. AllOf(t[b].blocks) \subseteq A /\ AllOf(t[c].blocks) \subseteq B
        BY <1>4, <1>7, <1>8, <3>1, <3>2
      <4>2. QED
        BY <4>1 DEF Ahead
    <3>3. CASE b \notin 1..m
      <4>1. b - m \in 1..n /\ t[b] = ds[b - m]
        BY <1>6, <3>3
      <4>2. b - m < c - m
        BY <1>2, <1>10
      <4>3. QED
        BY <1>8, <3>1, <4>1, <4>2
    <3>4. QED
      BY <3>2, <3>3
  <2>3. QED
    BY <2>1, <2>2
<1>11. ASSUME NEW c \in 1..m + n, c > 1 PROVE Neighbours(t[c - 1], t[c])
  <2>1. c - 1 \in 1..m + n
    BY <1>2, <1>11
  <2>2. CASE c \in 1..m
    <3>1. c - 1 \in 1..m
      BY <1>2, <1>11, <2>2
    <3>2. QED
      BY <1>4, <1>7, <1>11, <2>2, <3>1
  <2>3. CASE c \notin 1..m /\ c - 1 \in 1..m
    <3>1. c - m \in 1..n /\ t[c] = ds[c - m] /\ t[c - 1] = cs[c - 1]
      BY <1>4, <1>6, <2>3
    <3>2. t[c].parent \in N /\ t[c - 1].parent \in M
      BY <1>7, <1>8, <2>3, <3>1
    <3>3. QED
      BY <3>2 DEF Neighbours
  <2>4. CASE c - 1 \notin 1..m
    <3>1. /\ c \notin 1..m /\ c - m \in 1..n /\ c - m > 1 /\ (c - m) - 1 = (c - 1) - m
          /\ (c - 1) - m \in 1..n
      BY <1>2, <1>11, <2>4
    <3>2. t[c] = ds[c - m] /\ t[c - 1] = ds[(c - m) - 1]
      BY <1>6, <2>1, <2>4, <3>1
    <3>3. QED
      BY <1>8, <3>1, <3>2
  <2>5. QED
    BY <2>2, <2>3, <2>4
<1>12. ASSUME NEW x \in A \cup B, Lines[x] \notin Empty PROVE \E c \in 1..m + n : x \in AllOf(t[c].blocks)
  <2>1. CASE x \in A
    BY <1>4, <1>7, <1>12, <2>1
  <2>2. CASE x \in B
    <3>1. PICK c \in 1..n : x \in AllOf(ds[c].blocks)
      BY <1>8, <1>12, <2>2
    <3>2. QED
      BY <1>5, <3>1
  <2>3. QED
    BY <2>1, <2>2
<1>13. Chunked(t, A \cup B, M \cup N)
  BY <1>3, <1>9, <1>10, <1>11, <1>12 DEF Chunked
<1>14. QED
  BY <1>1, <1>13

-----------------------------------------------------------------------------
(* Splitting a section                                                     *)

\* The characters of the first block, 0 if there is none.
First(bs) == IF bs = <<>> THEN 0 ELSE Chars(bs[1].places)

\* Part of section m is split: the lines D are in children, the buffer comes behind them.
Filling(acc, D, m) ==
    /\ acc = [done |-> acc.done, buffer |-> acc.buffer]
    /\ Chunked(acc.done, D, {m})
    /\ InOrder(acc.buffer) /\ Tight(acc.buffer) /\ Ahead(D, AllOf(acc.buffer))
    /\ \A k \in 1..Len(acc.buffer) : acc.buffer[k].kind \notin Atomic
    /\ Follows(acc.done, First(acc.buffer))

\* The lines A of section m are split, and the buffer has room.
Splitting(acc, A, m) ==
    /\ BlocksChars(acc.buffer) < ChildMax
    /\ \E D : Filling(acc, D, m) /\ A = D \cup AllOf(acc.buffer)

LEMMA ChildMaxIs == ChildMax \in Nat /\ ChildMax > 0
<1>1. ChildMax \in Nat \ {0}
  BY TextAssumption
<1>2. QED
  BY <1>1

\* What Head picks.
LEMMA ChildIs ==
    ASSUME NEW bs, InOrder(bs), bs # <<>>, NEW m \in Nat, Tight(bs)
    PROVE  /\ Made(Child(bs, m)) /\ Child(bs, m).parent = m /\ Child(bs, m).blocks = bs
           /\ Child(bs, m).kind = bs[1].kind
<1>1. bs \in Seq(Blocks)
  BY DEF InOrder
<1>2. Len(bs) \in Nat \ {0}
  BY <1>1, EmptySeq
<1>3. bs[1] \in Blocks
  BY <1>1, <1>2, ElementOfSeq
<1>4. Head(bs) = bs[1]
  BY <1>1, <1>2
<1>5. bs[1].kind \in ChildKind
  BY <1>3 DEF Blocks, ChildKind
<1>6. Child(bs, m) = [kind |-> bs[1].kind, blocks |-> bs, parent |-> m]
  BY <1>4 DEF Child
<1>7. PICK c : c = Child(bs, m)
  OBVIOUS
<1>8. c.kind = bs[1].kind /\ c.blocks = bs /\ c.parent = m /\ c \in Children
  BY <1>1, <1>5, <1>6, <1>7 DEF Children
<1>9. Made(c)
  BY <1>8 DEF Made
<1>10. QED
  BY <1>7, <1>8, <1>9

\* Blocks within the budget of which none is atomic make a child.
LEMMA TightSmall ==
    ASSUME NEW bs, bs \in Seq(Blocks), BlocksChars(bs) <= ChildMax,
           \A k \in 1..Len(bs) : bs[k].kind \notin Atomic
    PROVE  Tight(bs)
<1>1. Len(bs) \in Nat
  BY LenProperties
<1>2. ASSUME NEW k \in 1..Len(bs) PROVE bs[1].kind \notin Atomic
  <2>1. 1 \in 1..Len(bs)
    BY <1>1
  <2>2. QED
    BY <2>1
<1>3. QED
  BY <1>2 DEF Tight

LEMMA TightSingle == ASSUME NEW b PROVE Tight(<<b>>)
<1>1. Len(<<b>>) = 1
  OBVIOUS
<1>2. QED
  BY <1>1 DEF Tight

LEMMA TightEmpty == Tight(<<>>)
<1>1. Len(<<>>) = 0
  BY EmptySeq
<1>2. QED
  BY <1>1 DEF Tight

\* Flush hands the buffer over as one child, or drops it if it has no text.
LEMMA FlushHolds ==
    ASSUME NEW acc, NEW D, NEW m \in Nat, Filling(acc, D, m)
    PROVE  /\ Flush(acc, m) = [done |-> Flush(acc, m).done, buffer |-> <<>>]
           /\ Chunked(Flush(acc, m).done, D \cup AllOf(acc.buffer), {m})
           /\ \A x \in Nat :
                 BlocksChars(acc.buffer) >= ChildMax \/ BlocksChars(acc.buffer) + x > ChildMax
                    => Follows(Flush(acc, m).done, x)
<1>1. PICK bs, cs, fs : bs = acc.buffer /\ cs = acc.done /\ fs = Flush(acc, m).done
  OBVIOUS
<1>2. Flush(acc, m) = [done |-> fs, buffer |-> <<>>]
  BY <1>1 DEF Flush
<1>3. fs = IF BlocksChars(bs) = 0 THEN cs ELSE Append(cs, Child(bs, m))
  BY <1>1 DEF Flush
<1>4. /\ Chunked(cs, D, {m}) /\ InOrder(bs) /\ Tight(bs) /\ Ahead(D, AllOf(bs))
      /\ Follows(cs, First(bs))
  BY <1>1 DEF Filling
<1>5. bs \in Seq(Blocks) /\ cs \in Seq(Children)
  BY <1>4 DEF InOrder, Chunked
<1>6. BlocksChars(bs) \in Nat /\ (BlocksChars(bs) = 0 => \A x \in AllOf(bs) : Lines[x] \in Empty)
  BY <1>5, BlocksCharsOf
<1>7. CASE BlocksChars(bs) = 0
  <2>1. fs = cs
    BY <1>3, <1>7
  <2>2. Chunked(cs, D \cup AllOf(bs), {m})
    BY <1>4, <1>6, <1>7, ChunkedDrops
  <2>3. ASSUME NEW x \in Nat, BlocksChars(bs) >= ChildMax \/ BlocksChars(bs) + x > ChildMax
        PROVE  Follows(cs, x)
    <3>1. x > ChildMax
      BY <1>7, <2>3, ChildMaxIs
    <3>2. ASSUME cs # <<>> PROVE BlocksChars(cs[Len(cs)].blocks) + x > ChildMax
      <4>1. Len(cs) \in 1..Len(cs)
        BY <1>5, <3>2, EmptySeq
      <4>2. Made(cs[Len(cs)])
        BY <1>4, <4>1 DEF Chunked
      <4>3. cs[Len(cs)].blocks \in Seq(Blocks)
        BY <4>2 DEF Made, InOrder
      <4>4. BlocksChars(cs[Len(cs)].blocks) \in Nat
        BY <4>3, BlocksCharsOf
      <4>5. QED
        BY <3>1, <4>4, ChildMaxIs
    <3>3. QED
      BY <3>2 DEF Follows
  <2>4. QED
    BY <1>1, <1>2, <2>1, <2>2, <2>3
<1>8. CASE BlocksChars(bs) # 0
  <2>1. bs # <<>>
    BY <1>8, BlocksCharsEmpty
  <2>2. PICK d : d = Child(bs, m)
    OBVIOUS
  <2>3. Made(d) /\ d.parent = m /\ d.blocks = bs /\ d.kind = bs[1].kind
    BY <1>4, <2>1, <2>2, ChildIs
  <2>4. fs = Append(cs, d)
    BY <1>3, <1>8, <2>2
  <2>5. Ahead(D, AllOf(d.blocks)) /\ d.parent \in {m} /\ Follows(cs, Chars(d.blocks[1].places))
    BY <1>4, <2>1, <2>3 DEF First
  <2>6. Chunked(Append(cs, d), D \cup AllOf(d.blocks), {m})
    BY <1>4, <2>3, <2>5, ChunkedAppend
  <2>7. d \in Children
    BY <2>3 DEF Made
  <2>8. fs[Len(fs)] = d
    BY <1>5, <2>4, <2>7, AppendProperties
  <2>9. \A x \in Nat : BlocksChars(bs) >= ChildMax \/ BlocksChars(bs) + x > ChildMax => Follows(fs, x)
    BY <2>3, <2>8 DEF Follows
  <2>10. QED
    BY <1>1, <1>2, <2>3, <2>4, <2>6, <2>9
<1>9. QED
  BY <1>7, <1>8

\* An empty buffer behind children that leave no room.
LEMMA FillingStarts ==
    ASSUME NEW cs, NEW A, NEW m, Chunked(cs, A, {m}), Follows(cs, 0)
    PROVE  Filling([done |-> cs, buffer |-> <<>>], A, m)
<1>1. InOrder(<<>>) /\ AllOf(<<>>) = {} /\ Tight(<<>>) /\ Len(<<>>) = 0
  BY InOrderEmpty, TightEmpty, EmptySeq
<1>2. PICK acc : acc = [done |-> cs, buffer |-> <<>>]
  OBVIOUS
<1>3. acc.done = cs /\ acc.buffer = <<>> /\ acc = [done |-> acc.done, buffer |-> acc.buffer]
  BY <1>2
<1>4. First(<<>>) = 0
  BY DEF First
<1>5. Filling(acc, A, m)
  BY <1>1, <1>3, <1>4 DEF Filling, Ahead
<1>6. QED
  BY <1>2, <1>5

\* An empty buffer is fit for any block if the last child is full.
LEMMA SplittingStarts ==
    ASSUME NEW cs, NEW A, NEW m, Chunked(cs, A, {m}), Follows(cs, 0)
    PROVE  Splitting([done |-> cs, buffer |-> <<>>], A, m)
<1>1. PICK acc : acc = [done |-> cs, buffer |-> <<>>]
  OBVIOUS
<1>2. acc.buffer = <<>>
  BY <1>1
<1>3. Filling(acc, A, m)
  BY <1>1, FillingStarts
<1>4. AllOf(acc.buffer) = {} /\ BlocksChars(acc.buffer) < ChildMax
  BY <1>2, InOrderEmpty, BlocksCharsEmpty, ChildMaxIs
<1>5. A = A \cup AllOf(acc.buffer)
  BY <1>4
<1>6. Splitting(acc, A, m)
  BY <1>3, <1>4, <1>5 DEF Splitting
<1>7. QED
  BY <1>1, <1>6

\* A buffer that was not empty is flushed if the block has no room behind it.
Room(acc, b, m) ==
    IF acc.buffer # <<>> /\ BlocksChars(acc.buffer) + Chars(b.places) > ChildMax
    THEN Flush(acc, m) ELSE acc

\* The block that found room is the last of the buffer.
Filled(room, b) == [done |-> room.done, buffer |-> Append(room.buffer, b)]

LEMMA FlushType ==
    ASSUME NEW acc, acc.done \in Seq(Children), acc.buffer \in Seq(Blocks), NEW m \in Nat
    PROVE  Flush(acc, m).done \in Seq(Children) /\ Flush(acc, m).buffer = <<>>
<1>1. PICK bs, cs, fs : bs = acc.buffer /\ cs = acc.done /\ fs = Flush(acc, m)
  OBVIOUS
<1>2. fs.buffer = <<>> /\ fs.done = IF BlocksChars(bs) = 0 THEN cs ELSE Append(cs, Child(bs, m))
  BY <1>1 DEF Flush
<1>3. CASE BlocksChars(bs) = 0
  BY <1>1, <1>2, <1>3
<1>4. CASE BlocksChars(bs) # 0
  <2>1. bs # <<>>
    BY <1>4, BlocksCharsEmpty
  <2>2. Len(bs) \in Nat \ {0}
    BY <1>1, <2>1, EmptySeq
  <2>3. bs[1] \in Blocks /\ Head(bs) = bs[1]
    BY <1>1, <2>2, ElementOfSeq
  <2>4. bs[1].kind \in ChildKind
    BY <2>3 DEF Blocks, ChildKind
  <2>5. Child(bs, m) \in Children
    BY <1>1, <2>3, <2>4 DEF Child, Children
  <2>6. QED
    BY <1>1, <1>2, <1>4, <2>5, AppendProperties
<1>5. QED
  BY <1>3, <1>4

\* AddBlock in terms of Flush, Room and Filled.
LEMMA AddBlockIs ==
    ASSUME NEW acc, acc = [done |-> acc.done, buffer |-> acc.buffer], NEW b, NEW m,
           Flush(acc, m) = [done |-> Flush(acc, m).done, buffer |-> <<>>]
    PROVE  AddBlock(acc, b, m) =
              IF b.kind \in Atomic
              THEN [done |-> Append(Flush(acc, m).done, Child(<<b>>, m)), buffer |-> <<>>]
              ELSE IF BlocksChars(Filled(Room(acc, b, m), b).buffer) >= ChildMax
                   THEN Flush(Filled(Room(acc, b, m), b), m) ELSE Filled(Room(acc, b, m), b)
<1>1. PICK room : room = Room(acc, b, m)
  OBVIOUS
<1>2. room = [done |-> room.done, buffer |-> room.buffer]
  BY <1>1 DEF Room
<1>3. [room EXCEPT !.buffer = Append(@, b)] = Filled(room, b)
  BY <1>2 DEF Filled
<1>4. QED
  BY <1>1, <1>3 DEF AddBlock, Room

LEMMA AddBlockType ==
    ASSUME NEW acc \in [done : Seq(Children), buffer : Seq(Blocks)], NEW b \in Blocks, NEW m \in Nat
    PROVE  AddBlock(acc, b, m) \in [done : Seq(Children), buffer : Seq(Blocks)]
<1> DEFINE Acc == [done : Seq(Children), buffer : Seq(Blocks)]
<1>1. acc.done \in Seq(Children) /\ acc.buffer \in Seq(Blocks) /\ acc = [done |-> acc.done, buffer |-> acc.buffer]
  OBVIOUS
<1>2. \A cs \in Seq(Children), bs \in Seq(Blocks) : [done |-> cs, buffer |-> bs] \in Acc
  OBVIOUS
<1>3. <<>> \in Seq(Blocks)
  BY EmptySeq
<1>4. \A x : Flush(x, m) = [done |-> Flush(x, m).done, buffer |-> <<>>]
  BY DEF Flush
<1>5. ASSUME NEW x, x.done \in Seq(Children), x.buffer \in Seq(Blocks) PROVE Flush(x, m) \in Acc
  <2>1. Flush(x, m).done \in Seq(Children)
    BY <1>5, FlushType
  <2>2. PICK fs : fs = Flush(x, m).done
    OBVIOUS
  <2>3. Flush(x, m) = [done |-> fs, buffer |-> <<>>]
    BY <1>4, <2>2
  <2>4. QED
    BY <1>2, <1>3, <2>1, <2>2, <2>3
<1> HIDE DEF Acc
<1>6. CASE b.kind \in Atomic
  <2>1. PICK fs : fs = Flush(acc, m).done
    OBVIOUS
  <2>2. fs \in Seq(Children)
    BY <1>1, <2>1, FlushType
  <2>3. Child(<<b>>, m) \in Children
    <3>1. Head(<<b>>) = b /\ <<b>> \in Seq(Blocks) /\ b.kind \in ChildKind
      BY DEF Blocks, ChildKind
    <3>2. QED
      BY <3>1 DEF Child, Children
  <2>4. Append(fs, Child(<<b>>, m)) \in Seq(Children)
    BY <2>2, <2>3, AppendProperties
  <2>5. AddBlock(acc, b, m) = [done |-> Append(fs, Child(<<b>>, m)), buffer |-> <<>>]
    BY <1>6, <2>1 DEF AddBlock
  <2>6. QED
    BY <1>2, <1>3, <2>4, <2>5 DEF Acc
<1>7. CASE b.kind \notin Atomic
  <2>1. PICK room : room = Room(acc, b, m)
    OBVIOUS
  <2>2. room \in Acc
    <3>1. acc \in Acc /\ Flush(acc, m) \in Acc
      BY <1>1, <1>5 DEF Acc
    <3>2. QED
      BY <2>1, <3>1 DEF Room
  <2>3. room.done \in Seq(Children) /\ room.buffer \in Seq(Blocks)
    BY <2>2 DEF Acc
  <2>4. Append(room.buffer, b) \in Seq(Blocks)
    BY <2>3, AppendProperties
  <2>5. PICK full : full = Filled(room, b)
    OBVIOUS
  <2>6. full = [done |-> room.done, buffer |-> Append(room.buffer, b)]
    BY <2>5 DEF Filled
  <2>7. full \in Acc
    BY <1>2, <2>3, <2>4, <2>6
  <2>8. full.done \in Seq(Children) /\ full.buffer \in Seq(Blocks)
    BY <2>3, <2>4, <2>6
  <2>9. Flush(full, m) \in Acc
    BY <1>5, <2>8
  <2>10. AddBlock(acc, b, m) = IF BlocksChars(full.buffer) >= ChildMax THEN Flush(full, m) ELSE full
    BY <1>1, <1>4, <1>7, <2>1, <2>5, AddBlockIs
  <2>11. QED
    BY <2>7, <2>9, <2>10 DEF Acc
<1>8. QED
  BY <1>6, <1>7

\* AddBlock keeps what is split of a section as the chunker must have it.
LEMMA AddBlockSplits ==
    ASSUME NEW acc, NEW A, NEW m \in Nat, Splitting(acc, A, m),
           NEW b, Ordered(b), Ahead(A, PlacesOf(b))
    PROVE  Splitting(AddBlock(acc, b, m), A \cup PlacesOf(b), m)
<1>1. PICK D : Filling(acc, D, m) /\ A = D \cup AllOf(acc.buffer)
  BY DEF Splitting
<1>2. BlocksChars(acc.buffer) < ChildMax
  BY DEF Splitting
<1>3. PICK fs, bs, B, x : fs = Flush(acc, m).done /\ bs = acc.buffer /\ B = PlacesOf(b) /\ x = Chars(b.places)
  OBVIOUS
<1>4. /\ Flush(acc, m) = [done |-> fs, buffer |-> <<>>]
      /\ Chunked(fs, A, {m})
      /\ \A y \in Nat : BlocksChars(bs) >= ChildMax \/ BlocksChars(bs) + y > ChildMax => Follows(fs, y)
  BY <1>1, <1>3, FlushHolds
<1>5. acc = [done |-> acc.done, buffer |-> acc.buffer]
  BY <1>1 DEF Filling
<1>6. /\ Chunked(acc.done, D, {m}) /\ InOrder(bs) /\ Tight(bs) /\ Ahead(D, AllOf(bs))
      /\ \A k \in 1..Len(bs) : bs[k].kind \notin Atomic
      /\ Follows(acc.done, First(bs))
  BY <1>1, <1>3 DEF Filling
<1>7. b \in Blocks /\ x \in Nat /\ bs \in Seq(Blocks) /\ BlocksChars(bs) \in Nat
  BY <1>3, <1>6, BlocksCharsAppend, BlocksCharsOf DEF Ordered, InOrder
<1>8. InOrder(<<b>>) /\ AllOf(<<b>>) = B /\ Tight(<<b>>) /\ <<b>> # <<>>
  BY <1>3, InOrderSingle, TightSingle
<1>9. /\ AddBlock(acc, b, m) =
              IF b.kind \in Atomic
              THEN [done |-> Append(fs, Child(<<b>>, m)), buffer |-> <<>>]
              ELSE IF BlocksChars(Filled(Room(acc, b, m), b).buffer) >= ChildMax
                   THEN Flush(Filled(Room(acc, b, m), b), m) ELSE Filled(Room(acc, b, m), b)
  <2>1. Flush(acc, m) = [done |-> Flush(acc, m).done, buffer |-> <<>>]
    BY <1>3, <1>4
  <2>2. QED
    BY <1>3, <1>5, <2>1, AddBlockIs
<1>10. CASE b.kind \in Atomic
  <2>1. PICK d : d = Child(<<b>>, m)
    OBVIOUS
  <2>2. Made(d) /\ d.parent = m /\ d.blocks = <<b>> /\ d.kind = <<b>>[1].kind
    BY <1>8, <2>1, ChildIs
  <2>3. d.kind \in Atomic /\ AllOf(d.blocks) = B /\ d.parent \in {m} /\ Ahead(A, AllOf(d.blocks))
    BY <1>3, <1>8, <1>10, <2>2
  <2>4. PICK cs : cs = Append(fs, d)
    OBVIOUS
  <2>5. Chunked(cs, A \cup B, {m})
    <3>1. Chunked(Append(fs, d), A \cup AllOf(d.blocks), {m})
      BY <1>4, <2>2, <2>3, ChunkedAppend
    <3>2. QED
      BY <2>3, <2>4, <3>1
  <2>6. Follows(cs, 0)
    <3>1. fs \in Seq(Children) /\ d \in Children
      BY <1>4, <2>2 DEF Chunked, Made
    <3>2. cs[Len(cs)] = d
      BY <2>4, <3>1, AppendProperties
    <3>3. QED
      BY <2>3, <3>2 DEF Follows
  <2>7. Splitting([done |-> cs, buffer |-> <<>>], A \cup B, m)
    BY <2>5, <2>6, SplittingStarts
  <2>8. QED
    BY <1>3, <1>9, <1>10, <2>1, <2>4, <2>7
<1>11. CASE b.kind \notin Atomic
  <2>1. PICK room : room = Room(acc, b, m)
    OBVIOUS
  <2>2. PICK ds, rs : ds = room.done /\ rs = room.buffer
    OBVIOUS
  \* Whether the buffer was flushed or not.
  <2>3. \E E : /\ Chunked(ds, E, {m}) /\ InOrder(rs) /\ Ahead(E, AllOf(rs)) /\ A = E \cup AllOf(rs)
               /\ \A k \in 1..Len(rs) : rs[k].kind \notin Atomic
               /\ Follows(ds, IF rs = <<>> THEN x ELSE First(rs))
               /\ rs = <<>> \/ BlocksChars(rs) + x <= ChildMax
    <3>1. CASE bs # <<>> /\ BlocksChars(bs) + x > ChildMax
      <4>1. room = [done |-> fs, buffer |-> <<>>]
        BY <1>3, <1>4, <2>1, <3>1 DEF Room
      <4>2. ds = fs /\ rs = <<>>
        BY <2>2, <4>1
      <4>3. AllOf(<<>>) = {} /\ InOrder(<<>>) /\ Len(<<>>) = 0
        BY InOrderEmpty, EmptySeq
      <4>4. Follows(fs, x)
        BY <1>4, <1>7, <3>1
      <4>5. Ahead(A, {}) /\ A = A \cup {}
        BY DEF Ahead
      <4>6. Chunked(ds, A, {m}) /\ InOrder(rs) /\ Ahead(A, AllOf(rs)) /\ A = A \cup AllOf(rs)
        BY <1>4, <4>2, <4>3, <4>5
      <4>7. \A k \in 1..Len(rs) : rs[k].kind \notin Atomic
        BY <4>2, <4>3
      <4>8. Follows(ds, IF rs = <<>> THEN x ELSE First(rs))
        BY <4>2, <4>4
      <4>9. QED
        BY <4>2, <4>6, <4>7, <4>8
    <3>2. CASE ~(bs # <<>> /\ BlocksChars(bs) + x > ChildMax)
      <4>1. ds = acc.done /\ rs = bs
        BY <1>3, <2>1, <2>2, <3>2 DEF Room
      <4>2. rs = <<>> \/ BlocksChars(rs) + x <= ChildMax
        BY <1>7, <3>2, <4>1, ChildMaxIs
      <4>3. Follows(ds, IF rs = <<>> THEN x ELSE First(rs))
        <5>1. CASE rs # <<>>
          BY <1>6, <4>1, <5>1
        <5>2. CASE rs = <<>>
          <6>1. Follows(ds, 0)
            BY <1>6, <4>1, <5>2 DEF First
          <6>2. ASSUME ds # <<>> PROVE BlocksChars(ds[Len(ds)].blocks) \in Nat
            <7>1. ds \in Seq(Children)
              BY <1>6, <4>1 DEF Chunked
            <7>2. Len(ds) \in 1..Len(ds)
              BY <6>2, <7>1, EmptySeq
            <7>3. Made(ds[Len(ds)])
              BY <1>6, <4>1, <7>2 DEF Chunked
            <7>4. ds[Len(ds)].blocks \in Seq(Blocks)
              BY <7>3 DEF Made, InOrder
            <7>5. QED
              BY <7>4, BlocksCharsOf
          <6>3. Follows(ds, x)
            BY <1>7, <6>1, <6>2, ChildMaxIs DEF Follows
          <6>4. QED
            BY <5>2, <6>3
        <5>3. QED
          BY <5>1, <5>2
      <4>4. A = D \cup AllOf(rs)
        BY <1>1, <1>3, <4>1
      <4>5. QED
        BY <1>6, <4>1, <4>2, <4>3, <4>4
    <3>3. QED
      BY <3>1, <3>2
  <2>4. PICK E : /\ Chunked(ds, E, {m}) /\ InOrder(rs) /\ Ahead(E, AllOf(rs)) /\ A = E \cup AllOf(rs)
                 /\ \A k \in 1..Len(rs) : rs[k].kind \notin Atomic
                 /\ Follows(ds, IF rs = <<>> THEN x ELSE First(rs))
                 /\ rs = <<>> \/ BlocksChars(rs) + x <= ChildMax
    BY <2>3
  <2>5. PICK full, gs : full = Filled(room, b) /\ gs = Append(rs, b)
    OBVIOUS
  <2>6. full = [done |-> ds, buffer |-> gs]
    BY <2>2, <2>5 DEF Filled
  <2>7. full.done = ds /\ full.buffer = gs
    BY <2>6
  <2>8. rs \in Seq(Blocks)
    BY <2>4 DEF InOrder
  <2>9. Ahead(AllOf(rs), B) /\ Ahead(E, B)
    BY <1>3, <2>4 DEF Ahead
  <2>10. InOrder(gs) /\ AllOf(gs) = AllOf(rs) \cup B
    BY <1>3, <2>4, <2>5, <2>9, InOrderAppend
  <2>11. Ahead(E, AllOf(gs)) /\ A \cup B = E \cup AllOf(gs)
    BY <2>4, <2>9, <2>10 DEF Ahead
  <2>12. /\ gs \in Seq(Blocks) /\ Len(gs) = Len(rs) + 1 /\ gs[Len(rs) + 1] = b /\ Len(rs) \in Nat
         /\ \A k \in 1..Len(rs) : gs[k] = rs[k]
    BY <1>7, <2>5, <2>8, AppendProperties, LenProperties
  <2>13. BlocksChars(rs) \in Nat /\ BlocksChars(gs) = BlocksChars(rs) + x
    BY <1>3, <1>7, <2>5, <2>8, BlocksCharsAppend
  <2>14. \A k \in 1..Len(gs) : gs[k].kind \notin Atomic
    <3>1. TAKE k \in 1..Len(gs)
    <3>2. k = Len(rs) + 1 \/ k \in 1..Len(rs)
      BY <2>12
    <3>3. QED
      BY <1>11, <2>4, <2>12, <3>2
  <2>15. First(gs) = IF rs = <<>> THEN x ELSE First(rs)
    <3>1. gs # <<>>
      BY <2>12, EmptySeq
    <3>2. CASE rs = <<>>
      <4>1. Len(rs) = 0
        BY <3>2, EmptySeq
      <4>2. QED
        BY <1>3, <2>12, <3>1, <3>2, <4>1 DEF First
    <3>3. CASE rs # <<>>
      <4>1. Len(rs) \in Nat \ {0}
        BY <2>8, <3>3, EmptySeq
      <4>2. gs[1] = rs[1]
        BY <2>12, <4>1
      <4>3. QED
        BY <3>1, <3>3, <4>2 DEF First
    <3>4. QED
      BY <3>2, <3>3
  <2>16. Tight(gs)
    <3>1. CASE rs = <<>>
      <4>1. Len(gs) = 1
        BY <2>12, <3>1, EmptySeq
      <4>2. QED
        BY <4>1 DEF Tight
    <3>2. CASE BlocksChars(rs) + x <= ChildMax
      <4>1. BlocksChars(gs) <= ChildMax
        BY <2>13, <3>2
      <4>2. QED
        BY <2>12, <2>14, <4>1, TightSmall
    <3>3. QED
      BY <2>4, <3>1, <3>2
  <2>17. Follows(ds, First(gs))
    BY <2>4, <2>15
  <2>18. Filling(full, E, m)
    BY <2>4, <2>6, <2>7, <2>10, <2>11, <2>14, <2>16, <2>17 DEF Filling
  <2>19. AddBlock(acc, b, m) = IF BlocksChars(gs) >= ChildMax THEN Flush(full, m) ELSE full
    BY <1>9, <1>11, <2>1, <2>5, <2>7
  <2>20. CASE BlocksChars(gs) >= ChildMax
    <3>1. PICK hs : hs = Flush(full, m).done
      OBVIOUS
    <3>2. /\ Flush(full, m) = [done |-> hs, buffer |-> <<>>]
          /\ Chunked(hs, E \cup AllOf(full.buffer), {m})
          /\ \A y \in Nat : BlocksChars(full.buffer) >= ChildMax \/ BlocksChars(full.buffer) + y > ChildMax
                => Follows(hs, y)
      BY <2>18, <3>1, FlushHolds
    <3>3. Chunked(hs, A \cup B, {m}) /\ Follows(hs, 0)
      BY <2>7, <2>11, <2>20, <3>2
    <3>4. Splitting([done |-> hs, buffer |-> <<>>], A \cup B, m)
      BY <3>3, SplittingStarts
    <3>5. QED
      BY <1>3, <2>19, <2>20, <3>2, <3>4
  <2>21. CASE ~(BlocksChars(gs) >= ChildMax)
    <3>1. BlocksChars(gs) < ChildMax
      BY <1>7, <2>13, <2>21, ChildMaxIs
    <3>2. Splitting(full, A \cup B, m)
      BY <2>7, <2>11, <2>18, <3>1 DEF Splitting
    <3>3. QED
      BY <1>3, <2>19, <2>21, <3>2
  <2>22. QED
    BY <2>20, <2>21
<1>12. QED
  BY <1>10, <1>11

\* The accumulator after each block of the section bs.
Splits(f, bs, m) ==
    /\ f \in [0..Len(bs) -> [done : Seq(Children), buffer : Seq(Blocks)]]
    /\ f[0] = [done |-> <<>>, buffer |-> <<>>]
    /\ \A k \in 1..Len(bs) : f[k] = AddBlock(f[k - 1], bs[k], m)

\* SplitSection ends with the last accumulator, flushed.
LEMMA SplitSteps ==
    ASSUME NEW m \in DOMAIN sections, m \in Nat, sections[m] \in Seq(Blocks)
    PROVE  \E f : Splits(f, sections[m], m) /\ SplitSection(m) = Flush(f[Len(sections[m])], m).done
<1> DEFINE bs == sections[m]
           N == Len(bs)
           Acc == [done : Seq(Children), buffer : Seq(Blocks)]
           base == [done |-> <<>>, buffer |-> <<>>]
           Next1(k, v) == AddBlock(v, bs[k], m)
           step == [k \in 1..N |-> [v \in Acc |-> Next1(k, v)]]
           Solves(f) == f = [k \in 0..N |-> IF k = 0 THEN base ELSE AddBlock(f[k - 1], bs[k], m)]
           c == CHOOSE f : Solves(f)
<1>1. N \in Nat /\ \A k \in 1..N : bs[k] \in Blocks
  BY LenProperties, ElementOfSeq
<1>2. SplitSection(m) = Flush(c[N], m).done
  BY DEF SplitSection
<1>3. \A k \in 1..N : \A v \in Acc : Next1(k, v) \in Acc
  BY <1>1, AddBlockType
<1>4. base \in Acc
  <2>1. <<>> \in Seq(Children) /\ <<>> \in Seq(Blocks)
    BY EmptySeq
  <2>2. QED
    BY <2>1
<1> HIDE DEF Acc, base, N, bs, Next1
<1>5. step \in [1..N -> [Acc -> Acc]]
  BY <1>3
<1>6. \A k \in 1..N : \A v \in Acc : step[k][v] = Next1(k, v)
  OBVIOUS
<1> HIDE DEF step
<1>7. PICK f : Iterates(f, Acc, base, N, step)
  BY <1>1, <1>4, <1>5, IterationExists
<1>8. /\ f \in [0..N -> Acc] /\ f[0] = base
      /\ \A k \in 1..N : f[k] = step[k][f[k - 1]]
  BY <1>7 DEF Iterates
<1>9. ASSUME NEW k \in 1..N PROVE f[k] = Next1(k, f[k - 1])
  <2>1. k - 1 \in 0..N
    BY <1>1
  <2>2. f[k - 1] \in Acc
    BY <1>8, <2>1
  <2>3. QED
    BY <1>6, <1>8, <2>2
<1>10. ASSUME NEW k \in 0..N PROVE f[k] = IF k = 0 THEN base ELSE AddBlock(f[k - 1], bs[k], m)
  <2>1. CASE k = 0
    BY <1>8, <2>1
  <2>2. CASE k # 0
    <3>1. k \in 1..N
      BY <1>1, <2>2
    <3>2. QED
      BY <1>9, <2>2, <3>1 DEF Next1
  <2>3. QED
    BY <2>1, <2>2
<1>11. Solves(f)
  BY <1>8, <1>10
<1> HIDE DEF Solves
<1>12. Solves(c)
  BY <1>11
<1> HIDE DEF c
<1>13. c = [k \in 0..N |-> IF k = 0 THEN base ELSE AddBlock(c[k - 1], bs[k], m)]
  BY <1>12 DEF Solves
<1>14. c[0] = base
  BY <1>1, <1>13
<1>15. ASSUME NEW k \in 1..N PROVE c[k] = Next1(k, c[k - 1])
  <2>1. k \in 0..N /\ k # 0
    BY <1>1
  <2>2. QED
    BY <1>13, <2>1 DEF Next1
<1>16. \A k \in 0..N : c[k] \in Acc
  <2>1. \A k \in 1..N : c[k - 1] \in Acc => c[k] \in Acc
    BY <1>3, <1>15
  <2>2. c[0] \in Acc
    BY <1>4, <1>14
  <2>3. QED
    BY <1>1, <2>1, <2>2, IterationType
<1>17. c \in [0..N -> Acc]
  BY <1>13, <1>16
<1>18. Splits(c, bs, m)
  BY <1>14, <1>15, <1>17 DEF Splits, N, Acc, base, Next1
<1>19. QED
  BY <1>2, <1>18 DEF bs, N

\* A section in order gives children in order.
LEMMA SectionSplits ==
    ASSUME NEW m \in DOMAIN sections, m \in Nat, InOrder(sections[m])
    PROVE  Chunked(SplitSection(m), AllOf(sections[m]), {m})
<1>1. PICK bs, N : bs = sections[m] /\ N = Len(bs)
  OBVIOUS
<1>2. bs \in Seq(Blocks) /\ N \in Nat
  BY <1>1, LenProperties DEF InOrder
<1>3. PICK f : Splits(f, bs, m) /\ SplitSection(m) = Flush(f[N], m).done
  BY <1>1, <1>2, SplitSteps
<1>4. f[0] = [done |-> <<>>, buffer |-> <<>>] /\ \A k \in 1..N : f[k] = AddBlock(f[k - 1], bs[k], m)
  BY <1>1, <1>3 DEF Splits
<1> DEFINE U(n) == UNION {PlacesOf(bs[j]) : j \in 1..n}
           P(n) == Splitting(f[n], U(n), m)
           T == {n \in 0..N : P(n)}
<1>5. U(0) = {} /\ \A n \in 1..N : U(n) = U(n - 1) \cup PlacesOf(bs[n])
  <2>1. U(0) = {}
    OBVIOUS
  <2>2. ASSUME NEW n \in 1..N PROVE U(n) = U(n - 1) \cup PlacesOf(bs[n])
    <3>1. 1..n = (1..n - 1) \cup {n}
      BY <1>2
    <3>2. QED
      BY <3>1
  <2>3. QED
    BY <2>1, <2>2
<1>6. \A n \in 1..N : Ahead(U(n - 1), PlacesOf(bs[n])) /\ Ordered(bs[n])
  <2>1. TAKE n \in 1..N
  <2>2. \A j \in 1..n - 1 : j \in 1..N /\ j < n
    BY <1>2
  <2>3. \A j \in 1..n - 1 : Ahead(PlacesOf(bs[j]), PlacesOf(bs[n]))
    BY <1>1, <2>2 DEF InOrder
  <2>4. Ordered(bs[n])
    BY <1>1 DEF InOrder
  <2>5. QED
    BY <2>3, <2>4 DEF Ahead
<1>7. U(N) = AllOf(bs)
  BY <1>1 DEF AllOf
<1> HIDE DEF U, P
<1>8. 0 \in T
  <2>1. Chunked(<<>>, {}, {m}) /\ Follows(<<>>, 0)
    BY ChunkedEmpty DEF Follows
  <2>2. Splitting([done |-> <<>>, buffer |-> <<>>], {}, m)
    BY <2>1, SplittingStarts
  <2>3. f[0] = [done |-> <<>>, buffer |-> <<>>] /\ U(0) = {}
    BY <1>4, <1>5
  <2>4. P(0)
    BY <2>2, <2>3 DEF P
  <2>5. 0 \in 0..N
    BY <1>2
  <2>6. QED
    BY <2>4, <2>5
<1>9. ASSUME NEW n \in 1..N, n - 1 \in T PROVE n \in T
  <2>1. PICK acc, A, b : acc = f[n - 1] /\ A = U(n - 1) /\ b = bs[n]
    OBVIOUS
  <2>2. Splitting(acc, A, m) /\ Ordered(b) /\ Ahead(A, PlacesOf(b))
    BY <1>6, <1>9, <2>1 DEF P
  <2>3. Splitting(AddBlock(acc, b, m), A \cup PlacesOf(b), m)
    BY <2>2, AddBlockSplits
  <2>4. f[n] = AddBlock(acc, b, m) /\ U(n) = A \cup PlacesOf(b)
    BY <1>4, <1>5, <2>1
  <2>5. P(n)
    BY <2>3, <2>4 DEF P
  <2>6. n \in 0..N
    BY <1>2
  <2>7. QED
    BY <2>5, <2>6
<1> HIDE DEF T
<1>10. 0..N \subseteq T
  BY <1>2, <1>8, <1>9, UpToInduction
<1>11. N \in T
  BY <1>2, <1>10
<1>12. PICK acc : acc = f[N]
  OBVIOUS
<1>13. Splitting(acc, AllOf(bs), m)
  BY <1>7, <1>11, <1>12 DEF T, P
<1>14. PICK D : Filling(acc, D, m) /\ AllOf(bs) = D \cup AllOf(acc.buffer)
  BY <1>13 DEF Splitting
<1>15. Chunked(Flush(acc, m).done, D \cup AllOf(acc.buffer), {m})
  BY <1>14, FlushHolds
<1>16. QED
  BY <1>1, <1>3, <1>12, <1>14, <1>15

-----------------------------------------------------------------------------
(* All sections                                                            *)

\* Sections of blocks, all in order.
InSections(secs) ==
    /\ secs \in Seq(Seq(Blocks))
    /\ \A n \in 1..Len(secs) : InOrder(secs[n])
    /\ \A n \in 1..Len(secs) : \A j \in 1..Len(secs) : j < n => Ahead(AllOf(secs[j]), AllOf(secs[n]))

\* The lines of all sections.
Throughout(secs) == UNION {AllOf(secs[n]) : n \in 1..Len(secs)}

\* secs is split section by section.
Split(seqs, secs) == seqs = [n \in DOMAIN secs |-> SplitSection(n)]

\* Sections in order give the children of all of them.
LEMMA SectionsSplit ==
    ASSUME InSections(sections), NEW seqs, Split(seqs, sections)
    PROVE  Chunked(FlattenSeq(seqs), Throughout(sections), DOMAIN sections)
<1>1. PICK N : N = Len(sections)
  OBVIOUS
<1>2. N \in Nat /\ DOMAIN sections = 1..N
  BY <1>1, LenProperties DEF InSections
<1>3. /\ \A n \in 1..N : InOrder(sections[n])
      /\ \A n \in 1..N : \A j \in 1..N : j < n => Ahead(AllOf(sections[j]), AllOf(sections[n]))
  BY <1>1 DEF InSections
<1>4. \A n \in 1..N : seqs[n] = SplitSection(n)
  BY <1>2 DEF Split
<1>5. seqs = [n \in 1..N |-> seqs[n]]
  BY <1>2 DEF Split
<1>6. ASSUME NEW n \in 1..N PROVE Chunked(seqs[n], AllOf(sections[n]), {n})
  <2>1. n \in Nat /\ n \in DOMAIN sections /\ InOrder(sections[n])
    BY <1>2, <1>3
  <2>2. QED
    BY <1>4, <2>1, SectionSplits
<1>7. \A n \in 1..N : seqs[n] \in Seq(Children)
  BY <1>6 DEF Chunked
<1>8. seqs \in Seq(Seq(Children)) /\ Len(seqs) = N
  BY <1>2, <1>5, <1>7, MadeSequence
<1>9. PICK f : Joins(f, seqs, Children) /\ FlattenSeq(seqs) = f[N]
  BY <1>8, FlattenSteps
<1>10. f[0] = <<>> /\ \A n \in 1..N : f[n] = f[n - 1] \o seqs[n]
  BY <1>8, <1>9 DEF Joins
<1> DEFINE U(n) == UNION {AllOf(sections[j]) : j \in 1..n}
           P(n) == Chunked(f[n], U(n), 1..n)
           T == {n \in 0..N : P(n)}
<1>11. U(0) = {} /\ \A n \in 1..N : U(n) = U(n - 1) \cup AllOf(sections[n])
  <2>1. U(0) = {}
    OBVIOUS
  <2>2. ASSUME NEW n \in 1..N PROVE U(n) = U(n - 1) \cup AllOf(sections[n])
    <3>1. 1..n = (1..n - 1) \cup {n}
      BY <1>2
    <3>2. QED
      BY <3>1
  <2>3. QED
    BY <2>1, <2>2
<1>12. \A n \in 1..N : Ahead(U(n - 1), AllOf(sections[n]))
  <2>1. TAKE n \in 1..N
  <2>2. \A j \in 1..n - 1 : j \in 1..N /\ j < n
    BY <1>2
  <2>3. \A j \in 1..n - 1 : Ahead(AllOf(sections[j]), AllOf(sections[n]))
    BY <1>3, <2>2
  <2>4. QED
    BY <2>3 DEF Ahead
<1>13. U(N) = Throughout(sections)
  BY <1>1 DEF Throughout
<1> HIDE DEF U, P
<1>14. 0 \in T
  <2>1. Chunked(<<>>, {}, 1..0)
    BY ChunkedEmpty
  <2>2. f[0] = <<>> /\ U(0) = {}
    BY <1>10, <1>11
  <2>3. P(0)
    BY <2>1, <2>2 DEF P
  <2>4. 0 \in 0..N
    BY <1>2
  <2>5. QED
    BY <2>3, <2>4
<1>15. ASSUME NEW n \in 1..N, n - 1 \in T PROVE n \in T
  <2>1. PICK cs, ds, A, B, M, K :
          cs = f[n - 1] /\ ds = seqs[n] /\ A = U(n - 1) /\ B = AllOf(sections[n]) /\ M = 1..n - 1 /\ K = {n}
    OBVIOUS
  <2>2. Chunked(cs, A, M) /\ Chunked(ds, B, K) /\ Ahead(A, B)
    BY <1>6, <1>12, <1>15, <2>1 DEF P
  <2>3. M \cap K = {} /\ M \cup K = 1..n /\ n \in 0..N
    BY <1>2, <2>1
  <2>4. Chunked(cs \o ds, A \cup B, M \cup K)
    BY <2>2, <2>3, ChunkedConcat
  <2>5. f[n] = cs \o ds /\ U(n) = A \cup B
    BY <1>10, <1>11, <2>1
  <2>6. P(n)
    BY <2>3, <2>4, <2>5 DEF P
  <2>7. QED
    BY <2>3, <2>6
<1> HIDE DEF T
<1>16. 0..N \subseteq T
  BY <1>2, <1>14, <1>15, UpToInduction
<1>17. N \in T
  BY <1>2, <1>16
<1>18. QED
  BY <1>2, <1>9, <1>13, <1>17 DEF T, P

-----------------------------------------------------------------------------
(* What the children are made of                                           *)

\* What the chunker makes fills the budget.
LEMMA ChildrenFill ==
    ASSUME NEW A, NEW M, Chunked(children, A, M)
    PROVE  ChildrenFillBudget
<1>1. /\ children \in Seq(Children)
      /\ \A c \in 1..Len(children) : Made(children[c])
      /\ \A c \in 1..Len(children) : c > 1 => Neighbours(children[c - 1], children[c])
  BY DEF Chunked
<1>2. DOMAIN children = 1..Len(children) /\ Len(children) \in Nat
  BY <1>1, LenProperties
<1> SUFFICES ASSUME NEW c \in DOMAIN children
             PROVE  LET size(k) == BlocksChars(children[k].blocks)
                        prose(k) == children[k].kind \notin Atomic
                        full(k) == Chars(children[c].blocks[k].places) > 0
                    IN  /\ (\E j, k \in DOMAIN children[c].blocks : j < k /\ full(j) /\ full(k)) =>
                              size(c) <= ChildMax /\ prose(c)
                        /\ c > 1 /\ children[c].parent = children[c - 1].parent /\ prose(c) /\ prose(c - 1) =>
                              size(c - 1) >= ChildMax \/ size(c - 1) + Chars(Head(children[c].blocks).places) > ChildMax
  BY DEF ChildrenFillBudget
<1>3. PICK bs : bs = children[c].blocks
  OBVIOUS
<1>4. c \in 1..Len(children) /\ Made(children[c])
  BY <1>1, <1>2
<1>5. bs \in Seq(Blocks) /\ bs # <<>> /\ Tight(bs) /\ children[c].kind = bs[1].kind
  BY <1>3, <1>4 DEF Made, InOrder
<1>6. DOMAIN bs = 1..Len(bs) /\ Len(bs) \in Nat \ {0}
  BY <1>5, LenProperties, EmptySeq
<1>7. Head(bs) = bs[1]
  BY <1>5, <1>6
<1>8. ASSUME NEW j \in DOMAIN bs, NEW k \in DOMAIN bs, j < k, Chars(bs[j].places) > 0, Chars(bs[k].places) > 0
      PROVE  BlocksChars(bs) <= ChildMax /\ children[c].kind \notin Atomic
  BY <1>5, <1>6, <1>8 DEF Tight
<1>9. c > 1 => Neighbours(children[c - 1], children[c])
  BY <1>1, <1>4
<1>10. QED
  BY <1>3, <1>7, <1>8, <1>9 DEF Neighbours

LEMMA ChildPlacesAre ==
    ASSUME NEW c, InOrder(c.blocks)
    PROVE  Lists(ChildPlaces(c), AllOf(c.blocks) \cap But(Empty))
<1>1. PICK s, A : s = FlattenSeq([k \in DOMAIN c.blocks |-> c.blocks[k].places]) /\ A = AllOf(c.blocks)
  OBVIOUS
<1>2. Lists(s, A)
  BY <1>1, InOrderLists
<1>3. Lists(Only(s, But(Empty)), A \cap But(Empty))
  BY <1>2, OnlyLists
<1>4. QED
  BY <1>1, <1>3 DEF ChildPlaces, Written

\* The lines the children hold, listed in order.
LEMMA AllPlacesAre ==
    ASSUME NEW A, NEW M, Chunked(children, A, M)
    PROVE  Lists(AllPlaces, A \cap But(Empty))
<1> DEFINE seqs == [c \in DOMAIN children |-> ChildPlaces(children[c])]
           D == [c \in DOMAIN children |-> AllOf(children[c].blocks) \cap But(Empty)]
<1>1. PICK n : n = Len(children)
  OBVIOUS
<1>2. /\ children \in Seq(Children)
      /\ \A c \in 1..n : Made(children[c]) /\ AllOf(children[c].blocks) \subseteq A
      /\ \A c \in 1..n : \A b \in 1..n : b < c =>
            Ahead(AllOf(children[b].blocks), AllOf(children[c].blocks))
      /\ \A x \in A : Lines[x] \notin Empty => \E c \in 1..n : x \in AllOf(children[c].blocks)
  BY <1>1 DEF Chunked
<1>3. DOMAIN children = 1..n /\ n \in Nat
  BY <1>1, <1>2, LenProperties
<1>4. \A c \in 1..n : seqs[c] = ChildPlaces(children[c]) /\ D[c] = AllOf(children[c].blocks) \cap But(Empty)
  BY <1>3
<1>5. seqs = [c \in 1..n |-> seqs[c]]
  BY <1>3
<1> HIDE DEF seqs, D
<1>6. ASSUME NEW c \in 1..n PROVE Lists(seqs[c], D[c])
  <2>1. InOrder(children[c].blocks)
    BY <1>2 DEF Made
  <2>2. QED
    BY <1>4, <2>1, ChildPlacesAre
<1>7. \A c \in 1..n : seqs[c] \in Seq(Nat)
  BY <1>6 DEF Lists
<1>8. seqs \in Seq(Seq(Nat)) /\ Len(seqs) = n
  BY <1>3, <1>5, <1>7, MadeSequence
<1>9. \A c \in 1..n : \A b \in 1..n : b < c => Ahead(D[b], D[c])
  BY <1>2, <1>4 DEF Ahead
<1>10. Lists(FlattenSeq(seqs), UNION {D[c] : c \in 1..n})
  BY <1>6, <1>8, <1>9, FlattenLists
<1>11. UNION {D[c] : c \in 1..n} = A \cap But(Empty)
  <2>1. \A x : (\E c \in 1..n : x \in D[c]) <=> x \in A \cap But(Empty)
    BY <1>2, <1>4 DEF But
  <2>2. QED
    BY <2>1
<1>12. QED
  BY <1>10, <1>11 DEF AllPlaces, seqs

-----------------------------------------------------------------------------
(* Sections made by the extractors                                         *)

\* Of the lines R, the blocks bs have those in S, and no other with a text.
Part(bs, R, S) ==
    /\ InOrder(bs)
    /\ \A x \in AllOf(bs) : x \in R /\ (Lines[x] \notin Empty => x \in S)
    /\ \A x \in R : x \in S => x \in AllOf(bs)

\* The same of all sections together.
Outlined(secs, R, S) ==
    /\ InSections(secs)
    /\ \A n \in 1..Len(secs) : \A x \in AllOf(secs[n]) : x \in R /\ (Lines[x] \notin Empty => x \in S)
    /\ \A x \in R : x \in S => \E n \in 1..Len(secs) : x \in AllOf(secs[n])

\* secs has N elements.
Indexed(secs, N) == secs = [n \in 1..N |-> secs[n]]

\* Sections made of regions, each ahead of the next, outline all of them.
LEMMA OutlinedMade ==
    ASSUME NEW N \in Nat, NEW secs, Indexed(secs, N), NEW D, NEW S,
           \A n \in 1..N : Part(secs[n], D[n], S),
           \A n \in 1..N : \A j \in 1..N : j < n => Ahead(D[j], D[n])
    PROVE  Outlined(secs, UNION {D[n] : n \in 1..N}, S)
<1>1. \A n \in 1..N : InOrder(secs[n]) /\ AllOf(secs[n]) \subseteq D[n]
  BY DEF Part
<1>2. \A n \in 1..N : secs[n] \in Seq(Blocks)
  BY <1>1 DEF InOrder
<1>3. secs \in Seq(Seq(Blocks)) /\ Len(secs) = N
  BY <1>2, MadeSequence DEF Indexed
<1>4. \A n \in 1..N : \A j \in 1..N : j < n => Ahead(AllOf(secs[j]), AllOf(secs[n]))
  BY <1>1 DEF Ahead
<1>5. InSections(secs)
  BY <1>1, <1>3, <1>4 DEF InSections
<1>6. PICK R : R = UNION {D[n] : n \in 1..N}
  OBVIOUS
<1>7. \A n \in 1..N : \A x \in AllOf(secs[n]) : x \in R /\ (Lines[x] \notin Empty => x \in S)
  BY <1>6 DEF Part
<1>8. \A x \in R : x \in S => \E n \in 1..N : x \in AllOf(secs[n])
  BY <1>6 DEF Part
<1>9. Outlined(secs, R, S)
  BY <1>3, <1>5, <1>7, <1>8 DEF Outlined
<1>10. QED
  BY <1>6, <1>9

LEMMA OutlinedEmpty == ASSUME NEW S PROVE Outlined(<<>>, {}, S)
<1>1. <<>> \in Seq(Seq(Blocks)) /\ Len(<<>>) = 0
  BY EmptySeq
<1>2. QED
  BY <1>1 DEF Outlined, InSections

LEMMA OutlinedSingle ==
    ASSUME NEW bs, NEW R, NEW S, Part(bs, R, S)
    PROVE  Outlined(<<bs>>, R, S)
<1>1. bs \in Seq(Blocks)
  BY DEF Part, InOrder
<1>2. <<bs>> \in Seq(Seq(Blocks)) /\ Len(<<bs>>) = 1 /\ <<bs>>[1] = bs
  BY <1>1
<1>3. PICK secs : secs = <<bs>>
  OBVIOUS
<1>4. \A n \in 1..1 : n = 1
  OBVIOUS
<1>5. InSections(secs)
  BY <1>2, <1>3, <1>4 DEF Part, InSections
<1>6. Outlined(secs, R, S)
  BY <1>2, <1>3, <1>4, <1>5 DEF Part, Outlined
<1>7. QED
  BY <1>3, <1>6

\* Lines that are not wanted can be left out.
LEMMA OutlinedWider ==
    ASSUME NEW secs, NEW R, NEW S, Outlined(secs, R, S), NEW Q, R \subseteq Q,
           \A x \in Q : x \in S => x \in R
    PROVE  Outlined(secs, Q, S)
  BY DEF Outlined

\* Sections of lines behind those of others.
LEMMA OutlinedConcat ==
    ASSUME NEW s, NEW R, NEW S, Outlined(s, R, S), NEW t, NEW Q, Outlined(t, Q, S), Ahead(R, Q)
    PROVE  Outlined(s \o t, R \cup Q, S)
<1>1. PICK u, m, n : u = s \o t /\ m = Len(s) /\ n = Len(t)
  OBVIOUS
<1>2. s \in Seq(Seq(Blocks)) /\ t \in Seq(Seq(Blocks)) /\ m \in Nat /\ n \in Nat
  BY <1>1, LenProperties DEF Outlined, InSections
<1>3. /\ u \in Seq(Seq(Blocks)) /\ Len(u) = m + n
      /\ \A i \in 1..m + n : u[i] = IF i <= m THEN s[i] ELSE t[i - m]
  BY <1>1, <1>2, ConcatProperties
<1>4. \A i \in 1..m : i \in 1..m + n /\ u[i] = s[i]
  BY <1>2, <1>3
<1>5. \A i \in 1..n : m + i \in 1..m + n /\ u[m + i] = t[i]
  <2>1. TAKE i \in 1..n
  <2>2. m + i \in 1..m + n /\ ~(m + i <= m) /\ (m + i) - m = i
    BY <1>2
  <2>3. QED
    BY <1>3, <2>2
<1>6. \A i \in 1..m + n : i \in 1..m \/ (i \notin 1..m /\ i - m \in 1..n /\ u[i] = t[i - m])
  BY <1>2, <1>3
<1>7. /\ \A i \in 1..m : InOrder(s[i])
      /\ \A i \in 1..m : \A j \in 1..m : j < i => Ahead(AllOf(s[j]), AllOf(s[i]))
      /\ \A i \in 1..m : \A x \in AllOf(s[i]) : x \in R /\ (Lines[x] \notin Empty => x \in S)
      /\ \A x \in R : x \in S => \E i \in 1..m : x \in AllOf(s[i])
  BY <1>1 DEF Outlined, InSections
<1>8. /\ \A i \in 1..n : InOrder(t[i])
      /\ \A i \in 1..n : \A j \in 1..n : j < i => Ahead(AllOf(t[j]), AllOf(t[i]))
      /\ \A i \in 1..n : \A x \in AllOf(t[i]) : x \in Q /\ (Lines[x] \notin Empty => x \in S)
      /\ \A x \in Q : x \in S => \E i \in 1..n : x \in AllOf(t[i])
  BY <1>1 DEF Outlined, InSections
<1>9. ASSUME NEW i \in 1..m + n
      PROVE  /\ InOrder(u[i])
             /\ \A x \in AllOf(u[i]) : x \in R \cup Q /\ (Lines[x] \notin Empty => x \in S)
  <2>1. CASE i \in 1..m
    BY <1>4, <1>7, <2>1
  <2>2. CASE i \notin 1..m
    BY <1>6, <1>8, <2>2
  <2>3. QED
    BY <2>1, <2>2
<1>10. ASSUME NEW i \in 1..m + n, NEW j \in 1..m + n, j < i
       PROVE  Ahead(AllOf(u[j]), AllOf(u[i]))
  <2>1. CASE i \in 1..m
    <3>1. j \in 1..m
      BY <1>2, <1>10, <2>1
    <3>2. QED
      BY <1>4, <1>7, <1>10, <2>1, <3>1
  <2>2. CASE i \notin 1..m
    <3>1. i - m \in 1..n /\ u[i] = t[i - m]
      BY <1>6, <2>2
    <3>2. CASE j \in 1..m
      <4>1. (\A x \in AllOf(u[j]) : x \in R) /\ (\A x \in AllOf(u[i]) : x \in Q)
        BY <1>4, <1>7, <1>8, <3>1, <3>2
      <4>2. QED
        BY <4>1 DEF Ahead
    <3>3. CASE j \notin 1..m
      <4>1. j - m \in 1..n /\ u[j] = t[j - m]
        BY <1>6, <3>3
      <4>2. j - m < i - m
        BY <1>2, <1>10
      <4>3. QED
        BY <1>8, <3>1, <4>1, <4>2
    <3>4. QED
      BY <3>2, <3>3
  <2>3. QED
    BY <2>1, <2>2
<1>11. ASSUME NEW x \in R \cup Q, x \in S PROVE \E i \in 1..m + n : x \in AllOf(u[i])
  <2>1. CASE x \in R
    BY <1>4, <1>7, <1>11, <2>1
  <2>2. CASE x \in Q
    <3>1. PICK i \in 1..n : x \in AllOf(t[i])
      BY <1>8, <1>11, <2>2
    <3>2. QED
      BY <1>5, <3>1
  <2>3. QED
    BY <2>1, <2>2
<1>12. InSections(u)
  BY <1>3, <1>9, <1>10 DEF InSections
<1>13. Outlined(u, R \cup Q, S)
  BY <1>3, <1>9, <1>11, <1>12 DEF Outlined
<1>14. QED
  BY <1>1, <1>13

\* Sections without a block may be left out.
LEMMA OutlinedNonempty ==
    ASSUME NEW secs, NEW R, NEW S, Outlined(secs, R, S)
    PROVE  Outlined(Nonempty(secs), R, S)
<1>1. PICK r, K, N : r = Nonempty(secs) /\ K = Range(secs) \ {<<>>} /\ N = Len(secs)
  OBVIOUS
<1>2. r = Only(secs, K)
  BY <1>1 DEF Nonempty
<1>3. secs \in Seq(Seq(Blocks)) /\ N \in Nat /\ Range(secs) = {secs[n] : n \in 1..N}
  BY <1>1, LenProperties, RangeEquality DEF Outlined, InSections
<1>4. r \in Seq(Seq(Blocks)) /\ \E e : Embeds(e, r, secs, N, K)
  BY <1>1, <1>2, <1>3, OnlyEmbeds
<1>5. PICK e : Embeds(e, r, secs, N, K)
  BY <1>4
<1>6. PICK m : m = Len(r)
  OBVIOUS
<1>7. /\ e \in [1..m -> 1..N]
      /\ \A k \in 1..m : r[k] = secs[e[k]]
      /\ \A j \in 1..m : \A k \in 1..m : j < k => e[j] < e[k]
      /\ \A i \in 1..N : secs[i] \in K => \E k \in 1..m : e[k] = i
  BY <1>5, <1>6 DEF Embeds
<1>8. /\ \A n \in 1..N : InOrder(secs[n])
      /\ \A n \in 1..N : \A j \in 1..N : j < n => Ahead(AllOf(secs[j]), AllOf(secs[n]))
      /\ \A n \in 1..N : \A x \in AllOf(secs[n]) : x \in R /\ (Lines[x] \notin Empty => x \in S)
      /\ \A x \in R : x \in S => \E n \in 1..N : x \in AllOf(secs[n])
  BY <1>1 DEF Outlined, InSections
<1>9. \A k \in 1..m : e[k] \in 1..N
  BY <1>7
<1>10. InSections(r)
  BY <1>4, <1>6, <1>7, <1>8, <1>9 DEF InSections
<1>11. ASSUME NEW x \in R, x \in S PROVE \E k \in 1..m : x \in AllOf(r[k])
  <2>1. PICK n \in 1..N : x \in AllOf(secs[n])
    BY <1>8, <1>11
  <2>2. secs[n] # <<>>
    BY <2>1, InOrderEmpty
  <2>3. secs[n] \in K
    BY <1>1, <1>3, <2>2
  <2>4. PICK k \in 1..m : e[k] = n
    BY <1>7, <2>3
  <2>5. QED
    BY <1>7, <2>1, <2>4
<1>12. \A k \in 1..m : \A x \in AllOf(r[k]) : x \in R /\ (Lines[x] \notin Empty => x \in S)
  BY <1>7, <1>8, <1>9
<1>13. QED
  BY <1>1, <1>6, <1>10, <1>11, <1>12 DEF Outlined

-----------------------------------------------------------------------------
(* Blocks made by the extractors                                           *)

LEMMA BlockIs ==
    ASSUME NEW kind \in ChildKind, NEW p, NEW T, Lists(p, T)
    PROVE  Ordered(Block(kind, p)) /\ PlacesOf(Block(kind, p)) = T
<1>1. PICK b : b = Block(kind, p)
  OBVIOUS
<1>2. b = [kind |-> kind, places |-> p]
  BY <1>1 DEF Block
<1>3. p \in Seq(Nat)
  BY DEF Lists
<1>4. b.places = p /\ b \in Blocks
  BY <1>2, <1>3 DEF Blocks, ChildKind
<1>5. Range(p) = T
  BY ListsNumbers
<1>6. QED
  BY <1>1, <1>4, <1>5 DEF Ordered, PlacesOf

\* A block for each of the places p.
Singles(bs, p) ==
    /\ bs = [j \in DOMAIN p |-> bs[j]]
    /\ \A j \in DOMAIN p : \E kind \in ChildKind : bs[j] = Block(kind, <<p[j]>>)

\* A section of blocks of one line each.
LEMMA SinglesAre ==
    ASSUME NEW p, NEW T, Lists(p, T), NEW bs, Singles(bs, p)
    PROVE  InOrder(bs) /\ AllOf(bs) = T
<1>1. PICK n : n = Len(p)
  OBVIOUS
<1>2. /\ p \in Seq(Nat) /\ n \in Nat /\ DOMAIN p = 1..n
      /\ \A k \in 1..n : p[k] \in Nat /\ p[k] \in T
      /\ \A j \in 1..n : \A k \in 1..n : j < k => p[j] < p[k]
      /\ \A x \in T : \E k \in 1..n : p[k] = x
  BY <1>1, LenProperties, ElementOfSeq DEF Lists, Rising
<1>3. ASSUME NEW j \in 1..n PROVE Ordered(bs[j]) /\ PlacesOf(bs[j]) = {p[j]}
  <2>1. PICK kind \in ChildKind : bs[j] = Block(kind, <<p[j]>>)
    BY <1>2 DEF Singles
  <2>2. PICK x \in Nat : x = p[j]
    BY <1>2
  <2>3. Lists(<<x>>, {x})
    BY ListsSingle
  <2>4. Ordered(Block(kind, <<x>>)) /\ PlacesOf(Block(kind, <<x>>)) = {x}
    BY <2>3, BlockIs
  <2>5. QED
    BY <2>1, <2>2, <2>4
<1>4. bs = [j \in 1..n |-> bs[j]]
  BY <1>2 DEF Singles
<1>5. \A j \in 1..n : bs[j] \in Blocks
  BY <1>3 DEF Ordered
<1>6. bs \in Seq(Blocks) /\ Len(bs) = n
  <2>1. n \in Nat
    BY <1>2
  <2>2. QED
    BY <1>4, <1>5, <2>1, MadeSequence
<1>7. ASSUME NEW k \in 1..n, NEW j \in 1..n, j < k PROVE Ahead(PlacesOf(bs[j]), PlacesOf(bs[k]))
  <2>1. p[j] < p[k]
    BY <1>2, <1>7
  <2>2. PlacesOf(bs[j]) = {p[j]} /\ PlacesOf(bs[k]) = {p[k]}
    BY <1>3
  <2>3. QED
    BY <2>1, <2>2 DEF Ahead
<1>8. InOrder(bs)
  BY <1>3, <1>6, <1>7 DEF InOrder
<1>9. \A x : x \in AllOf(bs) <=> x \in T
  <2>1. \A x : x \in AllOf(bs) <=> \E j \in 1..n : x \in PlacesOf(bs[j])
    BY <1>6 DEF AllOf
  <2>2. \A x : x \in AllOf(bs) <=> \E j \in 1..n : x = p[j]
    BY <1>3, <2>1
  <2>3. QED
    BY <1>2, <2>2
<1>10. QED
  BY <1>8, <1>9

\* The lines of one body that are not blank.
LEMMA BodyIs ==
    ASSUME NEW p, NEW T, Lists(p, T), T \subseteq DOMAIN Lines
    PROVE  InOrder(Body(p)) /\ AllOf(Body(p)) = {x \in T : Lines[x] \notin Empty}
<1>1. PICK w, V : w = Written(p) /\ V = {x \in T : Lines[x] \notin Empty}
  OBVIOUS
<1>2. V = T \cap But(Empty)
  BY <1>1 DEF But
<1>3. Lists(w, V)
  BY <1>1, <1>2, OnlyLists DEF Written
<1>4. CASE w = <<>>
  <2>1. Len(w) = 0
    BY <1>4, EmptySeq
  <2>2. V = {}
    BY <1>3, <2>1 DEF Lists
  <2>3. Body(p) = <<>>
    BY <1>1, <1>4 DEF Body
  <2>4. QED
    BY <1>1, <2>2, <2>3, InOrderEmpty
<1>5. CASE w # <<>>
  <2>1. Body(p) = <<Block("text", w)>>
    BY <1>1, <1>5 DEF Body
  <2>2. PICK b : b = Block("text", w)
    OBVIOUS
  <2>3. Ordered(b) /\ PlacesOf(b) = V
    <3>1. "text" \in ChildKind
      BY DEF ChildKind
    <3>2. QED
      BY <1>3, <2>2, <3>1, BlockIs
  <2>4. InOrder(<<b>>) /\ AllOf(<<b>>) = PlacesOf(b)
    BY <2>3, InOrderSingle
  <2>5. QED
    BY <1>1, <2>1, <2>2, <2>3, <2>4
<1>6. QED
  BY <1>4, <1>5

\* A section that is one block of text.
LEMMA BodyPart ==
    ASSUME NEW p, NEW T, Lists(p, T), T \subseteq DOMAIN Lines, NEW R, T \subseteq R, NEW S,
           \A x \in T : Lines[x] \notin Empty => x \in S,
           \A x \in R : x \in S => x \in T /\ Lines[x] \notin Empty
    PROVE  Part(Body(p), R, S)
<1>1. InOrder(Body(p)) /\ AllOf(Body(p)) = {x \in T : Lines[x] \notin Empty}
  BY BodyIs
<1>2. QED
  BY <1>1 DEF Part

-----------------------------------------------------------------------------
(* Pages, slides, sheets and windows                                       *)

\* Windows of lines are quotients: what the prover needs of them.
LEMMA Quotient ==
    ASSUME NEW a \in Nat, NEW w \in Nat \ {0}
    PROVE  a \div w \in Nat /\ (a \div w) * w <= a /\ a < (a \div w + 1) * w
  OBVIOUS

LEMMA ProductIs ==
    ASSUME NEW a \in Nat, NEW w \in Nat \ {0}
    PROVE  a * w \in Nat /\ (a + 1) * w = a * w + w
  OBVIOUS

LEMMA ProductGrows ==
    ASSUME NEW a \in Nat, NEW b \in Nat, NEW w \in Nat \ {0}, a <= b
    PROVE  a * w <= b * w
  OBVIOUS

LEMMA ProductStrict ==
    ASSUME NEW a \in Nat, NEW b \in Nat, NEW w \in Nat \ {0}, a * w < b * w
    PROVE  a < b
<1>1. ~(b <= a)
  <2>1. b <= a => b * w <= a * w /\ a * w \in Nat /\ b * w \in Nat
    BY ProductGrows, ProductIs
  <2>2. QED
    BY <2>1, ProductIs
<1>2. QED
  BY <1>1

\* The lines of a file.
LEMMA LinesAre ==
    ASSUME paper \in Papers
    PROVE  Lines \in Seq(STRING) /\ Len(Lines) \in Nat /\ DOMAIN Lines = 1..Len(Lines)
<1>1. paper.lines \in Seq(STRING)
  BY PapersAssumption
<1>2. QED
  BY <1>1, LenProperties DEF Lines

\* The lines of the n-th stretch.
Window(n) == {i \in DOMAIN Lines : (n - 1) * WindowLines < i /\ i <= n * WindowLines}

\* The windows reach the last line and are no more than that takes.
LEMMA StretchesAre ==
    ASSUME paper \in Papers
    PROVE  /\ Stretches \in Nat /\ WindowLines \in Nat \ {0}
           /\ Stretches * WindowLines <= Len(Lines) + WindowLines - 1
           /\ Len(Lines) <= Stretches * WindowLines
<1>1. WindowLines \in Nat \ {0}
  BY TextAssumption
<1>0. Len(Lines) \in Nat
  BY LinesAre
<1>2. PICK a \in Nat : a = Len(Lines) + WindowLines - 1
  <2>1. Len(Lines) + WindowLines - 1 \in Nat
    BY <1>0, <1>1
  <2>2. QED
    BY <2>1
<1>3. PICK q \in Nat : q = a \div WindowLines /\ q * WindowLines <= a /\ a < (q + 1) * WindowLines
  BY <1>1, Quotient
<1>4. Stretches = q
  BY <1>2, <1>3 DEF Stretches
<1>5. (q + 1) * WindowLines = q * WindowLines + WindowLines /\ q * WindowLines \in Nat
  BY <1>1, ProductIs, ProductGrows
<1>6. Len(Lines) <= q * WindowLines
  BY <1>0, <1>1, <1>2, <1>3, <1>5
<1>7. QED
  BY <1>1, <1>2, <1>3, <1>4, <1>6

\* No stretch is empty.
LEMMA StretchStarts ==
    ASSUME paper \in Papers, NEW n \in 1..Stretches
    PROVE  /\ (n - 1) * WindowLines \in Nat /\ n * WindowLines = (n - 1) * WindowLines + WindowLines
           /\ (n - 1) * WindowLines + 1 \in Window(n)
<1>1. PICK k \in Nat : k = n - 1 /\ k + 1 = n /\ n \in Nat /\ n <= Stretches
  BY StretchesAre
<1>2. k * WindowLines \in Nat /\ n * WindowLines = k * WindowLines + WindowLines
  BY <1>1, StretchesAre, ProductIs, ProductGrows
<1>3. n * WindowLines <= Stretches * WindowLines
  BY <1>1, StretchesAre, ProductIs, ProductGrows
<1>4. PICK a, b \in Nat : a = k * WindowLines /\ b = Stretches * WindowLines
  BY <1>2, StretchesAre, ProductIs, ProductGrows
<1>5. b <= Len(Lines) + WindowLines - 1 /\ Len(Lines) \in Nat /\ WindowLines \in Nat \ {0}
  BY <1>4, StretchesAre, LinesAre
<1>6. a + WindowLines <= b
  BY <1>2, <1>3, <1>4
<1>7. a + 1 \in 1..Len(Lines) /\ a < a + 1 /\ a + 1 <= a + WindowLines
  BY <1>5, <1>6
<1>8. a + 1 \in Window(n)
  BY <1>1, <1>2, <1>4, <1>7, LinesAre DEF Window
<1>9. QED
  BY <1>1, <1>2, <1>4, <1>8

\* A stretch lists its window.
LEMMA StretchIs ==
    ASSUME paper \in Papers, NEW n \in 1..Stretches
    PROVE  Lists(Stretch(n), Window(n)) /\ Window(n) \subseteq DOMAIN Lines
<1>1. PICK a \in Nat : a = (n - 1) * WindowLines
  BY StretchStarts
<1>2. PICK b \in Nat : b = n * WindowLines /\ b = a + WindowLines
  BY <1>1, StretchStarts, StretchesAre
<1>0. Len(Lines) \in Nat
  BY LinesAre
<1>3. PICK to \in Nat : to = (IF b < Len(Lines) THEN b ELSE Len(Lines))
  BY <1>0
<1>4. Stretch(n) = Places(a + 1, to)
  BY <1>1, <1>2, <1>3 DEF Stretch
<1>5. a + 1 \in Nat \ {0}
  OBVIOUS
<1>6. Lists(Places(a + 1, to), (a + 1)..to)
  BY <1>5, PlacesAre
<1>7. \A i : i \in (a + 1)..to <=> i \in 1..Len(Lines) /\ a < i /\ i <= b
  BY <1>0, <1>3
<1>8. \A i : i \in Window(n) <=> i \in 1..Len(Lines) /\ a < i /\ i <= b
  BY <1>1, <1>2, LinesAre DEF Window
<1>9. Window(n) = (a + 1)..to
  BY <1>7, <1>8
<1>10. QED
  BY <1>4, <1>6, <1>9 DEF Window

\* The windows come one after the other.
LEMMA WindowsAhead ==
    ASSUME paper \in Papers, NEW n \in 1..Stretches, NEW j \in 1..Stretches, j < n
    PROVE  Ahead(Window(j), Window(n))
<1>1. PICK k \in Nat : k = n - 1 /\ j \in Nat /\ j <= k
  BY StretchesAre
<1>0. WindowLines \in Nat \ {0}
  BY StretchesAre
<1>2. PICK a, b : a = j * WindowLines /\ b = k * WindowLines
  OBVIOUS
<1>6. a \in Nat /\ b \in Nat
  BY <1>0, <1>1, <1>2, ProductIs
<1>7. a <= b
  BY <1>0, <1>1, <1>2, ProductGrows
<1>3. \A x \in Window(j) : x \in Nat /\ x <= a
  BY <1>2, LinesAre DEF Window
<1>4. \A y \in Window(n) : y \in Nat /\ b < y
  BY <1>1, <1>2, LinesAre DEF Window
<1>5. QED
  BY <1>3, <1>4, <1>6, <1>7 DEF Ahead

\* The stretch of a line.
At(i) == (i - 1) \div WindowLines + 1

\* Every line is in a window.
LEMMA WindowsCover ==
    ASSUME paper \in Papers, NEW i \in DOMAIN Lines
    PROVE  At(i) \in 1..Stretches /\ i \in Window(At(i))
<1>13. i \in 1..Len(Lines) /\ Len(Lines) \in Nat /\ WindowLines \in Nat \ {0}
  BY LinesAre, StretchesAre
<1>1. i \in Nat /\ i <= Len(Lines) /\ i - 1 \in Nat /\ Len(Lines) \in Nat /\ WindowLines \in Nat \ {0}
  BY <1>13
<1>2. PICK q \in Nat : q = (i - 1) \div WindowLines /\ q * WindowLines <= i - 1 /\ i - 1 < (q + 1) * WindowLines
  BY <1>1, Quotient
<1>3. PICK a, b : a = q * WindowLines /\ b = Stretches * WindowLines
  OBVIOUS
<1>14. a \in Nat /\ b \in Nat
  BY <1>1, <1>3, StretchesAre, ProductIs
<1>15. a <= i - 1 /\ i - 1 < (q + 1) * WindowLines
  BY <1>2, <1>3
<1>4. (q + 1) * WindowLines = a + WindowLines
  BY <1>1, <1>3, ProductIs, ProductGrows
<1>5. Len(Lines) <= b
  BY <1>3, StretchesAre
<1>6. a < b
  BY <1>1, <1>5, <1>14, <1>15
<1>7. q < Stretches
  BY <1>1, <1>3, <1>6, StretchesAre, ProductStrict
<1>8. At(i) = q + 1
  BY <1>2 DEF At
<1>9. q + 1 \in 1..Stretches /\ (q + 1) - 1 = q
  BY <1>7, StretchesAre
<1>10. a < i /\ i <= a + WindowLines
  <2>1. i - 1 < a + WindowLines
    BY <1>4, <1>15
  <2>2. QED
    BY <1>1, <1>14, <1>15, <2>1
<1>11. i \in Window(q + 1)
  BY <1>3, <1>4, <1>9, <1>10 DEF Window
<1>12. QED
  BY <1>8, <1>9, <1>11

\* A line is in no other window.
LEMMA WindowOnlyAt ==
    ASSUME paper \in Papers, NEW n \in 1..Stretches, NEW i \in Window(n)
    PROVE  At(i) = n
<1>1. i \in DOMAIN Lines
  BY DEF Window
<1>2. PICK k : k = At(i)
  OBVIOUS
<1>3. k \in 1..Stretches /\ i \in Window(k) /\ k \in Nat /\ n \in Nat /\ i \in Nat
  BY <1>1, <1>2, WindowsCover, StretchesAre, LinesAre
<1>4. ~(k < n)
  <2>1. k < n => Ahead(Window(k), Window(n))
    BY <1>3, WindowsAhead
  <2>2. QED
    BY <1>3, <2>1 DEF Ahead
<1>5. ~(n < k)
  <2>1. n < k => Ahead(Window(n), Window(k))
    BY <1>3, WindowsAhead
  <2>2. QED
    BY <1>3, <2>1 DEF Ahead
<1>6. QED
  BY <1>2, <1>3, <1>4, <1>5

\* Sections of stretches.
LEMMA StretchesOutlined ==
    ASSUME paper \in Papers, NEW secs, Indexed(secs, Stretches), NEW S,
           \A n \in 1..Stretches : Part(secs[n], Window(n), S)
    PROVE  Outlined(secs, DOMAIN Lines, S)
<1>1. Stretches \in Nat
  BY StretchesAre
<1> DEFINE D == [n \in 1..Stretches |-> Window(n)]
<1>2. \A n \in 1..Stretches : D[n] = Window(n)
  OBVIOUS
<1> HIDE DEF D
<1>3. \A n \in 1..Stretches : Part(secs[n], D[n], S)
  BY <1>2
<1>4. \A n \in 1..Stretches : \A j \in 1..Stretches : j < n => Ahead(D[j], D[n])
  BY <1>2, WindowsAhead
<1>5. Outlined(secs, UNION {D[n] : n \in 1..Stretches}, S)
  BY <1>1, <1>3, <1>4, OutlinedMade
<1>6. UNION {D[n] : n \in 1..Stretches} = DOMAIN Lines
  <2>1. \A i \in DOMAIN Lines : \E n \in 1..Stretches : i \in D[n]
    BY <1>2, WindowsCover
  <2>2. \A n \in 1..Stretches : D[n] \subseteq DOMAIN Lines
    BY <1>2 DEF Window
  <2>3. QED
    BY <2>1, <2>2
<1>7. QED
  BY <1>5, <1>6

-----------------------------------------------------------------------------
(* Sections that begin at opening lines                                    *)

\* The lines behind opening k, up to the next.
Region(opens, k) == {i \in DOMAIN Lines : opens[k] < i /\ (k < Len(opens) => i < opens[k + 1])}

\* Places that open sections, the first of which may stand before the first line.
Opens(opens, O) == Lists(opens, O) /\ \A o \in O : o <= Len(Lines)

\* Cut lists the regions.
LEMMA CutIs ==
    ASSUME paper \in Papers, NEW opens, NEW O, Opens(opens, O), NEW k \in 1..Len(opens)
    PROVE  Lists(Cut(opens)[k], Region(opens, k)) /\ Region(opens, k) \subseteq DOMAIN Lines
<1>1. opens \in Seq(Nat)
  BY DEF Opens, Lists
<1>2. PICK n, a, L : n = Len(opens) /\ a = opens[k] /\ L = Len(Lines)
  OBVIOUS
<1>3. n \in Nat /\ k \in 1..n /\ DOMAIN opens = 1..n /\ a \in Nat /\ L \in Nat
  BY <1>1, <1>2, LenProperties, ElementOfSeq, LinesAre
<1>4. PICK to : to = IF k < n THEN opens[k + 1] - 1 ELSE L
  OBVIOUS
<1>5. Cut(opens)[k] = Places(a + 1, to)
  BY <1>2, <1>3, <1>4 DEF Cut
<1>6. k < n => opens[k + 1] \in Nat /\ a < opens[k + 1] /\ opens[k + 1] <= L
  <2>1. ASSUME k < n PROVE k + 1 \in 1..n
    BY <1>3, <2>1
  <2>2. ASSUME k < n PROVE opens[k + 1] \in Nat /\ opens[k + 1] \in O
    BY <1>1, <1>2, <2>1, <2>2, ElementOfSeq DEF Opens, Lists
  <2>3. ASSUME k < n PROVE a < opens[k + 1]
    BY <1>2, <1>3, <2>1, <2>3 DEF Opens, Lists, Rising
  <2>4. QED
    BY <1>2, <2>2, <2>3 DEF Opens
<1>7. to \in Nat
  <2>1. CASE k < n
    <3>1. PICK b \in Nat : b = opens[k + 1] /\ a < b
      BY <1>6, <2>1
    <3>2. QED
      BY <1>3, <1>4, <2>1, <3>1
  <2>2. CASE ~(k < n)
    BY <1>3, <1>4, <2>2
  <2>3. QED
    BY <2>1, <2>2
<1>8. a + 1 \in Nat \ {0}
  BY <1>3
<1>9. Lists(Places(a + 1, to), (a + 1)..to)
  BY <1>7, <1>8, PlacesAre
<1>10. DOMAIN Lines = 1..L
  BY <1>2, LinesAre
<1>11. ASSUME NEW i PROVE i \in (a + 1)..to <=> i \in 1..L /\ a < i /\ (k < n => i < opens[k + 1])
  <2>1. CASE k < n
    <3>1. PICK b \in Nat : b = opens[k + 1] /\ a < b /\ b <= L
      BY <1>6, <2>1
    <3>2. to = b - 1
      BY <1>4, <2>1, <3>1
    <3>3. i \in (a + 1)..to <=> i \in 1..L /\ a < i /\ i < b
      BY <1>3, <3>1, <3>2
    <3>4. QED
      BY <2>1, <3>1, <3>3
  <2>2. CASE ~(k < n)
    BY <1>3, <1>4, <2>2
  <2>3. QED
    BY <2>1, <2>2
<1>12. Region(opens, k) = (a + 1)..to
  BY <1>2, <1>10, <1>11 DEF Region
<1>13. QED
  BY <1>5, <1>9, <1>12 DEF Region

LEMMA RegionsAhead ==
    ASSUME paper \in Papers, NEW opens, NEW O, Opens(opens, O),
           NEW k \in 1..Len(opens), NEW j \in 1..Len(opens), j < k
    PROVE  Ahead(Region(opens, j), Region(opens, k))
<1>1. opens \in Seq(Nat)
  BY DEF Opens, Lists
<1>2. PICK n : n = Len(opens)
  OBVIOUS
<1>9. DOMAIN Lines \subseteq Nat
  BY LinesAre
<1>3. n \in Nat /\ k \in 1..n /\ j \in 1..n /\ DOMAIN Lines \subseteq Nat /\ \A m \in 1..n : opens[m] \in Nat
  BY <1>1, <1>2, <1>9, LenProperties, ElementOfSeq
<1>4. j + 1 \in 1..n /\ j < n /\ (j + 1 = k \/ j + 1 < k)
  BY <1>3
<1>5. opens[j + 1] <= opens[k] /\ opens[j + 1] \in Nat /\ opens[k] \in Nat
  <2>1. j + 1 < k => opens[j + 1] < opens[k]
    BY <1>2, <1>3, <1>4 DEF Opens, Lists, Rising
  <2>2. QED
    BY <1>3, <1>4, <2>1
<1>6. \A x \in Region(opens, j) : x \in Nat /\ x < opens[j + 1]
  BY <1>2, <1>3, <1>4 DEF Region
<1>7. \A y \in Region(opens, k) : y \in Nat /\ opens[k] < y
  BY <1>3 DEF Region
<1>8. QED
  BY <1>5, <1>6, <1>7 DEF Ahead

LEMMA RegionHasNoOpening ==
    ASSUME paper \in Papers, NEW opens, NEW O, Opens(opens, O),
           NEW k \in 1..Len(opens), NEW x \in Region(opens, k)
    PROVE  x \notin O
<1>1. opens \in Seq(Nat)
  BY DEF Opens, Lists
<1>2. PICK n : n = Len(opens)
  OBVIOUS
<1>3. n \in Nat /\ k \in 1..n /\ \A m \in 1..n : opens[m] \in Nat
  BY <1>1, <1>2, LenProperties, ElementOfSeq
<1>4. x \in Nat
  BY LinesAre DEF Region
<1>5. ASSUME x \in O PROVE FALSE
  <2>1. PICK m \in 1..n : opens[m] = x
    BY <1>2, <1>5 DEF Opens, Lists
  <2>2. \A a \in 1..n : \A b \in 1..n : a < b => opens[a] < opens[b]
    BY <1>2 DEF Opens, Lists, Rising
  <2>3. opens[k] < opens[m] /\ opens[m] \in Nat /\ opens[k] \in Nat
    BY <1>3, <2>1 DEF Region
  <2>4. m # k
    BY <2>3
  <2>11. ~(m < k)
    <3>1. m < k => opens[m] < opens[k]
      BY <1>3, <2>2
    <3>2. QED
      BY <2>3, <3>1
  <2>5. k < m
    BY <1>3, <2>4, <2>11
  <2>6. k + 1 \in 1..n /\ k < n /\ (k + 1 = m \/ k + 1 < m)
    BY <1>3, <2>5
  <2>7. opens[m] < opens[k + 1]
    BY <1>2, <2>1, <2>6 DEF Region
  <2>8. k + 1 < m => opens[k + 1] < opens[m]
    BY <2>2, <2>6
  <2>9. opens[k + 1] \in Nat
    BY <1>3, <2>6
  <2>10. QED
    BY <2>3, <2>6, <2>7, <2>8, <2>9
<1>6. QED
  BY <1>5

\* A line behind an opening is in a region.
LEMMA RegionsCover ==
    ASSUME paper \in Papers, NEW opens, NEW O, Opens(opens, O),
           NEW i \in DOMAIN Lines, i \notin O, NEW o \in O, o < i
    PROVE  \E k \in 1..Len(opens) : i \in Region(opens, k)
<1>1. opens \in Seq(Nat)
  BY DEF Opens, Lists
<1>2. PICK n : n = Len(opens)
  OBVIOUS
<1>3. n \in Nat /\ \A m \in 1..n : opens[m] \in Nat
  BY <1>1, <1>2, LenProperties, ElementOfSeq
<1>4. i \in Nat
  BY LinesAre
<1>5. \A m \in 1..n : opens[m] # i
  BY <1>2 DEF Opens, Lists
<1> DEFINE Found(m) == \E k \in 1..m : opens[k] < i /\ (k < m => i < opens[k + 1])
           Begun(m) == \E k \in 1..m : opens[k] < i
           P(m) == Begun(m) => Found(m)
           T == {m \in 0..n : P(m)}
<1>6. P(0)
  OBVIOUS
<1>7. ASSUME NEW m \in 1..n, P(m - 1) PROVE P(m)
  <2>1. CASE opens[m] < i
    <3>1. m \in 1..m /\ ~(m < m)
      BY <1>3
    <3>2. QED
      BY <2>1, <3>1
  <2>2. CASE ~(opens[m] < i)
    <3>1. i < opens[m]
      BY <1>3, <1>4, <1>5, <2>2
    <3>2. ASSUME Begun(m) PROVE Found(m)
      <4>1. PICK h \in 1..m : opens[h] < i
        BY <3>2
      <4>2. h \in 1..m - 1
        BY <1>3, <2>2, <4>1
      <4>3. Found(m - 1)
        BY <1>7, <4>1, <4>2
      <4>4. PICK k \in 1..m - 1 : opens[k] < i /\ (k < m - 1 => i < opens[k + 1])
        BY <4>3
      <4>5. k \in 1..m /\ (k < m - 1 \/ k + 1 = m)
        BY <1>3
      <4>6. i < opens[k + 1]
        BY <3>1, <4>4, <4>5
      <4>7. QED
        BY <4>4, <4>5, <4>6
    <3>3. QED
      BY <3>2
  <2>3. QED
    BY <2>1, <2>2
<1> HIDE DEF P
<1>8. 0 \in T
  BY <1>3, <1>6
<1>9. \A m \in 1..n : m - 1 \in T => m \in T
  <2>1. TAKE m \in 1..n
  <2>2. m \in 0..n
    BY <1>3
  <2>3. QED
    BY <1>7, <2>2
<1> HIDE DEF T
<1>10. 0..n \subseteq T
  BY <1>3, <1>8, <1>9, UpToInduction
<1>11. n \in T
  BY <1>3, <1>10
<1>12. P(n)
  BY <1>11 DEF T
<1>13. Begun(n)
  BY <1>2 DEF Opens, Lists
<1>14. PICK k \in 1..n : opens[k] < i /\ (k < n => i < opens[k + 1])
  BY <1>12, <1>13 DEF P
<1>15. i \in Region(opens, k)
  BY <1>2, <1>14 DEF Region
<1>16. QED
  BY <1>2, <1>15

\* Sections made of regions outline a file whose wanted lines are behind an opening.
LEMMA CutsOutlined ==
    ASSUME paper \in Papers, NEW opens, NEW O, Opens(opens, O), NEW S,
           NEW secs, Indexed(secs, Len(opens)),
           \A k \in 1..Len(opens) : Part(secs[k], Region(opens, k), S),
           \A i \in DOMAIN Lines : i \in S => i \notin O /\ \E o \in O : o < i
    PROVE  Outlined(secs, DOMAIN Lines, S)
<1>1. opens \in Seq(Nat)
  BY DEF Opens, Lists
<1>2. PICK n : n = Len(opens)
  OBVIOUS
<1>3. n \in Nat
  BY <1>1, <1>2, LenProperties
<1> DEFINE D == [k \in 1..n |-> Region(opens, k)]
<1>4. \A k \in 1..n : D[k] = Region(opens, k)
  OBVIOUS
<1> HIDE DEF D
<1>5. \A k \in 1..n : Part(secs[k], D[k], S)
  BY <1>2, <1>4
<1>6. \A k \in 1..n : \A j \in 1..n : j < k => Ahead(D[j], D[k])
  BY <1>2, <1>4, RegionsAhead
<1>7. Indexed(secs, n)
  BY <1>2
<1>8. Outlined(secs, UNION {D[k] : k \in 1..n}, S)
  BY <1>3, <1>5, <1>6, <1>7, OutlinedMade
<1>9. PICK R : R = UNION {D[k] : k \in 1..n}
  OBVIOUS
<1>10. R \subseteq DOMAIN Lines
  BY <1>4, <1>9 DEF Region
<1>11. \A i \in DOMAIN Lines : i \in S => i \in R
  <2>1. ASSUME NEW i \in DOMAIN Lines, i \in S PROVE i \in R
    <3>1. PICK o \in O : o < i /\ i \notin O
      BY <2>1
    <3>2. PICK k \in 1..n : i \in Region(opens, k)
      BY <1>2, <3>1, RegionsCover
    <3>3. QED
      BY <1>4, <1>9, <3>2
  <2>2. QED
    BY <2>1
<1>12. Outlined(secs, R, S)
  BY <1>8, <1>9
<1>13. QED
  BY <1>10, <1>11, <1>12, OutlinedWider

-----------------------------------------------------------------------------
(* The formats                                                             *)

\* The smallest of some numbers.
LEMMA MinIs ==
    ASSUME NEW S, S \subseteq Nat, S # {}
    PROVE  Min(S) \in S /\ \A x \in S : Min(S) <= x
<1> DEFINE R == OpToRel(<, Nat)
<1>1. IsWellFoundedOn(R, Nat)
  BY NatLessThanWellFounded
<1>2. \A y, x \in Nat : y < x => <<y, x>> \in R
  BY DEF OpToRel
<1> HIDE DEF R
<1>3. PICK x \in S : \A y \in S : ~(<<y, x>> \in R)
  BY <1>1, WFMin
<1>4. \A y \in S : x <= y
  <2>1. TAKE y \in S
  <2>2. x \in Nat /\ y \in Nat /\ ~(y < x)
    BY <1>2, <1>3
  <2>3. QED
    BY <2>2
<1>5. QED
  BY <1>3, <1>4 DEF Min

LEMMA MinOnly ==
    ASSUME NEW S, S \subseteq Nat, NEW m \in S, \A x \in S : m <= x
    PROVE  Min(S) = m
<1>1. Min(S) \in S /\ \A x \in S : Min(S) <= x
  BY MinIs
<1>2. Min(S) \in Nat /\ m \in Nat /\ Min(S) <= m /\ m <= Min(S)
  BY <1>1
<1>3. QED
  BY <1>2

\* The tail of a list leaves the smallest element out.
LEMMA TailLists ==
    ASSUME NEW s, NEW T, Lists(s, T), s # <<>>
    PROVE  /\ Lists(Tail(s), T \ {s[1]}) /\ s[1] \in T
           /\ \A x \in T : s[1] <= x
<1>1. s \in Seq(Nat)
  BY DEF Lists
<1>2. PICK n, t : n = Len(s) /\ t = Tail(s)
  OBVIOUS
<1>3. n \in Nat \ {0} /\ \A k \in 1..n : s[k] \in Nat
  BY <1>1, <1>2, EmptySeq, ElementOfSeq
<1>4. t \in Seq(Nat) /\ Len(t) = n - 1 /\ \A i \in 1..n - 1 : t[i] = s[i + 1]
  BY <1>1, <1>2, HeadTailProperties
<1>5. \A i \in 1..n - 1 : i + 1 \in 1..n /\ t[i] = s[i + 1] /\ 1 < i + 1
  BY <1>3, <1>4
<1>6. /\ \A j \in 1..n : \A k \in 1..n : j < k => s[j] < s[k]
      /\ \A k \in 1..n : s[k] \in T
      /\ \A x \in T : \E k \in 1..n : s[k] = x
  BY <1>2 DEF Lists, Rising
<1>7. 1 \in 1..n /\ \A k \in 1..n : k = 1 \/ (1 < k /\ k - 1 \in 1..n - 1 /\ (k - 1) + 1 = k)
  BY <1>3
<1>8. \A k \in 1..n : 1 < k => s[1] < s[k]
  BY <1>6, <1>7
<1>9. \A x \in T : s[1] <= x
  <2>1. TAKE x \in T
  <2>2. PICK k \in 1..n : s[k] = x
    BY <1>6
  <2>3. QED
    BY <1>3, <1>7, <1>8, <2>2
<1>10. ASSUME NEW i \in 1..n - 1 PROVE t[i] \in T \ {s[1]}
  <2>1. i + 1 \in 1..n /\ s[1] < s[i + 1] /\ s[i + 1] \in Nat /\ s[1] \in Nat
    BY <1>3, <1>5, <1>7, <1>8
  <2>2. QED
    BY <1>5, <1>6, <2>1
<1>11. ASSUME NEW x \in T \ {s[1]} PROVE \E i \in 1..n - 1 : t[i] = x
  <2>1. PICK k \in 1..n : s[k] = x
    BY <1>6
  <2>2. k - 1 \in 1..n - 1 /\ (k - 1) + 1 = k
    BY <1>7, <2>1
  <2>3. t[k - 1] = x
    BY <1>5, <2>1, <2>2
  <2>4. QED
    BY <2>2, <2>3
<1>12. ASSUME NEW j \in 1..n - 1, NEW k \in 1..n - 1, j < k PROVE t[j] < t[k]
  <2>1. j + 1 \in 1..n /\ k + 1 \in 1..n /\ j + 1 < k + 1
    BY <1>3, <1>12
  <2>2. QED
    BY <1>5, <1>6, <2>1
<1>13. Lists(t, T \ {s[1]})
  BY <1>4, <1>10, <1>11, <1>12 DEF Lists, Rising
<1>14. QED
  BY <1>2, <1>6, <1>7, <1>9, <1>13

LEMMA AllLists == ASSUME paper \in Papers PROVE Lists(Places(1, Len(Lines)), DOMAIN Lines)
<1>1. PICK L \in Nat : L = Len(Lines)
  BY LinesAre
<1>2. Lists(Places(1, L), 1..L)
  BY PlacesAre
<1>3. QED
  BY <1>1, <1>2, LinesAre

\* Pages of a PDF and windows of plain text.
LEMMA PdfOutlined ==
    ASSUME paper \in Papers, paper.format \in {"txt", "pdf"}
    PROVE  Outlined(ExtractPdfText, DOMAIN Lines, Wanted)
<1>1. PICK S : S = Wanted
  OBVIOUS
<1>2. S = {i \in DOMAIN Lines : Lines[i] \notin Empty}
  BY <1>1 DEF Wanted
<1>3. PICK secs : secs = [n \in 1..Stretches |-> Body(Stretch(n))]
  OBVIOUS
<1>4. Indexed(secs, Stretches) /\ \A n \in 1..Stretches : secs[n] = Body(Stretch(n))
  BY <1>3 DEF Indexed
<1>5. ASSUME NEW n \in 1..Stretches PROVE Part(secs[n], Window(n), S)
  <2>1. PICK p, T : p = Stretch(n) /\ T = Window(n)
    OBVIOUS
  <2>2. Lists(p, T) /\ T \subseteq DOMAIN Lines
    BY <2>1, StretchIs
  <2>3. /\ \A x \in T : Lines[x] \notin Empty => x \in S
        /\ \A x \in T : x \in S => x \in T /\ Lines[x] \notin Empty
    BY <1>2, <2>2
  <2>4. T \subseteq T
    OBVIOUS
  <2>5. Part(Body(p), T, S)
    BY <2>2, <2>3, <2>4, BodyPart
  <2>6. QED
    BY <1>4, <2>1, <2>5
<1>6. Outlined(secs, DOMAIN Lines, S)
  BY <1>4, <1>5, StretchesOutlined
<1>7. Outlined(Nonempty(secs), DOMAIN Lines, S)
  BY <1>6, OutlinedNonempty
<1>8. QED
  BY <1>1, <1>3, <1>7 DEF ExtractPdfText

\* Plain text, and PDF: a section for each window that has a text.
LEMMA TextOutlined ==
    ASSUME paper \in Papers, paper.format \in {"txt", "pdf"}
    PROVE  Outlined(ExtractText, DOMAIN Lines, Wanted)
<1>1. PICK secs, S : secs = ExtractPdfText /\ S = Wanted
  OBVIOUS
<1>2. Outlined(secs, DOMAIN Lines, S)
  BY <1>1, PdfOutlined
<1>3. CASE secs = <<>>
  <2>1. Len(secs) = 0
    BY <1>3, EmptySeq
  <2>2. \A x \in DOMAIN Lines : x \notin S
    BY <1>2, <2>1 DEF Outlined
  <2>3. Part(<<>>, DOMAIN Lines, S)
    BY <2>2, InOrderEmpty DEF Part
  <2>4. Outlined(<< <<>> >>, DOMAIN Lines, S)
    BY <2>3, OutlinedSingle
  <2>5. QED
    BY <1>1, <1>3, <2>4 DEF ExtractText
<1>4. CASE secs # <<>>
  BY <1>1, <1>2, <1>4 DEF ExtractText
<1>5. QED
  BY <1>3, <1>4

\* Markdown: from the first heading, if there is one.
LEMMA MarkdownOutlined ==
    ASSUME paper \in Papers, paper.format = "md"
    PROVE  Outlined(ExtractMarkdown, DOMAIN Lines, Wanted)
<1> DEFINE Heads == {"title", "sub"}
<1>1. PICK S, O, heads : S = Wanted /\ O = {i \in DOMAIN Lines : Lines[i] \in Heads} /\ heads = Openings(Heads)
  OBVIOUS
<1>2. \A i : i \in S <=>
              /\ i \in DOMAIN Lines /\ Lines[i] \notin Empty /\ Lines[i] \notin Heads
              /\ (\E j \in 1..i : Lines[j] \in Heads) \/ (\A j \in 1..Len(Lines) : Lines[j] \notin Heads)
  <2>1. S = {i \in {j \in DOMAIN Lines : Lines[j] \notin Empty} :
                Lines[i] \notin Heads /\ (Before(i, Heads) # {} \/ Before(Len(Lines), Heads) = {})}
    BY <1>1 DEF Wanted
  <2>2. \A i : Before(i, Heads) = {} <=> \A j \in 1..i : Lines[j] \notin Heads
    BY DEF Before
  <2>3. QED
    BY <2>1, <2>2
<1>3. Lists(heads, O)
  <2>1. Lists(Only(Places(1, Len(Lines)), O), DOMAIN Lines \cap O)
    BY AllLists, OnlyLists
  <2>2. DOMAIN Lines \cap O = O
    BY <1>1
  <2>3. QED
    BY <1>1, <2>1, <2>2 DEF Openings
<1>4. DOMAIN Lines = 1..Len(Lines) /\ Len(Lines) \in Nat
  BY LinesAre
<1> HIDE DEF Heads
<1>5. CASE heads = <<>>
  <2>1. Len(heads) = 0
    BY <1>5, EmptySeq
  <2>2. O = {}
    BY <1>3, <2>1 DEF Lists
  <2>3. PICK p, T : p = Places(1, Len(Lines)) /\ T = DOMAIN Lines
    OBVIOUS
  <2>4. Lists(p, T) /\ T \subseteq DOMAIN Lines /\ T \subseteq T
    BY <2>3, AllLists
  <2>5. \A x \in T : Lines[x] \notin Heads
    BY <1>1, <2>2, <2>3
  <2>6. /\ \A x \in T : Lines[x] \notin Empty => x \in S
        /\ \A x \in T : x \in S => x \in T /\ Lines[x] \notin Empty
    <3>1. \A j \in 1..Len(Lines) : Lines[j] \notin Heads
      BY <1>4, <2>3, <2>5
    <3>2. \A i : i \in S <=> i \in DOMAIN Lines /\ Lines[i] \notin Empty /\ Lines[i] \notin Heads
      BY <1>2, <3>1
    <3>3. QED
      BY <2>3, <2>5, <3>2
  <2>7. Part(Body(p), T, S)
    BY <2>4, <2>6, BodyPart
  <2>8. Outlined(<<Body(p)>>, T, S)
    BY <2>7, OutlinedSingle
  <2>9. QED
    BY <1>1, <1>5, <2>3, <2>8 DEF ExtractMarkdown, Heads
<1>6. CASE heads # <<>>
  <2>1. PICK secs : secs = [k \in DOMAIN heads |-> Body(Cut(heads)[k])]
    OBVIOUS
  <2>2. heads \in Seq(Nat)
    BY <1>3 DEF Lists
  <2>3. DOMAIN heads = 1..Len(heads) /\ Len(heads) \in Nat \ {0}
    BY <1>6, <2>2, LenProperties, EmptySeq
  <2>4. Indexed(secs, Len(heads)) /\ \A k \in 1..Len(heads) : secs[k] = Body(Cut(heads)[k])
    BY <2>1, <2>3 DEF Indexed
  <2>5. Opens(heads, O)
    BY <1>1, <1>3, <1>4 DEF Opens
  <2>6. \A j \in O : j \in 1..Len(Lines) /\ Lines[j] \in Heads
    BY <1>1, <1>4
  <2>7. O # {}
    <3>1. 1 \in 1..Len(heads)
      BY <2>3
    <3>2. QED
      BY <1>3, <3>1 DEF Lists
  <2>8. \A i : i \in S <=> /\ i \in DOMAIN Lines /\ Lines[i] \notin Empty /\ Lines[i] \notin Heads
                         /\ \E j \in 1..i : Lines[j] \in Heads
    BY <1>2, <2>6, <2>7
  <2>9. ASSUME NEW k \in 1..Len(heads) PROVE Part(secs[k], Region(heads, k), S)
    <3>1. PICK p, T : p = Cut(heads)[k] /\ T = Region(heads, k)
      OBVIOUS
    <3>2. Lists(p, T) /\ T \subseteq DOMAIN Lines /\ T \subseteq T
      BY <2>5, <3>1, CutIs
    <3>3. ASSUME NEW x \in T PROVE Lines[x] \notin Heads
      <4>1. x \in DOMAIN Lines /\ x \notin O
        BY <2>5, <3>1, <3>2, RegionHasNoOpening
      <4>2. QED
        BY <1>1, <4>1
    <3>4. ASSUME NEW x \in T PROVE \E j \in 1..x : Lines[j] \in Heads
      <4>1. heads[k] \in O /\ heads[k] < x /\ x \in 1..Len(Lines)
        BY <1>3, <1>4, <3>1, <3>2 DEF Region, Lists
      <4>2. heads[k] \in 1..x /\ Lines[heads[k]] \in Heads
        BY <1>4, <2>6, <4>1
      <4>3. QED
        BY <4>2
    <3>5. /\ \A x \in T : Lines[x] \notin Empty => x \in S
          /\ \A x \in T : x \in S => x \in T /\ Lines[x] \notin Empty
      BY <2>8, <3>2, <3>3, <3>4
    <3>6. Part(Body(p), T, S)
      BY <3>2, <3>5, BodyPart
    <3>7. QED
      BY <2>4, <3>1, <3>6
  <2>10. ASSUME NEW i \in DOMAIN Lines, i \in S PROVE i \notin O /\ \E o \in O : o < i
    <3>1. Lines[i] \notin Heads
      BY <2>8, <2>10
    <3>2. PICK j \in 1..i : Lines[j] \in Heads
      BY <2>8, <2>10
    <3>3. i \in 1..Len(Lines) /\ j # i
      BY <1>4, <3>1, <3>2
    <3>4. j \in 1..Len(Lines) /\ j < i
      BY <1>4, <3>3
    <3>5. j \in O
      BY <1>1, <1>4, <3>2, <3>4
    <3>6. QED
      BY <1>1, <3>1, <3>4, <3>5
  <2>11. Outlined(secs, DOMAIN Lines, S)
    BY <2>4, <2>5, <2>9, <2>10, CutsOutlined
  <2>12. QED
    BY <1>1, <1>6, <2>1, <2>11 DEF ExtractMarkdown, Heads
<1>7. QED
  BY <1>5, <1>6

\* Word: from the first line, unless that is a title itself.
LEMMA DocxOutlined ==
    ASSUME paper \in Papers, paper.format = "docx"
    PROVE  Outlined(ExtractDocx, DOMAIN Lines, Wanted)
<1> DEFINE kindOf(i) == CASE Lines[i] \in {"sub", "emptySub"} -> "heading"
                          [] Lines[i] = "list" -> "list"
                          [] OTHER -> "text"
           paragraphs == Only(Places(1, Len(Lines)), But({"table"}))
           preamble == paragraphs # <<>> /\ Lines[Head(paragraphs)] # "title"
<1>1. PICK S, O, titles : S = Wanted /\ O = {i \in DOMAIN Lines : Lines[i] \in {"title"}} /\ titles = Openings({"title"})
  OBVIOUS
<1>2. \A i : i \in S <=> i \in DOMAIN Lines /\ Lines[i] \notin Empty
                         /\ Lines[i] \notin {"title", "table"}
  BY <1>1 DEF Wanted
<1>3. Lists(titles, O)
  <2>1. Lists(Only(Places(1, Len(Lines)), O), DOMAIN Lines \cap O)
    BY AllLists, OnlyLists
  <2>2. DOMAIN Lines \cap O = O
    BY <1>1
  <2>3. QED
    BY <1>1, <2>1, <2>2 DEF Openings
<1>4. DOMAIN Lines = 1..Len(Lines) /\ Len(Lines) \in Nat /\ (Lines # <<>> => Len(Lines) # 0)
  BY LinesAre, EmptySeq
<1>5. PICK opens : opens = IF preamble THEN <<0>> \o titles ELSE titles
  OBVIOUS
<1>6. \E Q : /\ Opens(opens, Q) /\ O \subseteq Q /\ (\A q \in Q : q \in O \/ q = 0)
             /\ \A i \in DOMAIN Lines : i \notin O /\ Lines[i] # "table" => \E q \in Q : q < i
  <2>1. CASE preamble
    <3>1. Lists(<<0>>, {0}) /\ Ahead({0}, O)
      BY <1>1, <1>4, ListsSingle DEF Ahead
    <3>2. Lists(<<0>> \o titles, {0} \cup O)
      BY <1>3, <3>1, ListsConcat
    <3>3. \A q \in {0} \cup O : q <= Len(Lines)
      BY <1>1, <1>4
    <3>4. Opens(opens, {0} \cup O)
      BY <1>5, <2>1, <3>2, <3>3 DEF Opens
    <3>5. \A i \in DOMAIN Lines : 0 < i
      BY <1>4
    <3>6. QED
      BY <3>4, <3>5
  <2>2. CASE ~preamble
    <3>1. Opens(opens, O)
      BY <1>1, <1>3, <1>4, <1>5, <2>2 DEF Opens
    <3>2. ASSUME NEW i \in DOMAIN Lines, i \notin O, Lines[i] # "table"
          PROVE  \E q \in O : q < i
      <4>1. PICK ps, V : ps = paragraphs /\ V = DOMAIN Lines \cap But({"table"})
        OBVIOUS
      <4>2. Lists(ps, V)
        BY <4>1, AllLists, OnlyLists
      <4>3. i \in V
        BY <3>2, <4>1 DEF But
      <4>4. PICK n \in 1..Len(ps) : ps[n] = i
        BY <4>2, <4>3 DEF Lists
      <4>5. ps \in Seq(Nat) /\ Len(ps) \in Nat /\ 1 \in 1..Len(ps)
        BY <4>2, <4>4, LenProperties DEF Lists
      <4>6. ps # <<>> /\ Head(ps) = ps[1]
        BY <4>5, EmptySeq
      <4>7. PICK h : h = ps[1]
        OBVIOUS
      <4>8. h \in V /\ h \in Nat
        BY <4>2, <4>5, <4>7, ElementOfSeq DEF Lists
      <4>9. Lines[h] = "title"
        BY <2>2, <4>1, <4>6, <4>7
      <4>10. h \in O
        BY <1>1, <4>1, <4>8, <4>9
      <4>11. h # i
        BY <3>2, <4>10
      <4>12. n # 1 /\ 1 < n
        BY <4>4, <4>5, <4>7, <4>11
      <4>13. h < i
        BY <4>2, <4>4, <4>5, <4>7, <4>12 DEF Lists, Rising
      <4>14. QED
        BY <4>10, <4>13
    <3>3. QED
      BY <3>1, <3>2
  <2>3. QED
    BY <2>1, <2>2
<1>7. PICK Q : /\ Opens(opens, Q) /\ O \subseteq Q /\ (\A q \in Q : q \in O \/ q = 0)
               /\ \A i \in DOMAIN Lines : i \notin O /\ Lines[i] # "table" => \E q \in Q : q < i
  BY <1>6
<1>8. opens \in Seq(Nat)
  BY <1>7 DEF Opens, Lists
<1>9. DOMAIN opens = 1..Len(opens) /\ Len(opens) \in Nat
  BY <1>8, LenProperties
<1> DEFINE part(k) == Only(Cut(opens)[k], But({"blank", "table"}))
<1>10. PICK secs : secs = [k \in DOMAIN opens |->
                             [j \in DOMAIN part(k) |-> Block(kindOf(part(k)[j]), <<part(k)[j]>>)]]
  OBVIOUS
<1>11. ExtractDocx = secs
  BY <1>1, <1>5, <1>10 DEF ExtractDocx
<1>12. \A i : kindOf(i) \in ChildKind
  BY DEF ChildKind
<1> HIDE DEF kindOf, preamble, paragraphs
<1>13. Indexed(secs, Len(opens))
  BY <1>9, <1>10 DEF Indexed
<1>14. ASSUME NEW k \in 1..Len(opens) PROVE Part(secs[k], Region(opens, k), S)
  <2>1. PICK p, T, bs : p = part(k) /\ T = Region(opens, k) /\ bs = secs[k]
    OBVIOUS
  <2>2. bs = [j \in DOMAIN p |-> Block(kindOf(p[j]), <<p[j]>>)]
    BY <1>9, <1>10, <2>1
  <2>3. Lists(Cut(opens)[k], T) /\ T \subseteq DOMAIN Lines
    BY <1>7, <2>1, CutIs
  <2>4. PICK V : V = T \cap But({"blank", "table"})
    OBVIOUS
  <2>5. Lists(p, V)
    BY <2>1, <2>3, <2>4, OnlyLists
  <2>6. Singles(bs, p)
    <3>1. \A j \in DOMAIN p : bs[j] = Block(kindOf(p[j]), <<p[j]>>)
      BY <2>2
    <3>2. bs = [j \in DOMAIN p |-> bs[j]]
      BY <2>2
    <3>3. QED
      BY <1>12, <3>1, <3>2 DEF Singles
  <2>7. InOrder(bs) /\ AllOf(bs) = V
    BY <2>5, <2>6, SinglesAre
  <2>8. \A x \in T : x \notin O
    BY <1>7, <2>1, RegionHasNoOpening
  <2>9. \A x \in V : x \in T /\ (Lines[x] \notin Empty => x \in S)
    <3>1. \A x \in V : x \in T /\ x \in DOMAIN Lines /\ Lines[x] # "table" /\ x \notin O
      BY <2>3, <2>4, <2>8 DEF But
    <3>2. QED
      BY <1>1, <1>2, <3>1
  <2>10. \A x \in T : x \in S => x \in V
    BY <1>2, <2>3, <2>4 DEF But, Empty
  <2>11. QED
    BY <2>1, <2>7, <2>9, <2>10 DEF Part
<1>15. \A i \in DOMAIN Lines : i \in S => i \notin Q /\ \E q \in Q : q < i
  <2>1. ASSUME NEW i \in DOMAIN Lines, i \in S PROVE i \notin Q /\ \E q \in Q : q < i
    <3>1. i \notin O /\ i # 0 /\ Lines[i] # "table"
      BY <1>1, <1>2, <1>4, <2>1
    <3>2. QED
      BY <1>7, <3>1
  <2>2. QED
    BY <2>1
<1>16. Outlined(secs, DOMAIN Lines, S)
  BY <1>7, <1>13, <1>14, <1>15, CutsOutlined
<1>17. QED
  BY <1>1, <1>11, <1>16

\* The lines of the stretch of a line.
LEMMA StretchOf ==
    ASSUME paper \in Papers, NEW n \in 1..Stretches, NEW i \in Window(n)
    PROVE  Range(Stretch((i - 1) \div WindowLines + 1)) = Window(n) /\ i \in DOMAIN Lines /\ Window(n) \subseteq Nat
<1>1. At(i) = n
  BY WindowOnlyAt
<1>2. Lists(Stretch(n), Window(n))
  BY StretchIs
<1>3. QED
  BY <1>1, <1>2, ListsNumbers DEF At, Window

\* PowerPoint: all but the first title of each slide.
LEMMA PptxOutlined ==
    ASSUME paper \in Papers, paper.format = "pptx"
    PROVE  Outlined(ExtractPptx, DOMAIN Lines, Wanted)
<1>1. PICK S : S = Wanted
  OBVIOUS
<1>2. \A i : i \in S <=> /\ i \in DOMAIN Lines /\ Lines[i] \notin Empty
                         /\ Lines[i] = "title" =>
                               \E j \in Range(Stretch((i - 1) \div WindowLines + 1)) : j < i /\ Lines[j] = "title"
  BY <1>1 DEF Wanted
<1> DEFINE titles(n) == {i \in Range(Stretch(n)) : Lines[i] = "title"}
           rest(n) == IF titles(n) = {} THEN Stretch(n)
                      ELSE Only(Stretch(n), Range(Stretch(n)) \ {Min(titles(n))})
<1>3. PICK secs : secs = [n \in 1..Stretches |-> Body(rest(n))]
  OBVIOUS
<1>4. ExtractPptx = secs
  BY <1>3 DEF ExtractPptx
<1>5. Indexed(secs, Stretches) /\ \A n \in 1..Stretches : secs[n] = Body(rest(n))
  BY <1>3 DEF Indexed
<1>6. ASSUME NEW n \in 1..Stretches PROVE Part(secs[n], Window(n), S)
  <2>1. PICK p, W, H : p = rest(n) /\ W = Window(n) /\ H = titles(n)
    OBVIOUS
  <2>2. Lists(Stretch(n), W) /\ W \subseteq DOMAIN Lines
    BY <2>1, StretchIs
  <2>3. Range(Stretch(n)) = W /\ W \subseteq Nat
    BY <2>2, ListsNumbers
  <2>4. H = {i \in W : Lines[i] = "title"}
    BY <2>1, <2>3
  <2>5. p = IF H = {} THEN Stretch(n) ELSE Only(Stretch(n), W \ {Min(H)})
    BY <2>1, <2>3
  <2>6. ASSUME NEW i \in W
        PROVE  i \in S <=> Lines[i] \notin Empty /\ (Lines[i] = "title" => \E j \in W : j < i /\ Lines[j] = "title")
    <3>1. Range(Stretch((i - 1) \div WindowLines + 1)) = W /\ i \in DOMAIN Lines
      BY <2>1, StretchOf
    <3>2. QED
      BY <1>2, <3>1
  <2>7. CASE H = {}
    <3>1. Lists(p, W) /\ W \subseteq W
      BY <2>2, <2>5, <2>7
    <3>2. /\ \A x \in W : Lines[x] \notin Empty => x \in S
          /\ \A x \in W : x \in S => x \in W /\ Lines[x] \notin Empty
      BY <2>4, <2>6, <2>7
    <3>3. Part(Body(p), W, S)
      BY <2>2, <3>1, <3>2, BodyPart
    <3>4. QED
      BY <1>5, <2>1, <3>3
  <2>8. CASE H # {}
    <3>1. PICK m : m = Min(H)
      OBVIOUS
    <3>2. H \subseteq Nat
      BY <2>3, <2>4
    <3>3. m \in H /\ \A x \in H : m <= x
      BY <2>8, <3>1, <3>2, MinIs
    <3>4. PICK T : T = W \ {m}
      OBVIOUS
    <3>5. Lists(p, T) /\ T \subseteq DOMAIN Lines /\ T \subseteq W
      <4>1. W \cap T = T
        BY <3>4
      <4>2. Lists(Only(Stretch(n), T), W \cap T)
        BY <2>2, OnlyLists
      <4>3. QED
        BY <2>2, <2>5, <2>8, <3>1, <3>4, <4>1, <4>2
    <3>6. ASSUME NEW x \in T, Lines[x] \notin Empty PROVE x \in S
      <4>1. x \in W /\ x # m /\ x \in Nat /\ m \in Nat
        BY <2>3, <3>2, <3>3, <3>4
      <4>2. ASSUME Lines[x] = "title" PROVE m < x /\ m \in W /\ Lines[m] = "title"
        <5>1. x \in H
          BY <2>4, <4>1, <4>2
        <5>2. m <= x
          BY <3>3, <5>1
        <5>3. QED
          BY <2>4, <3>3, <4>1, <5>2
      <4>3. QED
        BY <2>6, <3>6, <4>1, <4>2
    <3>7. ASSUME NEW x \in W, x \in S PROVE x \in T /\ Lines[x] \notin Empty
      <4>1. ASSUME x = m PROVE FALSE
        <5>1. Lines[m] = "title"
          BY <2>4, <3>3
        <5>2. PICK j \in W : j < x /\ Lines[j] = "title"
          BY <2>6, <3>7, <4>1, <5>1
        <5>3. j \in H /\ j \in Nat /\ m \in Nat
          BY <2>3, <2>4, <3>2, <3>3, <5>2
        <5>4. m <= j
          BY <3>3, <5>3
        <5>5. QED
          BY <4>1, <5>2, <5>3, <5>4
      <4>2. QED
        BY <2>6, <3>4, <3>7, <4>1
    <3>8. Part(Body(p), W, S)
      BY <3>5, <3>6, <3>7, BodyPart
    <3>9. QED
      BY <1>5, <2>1, <3>8
  <2>9. QED
    BY <2>7, <2>8
<1>7. Outlined(secs, DOMAIN Lines, S)
  BY <1>5, <1>6, StretchesOutlined
<1>8. QED
  BY <1>1, <1>4, <1>7

\* Excel: the rows below the header of each sheet.
LEMMA XlsxOutlined ==
    ASSUME paper \in Papers, paper.format = "xlsx"
    PROVE  Outlined(ExtractXlsx, DOMAIN Lines, Wanted)
<1>1. PICK S : S = Wanted
  OBVIOUS
<1>2. \A i : i \in S <=> /\ i \in DOMAIN Lines /\ Lines[i] \notin Empty
                         /\ i # Min(Range(Stretch((i - 1) \div WindowLines + 1)))
  BY <1>1 DEF Wanted
<1> DEFINE below(n) == Written(Tail(Stretch(n)))
<1>3. PICK secs : secs = [n \in 1..Stretches |-> [j \in DOMAIN below(n) |-> Block("table", <<below(n)[j]>>)]]
  OBVIOUS
<1>4. ExtractXlsx = secs
  BY <1>3 DEF ExtractXlsx
<1>5. Indexed(secs, Stretches)
  BY <1>3 DEF Indexed
<1>6. ASSUME NEW n \in 1..Stretches PROVE Part(secs[n], Window(n), S)
  <2>1. PICK s, p, W, bs : s = Stretch(n) /\ p = below(n) /\ W = Window(n) /\ bs = secs[n]
    OBVIOUS
  <2>2. Lists(s, W) /\ W \subseteq DOMAIN Lines
    BY <2>1, StretchIs
  <2>3. W \subseteq Nat
    BY <2>2, ListsNumbers
  <2>4. s # <<>>
    <3>1. W # {}
      BY <2>1, StretchStarts
    <3>2. ASSUME s = <<>> PROVE FALSE
      <4>1. Len(s) = 0
        BY <3>2, EmptySeq
      <4>2. QED
        BY <2>2, <3>1, <4>1 DEF Lists
    <3>3. QED
      BY <3>2
  <2>5. PICK m : m = s[1]
    OBVIOUS
  <2>6. Lists(Tail(s), W \ {m}) /\ m \in W /\ \A x \in W : m <= x
    BY <2>2, <2>4, <2>5, TailLists
  <2>7. Min(W) = m
    BY <2>3, <2>6, MinOnly
  <2>8. PICK V : V = (W \ {m}) \cap But(Empty)
    OBVIOUS
  <2>9. Lists(p, V)
    BY <2>1, <2>6, <2>8, OnlyLists DEF Written
  <2>10. bs = [j \in DOMAIN p |-> Block("table", <<p[j]>>)]
    BY <1>3, <2>1
  <2>11. Singles(bs, p)
    <3>1. \A j \in DOMAIN p : bs[j] = Block("table", <<p[j]>>)
      BY <2>10
    <3>2. bs = [j \in DOMAIN p |-> bs[j]]
      BY <2>10
    <3>3. "table" \in ChildKind
      BY DEF ChildKind
    <3>4. QED
      BY <3>1, <3>2, <3>3 DEF Singles
  <2>12. InOrder(bs) /\ AllOf(bs) = V
    BY <2>9, <2>11, SinglesAre
  <2>13. ASSUME NEW i \in W PROVE i \in S <=> Lines[i] \notin Empty /\ i # m
    <3>1. Range(Stretch((i - 1) \div WindowLines + 1)) = W /\ i \in DOMAIN Lines
      BY <2>1, StretchOf
    <3>2. QED
      BY <1>2, <2>7, <3>1
  <2>14. \A x \in V : x \in W /\ (Lines[x] \notin Empty => x \in S)
    BY <2>8, <2>13
  <2>15. \A x \in W : x \in S => x \in V
    BY <2>2, <2>8, <2>13 DEF But
  <2>16. QED
    BY <2>1, <2>12, <2>14, <2>15 DEF Part
<1>7. Outlined(secs, DOMAIN Lines, S)
  BY <1>5, <1>6, StretchesOutlined
<1>8. QED
  BY <1>1, <1>4, <1>7

\* Whatever the format, what is extracted is what is wanted.
LEMMA ExtractOutlined ==
    ASSUME paper \in Papers, paper.format # "image"
    PROVE  Outlined(Extract, DOMAIN Lines, Wanted)
<1>1. paper.format \in Formats
  BY PapersAssumption
<1>2. CASE paper.format = "md"
  BY <1>2, MarkdownOutlined DEF Extract
<1>3. CASE paper.format = "txt"
  BY <1>3, TextOutlined DEF Extract
<1>4. CASE paper.format = "pdf"
  BY <1>4, PdfOutlined DEF Extract
<1>5. CASE paper.format = "docx"
  BY <1>5, DocxOutlined DEF Extract
<1>6. CASE paper.format = "pptx"
  BY <1>6, PptxOutlined DEF Extract
<1>7. CASE paper.format = "xlsx"
  BY <1>7, XlsxOutlined DEF Extract
<1>8. QED
  BY <1>1, <1>2, <1>3, <1>4, <1>5, <1>6, <1>7 DEF Formats

-----------------------------------------------------------------------------
(* Page images                                                             *)

\* Only lines with a text are wanted.
WantedIs(S) == \A i \in S : i \in DOMAIN Lines /\ Lines[i] \notin Empty

LEMMA WantedIsWritten ==
    ASSUME paper \in Papers PROVE WantedIs(Wanted)
<1>1. paper.format \in Formats
  BY PapersAssumption
<1>2. PICK S : S = Wanted
  OBVIOUS
<1>3. PICK written : written = {i \in DOMAIN Lines : Lines[i] \notin Empty}
  OBVIOUS
<1>4. S \subseteq written
  <2>1. CASE paper.format = "md"
    BY <1>2, <1>3, <2>1 DEF Wanted
  <2>2. CASE paper.format \in {"txt", "pdf"}
    BY <1>2, <1>3, <2>2 DEF Wanted
  <2>3. CASE paper.format = "docx"
    BY <1>2, <1>3, <2>3 DEF Wanted
  <2>4. CASE paper.format = "pptx"
    BY <1>2, <1>3, <2>4 DEF Wanted
  <2>5. CASE paper.format = "xlsx"
    BY <1>2, <1>3, <2>5 DEF Wanted
  <2>6. CASE paper.format = "image"
    BY <1>2, <1>3, <2>6 DEF Wanted
  <2>7. QED
    BY <1>1, <2>1, <2>2, <2>3, <2>4, <2>5, <2>6 DEF Formats
<1>5. QED
  BY <1>2, <1>3, <1>4 DEF WantedIs

\* Of page images, what the model has recognized is wanted.
LEMMA WantedOfImages ==
    ASSUME paper.format = "image"
    PROVE  \A i : i \in Wanted <=> i \in DOMAIN Lines /\ Lines[i] \notin Empty /\ Lines[i] # "unknown"
  BY DEF Wanted

\* A page gives the boxes that are wanted.
LEMMA PagePart ==
    ASSUME paper \in Papers, paper.format = "image", NEW n \in 1..Stretches
    PROVE  Part(BoxBlocks(Stretch(n)), Window(n), Wanted)
<1> DEFINE kindOf(i) == IF Lines[i] \in Atomic THEN Lines[i] ELSE "text"
<1>1. PICK S, p, W, bs : /\ S = Wanted /\ p = Only(Stretch(n), But({"blank", "unknown"}))
                         /\ W = Window(n) /\ bs = BoxBlocks(Stretch(n))
  OBVIOUS
<1>2. \A i : i \in S <=> i \in DOMAIN Lines /\ Lines[i] \notin Empty /\ Lines[i] # "unknown"
  BY <1>1, WantedOfImages
<1>3. bs = [j \in DOMAIN p |-> Block(kindOf(p[j]), <<p[j]>>)]
  BY <1>1 DEF BoxBlocks
<1>4. \A i : kindOf(i) \in ChildKind
  BY DEF ChildKind, Atomic
<1> HIDE DEF kindOf
<1>5. Lists(Stretch(n), W) /\ W \subseteq DOMAIN Lines
  BY <1>1, StretchIs
<1>6. PICK V : V = W \cap But({"blank", "unknown"})
  OBVIOUS
<1>7. Lists(p, V)
  BY <1>1, <1>5, <1>6, OnlyLists
<1>8. Singles(bs, p)
  <2>1. \A j \in DOMAIN p : bs[j] = Block(kindOf(p[j]), <<p[j]>>)
    BY <1>3
  <2>2. bs = [j \in DOMAIN p |-> bs[j]]
    BY <1>3
  <2>3. QED
    BY <1>4, <2>1, <2>2 DEF Singles
<1>9. InOrder(bs) /\ AllOf(bs) = V
  BY <1>7, <1>8, SinglesAre
<1>10. \A x \in V : x \in W /\ (Lines[x] \notin Empty => x \in S)
  BY <1>2, <1>5, <1>6 DEF But
<1>11. \A x \in W : x \in S => x \in V
  BY <1>2, <1>5, <1>6 DEF But, Empty
<1>12. QED
  BY <1>1, <1>9, <1>10, <1>11 DEF Part

\* The lines of the first n pages.
Read(n) == {i \in DOMAIN Lines : i <= n * WindowLines}

LEMMA ReadEmpty == ASSUME paper \in Papers PROVE Read(0) = {}
<1>1. 0 * WindowLines = 0
  BY StretchesAre
<1>2. QED
  BY <1>1, LinesAre DEF Read

LEMMA ReadAll == ASSUME paper \in Papers PROVE Read(Stretches) = DOMAIN Lines
<1>1. PICK a, L : a = Stretches * WindowLines /\ L = Len(Lines)
  OBVIOUS
<1>2. a \in Nat /\ L \in Nat /\ L <= a
  BY <1>1, StretchesAre, LinesAre, ProductIs
<1>3. \A i \in 1..L : i <= a
  BY <1>2
<1>4. QED
  BY <1>1, <1>3, LinesAre DEF Read

\* Another page is behind those that have been read.
LEMMA PageRead ==
    ASSUME paper \in Papers, paper.format = "image", NEW n \in Nat, n < Stretches,
           NEW secs, Outlined(secs, Read(n), Wanted)
    PROVE  Outlined(secs \o Nonempty(<<BoxBlocks(Stretch(n + 1))>>), Read(n + 1), Wanted)
<1>1. PICK S, bs, R, W, a : S = Wanted /\ bs = BoxBlocks(Stretch(n + 1)) /\ R = Read(n) /\ W = Window(n + 1)
                            /\ a = n * WindowLines
  OBVIOUS
<1>2. n + 1 \in 1..Stretches /\ (n + 1) - 1 = n
  BY StretchesAre
<1>3. Part(bs, W, S)
  BY <1>1, <1>2, PagePart
<1>4. Outlined(<<bs>>, W, S)
  BY <1>3, OutlinedSingle
<1>5. Outlined(Nonempty(<<bs>>), W, S)
  BY <1>4, OutlinedNonempty
<1>6. WindowLines \in Nat \ {0}
  BY StretchesAre
<1>7. a \in Nat /\ (n + 1) * WindowLines = a + WindowLines
  BY <1>1, <1>6, ProductIs
<1>8. DOMAIN Lines \subseteq Nat
  BY LinesAre
<1>9. R = {i \in DOMAIN Lines : i <= a} /\ W = {i \in DOMAIN Lines : a < i /\ i <= a + WindowLines}
  BY <1>1, <1>2, <1>7 DEF Read, Window
<1>10. Read(n + 1) = {i \in DOMAIN Lines : i <= a + WindowLines}
  BY <1>7 DEF Read
<1>11. Ahead(R, W)
  <2>1. ASSUME NEW x \in R, NEW y \in W PROVE x < y
    <3>1. x \in Nat /\ y \in Nat /\ x <= a /\ a < y
      BY <1>8, <1>9
    <3>2. QED
      BY <1>7, <3>1
  <2>2. QED
    BY <2>1 DEF Ahead
<1>12. Read(n + 1) = R \cup W
  <2>1. ASSUME NEW i \in DOMAIN Lines PROVE i <= a + WindowLines <=> i <= a \/ (a < i /\ i <= a + WindowLines)
    <3>1. i \in Nat
      BY <1>8
    <3>2. QED
      BY <1>6, <1>7, <3>1
  <2>2. \A i : i \in Read(n + 1) <=> i \in R \/ i \in W
    BY <1>9, <1>10, <2>1
  <2>3. QED
    BY <2>2
<1>13. Outlined(secs, R, S)
  BY <1>1
<1>14. PICK t : t = Nonempty(<<bs>>)
  OBVIOUS
<1>15. Outlined(secs \o t, R \cup W, S)
  BY <1>5, <1>11, <1>13, <1>14, OutlinedConcat
<1>16. QED
  BY <1>1, <1>12, <1>14, <1>15

\* OCR of all pages: everything but the pictures.
Unpictured == {i \in Wanted : Lines[i] # "figure"}

\* OCR of the pages gives one block without the pictures.
LEMMA FallBackOutlined ==
    ASSUME paper \in Papers, paper.format = "image"
    PROVE  LET read == Only(Places(1, Len(Lines)), But(Empty \cup {"figure", "unknown"}))
           IN  read # <<>> => Outlined(<<<<Block("text", read)>>>>, DOMAIN Lines, Unpictured)
<1>1. PICK read, V, S, b : /\ read = Only(Places(1, Len(Lines)), But(Empty \cup {"figure", "unknown"}))
                           /\ V = DOMAIN Lines \cap But(Empty \cup {"figure", "unknown"})
                           /\ S = Unpictured /\ b = Block("text", read)
  OBVIOUS
<1>2. Lists(read, V)
  BY <1>1, AllLists, OnlyLists
<1>3. "text" \in ChildKind
  BY DEF ChildKind
<1>4. Ordered(b) /\ PlacesOf(b) = V
  BY <1>1, <1>2, <1>3, BlockIs
<1>5. InOrder(<<b>>) /\ AllOf(<<b>>) = V
  BY <1>4, InOrderSingle
<1>6. \A i : i \in S <=> i \in V
  BY <1>1, WantedOfImages DEF Unpictured, But
<1>7. Part(<<b>>, DOMAIN Lines, S)
  BY <1>1, <1>5, <1>6 DEF Part
<1>8. Outlined(<< <<b>> >>, DOMAIN Lines, S)
  BY <1>7, OutlinedSingle
<1>9. QED
  BY <1>1, <1>8

-----------------------------------------------------------------------------
(* The embedder                                                            *)

LEMMA PlacesAgain ==
    ASSUME NEW n \in Nat, NEW m \in Nat, n <= m
    PROVE  Places(1, n) \o Places(n + 1, m) = Places(1, m) /\ Len(Places(1, m)) = m
<1> DEFINE s == [i \in 1..n |-> i]
           t == [i \in 1..m - n |-> n + i]
           r == [i \in 1..m |-> i]
<1>1. Places(1, n) = s
  <2>1. n - 1 + 1 = n /\ \A i \in 1..n : 1 + i - 1 = i
    OBVIOUS
  <2>2. QED
    BY <2>1 DEF Places
<1>2. Places(n + 1, m) = t
  <2>1. m - (n + 1) + 1 = m - n /\ \A i \in 1..m - n : (n + 1) + i - 1 = n + i
    OBVIOUS
  <2>2. QED
    BY <2>1 DEF Places
<1>3. Places(1, m) = r
  <2>1. m - 1 + 1 = m /\ \A i \in 1..m : 1 + i - 1 = i
    OBVIOUS
  <2>2. QED
    BY <2>1 DEF Places
<1>4. PICK d \in Nat : d = m - n
  OBVIOUS
<1>5. s \in Seq(Nat) /\ Len(s) = n /\ \A i \in 1..n : s[i] = i
  OBVIOUS
<1>6. t \in Seq(Nat) /\ Len(t) = d /\ \A i \in 1..d : t[i] = n + i
  BY <1>4
<1>7. r \in Seq(Nat) /\ Len(r) = m /\ \A i \in 1..m : r[i] = i
  OBVIOUS
<1> HIDE DEF s, t, r
<1>8. /\ s \o t \in Seq(Nat) /\ Len(s \o t) = n + d
      /\ \A i \in 1..n + d : (s \o t)[i] = IF i <= n THEN s[i] ELSE t[i - n]
  BY <1>5, <1>6, ConcatProperties
<1>9. n + d = m
  BY <1>4
<1>10. ASSUME NEW i \in 1..m PROVE (s \o t)[i] = r[i]
  <2>1. CASE i <= n
    BY <1>5, <1>7, <1>8, <1>9, <2>1
  <2>2. CASE ~(i <= n)
    <3>1. i - n \in 1..d /\ n + (i - n) = i
      BY <1>4, <2>2
    <3>2. t[i - n] = i
      BY <1>6, <3>1
    <3>3. QED
      BY <1>7, <1>8, <1>9, <2>2, <3>2
  <2>3. QED
    BY <2>1, <2>2
<1>11. s \o t = r
  BY <1>7, <1>8, <1>9, <1>10, SeqEqual
<1>12. QED
  BY <1>1, <1>2, <1>3, <1>7, <1>11

-----------------------------------------------------------------------------
(* The pipeline                                                            *)

\* The lines that are to be in the chunks: what is wanted, or all but the pictures if the
\* fallback has read the pages.
Due(S) == S = Wanted \/ (paper.fallback /\ S = Unpictured)

\* All that is due is in the sections.
Whole(secs) == \E S : Due(S) /\ Outlined(secs, DOMAIN Lines, S)

\* The children have what is due, and each is listed by its parent.
Handed(cs, ps) ==
    /\ \E A : Chunked(cs, A, DOMAIN ps) /\ Due(A \cap But(Empty))
    /\ \A c \in DOMAIN cs : {p \in DOMAIN ps : c \in ps[p].childIds} = {cs[c].parent}

\* Vectors stand for the first of the children, in their order.
Embedding(vs, cs) == cs \in Seq(Children) /\ Len(vs) \in 0..Len(cs) /\ vs = Places(1, Len(vs))

\* What each step of the pipeline finds: an outline to chunk, children to embed,
\* and the vectors of the first of them.
TextInv ==
    /\ paper \in Papers
    /\ parsing \in {"parse", "chunk", "embed", "embedded", "failed"}
    /\ parsing \in {"parse", "chunk"} => vectors = <<>>
    /\ parsing = "parse" /\ paper.format = "image" =>
          pagesRead \in 0..Stretches /\ Outlined(sections, Read(pagesRead), Wanted)
    /\ parsing = "chunk" => Whole(sections)
    /\ parsing \in {"embed", "embedded"} => Handed(children, chapters) /\ Embedding(vectors, children)
    /\ parsing = "embedded" => Len(vectors) = Len(children)

\* What is true of a file stays true of it.
LEMMA SamePaper ==
    ASSUME paper' = paper
    PROVE  /\ Lines' = Lines /\ Wanted' = Wanted /\ Stretches' = Stretches /\ Unpictured' = Unpictured
           /\ \A K : But(K)' = But(K)
           /\ \A S : Due(S)' <=> Due(S)
<1>1. Lines' = Lines
  BY DEF Lines
<1>2. Stretches' = Stretches
  BY <1>1 DEF Stretches
<1>3. \A K : But(K)' = But(K)
  BY <1>1 DEF But
<1>4. Wanted' = Wanted
  BY DEF Wanted, Lines, Stretch, Before
<1>5. Unpictured' = Unpictured
  BY <1>1, <1>4 DEF Unpictured
<1>6. \A S : Due(S)' <=> Due(S)
  BY <1>4, <1>5 DEF Due
<1>7. QED
  BY <1>1, <1>2, <1>3, <1>4, <1>5, <1>6

LEMMA SameChars == ASSUME paper' = paper, NEW p PROVE Chars(p)' = Chars(p)
<1>1. \A x : Length(x)' = Length(x)
  BY DEF Length, Lines
<1>2. QED
  BY <1>1 DEF Chars

LEMMA SameBlocksChars == ASSUME paper' = paper, NEW bs PROVE BlocksChars(bs)' = BlocksChars(bs)
<1>1. \A p : Chars(p)' = Chars(p)
  BY SameChars
<1>2. QED
  BY <1>1 DEF BlocksChars

\* An outline speaks of the lines of the paper and of nothing else that changes.
LEMMA SameOutlined ==
    ASSUME paper' = paper, NEW secs, NEW R, NEW S
    PROVE  Outlined(secs, R, S)' <=> Outlined(secs, R, S)
<1>1. Lines' = Lines
  BY SamePaper
<1>2. QED
  BY <1>1 DEF Outlined

LEMMA SameChunked ==
    ASSUME paper' = paper, NEW cs, NEW A, NEW M
    PROVE  Chunked(cs, A, M)' <=> Chunked(cs, A, M)
<1>1. Lines' = Lines
  BY SamePaper
<1>2. \A p : Chars(p)' = Chars(p)
  BY SameChars
<1>3. \A bs : BlocksChars(bs)' = BlocksChars(bs)
  BY SameBlocksChars
<1>4. \A bs : Tight(bs)' <=> Tight(bs)
  BY <1>2, <1>3 DEF Tight
<1>5. \A c : Made(c)' <=> Made(c)
  BY <1>4 DEF Made
<1>6. \A b, c : Neighbours(b, c)' <=> Neighbours(b, c)
  BY <1>2, <1>3 DEF Neighbours
<1>7. QED
  BY <1>1, <1>5, <1>6 DEF Chunked

\* The invariant holds at first, and each step keeps it.
LEMMA TextStarts == TextInit => TextInv
<1> SUFFICES ASSUME TextInit PROVE TextInv
  OBVIOUS
<1>1. paper \in Papers /\ parsing = "parse" /\ pagesRead = 0 /\ sections = <<>> /\ vectors = <<>>
  BY DEF TextInit
<1>2. Read(0) = {} /\ 0 \in 0..Stretches
  BY <1>1, ReadEmpty, StretchesAre
<1>3. Outlined(<<>>, {}, Wanted)
  BY OutlinedEmpty
<1>4. QED
  BY <1>1, <1>2, <1>3 DEF TextInv

LEMMA ParseTextKeeps == TextInv /\ ParseText => TextInv'
<1> SUFFICES ASSUME TextInv, ParseText PROVE TextInv'
  OBVIOUS
<1>1. /\ parsing = "parse" /\ paper.format # "image" /\ sections' = Extract /\ parsing' = "chunk"
      /\ paper' = paper /\ vectors' = vectors
  BY DEF ParseText, Goes
<1>2. paper \in Papers /\ vectors = <<>>
  BY <1>1 DEF TextInv
<1>3. PICK secs, D, S : secs = Extract /\ D = DOMAIN Lines /\ S = Wanted
  OBVIOUS
<1>4. Outlined(secs, D, S)
  BY <1>1, <1>2, <1>3, ExtractOutlined
<1>5. Outlined(secs, D, S)' /\ D = DOMAIN Lines' /\ Due(S)'
  BY <1>1, <1>3, <1>4, SamePaper, SameOutlined DEF Due
<1>6. Whole(sections)'
  BY <1>1, <1>3, <1>5 DEF Whole
<1>7. QED
  BY <1>1, <1>2, <1>6 DEF TextInv

LEMMA ReadPageKeeps == TextInv /\ ReadPage => TextInv'
<1> SUFFICES ASSUME TextInv, ReadPage PROVE TextInv'
  OBVIOUS
<1>1. /\ parsing = "parse" /\ paper.format = "image" /\ pagesRead < Stretches /\ pagesRead' = pagesRead + 1
      /\ sections' = sections \o Nonempty(<<BoxBlocks(Stretch(pagesRead + 1))>>)
      /\ paper' = paper /\ parsing' = parsing /\ vectors' = vectors
  BY DEF ReadPage
<1>2. paper \in Papers /\ vectors = <<>> /\ pagesRead \in 0..Stretches /\ Outlined(sections, Read(pagesRead), Wanted)
  BY <1>1 DEF TextInv
<1>3. pagesRead \in Nat /\ pagesRead + 1 \in 0..Stretches
  BY <1>1, <1>2, StretchesAre
<1>4. PICK secs, R, S : secs = sections' /\ R = Read(pagesRead + 1) /\ S = Wanted
  OBVIOUS
<1>5. Outlined(secs, R, S)
  BY <1>1, <1>2, <1>3, <1>4, PageRead
<1>6. Outlined(secs, R, S)' /\ S = Wanted' /\ Stretches' = Stretches
  BY <1>1, <1>4, <1>5, SamePaper, SameOutlined
<1>7. R = Read(pagesRead)'
  BY <1>1, <1>4, SamePaper DEF Read
<1>8. Outlined(sections, Read(pagesRead), Wanted)'
  BY <1>4, <1>6, <1>7
<1>9. QED
  BY <1>1, <1>2, <1>3, <1>6, <1>8 DEF TextInv

LEMMA PagesDoneKeeps == TextInv /\ PagesDone => TextInv'
<1> SUFFICES ASSUME TextInv, PagesDone PROVE TextInv'
  OBVIOUS
<1>1. /\ parsing = "parse" /\ paper.format = "image" /\ pagesRead = Stretches /\ parsing' = "chunk"
      /\ sections' = sections /\ paper' = paper /\ vectors' = vectors
  BY DEF PagesDone, Goes
<1>2. paper \in Papers /\ vectors = <<>> /\ Outlined(sections, Read(pagesRead), Wanted)
  BY <1>1 DEF TextInv
<1>3. Outlined(sections, DOMAIN Lines, Wanted)
  BY <1>1, <1>2, ReadAll
<1>4. PICK secs, D, S : secs = sections /\ D = DOMAIN Lines /\ S = Wanted
  OBVIOUS
<1>5. Outlined(secs, D, S)
  BY <1>3, <1>4
<1>6. Outlined(secs, D, S)' /\ D = DOMAIN Lines' /\ Due(S)'
  BY <1>1, <1>4, <1>5, SamePaper, SameOutlined DEF Due
<1>7. Whole(sections)'
  BY <1>1, <1>4, <1>6 DEF Whole
<1>8. QED
  BY <1>1, <1>2, <1>7 DEF TextInv

LEMMA FallBackKeeps == TextInv /\ FallBack => TextInv'
<1> SUFFICES ASSUME TextInv, FallBack PROVE TextInv'
  OBVIOUS
<1>1. PICK read : read = Only(Places(1, Len(Lines)), But(Empty \cup {"figure", "unknown"}))
  OBVIOUS
<1>2. /\ parsing = "parse" /\ paper.format = "image" /\ paper.fallback
      /\ sections' = IF read = <<>> THEN <<>> ELSE <<<<Block("text", read)>>>>
      /\ parsing' = IF read = <<>> THEN "failed" ELSE "chunk"
      /\ paper' = paper /\ vectors' = vectors
  BY <1>1 DEF FallBack, VisualFails, Goes
<1>3. paper \in Papers /\ vectors = <<>>
  BY <1>2 DEF TextInv
<1>4. CASE read = <<>>
  BY <1>2, <1>3, <1>4 DEF TextInv
<1>5. CASE read # <<>>
  <2>1. PICK secs, D, S : secs = <<<<Block("text", read)>>>> /\ D = DOMAIN Lines /\ S = Unpictured
    OBVIOUS
  <2>2. Outlined(secs, D, S)
    BY <1>1, <1>2, <1>3, <1>5, <2>1, FallBackOutlined
  <2>3. Outlined(secs, D, S)' /\ D = DOMAIN Lines' /\ Due(S)'
    BY <1>2, <2>1, <2>2, SamePaper, SameOutlined DEF Due
  <2>4. Whole(sections)'
    BY <1>2, <1>5, <2>1, <2>3 DEF Whole
  <2>5. QED
    BY <1>2, <1>3, <1>5, <2>4 DEF TextInv
<1>6. QED
  BY <1>4, <1>5

LEMMA FailuresKeep == TextInv /\ (ParseFails \/ EmbedFails) => TextInv'
  BY DEF TextInv, ParseFails, EmbedFails, Goes

LEMMA ChunkKeeps == TextInv /\ ChunkParsedDoc => TextInv'
<1> SUFFICES ASSUME TextInv, ChunkParsedDoc PROVE TextInv'
  OBVIOUS
<1>1. PICK seqs, cs, ps, A, M : /\ seqs = [n \in DOMAIN sections |-> SplitSection(n)]
                                /\ cs = children' /\ ps = chapters'
                                /\ A = Throughout(sections) /\ M = DOMAIN sections
  OBVIOUS
<1>2. /\ parsing = "chunk" /\ cs = FlattenSeq(seqs)
      /\ parsing' = IF cs = <<>> THEN "embedded" ELSE "embed"
      /\ paper' = paper /\ vectors' = vectors
  BY <1>1 DEF ChunkParsedDoc, Goes
<1>3. ps = [n \in M |-> [childIds |-> {c \in DOMAIN cs : cs[c].parent = n},
                         cut |-> BlocksChars(sections[n]) > ParentMax]]
  BY <1>1 DEF ChunkParsedDoc
<1>4. paper \in Papers /\ vectors = <<>> /\ Whole(sections)
  BY <1>2 DEF TextInv
<1>5. PICK S : Due(S) /\ Outlined(sections, DOMAIN Lines, S)
  BY <1>4 DEF Whole
<1>6. Split(seqs, sections) /\ InSections(sections)
  BY <1>1, <1>5 DEF Split, Outlined
<1>7. Chunked(cs, A, M)
  BY <1>1, <1>2, <1>6, SectionsSplit
<1>8. A \cap But(Empty) = S
  <2>1. \A i \in S : i \in DOMAIN Lines /\ Lines[i] \notin Empty
    BY <1>4, <1>5, WantedIsWritten DEF Due, Unpictured, WantedIs
  <2>2. \A x : x \in A <=> \E n \in 1..Len(sections) : x \in AllOf(sections[n])
    BY <1>1 DEF Throughout
  <2>3. ASSUME NEW x PROVE x \in A /\ x \in DOMAIN Lines /\ Lines[x] \notin Empty <=> x \in S
    BY <1>5, <2>1, <2>2 DEF Outlined
  <2>4. QED
    BY <2>3 DEF But
<1>9. DOMAIN ps = M /\ \A n \in M : ps[n].childIds = {c \in DOMAIN cs : cs[c].parent = n}
  BY <1>3
<1>10. cs \in Seq(Children) /\ Len(cs) \in Nat /\ DOMAIN cs = 1..Len(cs)
  BY <1>7, LenProperties DEF Chunked
<1>11. ASSUME NEW c \in DOMAIN cs PROVE {p \in DOMAIN ps : c \in ps[p].childIds} = {cs[c].parent}
  <2>1. cs[c].parent \in M
    BY <1>7, <1>10 DEF Chunked
  <2>2. QED
    BY <1>9, <2>1
<1>12. Chunked(cs, A, M)' /\ (A \cap But(Empty))' = S /\ Due(S)'
  <2>1. Chunked(cs, A, M)'
    BY <1>2, <1>7, SameChunked
  <2>2. But(Empty)' = But(Empty) /\ Due(S)'
    BY <1>2, <1>5, SamePaper DEF Empty
  <2>3. QED
    BY <1>8, <2>1, <2>2
<1>13. \E B : (Chunked(cs, B, DOMAIN ps) /\ Due(B \cap But(Empty)))'
  BY <1>9, <1>12
<1>14. Handed(children, chapters)'
  BY <1>1, <1>11, <1>13 DEF Handed
<1>15. <<>> = Places(1, 0) /\ Len(<<>>) = 0
  <2>1. 1..0 - 1 + 1 = {}
    OBVIOUS
  <2>2. QED
    BY <2>1, EmptySeq DEF Places
<1>16. Embedding(vectors, children)'
  BY <1>1, <1>2, <1>4, <1>10, <1>15 DEF Embedding
<1>17. cs = <<>> => Len(vectors') = Len(children')
  BY <1>1, <1>2, <1>4
<1>18. QED
  BY <1>1, <1>2, <1>4, <1>14, <1>16, <1>17 DEF TextInv

LEMMA EmbedKeeps == TextInv /\ EmbedBatch => TextInv'
<1> SUFFICES ASSUME TextInv, EmbedBatch PROVE TextInv'
  OBVIOUS
<1>1. PICK n, N, m : /\ n = Len(vectors) /\ N = Len(children)
                     /\ m = IF n + BatchSize < N THEN n + BatchSize ELSE N
  OBVIOUS
<1>2. /\ parsing = "embed" /\ vectors' = vectors \o Places(n + 1, m)
      /\ parsing' = IF Len(vectors') = N THEN "embedded" ELSE "embed"
      /\ paper' = paper /\ chapters' = chapters /\ children' = children
  BY <1>1 DEF EmbedBatch, Goes
<1>3. paper \in Papers /\ Handed(children, chapters) /\ Embedding(vectors, children)
  BY <1>2 DEF TextInv
<1>4. children \in Seq(Children) /\ n \in 0..N /\ vectors = Places(1, n)
  BY <1>1, <1>3 DEF Embedding
<1>5. N \in Nat /\ n \in Nat /\ n <= N /\ BatchSize \in Nat
  BY <1>1, <1>4, LenProperties, TextAssumption
<1>6. m \in Nat /\ n <= m /\ m <= N
  BY <1>1, <1>5
<1>7. vectors' = Places(1, m) /\ Len(Places(1, m)) = m
  BY <1>2, <1>4, <1>5, <1>6, PlacesAgain
<1>15. PICK vs, ks : vs = vectors' /\ ks = children'
  OBVIOUS
<1>16. Len(vs) = m /\ vs = Places(1, Len(vs)) /\ ks \in Seq(Children) /\ Len(ks) = N
  BY <1>1, <1>2, <1>4, <1>7, <1>15
<1>17. Len(vs) \in 0..Len(ks)
  BY <1>5, <1>6, <1>16
<1>8. Embedding(vectors, children)'
  BY <1>15, <1>16, <1>17 DEF Embedding
<1>9. PICK cs, ps : cs = children /\ ps = chapters
  OBVIOUS
<1>10. Handed(cs, ps)
  BY <1>3, <1>9
<1>11. PICK A : Chunked(cs, A, DOMAIN ps) /\ Due(A \cap But(Empty))
  BY <1>10 DEF Handed
<1>12. Chunked(cs, A, DOMAIN ps)' /\ Due(A \cap But(Empty))'
  <2>1. PICK M, S : M = DOMAIN ps /\ S = A \cap But(Empty)
    OBVIOUS
  <2>2. Chunked(cs, A, M)' /\ Due(S)' /\ S = (A \cap But(Empty))'
    BY <1>2, <1>11, <2>1, SameChunked, SamePaper DEF Empty
  <2>3. QED
    BY <2>1, <2>2
<1>13. Handed(children, chapters)'
  BY <1>2, <1>9, <1>10, <1>12 DEF Handed
<1>14. QED
  BY <1>1, <1>2, <1>3, <1>8, <1>13 DEF TextInv

LEMMA TextInductive == TextInv /\ [TextNext]_textVars => TextInv'
<1> SUFFICES ASSUME TextInv, [TextNext]_textVars PROVE TextInv'
  OBVIOUS
<1>1. CASE ParseText
  BY <1>1, ParseTextKeeps
<1>2. CASE ReadPage
  BY <1>2, ReadPageKeeps
<1>3. CASE PagesDone
  BY <1>3, PagesDoneKeeps
<1>4. CASE FallBack
  BY <1>4, FallBackKeeps
<1>5. CASE ParseFails \/ EmbedFails
  BY <1>5, FailuresKeep
<1>6. CASE ChunkParsedDoc
  BY <1>6, ChunkKeeps
<1>7. CASE EmbedBatch
  BY <1>7, EmbedKeeps
<1>8. CASE UNCHANGED textVars
  <2>1. /\ paper' = paper /\ parsing' = parsing /\ pagesRead' = pagesRead /\ sections' = sections
        /\ chapters' = chapters /\ children' = children /\ vectors' = vectors
    BY <1>8 DEF textVars
  <2>2. PICK secs, cs, ps, R, D, W : /\ secs = sections /\ cs = children /\ ps = chapters /\ R = Read(pagesRead)
                                     /\ D = DOMAIN Lines /\ W = Wanted
    OBVIOUS
  <2>3. R = Read(pagesRead)' /\ D = DOMAIN Lines' /\ W = Wanted' /\ Stretches' = Stretches
    BY <2>1, <2>2, SamePaper DEF Read
  <2>4. Outlined(sections, Read(pagesRead), Wanted) => Outlined(sections, Read(pagesRead), Wanted)'
    <3>1. Outlined(secs, R, W) => Outlined(secs, R, W)'
      BY <2>1, SameOutlined
    <3>2. QED
      BY <2>1, <2>2, <2>3, <3>1
  <2>5. Whole(sections) => Whole(sections)'
    <3>1. ASSUME NEW S, Due(S), Outlined(secs, D, S) PROVE Due(S)' /\ Outlined(secs, D, S)'
      BY <2>1, <3>1, SamePaper, SameOutlined
    <3>2. QED
      BY <2>1, <2>2, <2>3, <3>1 DEF Whole
  <2>6. Handed(children, chapters) => Handed(children, chapters)'
    <3>1. ASSUME NEW A, Chunked(cs, A, DOMAIN ps), Due(A \cap But(Empty))
          PROVE  Chunked(cs, A, DOMAIN ps)' /\ Due(A \cap But(Empty))'
      <4>1. PICK M, S : M = DOMAIN ps /\ S = A \cap But(Empty)
        OBVIOUS
      <4>2. Chunked(cs, A, M)' /\ Due(S)' /\ S = (A \cap But(Empty))'
        BY <2>1, <3>1, <4>1, SameChunked, SamePaper DEF Empty
      <4>3. QED
        BY <4>1, <4>2
    <3>2. QED
      BY <2>1, <2>2, <3>1 DEF Handed
  <2>7. QED
    BY <2>1, <2>3, <2>4, <2>5, <2>6 DEF TextInv, Embedding
<1>9. QED
  BY <1>1, <1>2, <1>3, <1>4, <1>5, <1>6, <1>7, <1>8 DEF TextNext

\* At the end, what is handed over is what was written.
LEMMA TextMeaning == TextInv => TextSound
<1> SUFFICES ASSUME TextInv, parsing = "embedded" PROVE TextSound
  BY DEF TextSound, EverythingOnce, ChildrenFillBudget, HandedOnWhole
<1>1. paper \in Papers /\ Handed(children, chapters) /\ Embedding(vectors, children) /\ Len(vectors) = Len(children)
  BY DEF TextInv
<1>2. PICK A : Chunked(children, A, DOMAIN chapters) /\ Due(A \cap But(Empty))
  BY <1>1 DEF Handed
<1>3. PICK all, S : all = AllPlaces /\ S = A \cap But(Empty)
  OBVIOUS
<1>4. Lists(all, S) /\ Due(S)
  BY <1>2, <1>3, AllPlacesAre
<1>5. Range(all) = S /\ all \in Seq(Nat) /\ Len(all) \in Nat
  BY <1>4, ListsNumbers, LenProperties DEF Lists
<1>6. \A k \in 1..Len(all) - 1 : all[k] < all[k + 1]
  <2>1. TAKE k \in 1..Len(all) - 1
  <2>2. k \in 1..Len(all) /\ k + 1 \in 1..Len(all) /\ k < k + 1
    BY <1>5
  <2>3. QED
    BY <1>4, <2>2 DEF Lists, Rising
<1>7. EverythingOnce
  BY <1>3, <1>4, <1>5, <1>6 DEF EverythingOnce, Due, Unpictured
<1>8. ChildrenFillBudget
  BY <1>2, ChildrenFill
<1>9. HandedOnWhole
  BY <1>1 DEF HandedOnWhole, Handed, Embedding
<1>10. QED
  BY <1>7, <1>8, <1>9 DEF TextSound

\* For any papers and budgets, the chunks and vectors of a document hold what is wanted of
\* the file once and in its order (the tables of a Word file are not, and the fallback
\* leaves the pictures out), the texts of a child exceed the budget only where one block
\* does, the next block of its section would not have fitted in, of whatever kind of prose,
\* and every vector is its child's and every child its parent's.
THEOREM FilesStaySound == TextSpec => []TextSound
<1>1. TextSpec => []TextInv
  BY TextStarts, TextInductive, PTL DEF TextSpec
<1>2. QED
  BY <1>1, TextMeaning, PTL

==============================================================================
