# A formal model of the agentic RAG service

TLA+ modules that model the stateful parts of this repository, TLC
configurations that check them on small instances, and proofs, checked by the
TLA+ proof system, that hold for every instance. Paths are relative to the
repository; `backend/` stands for `src/agentic_rag_project/`.

    tlc -config AuditPipeline.cfg AuditBufferMC.tla
    tlapm AuditBufferProofs.tla

## 1. The system

A FastAPI process answers questions over documents. Its endpoints are
synchronous functions, run in a pool of threads. Celery workers ingest documents
and run periodic jobs. State is in PostgreSQL (users, documents, messages,
feedback, audit rows), Qdrant (vectors), Redis (the Celery broker, the audit
buffer, histories, the sensitive words) and files.

| component | code | state | operations | what makes it hard | what makes it correct |
|---|---|---|---|---|---|
| Audit pipeline | `audit/`, migrations 0011 and 0017 | Redis lists `audit:buffer`, `audit:buffer:dead`; table `audit_logs` | `record`, `flush_buffer`, `_dead_letter` | overlapping flushes, failures between two Redis calls, killed workers, refused rows | nothing is dropped, nothing is stored twice, an outage ends, order |
| Feedback | `feedback/`, `api_gateway/feedback_router.py` | feedback, ticket and attribution rows | `submit`, ticket transitions | the same pair submitted again or twice at once, a failure after several statements, lost commit replies | rows of a pair belong together, tickets move legally, audit after commit |
| Feedback attribution | `feedback/attributor.py`, `conflict.py`, `cutoff.py`, `scope.py` | none | `attribute` | order of the rules, missing scores | one verdict, on evidence |
| Document ingestion | `api_gateway/documents_router.py`, `doc_processor/tasks.py`, `indexer.py`, `storage.py` | files, `documents.status`, Celery queue, Qdrant points, chunk rows | upload, `parse_document_task`, `index` | two stores without a common transaction, retry, redelivery, lost workers | ready means indexed, every accepted document ends ready or failed |
| Parsing, chunking, embedding | `doc_processor/parser.py`, `chunker.py`, `embedder.py`, `visual_router.py`, `text_extractors/` | none beyond one call | extract, route, chunk, embed | buffers flushed at every change of kind, budgets, a fallback that starts over | which lines are lost and no other, none doubled, vectors belong to their chunks |
| Agent loop | `agent_core/runner.py`, `nodes.py`, `state.py` | one turn's `AgentState` | `run` and the five nodes | a model that may answer anything, an index that goes forth and back | termination within the bound, nothing repeated or skipped |
| Agent graph, tools | `agent_core/graph.py`, `tools.py` | a cache | the LangGraph variant of the loop, `run_retrieval` | agreement with the runner | same turns |
| Chat service | `chat/chat_service.py`, `api_gateway/chat_router.py`, `post_processor/mask.py` | one `ChatService` and one `Masker` for all threads; messages; the gauge of active sessions | `handle`, `post_chat_query` | threads that share objects, errors on every way out | a request uses its own filter and redactions, messages are stored iff committed |
| Conversation memory | `retrieval_direct/memory.py` | one Redis key per conversation | `append_turn`, `clear`, `load_history` | read-modify-write without a lock, expiry | order of turns, the prompt within its budget |
| Retrieval | `retrieval_direct/` | Qdrant collections (read) | two-stage search, long-context fallback, citations | children and parents under one filter, fallbacks | only permitted evidence, citations that exist, budgets |
| Permission filter, RBAC, authentication | `acl_filter/`, `rbac/`, `api_gateway/dependencies.py`, `jwt.py`, `services/` | users, roles, workspaces, assignments, tokens | seed, assign, revoke, disable, delete, log in; resolve a request | start-ups at the same time, checks and commits far apart, a context read in several statements | the seed is atomic, revoked stays revoked, nobody finds foreign documents |
| Sensitive words | `post_processor/filter.py`, `sensitive_sync.py` | word table, a Redis key, a trie per process | `sensitive_sync`, `find_first`, `find_all` | three copies of the list, a commit after the push, a scan that does not go back | copies converge, no false alarm |
| Query router, guardrail | `router/`, `query_guardrail/` | none | decision functions | order of the rules | what is refused is not answered |
| Drift detector | `drift/` | `drift_events` rows | one pass | one transaction for a whole pass, failing statements | what is stored is counted, no triple is skipped unseen |
| Database schema | `db/migrations/`, `db/models/` | tables, constraints, write-once rules, rows | upgrade, downgrade by revision; deletion of a row | backfills, downgrades that take back, write-once rules against foreign keys | the head fits the models, rows refer to rows |
| Observability, evaluation, administration and profile endpoints, web front end | the rest | counters, reports, pages | | | not modelled, see section 8 |

How they interact: the chat endpoint calls the guardrail, `ChatService.handle`,
and through it the permission filter, the router, retrieval or the agent loop,
the word filter and the masker; endpoints hand audit events to the audit
pipeline; uploads reach the worker through the broker; feedback refers to stored
messages. All these calls are synchronous except the two that go through Redis
(audit buffer, Celery). Every API process seeds the tables when it starts.

## 2. Modules

| module | models | theorems in |
|---|---|---|
| `AuditLedger` | what the audit pipeline promises: a status per event | |
| `AuditBuffer` | the audit pipeline, step by step; implements `AuditLedger` | `AuditBufferProofs` |
| `Feedback` | submissions, the ticket state machine, the three tables | `FeedbackProofs` |
| `AttributionRules` | the cascade that says why an answer was disliked | `ServicesProofs` |
| `DocIngest` | upload, broker, workers, the two stores | `DocIngestProofs` |
| `DocText` | from a file to embedded chunks | `DocIngestProofs` |
| `AgentLoop` | one turn of the agent | `ServicesProofs` |
| `ChatRequests` | overlapping chat requests over the shared service | `ChatRequestsProofs` |
| `QueryPath` | one question: guardrail, route, search under the filter, answer, citations | `ServicesProofs` |
| `ConversationMemory` | overlapping appends, and the prompts cut to a budget | `ServicesProofs` |
| `AccessControl` | start-up, administration, resolution of a request, its filter | `AccessControlProofs` |
| `SensitiveWords` | the trie, and the word list's way to Redis and the processes | `ServicesProofs` |
| `DriftDetector` | one pass, its windows and its severity | `ServicesProofs` |
| `SchemaMigrations` | every migration, the models, rows that survive both | `SchemaProofs` |
| `QueueLemmas` | facts about sequences, and the induction along one, that the other proof modules rest on | itself |
| `*MC` | model values, values of constants, and the union of section 3 | |

Every module with constants names what it assumes of them. Definitions whose
comment begins with "Mutant" are no part of the model: each is a variant of the
definition after it, with a plausible mistake, and each property was seen to fail
when its mutant takes that definition's place. A property that a run checks is
often a conjunction of named parts (`StoresAgree` is `ReadyIsIndexed`,
`RowsAreSearchable` and `DocumentHasFile`): each part is stated and commented where
it is defined, above the conjunction.

### AuditBuffer

`record()` is `Record`, or `RecordWithoutRedis` when LPUSH raises: the push may
have taken effect all the same, and `_sync_insert` may fail too. One execution
of `flush_buffer()` is a flusher that goes through `popping`, `preflight`,
`insert` and perhaps `requeue` or `deadletter`; each call of Redis or PostgreSQL
is one step (`RPop`, `Preflight`, `BulkInsert`, `Requeue`, `DeadLetter`, ...) with
its failures beside it. Flushers are many because Celery beat starts a flush
every five seconds, whether or not the last one is over. `Crash` is a killed
worker; the redelivered task is a flusher that starts afresh. Rows the database
refuses are constants: `IntegrityRows` (CHECK, foreign key), `DataRows` (values
it cannot take) and `Orphans` (vanished actors). `faults` counts failures by
kind, and properties say under which kinds they hold.

`AuditLedger` has one variable, the status of every event: new, pending, stored,
dead or lost. `AuditBuffer!StatusOf` is the refinement mapping: an event with a
row is stored, else one in the dead-letter list is dead, else one in the buffer
or with a flusher is pending, else it is lost.

### Feedback

A submission is one request with one transaction. `work[r]` holds the rows of
its pair as its transaction sees them, `db[p]` the committed ones; a submission
that holds its pair's row keeps the others of the pair waiting (PostgreSQL's
unique index on the pair, or its row lock). The actions follow `_submit_impl`:
`CreateFeedback`, `CreateTicket` (or `CreateTicketRefused`), `QueueTicket`,
`SkipAttribution` / `AttributionFails` / `Attribute`, `RouteTicket`; then
`Commit` of `submit()` and `RecordAudit` of the route. `StatementFails` is an
exception at any statement, the commit included (before or after it took
effect); `Killed` is the end of the process.

### DocIngest

`upload` follows the request (`SaveUpload`, `InsertDocument`, `EnqueueParse`),
`pc` and `job` follow each worker: `Take`, `BeginProcessing`, `Parse` (reading the
file, chunking and embedding in one step), `Upsert` once per batch,
`InsertRows`, `MarkReady`; after an exception `HandleError`, `MarkFailed`, `Retry`;
then `Ack`. Messages are counted per document and number of retries. A lost
worker's message returns (`WorkerLost`), and the broker may deliver a message
again while its task runs (`VisibilityTimeout`). Points and rows carry the number
of the execution that wrote them, since every execution draws new chunk ids.

### AgentLoop

One action per node and per decision of `AgentRunner.run`. The model's answers
are choices: any number of sub-queries up to the limit, any decision at each
reflection, and each call may raise. Sub-queries are numbers that say when they
were written, so that a rewrite is told apart from what it replaces.

### ChatRequests

Each request goes through the steps between which another thread may run: the
guardrail, the gauge, the user's message, `StashFilter` (assignment of
`self._acl_filter`), `Search` (its use), `Mask`, `ReadSummary`, `Persist`, `Commit`.
A filter and a summary are represented by the request they belong to. `met` is a
history variable: with whom a request was inside `handle()`.

### AccessControl

The tables are functions from ids to rows, and `user_roles` a set of triples.
Each worker goes through `lifespan()` of `main.py`: roles, admin account and demo
data, each a transaction that looks up (`LookUp*`) and then writes (`Seed*`) or is
refused because another process wrote in between, which ends the process.
Administration follows `rbac/assignments.py`, `roles.py` and `status.py`;
`assign_role` is three steps, since its checks, its commit and its audit event
can be apart. A request is resolved as in `_resolve_user_context()`: token, user
row, roles, each of which sees what is committed by then; `Search` applies
`build_user_filter()`, whose query of ACL rows may fail. `ever` and `revoked`
are history variables. The constant `SystemCheck` says whether the CHECK of
migration 0001 is in force: it is on migrated tables, and not on those
`create_all` makes from the ORM classes.

### QueryPath

One question through `post_chat_query`: guardrail, conversation, route, the
stages of the search under the caller's filter, the agent as a few rounds of the
same search, the long-context fallback, the answer's filters and the stored
citations. A question is the set of facts the checks look for; a search returns
any selection of its size from the points that match.

### DocText

`process_document` on a file of lines, each known by what it is: one extractor per
format (`Extract*`), the router of page images with its OCR fallback, chunking into
parents and children with their budgets, embedding in batches. Steps are those at
which the pipeline can fail or start over.

### ConversationMemory, SensitiveWords, DriftDetector

`ConversationMemory` has writers that read the list and later write it back, keys
that expire and are deleted, and the two prompts as functions of what was
appended. `Joined` is the length of the joined documents, separators included,
`Blocks` what the code counts. `SensitiveWords` has the administrator's edit, sync
and commit per process, each of which may fail, and the trie's scan, letter by
letter. The sessions of `db/session.py` have `autoflush=False`, so an edit is one
the caller flushed before the sync or one he did not (`flushed`); `accepted` says
whether `audit_logs` takes the sync's row, which the CHECK of the migrations
forbids. `DriftDetector` lists the workspaces, or fails to, and walks over the
triples of a pass; a failing statement aborts the transaction, whose COMMIT then
rolls back without saying so. The windows, the median and the severity are
functions of a list of samples and of the rows a limited scan returns of it
(`Scans`).

### AttributionRules

The cascade is a function of one disliked answer, and so are the properties: the
state is the answer, chosen at first, and there is no step.

### SchemaMigrations

A database is a record of tables (what an INSERT must do about each column),
foreign keys, audit actions, rules (write-once triggers, and the UNIQUE of 0012)
and rows. Each migration is a pair of operators on it; `Upgrade` and `Downgrade`
move by one revision, `Delete` removes a row under the foreign keys and rules,
`Write` adds one as the current models do. 0005 inserts its preset words, which
are one row here, since nothing tells them apart. The folding of duplicates in
0012 happens nowhere: the statement that deletes them is the one that is refused
(`UpgradeFails`).

## 3. What the runs check

Runs that pass:

| run | module | instance | distinct states | properties |
|---|---|---|---|---|
| `AuditPipeline` | `AuditBufferMC` | 2 flushers, 3 events (ordinary, orphaned, refused), batches of 2, one failure of each kind | 119 thousand | `NothingDroppedByPgOutage`, `NoDuplicateRows`, `PoisonRadius`, `AnonymityRadius`, `ImplementsLedger` (the refinement), `OrderKept`, `EventuallySettled` |
| `DocPipeline` | `DocIngestMC` | 1 document of 2 batches, 2 workers, one failure of each of 7 kinds, two of those the task handles, 3 in all | 209 thousand | `StoresAgree`, `HandledFailureSurfaces`, `DuplicatesPaidFor`, `EventuallySurfaces` |
| `Access` | `AccessControlMC` | 2 processes on an empty database made from the ORM classes, one request, 2 users, 3 built-in roles and a custom one, 3 operations, one kill | 409 thousand | `TablesSound`, `AdministrationStands`, `DeletedLockedOut`, `LimitedToGrants`, `WorkersComeUp` |
| `ChatSafety` | `ChatRequestsMC` | 3 requests, interchangeable | 176 thousand | `GaugeCountsInside`, `ForeignOnlyWhenOverlapping`, `OnlyAnswersAreStored` |
| `Services` | `ServicesMC` | nine components, below | 191 thousand | 19, below |

`Services` is the union of nine components that share no state. The variable
`world` says whose behaviour this is; the others rest in one state of theirs. What
is checked of each is what a run of its own would check:

| world | instance | properties |
|---|---|---|
| `AgentLoop` | the production bounds: 5 iterations, 4 sub-queries | `RetrievalsBounded`, `NothingSearchedTwice`, `CompleteUnlessStopped`, `RequestsEnd` |
| `Feedback` | 3 submissions, two of one pair, 2 failures | `StoredRowsCoherent`, `AuditedStands`, `ErrorLeavesNothing`, `TicketMovesLegally`, `RequestsEnd` |
| `SchemaMigrations` | rows in the tables that refer to each other, one deletion, any sequence of upgrades and downgrades | `SchemaSound`, `AuditRowsStand` |
| `SensitiveWords` | 5 words with common beginnings, 2 processes, 2 edits, every text of up to 4 letters out of 4 | `ListsSound`, `ScanSound` |
| `ConversationMemory` | 2 writers, 4 turns, a window of 2, lines of length 1 and 3, a separator of 2, 5 budgets | `MemorySound` |
| `DriftDetector` | 2 metrics, a workspace and the whole system, with a failure at any; every list of up to 3 samples on both sides of the two bounds of age, some of another metric, a scan of 2 | `PassAccounted`, `AlertSound` |
| `AttributionRules` | every combination of 4 queries, 4 answers, up to 2 of 5 chunks, 5 values per score | `VerdictSound` |
| `QueryPath` | an index of 6 points with a child outside its parent's workspace and one without a parent, 4 filters, 5 questions | `EvidenceIsPermitted` |
| `DocText` | files of every format of up to 5 lines, two lines to a page | `TextSound` |

`ServicesTypeOK` is the type invariant of the nine.

What they show, component by component:

- Audit pipeline. While PostgreSQL fails only by being unreachable, no event is
  dropped. Overlapping and killed flushers insert nothing twice. A row that
  violates a constraint costs the other events of its batch and no more. Each
  failed query of the actors costs the names of one batch at most; otherwise only
  vanished actors lose theirs. Without failures events reach the table in the order they were recorded, except that a
  flusher may overtake another one. As long as nothing but OperationalErrors
  happens, every recorded event is stored or dead-lettered in the end.
- Feedback. Whatever statement fails and whoever submits at the same time, the
  rows of a pair that are committed belong together; what is audited stands; a
  submission that is refused leaves nothing; tickets move along the state
  machine across submissions; nobody waits for ever for a row.
- Document ingestion. A ready document has all its points and rows, a stored
  chunk can be found, a row has its file; with the failures the task handles,
  every accepted document becomes ready or failed. A document that is indexed again
  has a further set of rows, and each of them is paid for by a failure.
- From file to chunks. Every line with a text is in exactly one chunk, in order,
  also when the OCR fallback reads the pages again, except those that `Wanted`
  leaves out one by one: headings that name their section, header rows, pictures
  that only OCR has seen, what stands before the first heading of a Markdown file,
  and the tables of a Word file. Chunks are as large as the budget allows, the
  blank lines between their blocks not counted; each has its own vector and one
  parent.
- Agent loop. A model that answers anything cannot make the turn exceed its bound,
  search a sub-query twice or skip one, and every turn ends.
- Chat requests. The gauge is exact on every way out; the shared filter and
  summary reach other requests only if these overlap with their owner; what is stored belongs to an answered request.
- The path of a question. No stage, fallback or round of the agent brings a chunk
  to the model, to the response or to the stored citations that the filter does
  not admit.
- Access. Start-ups that overlap and are killed leave the tables whole and end;
  the built-in roles cannot be damaged; bindings refer to rows; a removed binding
  stays removed (but for those of the demo data), even if it is assigned and
  removed at once; a request that starts after its user's deletion is never
  resolved; a caller finds only documents of workspaces that the caller was bound
  to at some time, or the caller's own, even if tables change between the
  statements that build the context.
- Sensitive words. A sync that reached Redis, overlapped no other and was committed
  leaves Redis, a filter and the next request with the table's list, but for the
  word its own caller changed and did not flush. On migrated tables, where no sync
  can be committed, a list in Redis is never more than one word off. The scan has no false alarm, and finds
  every word that stands alone. (It may miss a word behind an abandoned partial
  match; that no more is promised is the point of the property's wording.)
- Conversation memory. Overlapping appends may lose turns, but never repeat or
  reorder them; both prompts take what fits and do not waste it, but the long one
  exceeds its budget by up to the separators between its documents.
- Drift. A pass in which statements fail still looks at every triple, unless the
  workspaces cannot be listed, when it skips exactly theirs; it stores no alert it
  does not count, and counts too many only if an insert is refused: those before
  it. A sample is in one window, unless the scan is full; the severity is
  monotonic.
- Attribution. One verdict, of the known categories or an error exactly for a blank
  answer that nothing explains, independent of the order of the chunks, and the
  same as with scores beyond reproach in place of those nobody computed.
- Schema. However a revision is reached, its schema is the same; the head fits the
  models; rows refer to rows after every backfill, downgrade and deletion; backfills
  give old rows what new rows get; audit rows never change.

Runs that end in a counterexample: each checks one statement of a comment,
docstring or test that the code does not keep (`PROJECT.json` quotes the lines).

| run | property | statement | what happens |
|---|---|---|---|
| `AuditRedisLoss` | `TransientErrorsRequeue` | transient errors requeue | the second RPOP raises a RedisError, and the payload of the first is lost |
| `FeedbackResubmit` | `SecondSubmissionUpdates` | a second submission updates | its ticket violates UNIQUE(feedback_id): 500 |
| `DocStuck` | `SecondFailureSurfaces` | the second failure sets failed | not for StorageError, ParserError, EmbedderError, IndexerError |
| `DocDuplicates` | `RerunAddsNoRows` | a second run adds no rows | chunk ids are drawn anew, nothing conflicts |
| `ChatScope` | `ScopedToCaller` | the filter is the caller's for the request's lifetime | an overlapping request replaces it |
| `SchemaFresh` | `EmptyDatabaseUpgrades` | `alembic upgrade head` makes the schema | from an empty database at revision 0 up to 0011; 0012 reads columns that 0014 adds, and is refused |
| `AccessMigrated` | `WorkersComeUp` | the start-up is safe in production | on migrated tables the seed disables a role that a CHECK of 0001 wants enabled: no process comes up |

Passing properties are stated so that these deviations are outside them, and say
so: `NothingDroppedByPgOutage` is about runs without Redis errors,
`EventuallySettled` about pipelines without a row that cannot be taken (it calls
the others `Clogged`), `HandledFailureSurfaces` about exceptions the task handles,
`ForeignOnlyWhenOverlapping` says exactly how far a mix-up can reach, and
`Access` is about tables made from the ORM classes, and `SchemaMigrations` also
starts at 0013, with the schema that 0014 to 0017 describe.

Further disagreements between code and comments, read off the models; no run is
kept for them.

*Audit and feedback*

- a RedisError in the loop that requeues a batch drops the rest of it
  (`audit/service.py:350-355`);
- a batch whose pre-flight query failed is stored without its actors if the
  insert succeeds (`audit/service.py:309`; `AnonymityRadius` counts them);
- "Malformed rows" (`audit/service.py:66-68`) are dead-lettered after an
  IntegrityError only (`:340`); a row refused with another error is requeued for
  ever with its batch (the constant `DataRows` of `AuditBuffer` has such rows);
- a row whose submission is answered skipped keeps the status pending
  (`feedback/service.py:214` against `feedback/repository.py:234-236`);
- `cutoff.py` raises IndexError for an answer that is nothing but white space
  (`VerdictIsKnown` says when exactly); `conflict.py` stops a noun at a space, so that
  two different kinds of leave conflict, and two values in one chunk count as a
  conflict between chunks.

*Documents and retrieval*

- a redelivered task takes a ready document back to processing
  (`doc_processor/tasks.py:92` against `:5-8`);
- the indexer writes child points only, without `is_parent`, `parent_chunk_id` and
  `owner_id`; `two_stage.py:30` says its keys mirror the indexer's payload and
  `chat_service.py:562` speaks of "the flag the indexer sets". Over this index the
  first stage is always empty, the fallback always runs, the long-context route
  is out of reach and the owner's layer of the filter matches nothing;
- the Markdown extractor drops what stands before the first heading, for which
  docx has a preamble section; the tables of a Word file are not among
  `document.paragraphs` and are lost (`docx_text.py:58`); the header of a sheet is
  its first row, be it empty (`xlsx_text.py:6` says the first non-empty one); the
  chunker merges texts, lists and headings where its docstring says the same kind
  (`chunker.py:9`), and does not count the blank lines it joins them with; a single block over the budget (a PDF page)
  is never split; `RapidOCR` is off in the Celery task; `page_count` of the visual
  route counts sections;
- `long_context_fallback` leaves `truncated` unset when the budget is met exactly and
  parents are dropped, does not count the separators it joins them with (`:92-94`
  speaks of the joined text), and its `parents_used` lists parents the prompt has
  not.

*Chat and agent*

- `truncated` is also set when the last iteration completed the plan
  (`agent_core/runner.py:276`); the request's `max_iterations` is never read
  (`agent_core/runner.py:186` against `chat/schema.py:58`); the fallback flag is
  sticky (`agent_core/nodes.py:309` against `agent_core/state.py:103`);
- a response may show the redactions of an overlapping one
  (`chat/chat_service.py:262`);
- the endpoint passes the query on as it came, not the guardrail's
  `sanitized_query` (`chat_router.py:139-174`), and a query with personal data is
  allowed before the rule after it is tried (`checker.py:132` and `:142`);
- hits are appended without deduplication over the rounds, so that citations
  can repeat a chunk; the ids `synthesize_node` cites are dropped; a refused
  answer is returned with its citations;
- nothing calls `ConversationMemory.append_turn`: the history in a prompt is empty.

*Words, roles, drift*

- nothing but tests calls `sensitive_sync()`, against `db/models/sensitive.py:6`, and it
  does not flush: with sessions of `db/session.py:47` a caller who does not either
  publishes the list without his edit; its audit action `sensitive.sync` is
  not in the whitelist of `audit_logs`; the chat service has a filter of its own
  that is never reloaded;
- `seed_demo_data` restores removed demo bindings at every start;
  `_resolve_user_context` does not look at the status of a workspace; of two equal
  `assign_role` calls the second ends in an IntegrityError instead of its answer
  for existing bindings; nothing revokes an API token; the session of a request
  is not committed, so `last_used_at` is lost;
- `func.case(..., else_=...)` raises, so that no csat drift is ever recorded; values of
  one metric are always 1; after a failed query the rest of the pass and its
  commit are lost while the count stands (`detector.py:10-13` and `:153` say that one
  bad query does not abort the tick); a failing list of workspaces skips them all;
  the scan limit applies without an order and before the metric is singled out;
  no baseline looks at the hour of the day (`baseline.py:4`, `detector.py:5`).

*Schema*

- 0005 speaks of 14 default words and inserts 13; the ids of 0012 and 0016 are longer
  than the version column; `feedback_tags.tag_key` is created by no migration; a model still has `score`;
  0014 turns dislikes into likes when taken back and redone; 0012 cannot be taken
  back once later actions were audited, 0015 not with NULL comments; 0011 announces
  partitions it does not create.

## 4. Bounds

Failures are bounded by kind (`MaxFaults`), since a system in which everything
fails for ever makes no progress; one of a kind is enough to hit every step, and
there are two where the second failure matters (the retry of a task). `MaxInAll`
bounds those of all kinds together: three let a task fail, its retry fail, and
one thing go wrong besides; `StoresNeverDisagree` and `HandledFailuresSurface` are
proved for any bounds. That the
number of PostgreSQL outages does not matter is proved (section 6). Two
flushers, workers, writers, processes or requests of a pair are the smallest
number that overlap; `ChatSafety` has three so that a request can meet two others
that never meet each other. In `AuditPipeline` three events and batches of two
give full, partial and mixed batches. One document of two batches lets the loop
over batches be cut in the middle. The agent has the numbers of the code. Three administrative operations suffice to assign, change
what was checked, and remove or delete; the theorems about `AccessControl` have no
bound. Two edits let two processes overlap, or the second find what the first
left; the theorem about the lists has no bound either. Functions are evaluated for every input up to the bounds of the table in
section 3, which lie on both sides of each threshold (budgets below, at and above
the sum of lines, ages of 168 and 169 hours, confidences of 6 and 7 tenths).
Deadlock is not reported because every instance has finitely many inputs, after
which it is at rest.

## 5. Fairness

`AuditBuffer!FairSpec`: each flusher's ordinary steps are weakly fair, since beat
starts a flush every five seconds and a started one runs; callers of `record()`
and failures are not fair. `Feedback!FairFeedbackSpec`: a request thread goes on
with its submission; one that waits for a row is woken when the holder's
transaction ends. `DocIngest!FairSpec`: workers take messages while there are any
and go on with what they took; uploads are not fair. `AgentLoop!FairTurnSpec`: the
thread runs and calls of models have timeouts. `AccessControl!FairSpec`: a process
that exits is started again, and a start-up does not pause for ever;
administration and requests are not fair. `ServicesSpec` has the fairness of the
turn and of each submission, and of nothing else. The other components have no
liveness property: their passes, edits and questions are driven by a caller.

## 6. What is proved

For all values of the constants (any events, flushers, batch sizes, documents,
workers, roles, bindings, pairs, submissions, words, rows, numbers of requests and
failures), from the named assumptions of each module:

- `AuditBufferProofs`. `TypeCorrect`. `PgOutageLosesNothing`: the invariant `Kept`
  says that the recorded events are exactly those buffered, held, stored or dead
  while only OperationalErrors happen; each step moves events between those
  places. `FlushersInsertOnce`: injectivity of the log is not inductive, as a
  flusher might hold what is stored already; the invariant `OneCopyInv` says that
  the buffer, each flusher's payloads and the log are each without repetition
  and disjoint from each other and from the events not yet recorded.
  `NamesLostAreBounded`: `NamesInv` charges each failed pre-flight query a batch,
  which a flusher still holds (`Blind`) or which cost what it held: anonymous rows
  of actors that exist (`Unnamed`).
  `PoisonIsContained`: the bound counts. `PoisonInv` charges each healthy event
  that is dead, or with a flusher about to declare it dead, to a refused event that
  can spoil no further batch (`Spent`), `BatchSize - 1` to one; a refused event has
  one copy only on its way, so it is spent at most once, and a batch about to be
  declared dead is at most full.
  `RefinesLedger`: the detailed pipeline implements `AuditLedger`. The status of an
  event is a function of four sets; the lemmas say which ledger step a change of
  those sets is, and each action of the pipeline is shown to be such a change or
  none. `NothingOvertakes`: the order in a line of stored, held and buffered events
  is a relation between its elements (`Precedes`); it is preserved because every
  event is in one place (`OneCopyInv`), and because without a failure no flusher
  puts a batch back (`NoRequeue`).
- `QueueLemmas`: appending, concatenating, head, tail, front and last of a
  sequence, what they do to its elements, to its being injective, and to which
  element precedes which; and induction. The library's induction theorems take an
  operator as a parameter, which the provers cannot instantiate; a set of numbers
  they can. `NatSetInduction` is about a set that contains 0 and with each number
  the next: were a number missing there would be a least one (`WFMin`). From it
  follow `UpToInduction`, for the places of a sequence, and `IterationExists`, that
  going through `1 .. N` step by step has a result. What the code computes in a loop
  is a recursive function `[n \in 0 .. Len(s) |-> ...]` in its module: that function
  is a CHOOSE, and a lemma for each (`PickedRecursion`, `OlderRecursion`, ...) shows
  that its equation has a solution, so that it is one.
- `FeedbackProofs`. `SubmitInv` says of each submission, by its step, what its
  transaction has written on top of what was committed, and that a pair has one
  holder; from it follow `NoPartialSubmission`, `AuditTrailStands` and
  `RefusedLeavesNothing`. The coherence of the committed rows alone is not
  inductive: it is committed from `work`. `TicketsMoveLegally` needs one fact more:
  the ticket of a submission that is about to queue it has just been created.
- `DocIngestProofs`. `StoresNeverDisagree`: `DocInv` says what each step of an
  execution has done already (files before messages, all points before the rows,
  rows before ready). `HandledFailuresSurface`: `SurfaceInv` says that an accepted
  document which is neither ready nor failed is still pursued, by a message or by
  a worker that has it.
  `FilesStaySound` is the pipeline of `DocText` from the file to the vectors, for any
  papers (`PapersAssumption`: of a known format, any number of lines) and any sizes
  (`TextAssumption`). `TextSound` speaks of the end only; `TextInv` hands it on from
  step to step. After the extractor the sections are an outline (`Outlined`): of
  ascending lines, each section ahead of the next, with every line that is wanted
  and no other text. There is one lemma per format; PDF, text, slides and sheets
  rest on windows (each line is in one, by division), Markdown and Word on the
  regions between opening lines, page images on the pages read so far. The
  chunker walks over blocks, and what it has made by then is `Chunked`: no line
  twice, none with a text missing, nothing over the budget but a single block, and
  no two neighbours that would have fitted together. Between two blocks that needs
  what is in the buffer (`Filling`, `Splitting`): the last child leaves no room for
  the buffer's first block. Vectors are those of the first children, in order, at
  every batch.
- `ChatRequestsProofs`. `ChatInv` contains the types, the gauge, and for the shared
  objects that their owner is a request inside `handle()`, or one every present
  request came after. `GaugeExact`, `MixupNeedsOverlap`, `StoredIffAnswered`.
- `AccessControlProofs`. `AccessInv` says what each process knows at its step (a
  binding about to be committed has not been revoked since it was checked, and its
  user has a row; once the roles are seeded the built-in ones exist), and what each
  request has been granted at its. `RevokedStaysRevoked`, `DeletedAreOut`,
  `NoDocumentLeaks`. They rest on `AccessAssumption`, in particular on no permission
  key being `*`: the code has no such key of its own, but would let an
  administrator create one. `TablesStaySound`: `TablesInv` adds types, that the
  built-in roles come all together, keep their names and permissions and share
  no name with another role, and that the workspace of every binding, and of every
  assignment that has passed its checks, exists.
- `ServicesProofs`, by component.
  - The agent's turn. `TurnInv` relates the index, the counter and the retrieved
    sub-queries at each node; in particular what lies ahead of the index has not
    been retrieved, except at the rewriting node, where the current one has.
    `IterationBudget`, `EachSearchedOnce`, `WholePlanSearched`, `PlanLengthStands`.
  - A question. `OnlyPermittedEvidence`: what was found matches the caller's filter
    at every stage. It takes the index to be finite: a search returns k hits, or all
    that match if they are fewer.
  - The word lists. `ListsStaySound`: that Redis and a filter have the table's words
    holds between edits only; `ListsInv` says what an edit that is alone has
    put where by its step, and that the agreement stands until the next push.
    `RefusedInv`, for migrated tables: no word is ever committed, so that every list
    is read from the same table and differs from it by its reader's edit at most.
  - A pass of the drift detector. `PassesAccountForAll`, from `PassInv`: what was tried
    comes before what is still to come, and has had one fate; while the transaction
    lives, what is flushed is what was counted after the last refused insert.
    `AlertsAreSound`: what the scan and the last hour pick is, sample by sample, what
    the seven days have but for rows a full scan left out; of the values in ascending
    order half come before the middle and half after it (`MedianHalves`); and the
    ladder of severities is monotone (`LadderIsMonotone`).
  - The scan for sensitive words. `ScansAreSound`: after n letters the scan stands at
    the node that the letters from its start on spell, or has found a word of the
    list there (`ScannedTo`); the nodes of the trie are the beginnings of the words
    (`TrieNodes`); and a word that stands alone is not missed, as the scan is at the
    root before it (`RootBefore`) and meets no mismatch inside it.
  - The history and the prompts. `MemoriesStaySound`: `HistoryInv` says that a writer
    holds a history as it was read, in the order of the appends, and that it is the
    stored one as long as nothing overlapped. The lemma `NewestOfNewest` says that
    cutting the window at every append loses nothing against cutting it once. What
    the prompts have taken after n lines is a stretch without a gap whose length
    fits the budget, and the line before it would not have fitted; the documents are
    measured without their separators, as the code does, and what those add is
    counted apart (`Joined`).
  - The verdict on a dislike. `VerdictsAreSound`, by which of the nine rules is the
    first to apply (`FirstOfNine`). A rule about a score does not apply to a missing
    one, nor to one beyond reproach, so that the two lead to the same verdict. That the order of the chunks changes nothing: the oldest of all
    years is one of them, than which none is older (`OldestIsOldest`), and that says
    nothing of the order.
- `SchemaProofs`. `AuditRowsNeverGo`: `SchemaInv` says that the two write-once rules exist from
  0011 on, for which the proof goes through every upgrade and downgrade; the
  revision the database starts at is built by the same upgrades (`SchemasBuilt`).
  `SchemasStaySound` and `SchemaStaysTyped` rest on `SchemaRowsInv`: the schema is the
  one of its revision (`AsSchema`), and the rows are what that revision needs
  (`RowsHold`). For the first, the tables and keys of each
  revision are worked out, each upgrade is shown to give databases with the same
  schema the same schema, and each downgrade to take back what its upgrade did.
  `RowsHold` says more than the invariants that follow from it: rows have columns of
  their tables, no two rows have one key, the columns by which a row belongs to
  another are filled, references of the keys there are have their rows, and
  workspaces agree, of a chunk with its document's and of a feedback with its
  conversation's; for without the last, 0013 and 0014 would not put old rows where
  new ones are put after a downgrade. A deletion takes what `Doomed` says, a recursion
  over sets of rows: the least set closed under the cascade solves it. The proof
  takes of the rows the application writes (`GivenAssumption`) that they have the
  columns of their models, that those in `Owners` are filled (they are NOT NULL),
  that the indexer gives a chunk its document's workspace, and that `submit()`
  refuses a feedback in another workspace than its conversation's.

## 7. What is only model-checked

- Liveness (`EventuallySettled`, `EventuallySurfaces`, `WorkersComeUp`, `RequestsEnd`),
  which the prover cannot reach.
- `ServicesTypeOK`, the types of the components of `Services`; the invariants above
  contain those the proofs need.

## 8. Not modelled

- Observability: counters, and queries for dashboards. Of its state only the gauge
  of active sessions matters to others, and `ChatRequests` has it. (Its names for the
  evaluation's metrics differ from the evaluation's, so that those gauges are
  never set, and a gauge keeps its value when its group has no rows left.)
- Evaluation: an offline sequential pipeline of scores in floating point. (Its
  context recall can exceed 1, which its own result type refuses.)
- Administration and profile endpoints: read-only, without state of their own.
- The web front end: pages and stores; the state is on the server.
- Parts of modelled components, as `PROJECT.json` says for each: the endpoints that
  list feedback or add dictionary keys, the LangGraph variant of the loop that
  nothing runs, the scan heuristic, the recognition of tables cell by cell, sparse
  vectors, scores and their fusion, the caches of embeddings and clients, expiry
  and cryptography of credentials, column types and indexes of the schema.
