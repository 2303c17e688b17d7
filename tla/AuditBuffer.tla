---------------------------- MODULE AuditBuffer ----------------------------
(***************************************************************************)
(* The audit pipeline: audit/service.py (AuditService), audit/tasks.py     *)
(* (the Celery flush task) and the audit_logs table with its constraints.  *)
(*                                                                         *)
(* API threads call record(), which LPUSHes one JSON payload onto the      *)
(* Redis list audit:buffer, or inserts a row itself when Redis fails.      *)
(* Every 5 seconds Celery beat starts flush_buffer() in some worker: it    *)
(* RPOPs a batch one payload at a time, asks PostgreSQL which actors still *)
(* exist, and inserts the batch in one transaction.  Flushers of several   *)
(* workers overlap.  A refused batch goes to audit:buffer:dead, a batch    *)
(* whose insert fails otherwise is pushed back.                            *)
(*                                                                         *)
(* Every call of Redis or PostgreSQL is a step of its own and may fail, and*)
(* a Redis call or a commit may also take effect and then fail (its reply  *)
(* is lost).  Failures are counted in faults and bounded by MaxFaults.     *)
(*                                                                         *)
(* buffer[1] is the right end of the list, where RPOP takes; LPUSH is      *)
(* Append.  Payloads are written by json.dumps in record(), so the branch  *)
(* of flush_buffer for payloads that do not parse is never taken.          *)
(***************************************************************************)
EXTENDS Naturals, SequencesExt

CONSTANTS
    Events,         \* the audit events that are ever recorded
    Flushers,       \* executions of flush_audit_buffer that can overlap
    BatchSize,      \* batch_size of flush_buffer
    IntegrityRows,  \* events whose row violates a constraint of audit_logs
    DataRows,       \* events whose row PostgreSQL rejects otherwise (DataError)
    Orphans,        \* events whose actor is no longer in users
    MaxFaults       \* bound on the failures of each kind

\* redis:       a Redis call raises RedisError
\* operational: a PostgreSQL call raises OperationalError
\* interface:   a PostgreSQL call raises another non-integrity error
\* crash:       a worker is killed
FaultKinds == {"redis", "operational", "interface", "crash"}

ASSUME AuditAssumption ==
    /\ BatchSize \in Nat \ {0}
    /\ IntegrityRows \subseteq Events
    /\ DataRows \subseteq Events
    /\ Orphans \subseteq Events
    /\ MaxFaults \in [FaultKinds -> Nat]

VARIABLES
    new,        \* events not yet recorded
    buffer,     \* the Redis list audit:buffer
    dead,       \* the events in audit:buffer:dead
    log,        \* the rows of audit_logs, in insertion order
    anonymous,  \* events with a row whose user_id is NULL
    pc,         \* where each flusher is
    payloads,   \* what each flusher has popped and not yet disposed of
    actorless,  \* the flusher's pre-flight failed: it treats no actor as existing
    faults      \* failures so far

flusherVars == <<pc, payloads, actorless>>
vars == <<new, buffer, dead, log, anonymous, flusherVars, faults>>

Phases == {"idle", "popping", "preflight", "insert", "requeue", "deadletter"}

TypeOK ==
    /\ new \subseteq Events
    /\ buffer \in Seq(Events)
    /\ dead \subseteq Events
    /\ log \in Seq(Events)
    /\ anonymous \subseteq Events
    /\ pc \in [Flushers -> Phases]
    /\ payloads \in [Flushers -> Seq(Events)]
    /\ actorless \in [Flushers -> BOOLEAN]
    /\ faults \in [FaultKinds -> Nat]

Init ==
    /\ new = Events
    /\ buffer = <<>>
    /\ dead = {}
    /\ log = <<>>
    /\ anonymous = {}
    /\ pc = [f \in Flushers |-> "idle"]
    /\ payloads = [f \in Flushers |-> <<>>]
    /\ actorless = [f \in Flushers |-> FALSE]
    /\ faults = [k \in FaultKinds |-> 0]

-----------------------------------------------------------------------------
NoFault == UNCHANGED faults

Fault(k) ==
    /\ faults[k] < MaxFaults[k]
    /\ faults' = [faults EXCEPT ![k] = @ + 1]

\* Rows the database takes, and rows it refuses, whoever inserts them.
Insertable(batch) == Range(batch) \cap (IntegrityRows \cup DataRows) = {}

\* Mutants of Commit: the last row of the batch is left out; one vanished actor
\* makes the whole batch anonymous.
CommitShort(batch, withoutActor) ==
    /\ log' = log \o Front(batch)
    /\ UNCHANGED anonymous

CommitAllAnonymous(batch, withoutActor) ==
    /\ log' = log \o batch
    /\ anonymous' = anonymous \cup
                      IF withoutActor \/ Range(batch) \cap Orphans # {}
                      THEN Range(batch) ELSE {}

\* A committed insert.  Trigger audit_logs_orphan_safety NULLs the user_id of
\* a vanished actor even where the service did not.
Commit(batch, withoutActor) ==
    /\ log' = log \o batch
    /\ anonymous' = anonymous \cup
                      IF withoutActor THEN Range(batch)
                                      ELSE Range(batch) \cap Orphans

\* The flusher's execution of flush_buffer is over.
Finish(f) ==
    /\ pc' = [pc EXCEPT ![f] = "idle"]
    /\ payloads' = [payloads EXCEPT ![f] = <<>>]
    /\ actorless' = [actorless EXCEPT ![f] = FALSE]

GoTo(f, phase) ==
    /\ pc' = [pc EXCEPT ![f] = phase]
    /\ UNCHANGED <<payloads, actorless>>

-----------------------------------------------------------------------------
(* record(), called by API threads.                                        *)

\* LPUSH succeeds.
Record(e) ==
    /\ e \in new
    /\ new' = new \ {e}
    /\ buffer' = Append(buffer, e)
    /\ NoFault
    /\ UNCHANGED <<dead, log, anonymous, flusherVars>>

\* LPUSH raises RedisError, whether or not the push took effect, and
\* _sync_insert writes the row, or fails and swallows the exception.
RecordWithoutRedis(e) ==
    /\ e \in new
    /\ new' = new \ {e}
    /\ buffer' \in {buffer, Append(buffer, e)}
    /\ \/ /\ Fault("redis")
          /\ IF Insertable(<<e>>) THEN Commit(<<e>>, FALSE)
                                  ELSE UNCHANGED <<log, anonymous>>
       \/ /\ \A k \in {"redis", "operational"} : faults[k] < MaxFaults[k]
          /\ faults' = [faults EXCEPT !["redis"] = @ + 1, !["operational"] = @ + 1]
          /\ UNCHANGED <<log, anonymous>>
    /\ UNCHANGED <<dead, flusherVars>>

-----------------------------------------------------------------------------
(* flush_buffer(), run by a Celery worker.                                 *)

\* Mutants of RPop: the payload is read and stays in the list; it is taken
\* from the wrong end; the loop pops one too many.
RPopPeeks(f) ==
    /\ pc[f] \in {"idle", "popping"}
    /\ buffer # <<>>
    /\ payloads' = [payloads EXCEPT ![f] = Append(@, Head(buffer))]
    /\ pc' = [pc EXCEPT ![f] = IF Len(payloads[f]) + 1 = BatchSize
                                THEN "preflight" ELSE "popping"]
    /\ NoFault
    /\ UNCHANGED <<new, buffer, dead, log, anonymous, actorless>>

RPopWrongEnd(f) ==
    /\ pc[f] \in {"idle", "popping"}
    /\ buffer # <<>>
    /\ buffer' = Front(buffer)
    /\ payloads' = [payloads EXCEPT ![f] = Append(@, Last(buffer))]
    /\ pc' = [pc EXCEPT ![f] = IF Len(payloads[f]) + 1 = BatchSize
                                THEN "preflight" ELSE "popping"]
    /\ NoFault
    /\ UNCHANGED <<new, dead, log, anonymous, actorless>>

RPopOneMore(f) ==
    /\ pc[f] \in {"idle", "popping"}
    /\ buffer # <<>>
    /\ buffer' = Tail(buffer)
    /\ payloads' = [payloads EXCEPT ![f] = Append(@, Head(buffer))]
    /\ pc' = [pc EXCEPT ![f] = IF Len(payloads[f]) = BatchSize
                                THEN "preflight" ELSE "popping"]
    /\ NoFault
    /\ UNCHANGED <<new, dead, log, anonymous, actorless>>

\* One RPOP of the loop.  The first one starts the execution.
RPop(f) ==
    /\ pc[f] \in {"idle", "popping"}
    /\ buffer # <<>>
    /\ buffer' = Tail(buffer)
    /\ payloads' = [payloads EXCEPT ![f] = Append(@, Head(buffer))]
    /\ pc' = [pc EXCEPT ![f] = IF Len(payloads[f]) + 1 = BatchSize
                                THEN "preflight" ELSE "popping"]
    /\ NoFault
    /\ UNCHANGED <<new, dead, log, anonymous, actorless>>

\* RPOP finds the list empty: the loop ends with what it has.  (An execution
\* that finds it empty at once returns 0 and changes nothing.)
RPopNothing(f) ==
    /\ pc[f] = "popping"
    /\ buffer = <<>>
    /\ GoTo(f, "preflight")
    /\ NoFault
    /\ UNCHANGED <<new, buffer, dead, log, anonymous>>

\* RPOP raises RedisError out of flush_buffer: nothing puts the payloads popped
\* so far back, nor the one whose reply was lost.
RPopFails(f) ==
    /\ pc[f] \in {"idle", "popping"}
    /\ Fault("redis")
    /\ buffer' \in {buffer} \cup IF buffer = <<>> THEN {} ELSE {Tail(buffer)}
    /\ Finish(f)
    /\ UNCHANGED <<new, dead, log, anonymous>>

\* SELECT id FROM users.  An OperationalError is read as "no actor exists".
Preflight(f) ==
    /\ pc[f] = "preflight"
    /\ \/ NoFault /\ UNCHANGED actorless
       \/ Fault("operational") /\ actorless' = [actorless EXCEPT ![f] = TRUE]
    /\ pc' = [pc EXCEPT ![f] = "insert"]
    /\ UNCHANGED <<new, buffer, dead, log, anonymous, payloads>>

\* Any other exception of the SELECT leaves flush_buffer with the payloads.
PreflightRaises(f) ==
    /\ pc[f] = "preflight"
    /\ Fault("interface")
    /\ Finish(f)
    /\ UNCHANGED <<new, buffer, dead, log, anonymous>>

\* bulk_insert_mappings and commit succeed.
BulkInsert(f) ==
    /\ pc[f] = "insert"
    /\ Insertable(payloads[f])
    /\ Commit(payloads[f], actorless[f])
    /\ Finish(f)
    /\ NoFault
    /\ UNCHANGED <<new, buffer, dead>>

\* The transaction raises IntegrityError: one row is enough to refuse them all.
BulkInsertRefused(f) ==
    /\ pc[f] = "insert"
    /\ Range(payloads[f]) \cap IntegrityRows # {}
    /\ GoTo(f, "deadletter")
    /\ NoFault
    /\ UNCHANGED <<new, buffer, dead, log, anonymous>>

\* Mutant of BulkInsertFails: the exception is swallowed without a requeue.
BulkInsertFailsQuietly(f) ==
    /\ pc[f] = "insert"
    /\ Fault("operational")
    /\ Finish(f)
    /\ UNCHANGED <<new, buffer, dead, log, anonymous>>

\* The transaction raises anything else: a row PostgreSQL cannot take, or an
\* infrastructure error before the commit or after it (the reply is lost).
BulkInsertFails(f) ==
    /\ pc[f] = "insert"
    /\ \/ /\ Range(payloads[f]) \cap DataRows # {}
          /\ NoFault
          /\ UNCHANGED <<log, anonymous>>
       \/ /\ \E k \in {"operational", "interface"} : Fault(k)
          /\ \/ UNCHANGED <<log, anonymous>>
             \/ /\ Insertable(payloads[f])
                /\ Commit(payloads[f], actorless[f])
    /\ GoTo(f, "requeue")
    /\ UNCHANGED <<new, buffer, dead>>

\* One LPUSH of the requeue loop, which walks the payloads backwards.
Requeue(f) ==
    /\ pc[f] = "requeue"
    /\ payloads[f] # <<>>
    /\ buffer' = Append(buffer, Last(payloads[f]))
    /\ IF Len(payloads[f]) = 1
       THEN Finish(f)
       ELSE /\ payloads' = [payloads EXCEPT ![f] = Front(@)]
            /\ UNCHANGED <<pc, actorless>>
    /\ NoFault
    /\ UNCHANGED <<new, dead, log, anonymous>>

\* LPUSH raises RedisError: the loop breaks and the rest is dropped.
RequeueFails(f) ==
    /\ pc[f] = "requeue"
    /\ payloads[f] # <<>>
    /\ Fault("redis")
    /\ buffer' \in {buffer, Append(buffer, Last(payloads[f]))}
    /\ Finish(f)
    /\ UNCHANGED <<new, dead, log, anonymous>>

\* Mutant of DeadLetter: refused payloads go back to the main buffer.
DeadLetterToBuffer(f) ==
    /\ pc[f] = "deadletter"
    /\ payloads[f] # <<>>
    /\ buffer' = Append(buffer, Head(payloads[f]))
    /\ IF Len(payloads[f]) = 1
       THEN Finish(f)
       ELSE /\ payloads' = [payloads EXCEPT ![f] = Tail(@)]
            /\ UNCHANGED <<pc, actorless>>
    /\ NoFault
    /\ UNCHANGED <<new, dead, log, anonymous>>

\* One LPUSH of _dead_letter, which walks the payloads forwards.
DeadLetter(f) ==
    /\ pc[f] = "deadletter"
    /\ payloads[f] # <<>>
    /\ dead' = dead \cup {Head(payloads[f])}
    /\ IF Len(payloads[f]) = 1
       THEN Finish(f)
       ELSE /\ payloads' = [payloads EXCEPT ![f] = Tail(@)]
            /\ UNCHANGED <<pc, actorless>>
    /\ NoFault
    /\ UNCHANGED <<new, buffer, log, anonymous>>

DeadLetterFails(f) ==
    /\ pc[f] = "deadletter"
    /\ payloads[f] # <<>>
    /\ Fault("redis")
    /\ dead' \in {dead, dead \cup {Head(payloads[f])}}
    /\ Finish(f)
    /\ UNCHANGED <<new, buffer, log, anonymous>>

\* The worker is killed.  Celery redelivers the task (task_acks_late), which
\* starts over with an empty batch.
Crash(f) ==
    /\ pc[f] # "idle"
    /\ Fault("crash")
    /\ Finish(f)
    /\ UNCHANGED <<new, buffer, dead, log, anonymous>>

-----------------------------------------------------------------------------
\* What a flusher does when nothing fails.
Flush(f) ==
    \/ RPop(f) \/ RPopNothing(f) \/ Preflight(f)
    \/ BulkInsert(f) \/ BulkInsertRefused(f) \/ BulkInsertFails(f)
    \/ Requeue(f) \/ DeadLetter(f)

FlushFails(f) ==
    \/ RPopFails(f) \/ PreflightRaises(f) \/ RequeueFails(f)
    \/ DeadLetterFails(f) \/ Crash(f)

Next ==
    \/ \E e \in Events : Record(e) \/ RecordWithoutRedis(e)
    \/ \E f \in Flushers : Flush(f) \/ FlushFails(f)

Spec == Init /\ [][Next]_vars

\* Beat starts a flush every 5 seconds and a running flush is not paused
\* forever.  Nothing is assumed of the callers of record().
FairSpec == Spec /\ \A f \in Flushers : WF_vars(Flush(f))
-----------------------------------------------------------------------------
(* Properties                                                              *)

Recorded == Events \ new
Outstanding == Range(buffer) \cup UNION {Range(payloads[f]) : f \in Flushers}
Settled == Range(log) \cup dead

Without(kinds) == \A k \in kinds : faults[k] = 0

\* "Failures requeue the popped payloads so a transient PG outage doesn't drop
\* audit data" (tasks.py): as long as PostgreSQL fails with OperationalError
\* only, every recorded event is buffered, with a flusher, stored or dead.
NothingDroppedByPgOutage ==
    Without({"redis", "interface", "crash"}) => Recorded \subseteq Outstanding \cup Settled

\* Overlapping flushers, and workers killed and restarted, never insert an
\* event twice: only a lost reply (a call that took effect and failed) does.
NoDuplicateRows ==
    Without({"redis", "operational", "interface"}) => IsInjective(log)

\* A refused row takes its batch to the dead-letter list, and no more than
\* that: each refused event costs at most BatchSize - 1 healthy ones.
PoisonRadius ==
    Without({"redis"}) =>
        Cardinality(dead \ IntegrityRows)
            <= (BatchSize - 1) * Cardinality(IntegrityRows \ new)

\* user_id is NULLed for vanished actors (service.py, "Orphan resilience") and, since a
\* pre-flight query that fails is read as "nobody exists", for others too: such a failure
\* costs the names of one batch at most, also if the insert then fails, is requeued and
\* tried again, and also for a batch that is committed and whose reply is lost.
AnonymityRadius ==
    Cardinality(anonymous \ Orphans) <= BatchSize * faults["operational"]

\* "Transient infra errors (OperationalError, RedisError) still requeue to the
\* main buffer" (service.py): while nothing but those two fails, what a flusher has
\* popped stays with it, goes back to the buffer or is settled.
TransientErrorsRequeue ==
    [][Without({"interface", "crash"})' =>
         \A f \in Flushers : Range(payloads[f]) \subseteq Outstanding' \cup Settled']_vars

\* A row that PostgreSQL will never take, now or later, is in the pipeline: its
\* batch goes round between the buffer and the flushers for ever.
Clogged == DataRows \cap Recorded # {}

\* While nothing fails, events keep their order on the way from record() to the
\* table, except that another flusher may overtake: in the line of events that are
\* stored, held by one flusher or buffered, no two change places.
Line(f) == log \o payloads[f] \o buffer
KeepsOrder(before, after) ==
    \A i, j \in DOMAIN after :
        i < j /\ {after[i], after[j]} \subseteq Range(before) =>
            \E m, n \in DOMAIN before :
                m < n /\ before[m] = after[i] /\ before[n] = after[j]
OrderKept ==
    [][~Clogged' /\ Without(FaultKinds)' =>
         \A f \in Flushers : KeepsOrder(Line(f), Line(f)')]_vars

\* A recorded event is stored or dead-lettered in the end, however often
\* PostgreSQL failed, as long as nothing else does and the pipeline is not clogged.
EventuallySettled ==
    \A e \in Events :
        (e \in Recorded) ~>
            (e \in Settled \/ Clogged \/ ~Without({"redis", "interface", "crash"}))

-----------------------------------------------------------------------------
\* The mapping under which the pipeline implements AuditLedger.
StatusOf(e) ==
    CASE e \in new -> "new"
      [] e \in Range(log) -> "stored"
      [] e \in dead \ Range(log) -> "dead"
      [] e \in Outstanding \ Settled -> "pending"
      [] OTHER -> "lost"

Ledger == INSTANCE AuditLedger WITH status <- [e \in Events |-> StatusOf(e)]

\* The pipeline keeps the ledger's promise: batches are stored atomically, a
\* stored row stays, and only events no row exists for can be lost.
ImplementsLedger == Ledger!LedgerSpec
=============================================================================
