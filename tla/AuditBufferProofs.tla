------------------------- MODULE AuditBufferProofs -------------------------
(***************************************************************************)
(* Theorems about the audit pipeline, for any events, flushers, batch size *)
(* and number of failures.                                                 *)
(***************************************************************************)
EXTENDS AuditBuffer, QueueLemmas

-----------------------------------------------------------------------------
(* Type correctness                                                        *)

QueueTypes ==
    /\ new \subseteq Events
    /\ buffer \in Seq(Events)
    /\ dead \subseteq Events
    /\ log \in Seq(Events)
    /\ anonymous \subseteq Events

FlusherTypes ==
    /\ pc \in [Flushers -> Phases]
    /\ payloads \in [Flushers -> Seq(Events)]
    /\ actorless \in [Flushers -> BOOLEAN]

FaultTypes == faults \in [FaultKinds -> Nat]

\* Counting a failure, or none, keeps the counters natural numbers.
LEMMA FaultType ==
    ASSUME FaultTypes
    PROVE  /\ \A k \in FaultKinds : Fault(k) => FaultTypes'
           /\ NoFault => FaultTypes'
  BY DEF FaultTypes, Fault, NoFault

\* What the steps do to a flusher's own state, its payloads included, keeps its types.
LEMMA FlusherType ==
    ASSUME FlusherTypes, NEW f \in Flushers
    PROVE  /\ Finish(f) => FlusherTypes'
           /\ \A phase \in Phases : GoTo(f, phase) => FlusherTypes'
           /\ \A s \in Seq(Events) :
                 /\ payloads' = [payloads EXCEPT ![f] = s]
                 /\ UNCHANGED <<pc, actorless>>
                 => FlusherTypes'
           /\ UNCHANGED flusherVars => FlusherTypes'
<1>1. Finish(f) => FlusherTypes'
  <2>1. <<>> \in Seq(Events) /\ "idle" \in Phases
    BY DEF Phases
  <2>2. QED
    BY <2>1 DEF FlusherTypes, Finish
<1>2. ASSUME NEW phase \in Phases, GoTo(f, phase) PROVE FlusherTypes'
  BY <1>2 DEF FlusherTypes, GoTo
<1>3. ASSUME NEW s \in Seq(Events), UNCHANGED <<pc, actorless>>,
             payloads' = [payloads EXCEPT ![f] = s]
      PROVE  FlusherTypes'
  BY <1>3 DEF FlusherTypes
<1>4. UNCHANGED flusherVars => FlusherTypes'
  BY DEF FlusherTypes, flusherVars
<1>5. QED
  BY <1>1, <1>2, <1>3, <1>4

\* A committed batch leaves rows of recorded events in the table.
LEMMA CommitType ==
    ASSUME log \in Seq(Events), anonymous \subseteq Events,
           NEW batch \in Seq(Events), NEW b, Commit(batch, b)
    PROVE  log' \in Seq(Events) /\ anonymous' \subseteq Events
<1>1. log \o batch \in Seq(Events) /\ Range(batch) \subseteq Events
  BY QueueConcat, RangeOfSeq
<1>2. anonymous' \subseteq Events
  <2>1. CASE b
    BY <1>1, <2>1 DEF Commit
  <2>2. CASE ~b
    BY <1>1, <2>2 DEF Commit
  <2>3. QED
    BY <2>1, <2>2
<1>3. QED
  BY <1>1, <1>2 DEF Commit

\* Each step of record() and of a flusher preserves the types.
LEMMA TypeStep == TypeOK /\ [Next]_vars => TypeOK'
<1> SUFFICES ASSUME QueueTypes, FlusherTypes, FaultTypes, [Next]_vars
             PROVE  QueueTypes' /\ FlusherTypes' /\ FaultTypes'
  BY DEF TypeOK, QueueTypes, FlusherTypes, FaultTypes
<1>1. ASSUME NEW e \in Events, Record(e)
      PROVE  QueueTypes' /\ FlusherTypes' /\ FaultTypes'
  <2>1. Append(buffer, e) \in Seq(Events)
    BY QueuePush DEF QueueTypes
  <2>2. QED
    BY <1>1, <2>1, FaultType, FlusherType DEF Record, QueueTypes, FlusherTypes, flusherVars
<1>2. ASSUME NEW e \in Events, RecordWithoutRedis(e)
      PROVE  QueueTypes' /\ FlusherTypes' /\ FaultTypes'
  <2>1. Append(buffer, e) \in Seq(Events) /\ <<e>> \in Seq(Events)
    BY QueuePush DEF QueueTypes
  <2>2. log' \in Seq(Events) /\ anonymous' \subseteq Events
    BY <1>2, <2>1, CommitType DEF RecordWithoutRedis, QueueTypes
  <2>3. FlusherTypes'
    BY <1>2 DEF RecordWithoutRedis, FlusherTypes, flusherVars
  <2>4. FaultTypes'
    <3>1. CASE Fault("redis")
      BY <3>1, FaultType DEF FaultKinds
    <3>2. CASE ~Fault("redis")
      <4>1. faults' = [faults EXCEPT !["redis"] = @ + 1, !["operational"] = @ + 1]
        BY <1>2, <3>2 DEF RecordWithoutRedis
      <4>2. QED
        BY <4>1 DEF FaultTypes, FaultKinds
    <3>3. QED
      BY <3>1, <3>2
  <2>5. QED
    BY <1>2, <2>1, <2>2, <2>3, <2>4 DEF RecordWithoutRedis, QueueTypes
<1>3. ASSUME NEW f \in Flushers, Flush(f)
      PROVE  QueueTypes' /\ FlusherTypes' /\ FaultTypes'
  <2>0. payloads[f] \in Seq(Events)
    BY DEF FlusherTypes
  <2>1. CASE RPop(f)
    <3>1. Tail(buffer) \in Seq(Events) /\ Append(payloads[f], Head(buffer)) \in Seq(Events)
      BY <2>0, <2>1, QueuePop, QueuePush DEF RPop, QueueTypes
    <3>2. FlusherTypes'
      BY <2>1, <3>1 DEF RPop, FlusherTypes, Phases
    <3>3. QED
      BY <2>1, <3>1, <3>2, FaultType DEF RPop, QueueTypes
  <2>2. CASE RPopNothing(f)
    BY <2>2, FaultType, FlusherType DEF RPopNothing, QueueTypes, Phases
  <2>3. CASE Preflight(f)
    <3>1. FlusherTypes'
      BY <2>3 DEF Preflight, FlusherTypes, Phases
    <3>2. QED
      BY <2>3, <3>1, FaultType DEF Preflight, QueueTypes, FaultKinds
  <2>4. CASE BulkInsert(f)
    <3>1. log' \in Seq(Events) /\ anonymous' \subseteq Events
      BY <2>0, <2>4, CommitType DEF BulkInsert, QueueTypes
    <3>2. QED
      BY <2>4, <3>1, FaultType, FlusherType DEF BulkInsert, QueueTypes
  <2>5. CASE BulkInsertRefused(f)
    BY <2>5, FaultType, FlusherType DEF BulkInsertRefused, QueueTypes, Phases
  <2>6. CASE BulkInsertFails(f)
    <3>1. log' \in Seq(Events) /\ anonymous' \subseteq Events
      BY <2>0, <2>6, CommitType DEF BulkInsertFails, QueueTypes
    <3>2. FlusherTypes'
      BY <2>6, FlusherType DEF BulkInsertFails, Phases
    <3>3. FaultTypes'
      BY <2>6, FaultType DEF BulkInsertFails, FaultKinds
    <3>4. QED
      BY <2>6, <3>1, <3>2, <3>3 DEF BulkInsertFails, QueueTypes
  <2>7. CASE Requeue(f)
    <3>1. Front(payloads[f]) \in Seq(Events) /\ Append(buffer, Last(payloads[f])) \in Seq(Events)
      BY <2>0, <2>7, QueuePopBack, QueuePush DEF Requeue, QueueTypes
    <3>2. FlusherTypes'
      BY <2>7, <3>1, FlusherType DEF Requeue
    <3>3. QED
      BY <2>7, <3>1, <3>2, FaultType DEF Requeue, QueueTypes
  <2>8. CASE DeadLetter(f)
    <3>1. Tail(payloads[f]) \in Seq(Events) /\ Head(payloads[f]) \in Events
      BY <2>0, <2>8, QueuePop DEF DeadLetter
    <3>2. FlusherTypes'
      BY <2>8, <3>1, FlusherType DEF DeadLetter
    <3>3. QED
      BY <2>8, <3>1, <3>2, FaultType DEF DeadLetter, QueueTypes
  <2>9. QED
    BY <1>3, <2>1, <2>2, <2>3, <2>4, <2>5, <2>6, <2>7, <2>8 DEF Flush
<1>4. ASSUME NEW f \in Flushers, FlushFails(f)
      PROVE  QueueTypes' /\ FlusherTypes' /\ FaultTypes'
  <2>0. payloads[f] \in Seq(Events)
    BY DEF FlusherTypes
  <2>1. CASE RPopFails(f)
    <3>1. buffer' \in Seq(Events)
      BY <2>1, QueuePop DEF RPopFails, QueueTypes
    <3>2. QED
      BY <2>1, <3>1, FaultType, FlusherType DEF RPopFails, QueueTypes, FaultKinds
  <2>2. CASE PreflightRaises(f)
    BY <2>2, FaultType, FlusherType DEF PreflightRaises, QueueTypes, FaultKinds
  <2>3. CASE RequeueFails(f)
    <3>1. Append(buffer, Last(payloads[f])) \in Seq(Events)
      BY <2>0, <2>3, QueuePopBack, QueuePush DEF RequeueFails, QueueTypes
    <3>2. QED
      BY <2>3, <3>1, FaultType, FlusherType DEF RequeueFails, QueueTypes, FaultKinds
  <2>4. CASE DeadLetterFails(f)
    <3>1. Head(payloads[f]) \in Events
      BY <2>0, <2>4, QueuePop DEF DeadLetterFails
    <3>2. QED
      BY <2>4, <3>1, FaultType, FlusherType DEF DeadLetterFails, QueueTypes, FaultKinds
  <2>5. CASE Crash(f)
    BY <2>5, FaultType, FlusherType DEF Crash, QueueTypes, FaultKinds
  <2>6. QED
    BY <1>4, <2>1, <2>2, <2>3, <2>4, <2>5 DEF FlushFails
<1>5. CASE UNCHANGED vars
  BY <1>5, FaultType, FlusherType DEF vars, QueueTypes, FlusherTypes, FaultTypes, flusherVars
<1>6. QED
  BY <1>1, <1>2, <1>3, <1>4, <1>5 DEF Next

\* The pipeline's variables keep their types: the queues hold recorded events
\* and nothing else, whatever fails and however flushers overlap.
THEOREM TypeCorrect == Spec => []TypeOK
<1>1. Init => TypeOK
  BY DEF Init, TypeOK, Phases, FaultKinds
<1>2. QED
  BY <1>1, TypeStep, PTL DEF Spec

-----------------------------------------------------------------------------
(* A PostgreSQL outage loses nothing                                       *)

\* Where an event can be once it is recorded.
Kept(e) ==
    \/ e \in Range(buffer)
    \/ \E f \in Flushers : e \in Range(payloads[f])
    \/ e \in Range(log)
    \/ e \in dead

\* Kept, event by event, is the property.
LEMMA KeptMeaning ==
    NothingDroppedByPgOutage
      <=> (Without({"redis", "interface", "crash"}) => \A e \in Events \ new : Kept(e))
  BY DEF NothingDroppedByPgOutage, Recorded, Outstanding, Settled, Kept

\* A step that leaves these faults at zero was taken with these faults at zero.
LEMMA FaultsGrow ==
    ASSUME FaultTypes, NEW kinds \in SUBSET FaultKinds, Without(kinds)'
    PROVE  /\ \A k \in kinds : ~Fault(k)
           /\ NoFault => Without(kinds)
           /\ \A k \in FaultKinds : Fault(k) => Without(kinds)
           /\ faults' = [faults EXCEPT !["redis"] = @ + 1, !["operational"] = @ + 1]
                 => "redis" \notin kinds
  BY DEF FaultTypes, Without, Fault, NoFault, FaultKinds

\* What a flusher's own queue does to Kept: a payload it lets go must turn up
\* elsewhere.
LEMMA KeptStep ==
    ASSUME FlusherTypes, NEW f \in Flushers, NEW s,
           payloads' = [payloads EXCEPT ![f] = s],
           Range(buffer) \subseteq Range(buffer') \cup Range(s),
           Range(payloads[f]) \subseteq Range(s) \cup Range(buffer') \cup Range(log') \cup dead',
           Range(log) \subseteq Range(log'),
           dead \subseteq dead',
           NEW e, Kept(e)
    PROVE  Kept(e)'
<1>1. payloads'[f] = s /\ \A g \in Flushers : g # f => payloads'[g] = payloads[g]
  BY DEF FlusherTypes
<1>2. QED
  BY <1>1 DEF Kept

\* With no failure but OperationalError, every step keeps every recorded event.
LEMMA KeptInductive ==
    TypeOK /\ NothingDroppedByPgOutage /\ [Next]_vars => NothingDroppedByPgOutage'
<1> DEFINE losing == {"redis", "interface", "crash"}
<1> SUFFICES ASSUME TypeOK, NothingDroppedByPgOutage, [Next]_vars, Without(losing)',
                    NEW e \in Events, e \notin new'
             PROVE  Kept(e)'
  BY DEF NothingDroppedByPgOutage, Recorded, Outstanding, Settled, Kept
<1>0. QueueTypes /\ FlusherTypes /\ FaultTypes /\ losing \in SUBSET FaultKinds
  BY DEF TypeOK, QueueTypes, FlusherTypes, FaultTypes, FaultKinds
<1>a. Without(losing) => \A d \in Events \ new : Kept(d)
  BY KeptMeaning
<1>b. /\ \A k \in losing : ~Fault(k)
      /\ NoFault \/ Fault("operational") => Without(losing)
  BY <1>0, FaultsGrow DEF FaultKinds
<1> HIDE DEF losing
<1>1. ASSUME NEW d \in Events, Record(d) PROVE Kept(e)'
  <2>1. Range(buffer') = Range(buffer) \cup {d}
    BY <1>0, <1>1, QueuePush DEF Record, QueueTypes
  <2>2. e \in new => e = d
    BY <1>1 DEF Record
  <2>3. Without(losing)
    BY <1>1, <1>b DEF Record
  <2>4. CASE e = d
    BY <2>1, <2>4 DEF Kept
  <2>5. CASE e # d
    <3>1. Kept(e)
      BY <2>2, <2>3, <2>5, <1>a
    <3>2. QED
      BY <3>1, <2>1, <1>1 DEF Kept, Record, flusherVars
  <2>6. QED
    BY <2>4, <2>5
<1>2. ASSUME NEW d \in Events, RecordWithoutRedis(d) PROVE Kept(e)'
  <2>1. "redis" \in losing
    BY DEF losing
  <2>2. FALSE
    BY <1>0, <1>2, <2>1, FaultsGrow DEF RecordWithoutRedis
  <2>3. QED
    BY <2>2
<1>3. ASSUME NEW f \in Flushers, Flush(f) PROVE Kept(e)'
  <2>0. payloads[f] \in Seq(Events) /\ buffer \in Seq(Events) /\ log \in Seq(Events)
    BY <1>0 DEF FlusherTypes, QueueTypes
  <2>k. new' = new => Kept(e)
    <3>1. Without(losing)
      BY <1>3, <1>b, FaultsGrow, <1>0
         DEF Flush, RPop, RPopNothing, Preflight, BulkInsert, BulkInsertRefused,
             BulkInsertFails, Requeue, DeadLetter, losing
    <3>2. QED
      BY <3>1, <1>a
  <2>1. CASE RPop(f)
    <3>1. Range(buffer) = Range(buffer') \cup {Head(buffer)}
      BY <2>0, <2>1, QueuePop DEF RPop
    <3>2. Range(Append(payloads[f], Head(buffer))) = Range(payloads[f]) \cup {Head(buffer)}
      BY <2>0, <2>1, QueuePop, QueuePush DEF RPop
    <3>3. QED
      BY <2>1, <2>k, <3>1, <3>2, <1>0, KeptStep DEF RPop
  <2>2. CASE RPopNothing(f)
    BY <2>2, <2>k DEF RPopNothing, GoTo, Kept
  <2>3. CASE Preflight(f)
    BY <2>3, <2>k DEF Preflight, Kept
  <2>4. CASE BulkInsert(f)
    <3>1. Range(log') = Range(log) \cup Range(payloads[f])
      BY <2>0, <2>4, QueueConcat DEF BulkInsert, Commit
    <3>2. QED
      BY <2>4, <2>k, <3>1, <1>0, KeptStep DEF BulkInsert, Finish
  <2>5. CASE BulkInsertRefused(f)
    BY <2>5, <2>k DEF BulkInsertRefused, GoTo, Kept
  <2>6. CASE BulkInsertFails(f)
    <3>1. Range(log) \subseteq Range(log')
      <4>1. log' = log \/ log' = log \o payloads[f]
        BY <2>6, Zenon DEF BulkInsertFails, Commit
      <4>2. Range(log \o payloads[f]) = Range(log) \cup Range(payloads[f])
        BY <2>0, QueueConcat
      <4>3. QED
        BY <4>1, <4>2, Zenon
    <3>2. UNCHANGED <<new, buffer, dead, payloads>>
      BY <2>6 DEF BulkInsertFails, GoTo
    <3>3. QED
      BY <2>k, <3>1, <3>2 DEF Kept
  <2>7. CASE Requeue(f)
    <3>1. /\ Range(payloads[f]) = Range(Front(payloads[f])) \cup {Last(payloads[f])}
          /\ Last(payloads[f]) \in Events
      BY <2>0, <2>7, QueuePopBack DEF Requeue
    <3>2. Range(buffer') = Range(buffer) \cup {Last(payloads[f])}
      BY <2>0, <2>7, <3>1, QueuePush DEF Requeue
    <3>3. CASE Len(payloads[f]) = 1
      <4>1. Range(payloads[f]) = {Last(payloads[f])}
        BY <2>0, <3>3, RangeEquality DEF Last
      <4>2. QED
        BY <2>7, <2>k, <3>2, <3>3, <4>1, <1>0, KeptStep DEF Requeue, Finish
    <3>4. CASE Len(payloads[f]) # 1
      BY <2>7, <2>k, <3>1, <3>2, <3>4, <1>0, KeptStep DEF Requeue
    <3>5. QED
      BY <3>3, <3>4
  <2>8. CASE DeadLetter(f)
    <3>1. Range(payloads[f]) = Range(Tail(payloads[f])) \cup {Head(payloads[f])}
      BY <2>0, <2>8, QueuePop DEF DeadLetter
    <3>2. CASE Len(payloads[f]) = 1
      <4>1. Range(payloads[f]) = {Head(payloads[f])}
        BY <2>0, <3>2, RangeEquality
      <4>2. QED
        BY <2>8, <2>k, <3>2, <4>1, <1>0, KeptStep DEF DeadLetter, Finish
    <3>3. CASE Len(payloads[f]) # 1
      BY <2>8, <2>k, <3>1, <3>3, <1>0, KeptStep DEF DeadLetter
    <3>4. QED
      BY <3>2, <3>3
  <2>9. QED
    BY <1>3, <2>1, <2>2, <2>3, <2>4, <2>5, <2>6, <2>7, <2>8 DEF Flush
<1>4. ASSUME NEW f \in Flushers, FlushFails(f) PROVE Kept(e)'
  BY <1>4, <1>b DEF FlushFails, RPopFails, PreflightRaises, RequeueFails, DeadLetterFails,
                    Crash, losing
<1>5. CASE UNCHANGED vars
  BY <1>5, <1>a, <1>b DEF vars, flusherVars, Kept, NoFault
<1>6. QED
  BY <1>1, <1>2, <1>3, <1>4, <1>5 DEF Next

\* As long as PostgreSQL only ever answers with OperationalError (before or
\* after a commit) and Redis and the workers stay up, no recorded event is lost.
THEOREM PgOutageLosesNothing == Spec => []NothingDroppedByPgOutage
<1>1. Init => NothingDroppedByPgOutage
  BY DEF Init, NothingDroppedByPgOutage, Recorded
<1>2. QED
  BY <1>1, TypeCorrect, KeptInductive, PTL DEF Spec

-----------------------------------------------------------------------------
(* Without lost replies no event is inserted twice                         *)

Ambiguous == {"redis", "operational", "interface"}

\* Every event has at most one copy, in one of the queues or in the table.
OneCopy ==
    /\ IsInjective(log)
    /\ IsInjective(buffer)
    /\ Range(log) \cap Range(buffer) = {}
    /\ new \cap (Range(log) \cup Range(buffer)) = {}
    /\ \A f \in Flushers :
          /\ IsInjective(payloads[f])
          /\ Range(payloads[f]) \cap (new \cup Range(log) \cup Range(buffer)) = {}
          /\ \A g \in Flushers : f # g => Range(payloads[f]) \cap Range(payloads[g]) = {}

\* The inductive strengthening of NoDuplicateRows.
OneCopyInv == Without(Ambiguous) => OneCopy

\* The part of OneCopy about the flushers, when only f's payloads change, to s,
\* and the other places give f's payloads nothing of the others'.
LEMMA OneCopyStep ==
    ASSUME FlusherTypes, OneCopy, NEW f \in Flushers, NEW s,
           payloads' = [payloads EXCEPT ![f] = s],
           IsInjective(s), IsInjective(log'), IsInjective(buffer'),
           Range(log') \cap Range(buffer') = {},
           new' = new,
           Range(s) \cap (Range(log') \cup Range(buffer')) = {},
           Range(log') \cup Range(buffer') \cup Range(s)
             \subseteq Range(log) \cup Range(buffer) \cup Range(payloads[f])
    PROVE  OneCopy'
<1>1. payloads'[f] = s /\ \A g \in Flushers : g # f => payloads'[g] = payloads[g]
  BY DEF FlusherTypes
<1>2. new \cap (Range(log') \cup Range(buffer') \cup Range(s)) = {}
  BY DEF OneCopy
<1>3. \A g \in Flushers : g # f =>
         Range(payloads[g]) \cap (new \cup Range(log') \cup Range(buffer') \cup Range(s)) = {}
  BY DEF OneCopy
<1>4. ASSUME NEW g \in Flushers
      PROVE  /\ IsInjective(payloads'[g])
             /\ Range(payloads'[g]) \cap (new' \cup Range(log') \cup Range(buffer')) = {}
             /\ \A h \in Flushers : g # h => Range(payloads'[g]) \cap Range(payloads'[h]) = {}
  <2>1. CASE g = f
    BY <1>1, <1>2, <1>3, <2>1
  <2>2. CASE g # f
    BY <1>1, <1>3, <2>2 DEF OneCopy
  <2>3. QED
    BY <2>1, <2>2
<1>5. QED
  BY <1>2, <1>4 DEF OneCopy

\* Every step keeps an event in one place, as long as no call took effect and failed.
LEMMA OneCopyInductive == TypeOK /\ OneCopyInv /\ [Next]_vars => OneCopyInv'
<1> SUFFICES ASSUME TypeOK, OneCopyInv, [Next]_vars, Without(Ambiguous)'
             PROVE  OneCopy'
  BY DEF OneCopyInv, Ambiguous, Without
<1>0. QueueTypes /\ FlusherTypes /\ FaultTypes /\ Ambiguous \in SUBSET FaultKinds
  BY DEF TypeOK, QueueTypes, FlusherTypes, FaultTypes, FaultKinds, Ambiguous
<1>a. /\ ~Fault("redis") /\ ~Fault("operational") /\ ~Fault("interface")
      /\ NoFault \/ Fault("crash") => OneCopy
  BY <1>0, FaultsGrow DEF FaultKinds, OneCopyInv, Ambiguous
<1>1. ASSUME NEW d \in Events, Record(d) PROVE OneCopy'
  <2>1. OneCopy
    BY <1>1, <1>a DEF Record
  <2>2. d \notin Range(buffer) /\ d \notin Range(log)
        /\ \A f \in Flushers : d \notin Range(payloads[f])
    BY <2>1, <1>1 DEF OneCopy, Record
  <2>3. Range(buffer') = Range(buffer) \cup {d} /\ IsInjective(buffer')
    BY <1>0, <1>1, <2>1, <2>2, QueuePush DEF Record, QueueTypes, OneCopy
  <2>4. UNCHANGED <<log, payloads>> /\ new' = new \ {d}
    BY <1>1 DEF Record, flusherVars
  <2>5. QED
    BY <2>1, <2>2, <2>3, <2>4 DEF OneCopy
<1>2. ASSUME NEW d \in Events, RecordWithoutRedis(d) PROVE OneCopy'
  <2>1. "redis" \in Ambiguous
    BY DEF Ambiguous
  <2>2. FALSE
    BY <1>0, <1>2, <2>1, FaultsGrow DEF RecordWithoutRedis
  <2>3. QED
    BY <2>2
<1>3. ASSUME NEW f \in Flushers, Flush(f) PROVE OneCopy'
  <2>0. payloads[f] \in Seq(Events) /\ buffer \in Seq(Events) /\ log \in Seq(Events)
    BY <1>0 DEF FlusherTypes, QueueTypes
  <2>k. OneCopy
    BY <1>3, <1>a
       DEF Flush, RPop, RPopNothing, Preflight, BulkInsert, BulkInsertRefused,
           BulkInsertFails, Requeue, DeadLetter
  <2>l. /\ IsInjective(log) /\ IsInjective(buffer) /\ IsInjective(payloads[f])
        /\ Range(log) \cap Range(buffer) = {}
        /\ Range(payloads[f]) \cap (Range(log) \cup Range(buffer)) = {}
    BY <2>k DEF OneCopy
  <2>1. CASE RPop(f)
    <3>1. /\ Range(buffer) = Range(buffer') \cup {Head(buffer)}
          /\ IsInjective(buffer') /\ Head(buffer) \notin Range(buffer')
          /\ Head(buffer) \in Events
      BY <2>0, <2>1, <2>l, QueuePop DEF RPop
    <3> DEFINE s == Append(payloads[f], Head(buffer))
    <3>2. Range(s) = Range(payloads[f]) \cup {Head(buffer)} /\ IsInjective(s)
      BY <2>0, <2>l, <3>1, QueuePush
    <3>3. payloads' = [payloads EXCEPT ![f] = s] /\ UNCHANGED <<new, log>>
      BY <2>1 DEF RPop
    <3> HIDE DEF s
    <3>4. QED
      BY <2>k, <2>l, <3>1, <3>2, <3>3, <1>0, OneCopyStep
  <2>2. CASE RPopNothing(f)
    BY <2>2, <2>k DEF RPopNothing, GoTo, OneCopy
  <2>3. CASE Preflight(f)
    BY <2>3, <2>k DEF Preflight, OneCopy
  <2>4. CASE BulkInsert(f)
    <3>1. Range(log') = Range(log) \cup Range(payloads[f]) /\ IsInjective(log')
      BY <2>0, <2>4, <2>l, QueueConcat DEF BulkInsert, Commit
    <3>2. payloads' = [payloads EXCEPT ![f] = <<>>] /\ UNCHANGED <<new, buffer>>
      BY <2>4 DEF BulkInsert, Finish
    <3>3. QED
      BY <2>k, <2>l, <3>1, <3>2, <1>0, OneCopyStep, QueueEmpty
  <2>5. CASE BulkInsertRefused(f)
    BY <2>5, <2>k DEF BulkInsertRefused, GoTo, OneCopy
  <2>6. CASE BulkInsertFails(f)
    <3>1. UNCHANGED <<new, buffer, log, payloads>>
      BY <2>6, <1>a DEF BulkInsertFails, GoTo
    <3>2. QED
      BY <2>k, <3>1 DEF OneCopy
  <2>7. CASE Requeue(f)
    <3>1. /\ Range(payloads[f]) = Range(Front(payloads[f])) \cup {Last(payloads[f])}
          /\ IsInjective(Front(payloads[f]))
          /\ Last(payloads[f]) \notin Range(Front(payloads[f]))
          /\ Last(payloads[f]) \in Events
      BY <2>0, <2>7, <2>l, QueuePopBack DEF Requeue
    <3>2. Range(buffer') = Range(buffer) \cup {Last(payloads[f])} /\ IsInjective(buffer')
      BY <2>0, <2>7, <2>l, <3>1, QueuePush DEF Requeue
    <3>3. UNCHANGED <<new, log>>
      BY <2>7 DEF Requeue
    <3>4. CASE Len(payloads[f]) = 1
      <4>1. payloads' = [payloads EXCEPT ![f] = <<>>]
        BY <2>7, <3>4 DEF Requeue, Finish
      <4>2. QED
        BY <2>k, <2>l, <3>1, <3>2, <3>3, <4>1, <1>0, OneCopyStep, QueueEmpty
    <3>5. CASE Len(payloads[f]) # 1
      <4>1. payloads' = [payloads EXCEPT ![f] = Front(payloads[f])]
        BY <2>7, <3>5 DEF Requeue
      <4>2. QED
        BY <2>k, <2>l, <3>1, <3>2, <3>3, <4>1, <1>0, OneCopyStep
    <3>6. QED
      BY <3>4, <3>5
  <2>8. CASE DeadLetter(f)
    <3>1. UNCHANGED <<new, buffer, log>>
      BY <2>8 DEF DeadLetter
    <3>2. CASE Len(payloads[f]) = 1
      <4>1. payloads' = [payloads EXCEPT ![f] = <<>>]
        BY <2>8, <3>2 DEF DeadLetter, Finish
      <4>2. QED
        BY <2>k, <2>l, <3>1, <4>1, <1>0, OneCopyStep, QueueEmpty
    <3>3. CASE Len(payloads[f]) # 1
      <4>1. payloads' = [payloads EXCEPT ![f] = Tail(payloads[f])]
        BY <2>8, <3>3 DEF DeadLetter
      <4>2. /\ Range(Tail(payloads[f])) \subseteq Range(payloads[f])
            /\ IsInjective(Tail(payloads[f]))
        BY <2>0, <2>8, <2>l, QueuePop DEF DeadLetter
      <4>3. QED
        BY <2>k, <2>l, <3>1, <4>1, <4>2, <1>0, OneCopyStep
    <3>4. QED
      BY <3>2, <3>3
  <2>9. QED
    BY <1>3, <2>1, <2>2, <2>3, <2>4, <2>5, <2>6, <2>7, <2>8 DEF Flush
<1>4. ASSUME NEW f \in Flushers, FlushFails(f) PROVE OneCopy'
  <2>1. Crash(f)
    BY <1>4, <1>a DEF FlushFails, RPopFails, PreflightRaises, RequeueFails, DeadLetterFails
  <2>2. OneCopy
    BY <2>1, <1>a DEF Crash
  <2>3. payloads' = [payloads EXCEPT ![f] = <<>>] /\ UNCHANGED <<new, buffer, log>>
    BY <2>1 DEF Crash, Finish
  <2>4. IsInjective(log) /\ IsInjective(buffer) /\ Range(log) \cap Range(buffer) = {}
    BY <2>2 DEF OneCopy
  <2>5. QED
    BY <2>2, <2>3, <2>4, <1>0, OneCopyStep, QueueEmpty
<1>5. CASE UNCHANGED vars
  BY <1>5, <1>a DEF vars, flusherVars, OneCopy, NoFault
<1>6. QED
  BY <1>1, <1>2, <1>3, <1>4, <1>5 DEF Next

\* However many flushers overlap and however many are killed and restarted, an
\* event gets a second row only after a call took effect and failed.
THEOREM FlushersInsertOnce == Spec => []NoDuplicateRows
<1>1. Init => OneCopyInv
  BY QueueEmpty DEF Init, OneCopyInv, OneCopy
<1>2. OneCopyInv => NoDuplicateRows
  BY DEF OneCopyInv, OneCopy, NoDuplicateRows, Ambiguous
<1>3. QED
  BY <1>1, <1>2, TypeCorrect, OneCopyInductive, PTL DEF Spec

-----------------------------------------------------------------------------
(* What a refused row costs                                                *)

\* A flusher never holds more than a batch, and an idle one holds nothing.
BatchesBounded ==
    \A f \in Flushers :
        /\ Len(payloads[f]) <= BatchSize
        /\ pc[f] = "idle" => payloads[f] = <<>>
        /\ pc[f] = "popping" => Len(payloads[f]) < BatchSize

\* Finitely many events have been recorded.
FiniteRecord == IsFiniteSet(Recorded)

\* A refused event has one copy at most on its way.
OnePoison(p) ==
    /\ Single(buffer, p)
    /\ p \in new => p \notin Range(buffer) /\ \A f \in Flushers : p \notin Range(payloads[f])
    /\ \A f \in Flushers :
          /\ Single(payloads[f], p)
          /\ p \in Range(payloads[f]) =>
                /\ p \notin Range(buffer)
                /\ \A g \in Flushers : f # g => p \notin Range(payloads[g])

\* Refused events that can spoil no further batch: they are lost, dead, or on their way
\* to the dead-letter list.
Spent ==
    {p \in IntegrityRows \ new :
        /\ p \notin Range(buffer)
        /\ \A f \in Flushers : p \in Range(payloads[f]) => pc[f] = "deadletter"}

\* Healthy events in the dead-letter list or on their way there.
Doomed ==
    {e \in Events \ IntegrityRows :
        \/ e \in dead
        \/ \E f \in Flushers : pc[f] = "deadletter" /\ e \in Range(payloads[f])}

\* Each spent event doomed at most the rest of its batch.
DoomPaidFor ==
    /\ IsFiniteSet(Doomed)
    /\ Cardinality(Doomed) <= (BatchSize - 1) * Cardinality(Spent)

\* The inductive strengthening of PoisonRadius.
PoisonInv ==
    /\ FiniteRecord
    /\ BatchesBounded
    /\ Without({"redis"}) => (\A p \in IntegrityRows : OnePoison(p)) /\ DoomPaidFor

\* More factors, a larger product.
LEMMA Monotone ==
    ASSUME NEW n \in Nat, NEW a \in Nat, NEW b \in Nat, a <= b
    PROVE  n * a <= n * b /\ n * (a + 1) = n * a + n
<1>1. b - a \in Nat /\ b = a + (b - a)
  OBVIOUS
<1>2. PICK c \in Nat : b = a + c
  BY <1>1
<1>3. n * b = n * a + n * c /\ n * c >= 0
  BY <1>2
<1>4. n * a \in Nat /\ n * c \in Nat
  OBVIOUS
<1>5. QED
  BY <1>3, <1>4

\* The account stays balanced if nothing else is doomed and what is spent stays spent.
LEMMA DoomStands ==
    ASSUME FiniteRecord', QueueTypes, DoomPaidFor, BatchSize \in Nat \ {0},
           Spent \subseteq Spent', Doomed' \subseteq Doomed
    PROVE  DoomPaidFor'
<1>1. IntegrityRows \subseteq Events
  BY AuditAssumption
<1>2. Spent' \subseteq Recorded'
  BY <1>1 DEF Spent, Recorded
<1>3. IsFiniteSet(Spent') /\ Cardinality(Spent) <= Cardinality(Spent') /\ IsFiniteSet(Spent)
  BY <1>2, FS_Subset DEF FiniteRecord
<1>4. IsFiniteSet(Doomed') /\ Cardinality(Doomed') <= Cardinality(Doomed)
  BY FS_Subset DEF DoomPaidFor
<1>5. /\ Cardinality(Spent) \in Nat /\ Cardinality(Spent') \in Nat
      /\ Cardinality(Doomed) \in Nat /\ Cardinality(Doomed') \in Nat
  BY <1>3, <1>4, FS_CardinalityType DEF DoomPaidFor
<1>6. PICK a \in Nat : a = Cardinality(Spent)
  BY <1>5
<1>7. PICK b \in Nat : b = Cardinality(Spent')
  BY <1>5
<1>8. BatchSize - 1 \in Nat
  OBVIOUS
<1>9. (BatchSize - 1) * a <= (BatchSize - 1) * b
  BY <1>3, <1>6, <1>7, <1>8, Monotone
<1>10. (BatchSize - 1) * a \in Nat /\ (BatchSize - 1) * b \in Nat
  BY <1>8
<1>11. Cardinality(Doomed') <= (BatchSize - 1) * b
  BY <1>4, <1>5, <1>6, <1>9, <1>10 DEF DoomPaidFor
<1>12. QED
  BY <1>4, <1>7, <1>11 DEF DoomPaidFor

\* A step of f that takes payloads from the buffer or back to it, or from the refused
\* batch to the dead-letter list, dooms nobody else.
LEMMA DoomStep ==
    ASSUME FlusherTypes, NEW f \in Flushers, NEW s, NEW phase,
           payloads' = [payloads EXCEPT ![f] = s],
           pc' = [pc EXCEPT ![f] = phase],
           new' = new,
           pc[f] # "deadletter" =>
              /\ phase # "deadletter"
              /\ dead' = dead
              /\ Range(buffer') \cup Range(s) \subseteq Range(buffer) \cup Range(payloads[f]),
           pc[f] = "deadletter" =>
              /\ phase = "deadletter" \/ s = <<>>
              /\ buffer' = buffer
              /\ Range(s) \subseteq Range(payloads[f])
              /\ dead' \subseteq dead \cup Range(payloads[f])
    PROVE  Spent \subseteq Spent' /\ Doomed' \subseteq Doomed
<1>1. /\ payloads'[f] = s /\ pc'[f] = phase
      /\ \A g \in Flushers : g # f => payloads'[g] = payloads[g] /\ pc'[g] = pc[g]
  BY DEF FlusherTypes
<1>2. ASSUME NEW p \in Spent PROVE p \in Spent'
  <2>1. CASE pc[f] = "deadletter"
    <3>1. \A g \in Flushers : p \in Range(payloads'[g]) => pc'[g] = "deadletter"
      BY <1>1, <2>1, QueueEmpty DEF Spent
    <3>2. QED
      BY <2>1, <3>1 DEF Spent
  <2>2. CASE pc[f] # "deadletter"
    <3>1. p \notin Range(buffer') \cup Range(s)
      BY <2>2 DEF Spent
    <3>2. \A g \in Flushers : p \in Range(payloads'[g]) => pc'[g] = "deadletter"
      BY <1>1, <3>1 DEF Spent
    <3>3. QED
      BY <3>1, <3>2 DEF Spent
  <2>3. QED
    BY <2>1, <2>2
<1>3. ASSUME NEW e \in Doomed' PROVE e \in Doomed
  <2>1. CASE e \in dead'
    BY <2>1 DEF Doomed
  <2>2. CASE e \notin dead'
    <3>1. PICK g \in Flushers : pc'[g] = "deadletter" /\ e \in Range(payloads'[g])
      BY <2>2 DEF Doomed
    <3>2. pc[g] = "deadletter" /\ e \in Range(payloads[g])
      BY <1>1, <3>1
    <3>3. QED
      BY <3>2 DEF Doomed
  <2>3. QED
    BY <2>1, <2>2
<1>4. QED
  BY <1>2, <1>3

\* A refused event stays alone when it moves between the buffer and f.
LEMMA OnePoisonStep ==
    ASSUME FlusherTypes, NEW f \in Flushers, NEW s,
           payloads' = [payloads EXCEPT ![f] = s],
           new' = new,
           NEW p, OnePoison(p),
           Single(buffer', p), Single(s, p),
           ~(p \in Range(buffer') /\ p \in Range(s)),
           p \in Range(buffer') \cup Range(s) => p \in Range(buffer) \cup Range(payloads[f])
    PROVE  OnePoison(p)'
<1>1. payloads'[f] = s /\ \A g \in Flushers : g # f => payloads'[g] = payloads[g]
  BY DEF FlusherTypes
<1>2. \A g \in Flushers : Single(payloads'[g], p)
  BY <1>1 DEF OnePoison
<1>3. p \in Range(buffer') \cup Range(s) =>
         p \notin new /\ \A g \in Flushers : g # f => p \notin Range(payloads[g])
  BY DEF OnePoison
<1>4. ASSUME NEW g \in Flushers, p \in Range(payloads'[g])
      PROVE  /\ p \notin Range(buffer')
             /\ \A h \in Flushers : g # h => p \notin Range(payloads'[h])
  <2>1. CASE g = f
    BY <2>1, <1>1, <1>3, <1>4
  <2>2. CASE g # f
    <3>1. p \in Range(payloads[g])
      BY <2>2, <1>1, <1>4
    <3>2. p \notin Range(buffer') \cup Range(s)
      BY <2>2, <3>1, <1>3
    <3>3. QED
      BY <2>2, <3>1, <3>2, <1>1 DEF OnePoison
  <2>3. QED
    BY <2>1, <2>2
<1>5. p \in new => \A g \in Flushers : p \notin Range(payloads'[g])
  BY <1>1, <1>3 DEF OnePoison
<1>6. QED
  BY <1>2, <1>3, <1>4, <1>5 DEF OnePoison

\* Batches stay within their bound, whatever fails.
LEMMA BatchesStep == TypeOK /\ BatchesBounded /\ [Next]_vars => BatchesBounded'
<1> SUFFICES ASSUME TypeOK, BatchesBounded, [Next]_vars PROVE BatchesBounded'
  OBVIOUS
<1>0. FlusherTypes /\ QueueTypes /\ BatchSize \in Nat \ {0}
  BY AuditAssumption DEF TypeOK, FlusherTypes, QueueTypes
<1>1. ASSUME NEW f \in Flushers, NEW s, NEW phase,
             payloads' = [payloads EXCEPT ![f] = s], pc' = [pc EXCEPT ![f] = phase],
             Len(s) <= BatchSize, phase = "idle" => s = <<>>,
             phase = "popping" => Len(s) < BatchSize
      PROVE  BatchesBounded'
  BY <1>0, <1>1 DEF BatchesBounded, FlusherTypes
<1>2. ASSUME NEW f \in Flushers, Finish(f) PROVE BatchesBounded'
  <2>1. payloads' = [payloads EXCEPT ![f] = <<>>] /\ pc' = [pc EXCEPT ![f] = "idle"]
    BY <1>2 DEF Finish
  <2>2. Len(<<>>) <= BatchSize
    BY <1>0
  <2>3. QED
    BY <1>1, <2>1, <2>2
<1>3. ASSUME NEW f \in Flushers, NEW phase \in Phases \ {"idle", "popping"}, GoTo(f, phase)
      PROVE  BatchesBounded'
  BY <1>0, <1>3 DEF GoTo, BatchesBounded, FlusherTypes
<1>4. ASSUME NEW f \in Flushers, RPop(f) PROVE BatchesBounded'
  <2> DEFINE s == Append(payloads[f], Head(buffer))
             phase == IF Len(payloads[f]) + 1 = BatchSize THEN "preflight" ELSE "popping"
  <2>1. payloads[f] \in Seq(Events) /\ Head(buffer) \in Events
    BY <1>0, <1>4, QueuePop DEF RPop, FlusherTypes, QueueTypes
  <2>2. Len(payloads[f]) \in Nat /\ Len(s) = Len(payloads[f]) + 1
    BY <2>1, LenProperties, AppendProperties
  <2>3. Len(payloads[f]) < BatchSize
    BY <1>0, <1>4, EmptySeq DEF RPop, BatchesBounded
  <2>4. payloads' = [payloads EXCEPT ![f] = s] /\ pc' = [pc EXCEPT ![f] = phase]
    BY <1>4 DEF RPop
  <2>5. Len(s) <= BatchSize /\ phase # "idle" /\ (phase = "popping" => Len(s) < BatchSize)
    BY <1>0, <2>2, <2>3
  <2> HIDE DEF s, phase
  <2>6. QED
    BY <1>1, <2>4, <2>5
<1>5. ASSUME NEW f \in Flushers, Requeue(f) \/ DeadLetter(f) PROVE BatchesBounded'
  <2>1. payloads[f] \in Seq(Events) /\ payloads[f] # <<>>
    BY <1>0, <1>5 DEF Requeue, DeadLetter, FlusherTypes
  <2>2. PICK s \in {Front(payloads[f]), Tail(payloads[f])} :
            \/ Finish(f)
            \/ payloads' = [payloads EXCEPT ![f] = s] /\ UNCHANGED pc
    BY <1>5 DEF Requeue, DeadLetter
  <2>3. Len(s) = Len(payloads[f]) - 1 /\ Len(payloads[f]) \in Nat
    BY <2>1, HeadTailProperties, SinglePopBack, LenProperties
  <2>4. CASE payloads' = [payloads EXCEPT ![f] = s] /\ UNCHANGED pc
    <3>1. pc' = [pc EXCEPT ![f] = pc[f]] /\ pc[f] \notin {"idle", "popping"}
      BY <1>0, <1>5, <2>4 DEF FlusherTypes, Requeue, DeadLetter
    <3>2. Len(s) <= BatchSize
      BY <1>0, <2>3 DEF BatchesBounded
    <3>3. QED
      BY <1>1, <2>4, <3>1, <3>2
  <2>5. QED
    BY <1>2, <2>2, <2>4
<1>6. ASSUME NEW f \in Flushers, Preflight(f) PROVE BatchesBounded'
  BY <1>0, <1>6 DEF Preflight, BatchesBounded, FlusherTypes
<1>7. CASE UNCHANGED flusherVars
  BY <1>7 DEF flusherVars, BatchesBounded
<1>8. QED
  BY <1>2, <1>3, <1>4, <1>5, <1>6, <1>7
     DEF Next, Record, RecordWithoutRedis, Flush, FlushFails, RPopNothing, RPopFails,
         PreflightRaises, BulkInsert, BulkInsertRefused, BulkInsertFails, RequeueFails,
         DeadLetterFails, Crash, vars, Phases

\* An event is recorded at a time.
LEMMA RecordStep == TypeOK /\ FiniteRecord /\ [Next]_vars => FiniteRecord'
<1> SUFFICES ASSUME TypeOK, FiniteRecord, [Next]_vars PROVE FiniteRecord'
  OBVIOUS
<1>1. PICK e : new' = new \/ new' = new \ {e}
  BY DEF Next, Record, RecordWithoutRedis, Flush, FlushFails, RPop, RPopNothing, RPopFails,
         Preflight, PreflightRaises, BulkInsert, BulkInsertRefused, BulkInsertFails, Requeue,
         RequeueFails, DeadLetter, DeadLetterFails, Crash, vars
<1>2. Recorded' \subseteq Recorded \cup {e}
  BY <1>1 DEF Recorded
<1>3. QED
  BY <1>2, FS_AddElement, FS_Subset DEF FiniteRecord

\* Every step but the refusal of a batch dooms nobody, and a refusal spends a refused event
\* for the at most BatchSize - 1 others it dooms.
LEMMA PoisonInductive == TypeOK /\ PoisonInv /\ [Next]_vars => PoisonInv'
<1> DEFINE OnePoisonEach == \A p \in IntegrityRows : OnePoison(p)
<1> SUFFICES ASSUME TypeOK, PoisonInv, [Next]_vars, Without({"redis"})'
             PROVE  OnePoisonEach' /\ DoomPaidFor'
  BY BatchesStep, RecordStep DEF PoisonInv
<1>0. /\ QueueTypes /\ FlusherTypes /\ FaultTypes /\ {"redis"} \in SUBSET FaultKinds
      /\ BatchSize \in Nat \ {0} /\ IntegrityRows \subseteq Events
  BY AuditAssumption DEF TypeOK, QueueTypes, FlusherTypes, FaultTypes, FaultKinds
<1>a. ~Fault("redis") /\ (NoFault \/ (\E k \in FaultKinds : Fault(k)) => Without({"redis"}))
  BY <1>0, FaultsGrow
<1>b. FiniteRecord' /\ BatchesBounded
  BY RecordStep DEF PoisonInv
<1>c. Without({"redis"}) => OnePoisonEach /\ DoomPaidFor
  BY DEF PoisonInv
<1> HIDE DEF OnePoisonEach
<1>1. ASSUME NEW d \in Events, Record(d) PROVE OnePoisonEach' /\ DoomPaidFor'
  <2>1. OnePoisonEach /\ DoomPaidFor
    BY <1>1, <1>a, <1>c DEF Record
  <2>2. Range(buffer') = Range(buffer) \cup {d} /\ buffer' = Append(buffer, d)
    BY <1>0, <1>1, QueuePush DEF Record, QueueTypes
  <2>3. UNCHANGED <<dead, pc, payloads>> /\ new' = new \ {d} /\ d \in new
    BY <1>1 DEF Record, flusherVars
  <2>4. ASSUME NEW p \in IntegrityRows PROVE OnePoison(p)'
    <3>1. OnePoison(p)
      BY <2>1 DEF OnePoisonEach
    <3>2. Single(buffer', p)
      BY <1>0, <2>2, <2>3, <3>1, SinglePush DEF QueueTypes, OnePoison
    <3>3. QED
      BY <2>2, <2>3, <3>1, <3>2 DEF OnePoison
  <2>5. Spent \subseteq Spent'
    BY <2>2, <2>3 DEF Spent
  <2>6. Doomed' \subseteq Doomed
    BY <2>3 DEF Doomed
  <2>7. QED
    BY <1>0, <1>b, <2>1, <2>4, <2>5, <2>6, DoomStands DEF OnePoisonEach
<1>2. ASSUME NEW d \in Events, RecordWithoutRedis(d) PROVE FALSE
  BY <1>0, <1>2, <1>a, FaultsGrow DEF RecordWithoutRedis
<1>3. ASSUME NEW f \in Flushers, Flush(f) \/ PreflightRaises(f) \/ Crash(f)
      PROVE  OnePoisonEach' /\ DoomPaidFor'
  <2>0. payloads[f] \in Seq(Events) /\ buffer \in Seq(Events)
    BY <1>0 DEF FlusherTypes, QueueTypes
  <2>1. OnePoisonEach /\ DoomPaidFor
    BY <1>3, <1>a, <1>c
       DEF Flush, RPop, RPopNothing, Preflight, BulkInsert, BulkInsertRefused, FaultKinds,
           BulkInsertFails, Requeue, DeadLetter, PreflightRaises, Crash
  <2>2. \A p \in IntegrityRows : Single(buffer, p) /\ Single(payloads[f], p)
           /\ (p \in Range(payloads[f]) => p \notin Range(buffer))
    BY <2>1 DEF OnePoisonEach, OnePoison
  <2>3. ASSUME NEW s, payloads' = [payloads EXCEPT ![f] = s], new' = new,
               \A p \in IntegrityRows :
                  /\ Single(buffer', p) /\ Single(s, p)
                  /\ ~(p \in Range(buffer') /\ p \in Range(s))
                  /\ p \in Range(buffer') \cup Range(s)
                        => p \in Range(buffer) \cup Range(payloads[f])
        PROVE  OnePoisonEach'
    BY <1>0, <2>1, <2>3, OnePoisonStep DEF OnePoisonEach
  <2>4. Spent \subseteq Spent' /\ Doomed' \subseteq Doomed => DoomPaidFor'
    BY <1>0, <1>b, <2>1, DoomStands
  <2>5. ASSUME buffer' = buffer, new' = new, payloads' = payloads PROVE OnePoisonEach'
    BY <2>1, <2>5 DEF OnePoisonEach, OnePoison
  <2>6. ASSUME Finish(f), buffer' = buffer, new' = new, dead' = dead
        PROVE  OnePoisonEach' /\ DoomPaidFor'
    <3>1. /\ payloads' = [payloads EXCEPT ![f] = <<>>]
          /\ pc' = [pc EXCEPT ![f] = "idle"]
      BY <2>6 DEF Finish
    <3>2. \A p : Single(<<>>, p)
      BY DEF Single
    <3>3. OnePoisonEach'
      BY <2>2, <2>3, <2>6, <3>1, <3>2, QueueEmpty
    <3>4. Spent \subseteq Spent' /\ Doomed' \subseteq Doomed
      BY <1>0, <2>6, <3>1, QueueEmpty, DoomStep
    <3>5. QED
      BY <3>3, <3>4, <2>4
  <2>7. ASSUME NEW phase, phase # "deadletter", pc[f] # "deadletter",
               pc' = [pc EXCEPT ![f] = phase], UNCHANGED <<new, buffer, dead, payloads>>
        PROVE  OnePoisonEach' /\ DoomPaidFor'
    <3>1. payloads' = [payloads EXCEPT ![f] = payloads[f]]
      BY <1>0, <2>7 DEF FlusherTypes
    <3>2. Spent \subseteq Spent' /\ Doomed' \subseteq Doomed
      BY <1>0, <2>7, <3>1, DoomStep
    <3>3. QED
      BY <3>2, <2>4, <2>5, <2>7
  <2>8. CASE RPop(f)
    <3> DEFINE s == Append(payloads[f], Head(buffer))
               phase == IF Len(payloads[f]) + 1 = BatchSize THEN "preflight" ELSE "popping"
    <3>1. /\ buffer # <<>> /\ buffer' = Tail(buffer)
          /\ payloads' = [payloads EXCEPT ![f] = s] /\ pc' = [pc EXCEPT ![f] = phase]
          /\ UNCHANGED <<new, dead>> /\ pc[f] # "deadletter"
      BY <2>8 DEF RPop
    <3>2. /\ Head(buffer) \in Events
          /\ Range(buffer) = Range(buffer') \cup {Head(buffer)}
          /\ Range(s) = Range(payloads[f]) \cup {Head(buffer)}
      BY <2>0, <3>1, QueuePop, QueuePush
    <3>3. phase # "deadletter"
      OBVIOUS
    <3>4. ASSUME NEW p \in IntegrityRows
          PROVE  /\ Single(buffer', p) /\ Single(s, p)
                 /\ ~(p \in Range(buffer') /\ p \in Range(s))
      <4>1. Single(buffer', p) /\ (Head(buffer) = p => p \notin Range(buffer'))
        BY <2>0, <2>2, <3>1, SinglePop
      <4>2. Head(buffer) = p => p \notin Range(payloads[f])
        BY <2>2, <3>2
      <4>3. Single(s, p)
        BY <2>0, <2>2, <3>2, <4>2, SinglePush
      <4>4. QED
        BY <2>2, <3>2, <4>1, <4>3
    <3> HIDE DEF s, phase
    <3>5. OnePoisonEach'
      BY <2>3, <3>1, <3>2, <3>4
    <3>6. Spent \subseteq Spent' /\ Doomed' \subseteq Doomed
      BY <1>0, <3>1, <3>2, <3>3, DoomStep
    <3>7. QED
      BY <2>4, <3>5, <3>6
  <2>9. CASE RPopNothing(f)
    BY <2>7, <2>9 DEF RPopNothing, GoTo
  <2>10. CASE Preflight(f)
    BY <2>7, <2>10 DEF Preflight
  <2>11. CASE BulkInsert(f)
    BY <2>6, <2>11 DEF BulkInsert
  <2>12. CASE BulkInsertRefused(f)
    <3>1. /\ pc[f] = "insert" /\ pc' = [pc EXCEPT ![f] = "deadletter"]
          /\ UNCHANGED <<new, buffer, dead, payloads>>
      BY <2>12 DEF BulkInsertRefused, GoTo
    <3>2. PICK p \in IntegrityRows : p \in Range(payloads[f])
      BY <2>12 DEF BulkInsertRefused
    <3>3. /\ pc'[f] = "deadletter"
          /\ \A g \in Flushers : g # f => pc'[g] = pc[g]
      BY <1>0, <3>1 DEF FlusherTypes
    <3>4. OnePoison(p)
      BY <2>1 DEF OnePoisonEach
    <3>5. p \in Spent' /\ p \notin Spent /\ Spent \subseteq Spent'
      BY <3>1, <3>2, <3>3, <3>4 DEF Spent, OnePoison
    <3>6. Doomed' \subseteq Doomed \cup (Range(payloads[f]) \ {p})
      BY <3>1, <3>2, <3>3 DEF Doomed
    <3>7. /\ IsFiniteSet(Range(payloads[f]) \ {p})
          /\ Cardinality(Range(payloads[f]) \ {p}) <= BatchSize - 1
      <4>1. /\ IsFiniteSet(Range(payloads[f]))
            /\ Cardinality(Range(payloads[f])) <= Len(payloads[f])
        BY <2>0, QueueSize
      <4>2. Cardinality(Range(payloads[f])) \in Nat /\ Len(payloads[f]) \in Nat
        BY <2>0, <4>1, FS_CardinalityType, LenProperties
      <4>3. /\ IsFiniteSet(Range(payloads[f]) \ {p})
            /\ Cardinality(Range(payloads[f]) \ {p}) = Cardinality(Range(payloads[f])) - 1
        BY <3>2, <4>1, FS_RemoveElement
      <4>4. QED
        BY <1>0, <1>b, <4>1, <4>2, <4>3 DEF BatchesBounded
    <3> DEFINE rest == Range(payloads[f]) \ {p}
    <3> HIDE DEF rest
    <3>8. /\ IsFiniteSet(Doomed')
          /\ Cardinality(Doomed') <= Cardinality(Doomed) + (BatchSize - 1)
      <4>1. /\ IsFiniteSet(Doomed \cup rest)
            /\ Cardinality(Doomed \cup rest)
                  = Cardinality(Doomed) + Cardinality(rest) - Cardinality(Doomed \cap rest)
        BY <2>1, <3>7, FS_Union DEF DoomPaidFor, rest
      <4>2. IsFiniteSet(Doomed \cap rest)
        BY <2>1, FS_Intersection DEF DoomPaidFor
      <4>3. /\ Cardinality(Doomed) \in Nat /\ Cardinality(rest) \in Nat
            /\ Cardinality(Doomed \cap rest) \in Nat
        BY <2>1, <3>7, <4>2, FS_CardinalityType DEF DoomPaidFor, rest
      <4>4. /\ IsFiniteSet(Doomed')
            /\ Cardinality(Doomed') <= Cardinality(Doomed \cup rest)
        BY <3>6, <4>1, FS_Subset DEF rest
      <4>5. Cardinality(Doomed') \in Nat /\ Cardinality(rest) <= BatchSize - 1
        BY <3>7, <4>4, FS_CardinalityType DEF rest
      <4>6. QED
        BY <1>0, <4>1, <4>3, <4>4, <4>5
    <3>9. IsFiniteSet(Spent') /\ IsFiniteSet(Spent) /\ Cardinality(Spent) + 1 <= Cardinality(Spent')
      <4>1. Spent' \subseteq Recorded'
        BY <1>0 DEF Spent, Recorded
      <4>2. IsFiniteSet(Spent')
        BY <1>b, <4>1, FS_Subset DEF FiniteRecord
      <4>3. Spent \cup {p} \subseteq Spent'
        BY <3>5
      <4>4. IsFiniteSet(Spent)
        BY <3>5, <4>2, FS_Subset
      <4>5. Cardinality(Spent \cup {p}) = Cardinality(Spent) + 1
        BY <3>5, <4>4, FS_AddElement
      <4>6. Cardinality(Spent \cup {p}) <= Cardinality(Spent')
        BY <4>2, <4>3, FS_Subset
      <4>7. QED
        BY <4>2, <4>4, <4>5, <4>6
    <3>10. PICK a \in Nat, b \in Nat : a = Cardinality(Spent) /\ b = Cardinality(Spent')
      BY <3>9, FS_CardinalityType
    <3>11. PICK n \in Nat : n = BatchSize - 1
      BY <1>0
    <3>12. PICK c \in Nat, d \in Nat : c = Cardinality(Doomed) /\ d = Cardinality(Doomed')
      BY <2>1, <3>8, FS_CardinalityType DEF DoomPaidFor
    <3>13. c <= n * a /\ d <= c + n /\ a + 1 <= b
      BY <2>1, <3>8, <3>9, <3>10, <3>11, <3>12 DEF DoomPaidFor
    <3>14. n * (a + 1) <= n * b /\ n * (a + 1) = n * a + n
      BY <3>13, Monotone
    <3>15. n * a \in Nat /\ n * (a + 1) \in Nat /\ n * b \in Nat
      OBVIOUS
    <3>16. d <= n * b
      BY <3>13, <3>14, <3>15
    <3>17. DoomPaidFor'
      BY <3>8, <3>10, <3>11, <3>12, <3>16 DEF DoomPaidFor
    <3>18. QED
      BY <2>5, <3>1, <3>17
  <2>13. CASE BulkInsertFails(f)
    BY <2>7, <2>13 DEF BulkInsertFails, GoTo
  <2>14. CASE Requeue(f)
    <3>1. /\ pc[f] = "requeue" /\ payloads[f] # <<>> /\ UNCHANGED <<new, dead>>
          /\ buffer' = Append(buffer, Last(payloads[f]))
      BY <2>14 DEF Requeue
    <3>2. /\ Last(payloads[f]) \in Events
          /\ Range(payloads[f]) = Range(Front(payloads[f])) \cup {Last(payloads[f])}
          /\ Range(buffer') = Range(buffer) \cup {Last(payloads[f])}
      BY <2>0, <3>1, QueuePopBack, QueuePush
    <3>3. PICK s, phase :
             /\ payloads' = [payloads EXCEPT ![f] = s] /\ pc' = [pc EXCEPT ![f] = phase]
             /\ phase # "deadletter" /\ s \in {<<>>, Front(payloads[f])}
      <4>1. CASE Len(payloads[f]) = 1
        BY <2>14, <4>1 DEF Requeue, Finish
      <4>2. CASE Len(payloads[f]) # 1
        <5>1. pc' = [pc EXCEPT ![f] = pc[f]]
          BY <1>0, <2>14, <4>2 DEF Requeue, FlusherTypes
        <5>2. QED
          BY <2>14, <3>1, <4>2, <5>1 DEF Requeue
      <4>3. QED
        BY <4>1, <4>2
    <3>4. ASSUME NEW p \in IntegrityRows
          PROVE  /\ Single(buffer', p) /\ Single(s, p)
                 /\ ~(p \in Range(buffer') /\ p \in Range(s))
      <4>1. Single(Front(payloads[f]), p)
            /\ (Last(payloads[f]) = p => p \notin Range(Front(payloads[f])))
        BY <2>0, <2>2, <3>1, SinglePopBack
      <4>2. Last(payloads[f]) = p => p \notin Range(buffer)
        BY <2>2, <3>2
      <4>3. Single(buffer', p)
        BY <2>0, <2>2, <3>1, <3>2, <4>2, SinglePush
      <4>4. Single(<<>>, p)
        BY DEF Single
      <4>5. QED
        BY <2>2, <3>2, <3>3, <4>1, <4>3, <4>4, QueueEmpty
    <3>5. Range(s) \subseteq Range(payloads[f])
      BY <3>2, <3>3, QueueEmpty
    <3>6. OnePoisonEach'
      BY <2>3, <3>1, <3>2, <3>3, <3>4, <3>5
    <3>7. Spent \subseteq Spent' /\ Doomed' \subseteq Doomed
      BY <1>0, <3>1, <3>2, <3>3, <3>5, DoomStep
    <3>8. QED
      BY <2>4, <3>6, <3>7
  <2>15. CASE DeadLetter(f)
    <3>1. /\ pc[f] = "deadletter" /\ payloads[f] # <<>> /\ UNCHANGED <<new, buffer>>
          /\ dead' = dead \cup {Head(payloads[f])}
      BY <2>15 DEF DeadLetter
    <3>2. Range(payloads[f]) = Range(Tail(payloads[f])) \cup {Head(payloads[f])}
      BY <2>0, <3>1, QueuePop
    <3>3. PICK s, phase :
             /\ payloads' = [payloads EXCEPT ![f] = s] /\ pc' = [pc EXCEPT ![f] = phase]
             /\ phase = "deadletter" \/ s = <<>>
             /\ s \in {<<>>, Tail(payloads[f])}
      <4>1. CASE Len(payloads[f]) = 1
        BY <2>15, <4>1 DEF DeadLetter, Finish
      <4>2. CASE Len(payloads[f]) # 1
        <5>1. pc' = [pc EXCEPT ![f] = pc[f]]
          BY <1>0, <2>15, <4>2 DEF DeadLetter, FlusherTypes
        <5>2. QED
          BY <2>15, <3>1, <4>2, <5>1 DEF DeadLetter
      <4>3. QED
        BY <4>1, <4>2
    <3>4. Range(s) \subseteq Range(payloads[f])
      BY <3>2, <3>3, QueueEmpty
    <3>5. ASSUME NEW p \in IntegrityRows PROVE Single(s, p)
      <4>1. Single(Tail(payloads[f]), p)
        BY <2>0, <2>2, <3>1, SinglePop
      <4>2. Single(<<>>, p)
        BY DEF Single
      <4>3. QED
        BY <3>3, <4>1, <4>2
    <3>6. OnePoisonEach'
      BY <2>2, <2>3, <3>1, <3>3, <3>4, <3>5
    <3>7. Spent \subseteq Spent' /\ Doomed' \subseteq Doomed
      BY <1>0, <3>1, <3>2, <3>3, <3>4, DoomStep
    <3>8. QED
      BY <2>4, <3>6, <3>7
  <2>16. CASE PreflightRaises(f)
    BY <2>6, <2>16 DEF PreflightRaises
  <2>17. CASE Crash(f)
    BY <2>6, <2>17 DEF Crash
  <2>18. QED
    BY <1>3, <2>8, <2>9, <2>10, <2>11, <2>12, <2>13, <2>14, <2>15, <2>16, <2>17 DEF Flush
<1>4. ASSUME NEW f \in Flushers, FlushFails(f)
      PROVE  Flush(f) \/ PreflightRaises(f) \/ Crash(f)
  BY <1>4, <1>a DEF FlushFails, RPopFails, RequeueFails, DeadLetterFails
<1>5. CASE UNCHANGED vars
  <2>1. OnePoisonEach /\ DoomPaidFor
    BY <1>5, <1>a, <1>c DEF vars, NoFault
  <2>2. QED
    BY <1>5, <2>1 DEF vars, flusherVars, OnePoisonEach, OnePoison, DoomPaidFor, Doomed, Spent
<1>6. QED
  BY <1>1, <1>2, <1>3, <1>4, <1>5 DEF Next

\* For any batch size, number of flushers and pattern of failures other than Redis's: a
\* refused event takes at most BatchSize - 1 healthy ones to the dead-letter list with it.
THEOREM PoisonIsContained == Spec => []PoisonRadius
<1>1. Init => PoisonInv
  <2> SUFFICES ASSUME Init PROVE PoisonInv
    OBVIOUS
  <2>1. Recorded = {} /\ Spent = {} /\ Doomed = {}
    BY AuditAssumption DEF Init, Recorded, Spent, Doomed
  <2>2. FiniteRecord
    BY <2>1, FS_EmptySet DEF FiniteRecord
  <2>3. BatchesBounded
    BY AuditAssumption, EmptySeq DEF Init, BatchesBounded
  <2>4. \A p : OnePoison(p)
    BY QueueEmpty DEF Init, OnePoison, Single
  <2>5. DoomPaidFor
    <3>1. IsFiniteSet(Doomed) /\ Cardinality(Doomed) = 0 /\ Cardinality(Spent) = 0
      BY <2>1, FS_EmptySet
    <3>2. (BatchSize - 1) * 0 = 0
      BY AuditAssumption
    <3>3. QED
      BY <3>1, <3>2 DEF DoomPaidFor
  <2>6. QED
    BY <2>2, <2>3, <2>4, <2>5 DEF PoisonInv
<1>2. TypeOK /\ PoisonInv => PoisonRadius
  <2> SUFFICES ASSUME TypeOK, PoisonInv, Without({"redis"})
               PROVE  Cardinality(dead \ IntegrityRows)
                         <= (BatchSize - 1) * Cardinality(IntegrityRows \ new)
    BY DEF PoisonRadius
  <2>1. /\ dead \ IntegrityRows \subseteq Doomed
        /\ Spent \subseteq IntegrityRows \ new
        /\ IntegrityRows \ new \subseteq Recorded
    BY AuditAssumption DEF TypeOK, Doomed, Spent, Recorded
  <2>2. IsFiniteSet(Doomed) /\ IsFiniteSet(IntegrityRows \ new)
    BY <2>1, FS_Subset DEF PoisonInv, DoomPaidFor, FiniteRecord
  <2>3. /\ IsFiniteSet(dead \ IntegrityRows) /\ IsFiniteSet(Spent)
        /\ Cardinality(dead \ IntegrityRows) <= Cardinality(Doomed)
        /\ Cardinality(Spent) <= Cardinality(IntegrityRows \ new)
    BY <2>1, <2>2, FS_Subset
  <2>4. PICK n \in Nat, a \in Nat, b \in Nat, c \in Nat, d \in Nat :
           /\ n = BatchSize - 1 /\ a = Cardinality(Spent) /\ b = Cardinality(IntegrityRows \ new)
           /\ c = Cardinality(Doomed) /\ d = Cardinality(dead \ IntegrityRows)
    <3>1. BatchSize - 1 \in Nat
      BY AuditAssumption
    <3>2. /\ Cardinality(Spent) \in Nat /\ Cardinality(IntegrityRows \ new) \in Nat
          /\ Cardinality(Doomed) \in Nat /\ Cardinality(dead \ IntegrityRows) \in Nat
      BY <2>2, <2>3, FS_CardinalityType
    <3>3. QED
      BY <3>1, <3>2
  <2>5. c <= n * a /\ d <= c /\ a <= b
    BY <2>3, <2>4 DEF PoisonInv, DoomPaidFor
  <2>6. n * a <= n * b /\ n * a \in Nat /\ n * b \in Nat
    BY <2>5, Monotone
  <2>7. d <= n * b
    BY <2>5, <2>6
  <2>8. QED
    BY <2>4, <2>7
<1>3. QED
  BY <1>1, <1>2, PoisonInductive, TypeCorrect, PTL DEF Spec

-----------------------------------------------------------------------------
(* What a failed pre-flight query costs                                    *)

\* Stored rows of actors that are still there, without their names.
Unnamed == anonymous \ Orphans

\* Flushers about to insert a batch without its actors.
Blind == {f \in Flushers : pc[f] = "insert" /\ actorless[f]}

\* Each failed query blinded one batch, which is still held or cost what it held.
NamesPaidFor ==
    /\ IsFiniteSet(Unnamed)
    /\ IsFiniteSet(Blind)
    /\ Cardinality(Unnamed) + BatchSize * Cardinality(Blind) <= BatchSize * faults["operational"]

\* The inductive strengthening of AnonymityRadius.
NamesInv ==
    /\ BatchesBounded
    /\ \A f \in Flushers : actorless[f] => pc[f] \notin {"idle", "popping", "preflight"}
    /\ NamesPaidFor

\* No counter of failures goes back.
LEMMA FaultsNeverShrink ==
    TypeOK /\ [Next]_vars =>
        /\ faults["operational"] \in Nat /\ faults'["operational"] \in Nat
        /\ faults["operational"] <= faults'["operational"]
<1> SUFFICES ASSUME TypeOK, [Next]_vars
             PROVE  /\ faults["operational"] \in Nat /\ faults'["operational"] \in Nat
                    /\ faults["operational"] <= faults'["operational"]
  OBVIOUS
<1>1. FaultTypes
  BY DEF TypeOK, FaultTypes
<1>2. \/ NoFault \/ UNCHANGED vars
      \/ \E k \in FaultKinds : Fault(k)
      \/ faults' = [faults EXCEPT !["redis"] = @ + 1, !["operational"] = @ + 1]
  BY DEF Next, Record, RecordWithoutRedis, Flush, FlushFails, RPop, RPopNothing, RPopFails,
         Preflight, PreflightRaises, BulkInsert, BulkInsertRefused, BulkInsertFails, Requeue,
         RequeueFails, DeadLetter, DeadLetterFails, Crash, FaultKinds
<1>3. QED
  BY <1>1, <1>2 DEF FaultTypes, FaultKinds, NoFault, Fault, vars

\* A batch inserted without its actors leaves Blind for what it adds to Unnamed; any other
\* step adds nothing to Unnamed, and to Blind at most the batch of a query that fails.
LEMMA AccountStands ==
    ASSUME NamesPaidFor, BatchSize \in Nat \ {0}, NEW n \in Nat, NEW m \in Nat, n <= m,
           faults["operational"] = n, faults'["operational"] = m,
           \/ Unnamed' \subseteq Unnamed /\ Blind' \subseteq Blind
           \/ /\ Unnamed' \subseteq Unnamed
              /\ n + 1 <= m
              /\ \E f : Blind' \subseteq Blind \cup {f}
           \/ \E f \in Blind : \E S :
                 /\ IsFiniteSet(S) /\ Cardinality(S) <= BatchSize
                 /\ Unnamed' \subseteq Unnamed \cup S
                 /\ Blind' \subseteq Blind \ {f}
    PROVE  NamesPaidFor'
<1>1. PICK u \in Nat, b \in Nat : u = Cardinality(Unnamed) /\ b = Cardinality(Blind)
  BY FS_CardinalityType DEF NamesPaidFor
<1>2. u + BatchSize * b <= BatchSize * n
  BY <1>1 DEF NamesPaidFor
<1>3. BatchSize * n <= BatchSize * m /\ BatchSize * (n + 1) = BatchSize * n + BatchSize
  BY Monotone
<1>4. BatchSize * n \in Nat /\ BatchSize * m \in Nat /\ BatchSize * b \in Nat
      /\ BatchSize * (n + 1) \in Nat
  OBVIOUS
<1>5. ASSUME NEW v \in Nat, NEW c \in Nat, IsFiniteSet(Unnamed'), IsFiniteSet(Blind'),
             Cardinality(Unnamed') <= v, Cardinality(Blind') <= c,
             v + BatchSize * c <= BatchSize * m
      PROVE  NamesPaidFor'
  <2>1. PICK w \in Nat, d \in Nat : w = Cardinality(Unnamed') /\ d = Cardinality(Blind')
    BY <1>5, FS_CardinalityType
  <2>2. w <= v /\ d <= c
    BY <1>5, <2>1
  <2>3. BatchSize * d <= BatchSize * c
    BY <2>2, Monotone
  <2>4. BatchSize * d \in Nat /\ BatchSize * c \in Nat
    OBVIOUS
  <2>5. w + BatchSize * d <= BatchSize * m
    BY <1>4, <1>5, <2>2, <2>3, <2>4
  <2>6. QED
    BY <1>5, <2>1, <2>5 DEF NamesPaidFor
<1>6. CASE Unnamed' \subseteq Unnamed /\ Blind' \subseteq Blind
  <2>1. /\ IsFiniteSet(Unnamed') /\ Cardinality(Unnamed') <= u
        /\ IsFiniteSet(Blind') /\ Cardinality(Blind') <= b
    BY <1>1, <1>6, FS_Subset DEF NamesPaidFor
  <2>2. QED
    BY <1>2, <1>3, <1>4, <1>5, <2>1
<1>7. ASSUME Unnamed' \subseteq Unnamed, n + 1 <= m, NEW f, Blind' \subseteq Blind \cup {f}
      PROVE  NamesPaidFor'
  <2>1. IsFiniteSet(Unnamed') /\ Cardinality(Unnamed') <= u
    BY <1>1, <1>7, FS_Subset DEF NamesPaidFor
  <2>2. IsFiniteSet(Blind \cup {f}) /\ Cardinality(Blind \cup {f}) <= b + 1
    <3>1. IsFiniteSet(Blind)
      BY DEF NamesPaidFor
    <3>2. /\ IsFiniteSet(Blind \cup {f})
          /\ Cardinality(Blind \cup {f}) = IF f \in Blind THEN Cardinality(Blind)
                                                         ELSE Cardinality(Blind) + 1
      BY <3>1, FS_AddElement
    <3>3. QED
      BY <1>1, <3>2
  <2>3. IsFiniteSet(Blind') /\ Cardinality(Blind') <= Cardinality(Blind \cup {f})
    BY <1>7, <2>2, FS_Subset
  <2>4. Cardinality(Blind') \in Nat /\ Cardinality(Blind \cup {f}) \in Nat
    BY <2>2, <2>3, FS_CardinalityType
  <2>5. Cardinality(Blind') <= b + 1
    BY <2>2, <2>3, <2>4
  <2>6. BatchSize * (b + 1) = BatchSize * b + BatchSize /\ BatchSize * (n + 1) <= BatchSize * m
    BY <1>7, Monotone
  <2>7. BatchSize * (b + 1) \in Nat
    OBVIOUS
  <2>8. u + BatchSize * (b + 1) <= BatchSize * m
    BY <1>2, <1>3, <1>4, <2>6, <2>7
  <2>9. QED
    BY <1>5, <2>1, <2>3, <2>5, <2>8
<1>8. ASSUME NEW f \in Blind, NEW S, IsFiniteSet(S), Cardinality(S) <= BatchSize,
             Unnamed' \subseteq Unnamed \cup S, Blind' \subseteq Blind \ {f}
      PROVE  NamesPaidFor'
  <2>1. /\ IsFiniteSet(Unnamed \cup S)
        /\ Cardinality(Unnamed \cup S)
              = Cardinality(Unnamed) + Cardinality(S) - Cardinality(Unnamed \cap S)
    BY <1>8, FS_Union DEF NamesPaidFor
  <2>2. IsFiniteSet(Unnamed \cap S)
    BY FS_Intersection DEF NamesPaidFor
  <2>3. PICK s \in Nat, i \in Nat : s = Cardinality(S) /\ i = Cardinality(Unnamed \cap S)
    BY <1>8, <2>2, FS_CardinalityType
  <2>4. /\ IsFiniteSet(Unnamed') /\ Cardinality(Unnamed') <= Cardinality(Unnamed \cup S)
    BY <1>8, <2>1, FS_Subset
  <2>5. Cardinality(Unnamed \cup S) <= u + BatchSize
    BY <1>1, <1>8, <2>1, <2>3
  <2>6. Cardinality(Unnamed') \in Nat /\ Cardinality(Unnamed \cup S) \in Nat
    BY <2>1, <2>4, FS_CardinalityType
  <2>7. Cardinality(Unnamed') <= u + BatchSize
    BY <2>4, <2>5, <2>6
  <2>8. IsFiniteSet(Blind \ {f}) /\ Cardinality(Blind \ {f}) = b - 1
    BY <1>1, <1>8, FS_RemoveElement DEF NamesPaidFor
  <2>9. IsFiniteSet(Blind') /\ Cardinality(Blind') <= b - 1 /\ b - 1 \in Nat
    <3>1. IsFiniteSet(Blind') /\ Cardinality(Blind') <= Cardinality(Blind \ {f})
      BY <1>8, <2>8, FS_Subset
    <3>2. Cardinality(Blind \ {f}) \in Nat
      BY <2>8, FS_CardinalityType
    <3>3. QED
      BY <2>8, <3>1, <3>2
  <2>10. PICK c \in Nat : c = b - 1
    BY <2>9
  <2>11. BatchSize * (c + 1) = BatchSize * c + BatchSize /\ b = c + 1
    BY <2>10, Monotone
  <2>12. (u + BatchSize) + BatchSize * c <= BatchSize * m
    <3>1. BatchSize * c \in Nat
      OBVIOUS
    <3>2. QED
      BY <1>2, <1>3, <1>4, <2>11, <3>1
  <2>13. u + BatchSize \in Nat
    OBVIOUS
  <2>14. QED
    BY <1>5, <2>4, <2>7, <2>9, <2>10, <2>12, <2>13
<1>9. QED
  BY <1>6, <1>7, <1>8

\* A committed batch adds its rows to Unnamed only when it went without its actors.
LEMMA CommitUnnamed ==
    ASSUME NEW batch, NEW b, Commit(batch, b)
    PROVE  /\ Unnamed' \subseteq Unnamed \cup Range(batch)
           /\ ~b => Unnamed' \subseteq Unnamed
BY DEF Commit, Unnamed

LEMMA NamesInductive == TypeOK /\ NamesInv /\ [Next]_vars => NamesInv'
<1> SUFFICES ASSUME TypeOK, NamesInv, [Next]_vars PROVE NamesInv'
  OBVIOUS
<1>0. FlusherTypes /\ BatchSize \in Nat \ {0} /\ BatchesBounded' /\ BatchesBounded /\ NamesPaidFor
  BY AuditAssumption, BatchesStep DEF TypeOK, FlusherTypes, NamesInv
<1>1. PICK n \in Nat, m \in Nat :
          n <= m /\ n = faults["operational"] /\ m = faults'["operational"]
  BY FaultsNeverShrink
<1> DEFINE Seeing == \A f \in Flushers : actorless[f] => pc[f] \notin {"idle", "popping", "preflight"}
           Dull == Unnamed' \subseteq Unnamed /\ Blind' \subseteq Blind
           Blinds == \E f \in Flushers : /\ Unnamed' \subseteq Unnamed /\ n + 1 <= m
                                         /\ Blind' \subseteq Blind \cup {f}
           Costs == \E f \in Blind : /\ Unnamed' \subseteq Unnamed \cup Range(payloads[f])
                                     /\ Blind' \subseteq Blind \ {f}
<1>2. Seeing
  BY DEF NamesInv
<1>3. ASSUME NEW f \in Flushers, NEW phase, pc' = [pc EXCEPT ![f] = phase],
             actorless' = [actorless EXCEPT ![f] = FALSE] \/ UNCHANGED actorless,
             phase = "insert" => ~actorless[f] \/ actorless' = [actorless EXCEPT ![f] = FALSE],
             phase \in {"popping", "preflight"} => pc[f] \in {"idle", "popping"},
             phase = "idle" => actorless' = [actorless EXCEPT ![f] = FALSE]
      PROVE  Seeing' /\ Blind' \subseteq Blind \ {f}
  BY <1>0, <1>2, <1>3 DEF FlusherTypes, Blind
<1>4. ASSUME NEW f \in Flushers, Finish(f) PROVE Seeing' /\ Blind' \subseteq Blind \ {f}
  BY <1>3, <1>4 DEF Finish
<1>5. ASSUME NEW f \in Flushers, BulkInsert(f) \/ BulkInsertFails(f)
      PROVE  Seeing' /\ (Dull \/ Costs)
  <2>1. Seeing' /\ Blind' \subseteq Blind \ {f}
    BY <1>3, <1>4, <1>5 DEF BulkInsert, BulkInsertFails, GoTo
  <2>2. anonymous' = anonymous \/ Commit(payloads[f], actorless[f])
    BY <1>5 DEF BulkInsert, BulkInsertFails
  <2>3. CASE actorless[f] /\ Commit(payloads[f], actorless[f])
    <3>1. f \in Blind
      BY <1>5, <2>3 DEF Blind, BulkInsert, BulkInsertFails
    <3>2. QED
      BY <2>1, <2>3, <3>1, CommitUnnamed
  <2>4. CASE ~actorless[f] /\ Commit(payloads[f], actorless[f])
    BY <2>1, <2>4, CommitUnnamed
  <2>5. CASE anonymous' = anonymous
    BY <2>1, <2>5 DEF Unnamed
  <2>6. QED
    BY <2>2, <2>3, <2>4, <2>5, <1>0 DEF FlusherTypes
<1>6. ASSUME NEW f \in Flushers, Preflight(f) PROVE Seeing' /\ (Dull \/ Blinds)
  <2>1. pc[f] = "preflight" /\ ~actorless[f] /\ pc' = [pc EXCEPT ![f] = "insert"]
        /\ anonymous' = anonymous
    BY <1>2, <1>6 DEF Preflight
  <2>2. CASE UNCHANGED actorless
    BY <1>3, <2>1, <2>2 DEF Unnamed
  <2>3. CASE Fault("operational") /\ actorless' = [actorless EXCEPT ![f] = TRUE]
    <3>1. n + 1 <= m
      <4>1. FaultTypes
        BY DEF TypeOK, FaultTypes
      <4>2. QED
        BY <1>1, <2>3, <4>1 DEF Fault, FaultTypes, FaultKinds
    <3>2. Seeing' /\ Blind' \subseteq Blind \cup {f}
      BY <1>0, <1>2, <2>1, <2>3 DEF FlusherTypes, Blind
    <3>3. QED
      BY <2>1, <3>1, <3>2 DEF Unnamed
  <2>4. QED
    BY <1>6, <2>2, <2>3 DEF Preflight
<1>7. ASSUME NEW f \in Flushers, Flush(f) \/ FlushFails(f),
             ~(BulkInsert(f) \/ BulkInsertFails(f) \/ Preflight(f))
      PROVE  Seeing' /\ Dull
  <2>1. anonymous' = anonymous
    BY <1>7 DEF Flush, FlushFails, RPop, RPopNothing, RPopFails, PreflightRaises,
                BulkInsertRefused, Requeue, RequeueFails, DeadLetter, DeadLetterFails, Crash
  <2>2. CASE Finish(f)
    BY <1>4, <2>1, <2>2 DEF Unnamed
  <2>3. CASE RPop(f)
    <3> DEFINE phase == IF Len(payloads[f]) + 1 = BatchSize THEN "preflight" ELSE "popping"
    <3>1. /\ pc' = [pc EXCEPT ![f] = phase] /\ UNCHANGED actorless
          /\ pc[f] \in {"idle", "popping"}
      BY <2>3 DEF RPop
    <3>2. phase \in {"popping", "preflight"}
      OBVIOUS
    <3> HIDE DEF phase
    <3>3. QED
      BY <1>3, <2>1, <3>1, <3>2 DEF Unnamed
  <2>4. CASE RPopNothing(f)
    BY <1>3, <2>1, <2>4 DEF RPopNothing, GoTo, Unnamed
  <2>5. CASE BulkInsertRefused(f)
    BY <1>3, <2>1, <2>5 DEF BulkInsertRefused, GoTo, Unnamed
  <2>6. CASE UNCHANGED <<pc, actorless>>
    BY <1>2, <2>1, <2>6 DEF Unnamed, Blind
  <2>7. QED
    BY <1>7, <2>2, <2>3, <2>4, <2>5, <2>6
       DEF Flush, FlushFails, RPopFails, PreflightRaises, Requeue, RequeueFails, DeadLetter,
           DeadLetterFails, Crash
<1>8. ASSUME NEW e \in Events, Record(e) \/ RecordWithoutRedis(e) PROVE Seeing' /\ Dull
  <2>1. UNCHANGED <<pc, actorless>>
    BY <1>8 DEF Record, RecordWithoutRedis, flusherVars
  <2>2. anonymous' = anonymous \/ Commit(<<e>>, FALSE)
    BY <1>8 DEF Record, RecordWithoutRedis
  <2>3. Unnamed' \subseteq Unnamed
    BY <2>2, CommitUnnamed DEF Unnamed
  <2>4. QED
    BY <1>2, <2>1, <2>3 DEF Blind
<1>9. ASSUME UNCHANGED vars PROVE Seeing' /\ Dull
  BY <1>2, <1>9 DEF vars, flusherVars, Unnamed, Blind
<1>10. Seeing' /\ (Dull \/ Blinds \/ Costs)
  BY <1>5, <1>6, <1>7, <1>8, <1>9 DEF Next
<1> HIDE DEF Seeing
<1>11. CASE Costs
  <2>1. PICK f \in Blind : /\ Unnamed' \subseteq Unnamed \cup Range(payloads[f])
                           /\ Blind' \subseteq Blind \ {f}
    BY <1>11
  <2>2. f \in Flushers /\ payloads[f] \in Seq(Events) /\ Len(payloads[f]) <= BatchSize
    BY <1>0, <2>1 DEF Blind, FlusherTypes, BatchesBounded
  <2>3. /\ IsFiniteSet(Range(payloads[f]))
        /\ Cardinality(Range(payloads[f])) <= Len(payloads[f])
    BY <2>2, QueueSize
  <2>4. Cardinality(Range(payloads[f])) <= BatchSize
    BY <1>0, <2>2, <2>3, FS_CardinalityType, LenProperties
  <2> DEFINE S == Range(payloads[f])
  <2> HIDE DEF S
  <2>5. IsFiniteSet(S) /\ Cardinality(S) <= BatchSize /\ Unnamed' \subseteq Unnamed \cup S
    BY <2>1, <2>3, <2>4 DEF S
  <2>6. NamesPaidFor'
    BY <1>0, <1>1, <2>1, <2>5, AccountStands
  <2>7. QED
    BY <1>0, <1>10, <2>6 DEF NamesInv, Seeing
<1>12. CASE Dull \/ Blinds
  <2>1. NamesPaidFor'
    BY <1>0, <1>1, <1>12, AccountStands
  <2>2. QED
    BY <1>0, <1>10, <2>1 DEF NamesInv, Seeing
<1>13. QED
  BY <1>10, <1>11, <1>12

\* A failed pre-flight query costs the names of one batch at most.
THEOREM NamesLostAreBounded == Spec => []AnonymityRadius
<1>1. Init => NamesInv
  <2> SUFFICES ASSUME Init PROVE NamesInv
    OBVIOUS
  <2>1. Unnamed = {} /\ Blind = {} /\ faults["operational"] = 0 /\ BatchSize \in Nat \ {0}
    BY AuditAssumption DEF Init, Unnamed, Blind, FaultKinds
  <2>2. \A f \in Flushers : payloads[f] = <<>> /\ pc[f] = "idle" /\ ~actorless[f]
    BY DEF Init
  <2>3. BatchesBounded
    BY <2>1, <2>2 DEF BatchesBounded
  <2>4. NamesPaidFor
    BY <2>1, FS_EmptySet DEF NamesPaidFor
  <2>5. QED
    BY <2>2, <2>3, <2>4 DEF NamesInv
<1>2. TypeOK /\ NamesInv => AnonymityRadius
  <2> SUFFICES ASSUME TypeOK, NamesInv PROVE AnonymityRadius
    OBVIOUS
  <2>1. PICK u \in Nat, b \in Nat : u = Cardinality(Unnamed) /\ b = Cardinality(Blind)
    BY FS_CardinalityType DEF NamesInv, NamesPaidFor
  <2>2. faults["operational"] \in Nat /\ BatchSize \in Nat
    BY AuditAssumption DEF TypeOK, FaultKinds
  <2>3. BatchSize * b \in Nat /\ BatchSize * faults["operational"] \in Nat
    BY <2>2
  <2>4. u + BatchSize * b <= BatchSize * faults["operational"]
    BY <2>1 DEF NamesInv, NamesPaidFor
  <2>5. u <= BatchSize * faults["operational"]
    BY <2>3, <2>4
  <2>6. QED
    BY <2>1, <2>5 DEF AnonymityRadius, Unnamed
<1>3. QED
  BY <1>1, <1>2, NamesInductive, TypeCorrect, PTL DEF Spec

-----------------------------------------------------------------------------
(* What the steps of the pipeline may do: it implements AuditLedger, and    *)
(* while nothing fails it keeps the events in order.                        *)
(*                                                                          *)
(* The status of an event depends on four sets: what is new, stored, dead   *)
(* and outstanding.  The lemmas show which ledger step a change of these    *)
(* sets is; the proof for Next then shows how each step changes them.  The  *)
(* one invariant it takes, besides the types, is Fresh: what is still with  *)
(* its caller is nowhere else.                                              *)

Fresh == new \cap (Outstanding \cup Settled) = {}

\* The ledger's variable.
Statuses == [e \in Events |-> StatusOf(e)]

\* A step of the pipeline is a step of the ledger, or changes no status.
LedgerStep == Fresh' /\ [Ledger!LedgerNext]_Statuses

-----------------------------------------------------------------------------
(* Which change of the four sets is which step of the ledger               *)

\* The status of an event by the four sets.
Stat(n, stored, d, out, e) ==
    CASE e \in n -> "new"
      [] e \in stored -> "stored"
      [] e \in d \ stored -> "dead"
      [] e \in out \ (stored \cup d) -> "pending"
      [] OTHER -> "lost"

\* With the new events nowhere else, each status has one meaning.
LEMMA StatMeaning ==
    ASSUME NEW n, NEW stored, NEW d, NEW out, n \cap (out \cup stored \cup d) = {}, NEW e
    PROVE  /\ e \in n => Stat(n, stored, d, out, e) = "new"
           /\ e \in stored => Stat(n, stored, d, out, e) = "stored"
           /\ e \in d \ stored => Stat(n, stored, d, out, e) = "dead"
           /\ e \in out \ (stored \cup d) => Stat(n, stored, d, out, e) = "pending"
           /\ e \notin n \cup out \cup stored \cup d => Stat(n, stored, d, out, e) = "lost"
BY DEF Stat

\* StatusOf before and after a step.
LEMMA StatusMeaning ==
    ASSUME NEW e \in Events
    PROVE  /\ Statuses[e] = Stat(new, Range(log), dead, Outstanding, e)
           /\ Statuses'[e] = Stat(new', Range(log'), dead', Outstanding', e)
           /\ Statuses = [x \in Events |-> Statuses[x]]
           /\ Statuses' = [x \in Events |-> Statuses'[x]]
BY DEF Statuses, StatusOf, Stat, Settled

\* Outstanding events disappear, or nothing does.
LEMMA LoseStep ==
    ASSUME Fresh, UNCHANGED new, Range(log') = Range(log), Settled' = Settled,
           Outstanding' \subseteq Outstanding
    PROVE  LedgerStep
<1> DEFINE batch == {e \in Events : e \in Outstanding \ (Outstanding' \cup Settled)}
<1>1. Fresh'
  BY DEF Fresh
<1>2. \A e \in Events : Statuses'[e] = IF e \in batch THEN "lost" ELSE Statuses[e]
  BY <1>1, StatusMeaning, StatMeaning DEF Fresh, Settled
<1>3. batch \subseteq Ledger!WithStatus({"pending"})
  BY StatusMeaning, StatMeaning DEF Fresh, Settled, Ledger!WithStatus, Statuses
<1>4. CASE batch = {}
  BY <1>1, <1>2, <1>4, StatusMeaning DEF LedgerStep, Statuses
<1>5. CASE batch # {}
  <2>1. Ledger!Lose(batch)
    BY <1>2, <1>3, <1>5, StatusMeaning DEF Ledger!Lose, Statuses
  <2>2. QED
    BY <1>1, <2>1 DEF LedgerStep, Ledger!LedgerNext
<1>6. QED
  BY <1>4, <1>5

\* A batch gets its rows, all of them at once.
LEMMA StoreStep ==
    ASSUME Fresh, NEW batch \in SUBSET Events, batch \subseteq Outstanding,
           UNCHANGED <<new, dead>>, Range(log') = Range(log) \cup batch,
           Outstanding' \subseteq Outstanding, Outstanding \subseteq Outstanding' \cup batch
    PROVE  LedgerStep
<1>1. Fresh'
  BY DEF Fresh, Settled
<1>2. \A e \in Events : Statuses'[e] = IF e \in batch THEN "stored" ELSE Statuses[e]
  <2>1. ASSUME NEW e \in Events, e \in batch PROVE Statuses'[e] = "stored"
    BY <1>1, <2>1, StatusMeaning, StatMeaning DEF Fresh, Settled
  <2>2. ASSUME NEW e \in Events, e \notin batch PROVE Statuses'[e] = Statuses[e]
    <3>1. /\ e \in Range(log') <=> e \in Range(log)
          /\ e \in Outstanding' <=> e \in Outstanding
          /\ e \in new' <=> e \in new
          /\ e \in dead' <=> e \in dead
      BY <2>2
    <3>2. QED
      BY <3>1, StatusMeaning DEF Stat
  <2>3. QED
    BY <2>1, <2>2
<1>3. batch \subseteq Ledger!WithStatus({"pending", "dead", "stored"})
  BY StatusMeaning, StatMeaning DEF Fresh, Settled, Ledger!WithStatus, Statuses
<1>4. CASE batch = {}
  BY <1>1, <1>2, <1>4, StatusMeaning DEF LedgerStep, Statuses
<1>5. CASE batch # {}
  <2>1. Ledger!Store(batch)
    BY <1>2, <1>3, <1>5, StatusMeaning DEF Ledger!Store, Statuses
  <2>2. QED
    BY <1>1, <2>1 DEF LedgerStep, Ledger!LedgerNext
<1>6. QED
  BY <1>4, <1>5

\* An outstanding event is set aside, perhaps at the cost of others.
LEMMA SetAsideStep ==
    ASSUME Fresh, NEW h \in Events, h \in Outstanding,
           UNCHANGED new, Range(log') = Range(log), dead' = dead \cup {h},
           Outstanding' \subseteq Outstanding
    PROVE  LedgerStep
<1> DEFINE dropped == {e \in Events : e \in Outstanding \ (Outstanding' \cup Settled \cup {h})}
<1>1. CASE h \in Settled
  <2>1. Settled' = Settled
    BY <1>1 DEF Settled
  <2>2. QED
    BY <2>1, LoseStep
<1>2. CASE h \notin Settled
  <2>1. Fresh'
    BY DEF Fresh, Settled
  <2>2. \A e \in Events : Statuses'[e] = IF e = h THEN "dead"
                                         ELSE IF e \in dropped THEN "lost" ELSE Statuses[e]
    <3>1. ASSUME NEW e \in Events, e = h \/ e \in dropped
          PROVE  Statuses'[e] = IF e = h THEN "dead" ELSE "lost"
      BY <1>2, <2>1, <3>1, StatusMeaning, StatMeaning DEF Fresh, Settled
    <3>2. ASSUME NEW e \in Events, e # h, e \notin dropped PROVE Statuses'[e] = Statuses[e]
      BY <2>1, <3>2, StatusMeaning, StatMeaning DEF Fresh, Settled
    <3>3. QED
      BY <3>1, <3>2
  <2>3. {h} \cup dropped \subseteq Ledger!WithStatus({"pending"})
    BY <1>2, StatusMeaning, StatMeaning DEF Fresh, Settled, Ledger!WithStatus, Statuses
  <2>4. h \notin dropped
    OBVIOUS
  <2>5. Statuses' = [e \in Events |-> CASE e = h -> "dead"
                                         [] e \in dropped \ {h} -> "lost"
                                         [] OTHER -> Statuses[e]]
    BY <2>2, <2>4, StatusMeaning
  <2>6. Ledger!SetAside(h, dropped)
    BY <2>3, <2>5 DEF Ledger!SetAside, Statuses
  <2>7. QED
    BY <2>1, <2>6 DEF LedgerStep, Ledger!LedgerNext
<1>3. QED
  BY <1>1, <1>2

\* An event leaves its caller, for the buffer, the table, both or nowhere.
LEMMA AcceptStep ==
    ASSUME Fresh, NEW e \in Events, e \in new, new' = new \ {e}, UNCHANGED dead,
           Range(log') \in {Range(log), Range(log) \cup {e}},
           Outstanding' \in {Outstanding, Outstanding \cup {e}}
    PROVE  LedgerStep
<1>1. Fresh'
  BY DEF Fresh, Settled
<1>2. ASSUME NEW d \in Events, d # e PROVE Statuses'[d] = Statuses[d]
  <2>1. /\ d \in Range(log') <=> d \in Range(log)
        /\ d \in Outstanding' <=> d \in Outstanding
        /\ d \in new' <=> d \in new
        /\ d \in dead' <=> d \in dead
    BY <1>2
  <2>2. QED
    BY <2>1, StatusMeaning DEF Stat
<1>3. Statuses[e] = "new" /\ Statuses'[e] \in {"pending", "stored", "lost"}
  BY <1>1, StatusMeaning, StatMeaning DEF Fresh, Settled
<1>4. Statuses' = [Statuses EXCEPT ![e] = Statuses'[e]]
  BY <1>2, StatusMeaning
<1>5. Ledger!Accept(e) \/ Ledger!WriteThrough(e)
  <2>1. CASE Statuses'[e] = "pending"
    BY <1>3, <1>4, <2>1 DEF Ledger!Accept, Statuses
  <2>2. CASE Statuses'[e] \in {"stored", "lost"}
    BY <1>3, <1>4, <2>2 DEF Ledger!WriteThrough, Statuses
  <2>3. QED
    BY <1>3, <2>1, <2>2
<1>6. QED
  BY <1>1, <1>5 DEF LedgerStep, Ledger!LedgerNext


-----------------------------------------------------------------------------
(* How the steps change the four sets                                      *)

\* What a flusher's queue and the buffer exchange is outstanding before and after;
\* what they let go of has to be accounted for.
LEMMA Exchange ==
    ASSUME FlusherTypes, NEW f \in Flushers, NEW s, NEW gone,
           payloads' = [payloads EXCEPT ![f] = s],
           Range(buffer') \cup Range(s) \subseteq Range(buffer) \cup Range(payloads[f])
    PROVE  /\ Outstanding' \subseteq Outstanding
           /\ Range(buffer) \cup Range(payloads[f]) \subseteq Range(buffer') \cup Range(s) \cup gone
                 => Outstanding \subseteq Outstanding' \cup gone
<1>1. payloads'[f] = s /\ \A g \in Flushers : g # f => payloads'[g] = payloads[g]
  BY DEF FlusherTypes
<1>2. QED
  BY <1>1 DEF Outstanding

\* record()
LEMMA RecordIsLedgerStep ==
    ASSUME TypeOK, Fresh, NEW e \in Events, Record(e) \/ RecordWithoutRedis(e)
    PROVE  LedgerStep
<1>1. /\ e \in new /\ new' = new \ {e} /\ UNCHANGED <<dead, payloads>>
      /\ buffer' \in {buffer, Append(buffer, e)}
      /\ log' \in {log, log \o <<e>>}
  BY DEF Record, RecordWithoutRedis, Commit, flusherVars
<1>2. /\ Range(Append(buffer, e)) = Range(buffer) \cup {e}
      /\ Range(<<e>>) = {e}
      /\ Range(log \o <<e>>) = Range(log) \cup {e}
  <2>1. <<e>> \in Seq(Events) /\ buffer \in Seq(Events) /\ log \in Seq(Events)
    BY DEF TypeOK
  <2>2. Range(<<e>>) = {e}
    BY <2>1 DEF Range
  <2>3. Range(Append(buffer, e)) = Range(buffer) \cup {e}
    BY <2>1, QueuePush
  <2>4. Range(log \o <<e>>) = Range(log) \cup Range(<<e>>)
    BY <2>1, QueueConcat
  <2>5. QED
    BY <2>2, <2>3, <2>4
<1>3. Outstanding' \in {Outstanding, Outstanding \cup {e}}
  BY <1>1, <1>2 DEF Outstanding
<1>4. Range(log') \in {Range(log), Range(log) \cup {e}}
  BY <1>1, <1>2
<1>5. QED
  BY <1>1, <1>3, <1>4, AcceptStep

\* The steps of a flusher that move or lose payloads and store none.
LEMMA MoveIsLedgerStep ==
    ASSUME TypeOK, Fresh, NEW f \in Flushers,
           \/ RPop(f) \/ RPopNothing(f) \/ RPopFails(f) \/ Preflight(f) \/ PreflightRaises(f)
           \/ BulkInsertRefused(f) \/ Requeue(f) \/ RequeueFails(f) \/ Crash(f)
    PROVE  LedgerStep
<1>1. UNCHANGED <<new, log, dead>>
  BY DEF RPop, RPopNothing, RPopFails, Preflight, PreflightRaises, BulkInsertRefused, Requeue,
         RequeueFails, Crash
<1>2. FlusherTypes /\ payloads[f] \in Seq(Events) /\ buffer \in Seq(Events)
  BY DEF TypeOK, FlusherTypes
<1>3. Outstanding' \subseteq Outstanding
  <2>1. CASE UNCHANGED <<buffer, payloads>>
    BY <2>1 DEF Outstanding
  <2>2. CASE RPop(f)
    <3>1. /\ Range(buffer) = Range(buffer') \cup {Head(buffer)}
          /\ Range(Append(payloads[f], Head(buffer))) = Range(payloads[f]) \cup {Head(buffer)}
      BY <1>2, <2>2, QueuePop, QueuePush DEF RPop
    <3>2. QED
      BY <1>2, <2>2, <3>1, Exchange DEF RPop
  <2>3. CASE Range(buffer') \subseteq Range(buffer) \cup Range(payloads[f]) /\ Finish(f)
    BY <1>2, <2>3, QueueEmpty, Exchange DEF Finish
  <2>4. CASE RPopFails(f)
    <3>1. Range(buffer') \subseteq Range(buffer)
      BY <1>2, <2>4, QueuePop DEF RPopFails
    <3>2. QED
      BY <2>3, <2>4, <3>1 DEF RPopFails
  <2>5. CASE Requeue(f) \/ RequeueFails(f)
    <3>1. /\ payloads[f] # <<>> /\ buffer' \in {buffer, Append(buffer, Last(payloads[f]))}
          /\ Finish(f) \/ payloads' = [payloads EXCEPT ![f] = Front(payloads[f])]
      BY <2>5 DEF Requeue, RequeueFails
    <3>2. /\ Last(payloads[f]) \in Events
          /\ Range(payloads[f]) = Range(Front(payloads[f])) \cup {Last(payloads[f])}
      BY <1>2, <3>1, QueuePopBack
    <3>3. Range(buffer') \subseteq Range(buffer) \cup {Last(payloads[f])}
      <4>1. Range(Append(buffer, Last(payloads[f]))) = Range(buffer) \cup {Last(payloads[f])}
        BY <1>2, <3>2, QueuePush
      <4>2. QED
        BY <3>1, <4>1
    <3>4. CASE Finish(f)
      BY <2>3, <3>2, <3>3, <3>4
    <3>5. CASE payloads' = [payloads EXCEPT ![f] = Front(payloads[f])]
      BY <1>2, <3>2, <3>3, <3>5, Exchange
    <3>6. QED
      BY <3>1, <3>4, <3>5
  <2>6. QED
    BY <2>1, <2>2, <2>3, <2>4, <2>5
       DEF RPopNothing, Preflight, PreflightRaises, BulkInsertRefused, Requeue, RequeueFails,
           Crash, GoTo
<1>4. QED
  BY <1>1, <1>3, LoseStep DEF Settled

\* The transaction of a flusher.
LEMMA InsertIsLedgerStep ==
    ASSUME TypeOK, Fresh, NEW f \in Flushers, BulkInsert(f) \/ BulkInsertFails(f)
    PROVE  LedgerStep
<1> DEFINE batch == Range(payloads[f])
<1>1. /\ FlusherTypes /\ payloads[f] \in Seq(Events) /\ log \in Seq(Events)
      /\ UNCHANGED <<new, buffer, dead>>
  BY DEF TypeOK, FlusherTypes, BulkInsert, BulkInsertFails
<1>2. batch \in SUBSET Events /\ batch \subseteq Outstanding
  BY <1>1, RangeOfSeq DEF Outstanding
<1>3. log' = log \o payloads[f] \/ (log' = log /\ UNCHANGED payloads)
  BY DEF BulkInsert, BulkInsertFails, Commit, GoTo
<1>4. Outstanding' \subseteq Outstanding /\ Outstanding \subseteq Outstanding' \cup batch
  <2>1. CASE BulkInsert(f)
    BY <1>1, <2>1, QueueEmpty, Exchange DEF BulkInsert, Finish
  <2>2. CASE BulkInsertFails(f)
    BY <1>1, <2>2 DEF BulkInsertFails, GoTo, Outstanding
  <2>3. QED
    BY <2>1, <2>2
<1>5. CASE log' = log \o payloads[f]
  <2>1. Range(log') = Range(log) \cup batch
    BY <1>1, <1>5, QueueConcat
  <2>2. QED
    BY <1>1, <1>2, <1>4, <2>1, StoreStep
<1>6. CASE log' = log /\ UNCHANGED payloads
  BY <1>1, <1>4, <1>6, LoseStep DEF Settled
<1>7. QED
  BY <1>3, <1>5, <1>6

\* A step of _dead_letter.
LEMMA DeadLetterIsLedgerStep ==
    ASSUME TypeOK, Fresh, NEW f \in Flushers, DeadLetter(f) \/ DeadLetterFails(f)
    PROVE  LedgerStep
<1> DEFINE h == Head(payloads[f])
<1>1. /\ FlusherTypes /\ payloads[f] \in Seq(Events) /\ payloads[f] # <<>>
      /\ UNCHANGED <<new, buffer, log>>
      /\ dead' \in {dead, dead \cup {h}}
  BY DEF TypeOK, FlusherTypes, DeadLetter, DeadLetterFails
<1>2. h \in Events /\ Range(payloads[f]) = Range(Tail(payloads[f])) \cup {h}
  BY <1>1, QueuePop
<1>3. h \in Outstanding
  BY <1>2 DEF Outstanding
<1>4. \E s : payloads' = [payloads EXCEPT ![f] = s] /\ Range(s) \subseteq Range(payloads[f])
  BY <1>2, QueueEmpty DEF DeadLetter, DeadLetterFails, Finish
<1>5. Outstanding' \subseteq Outstanding
  BY <1>1, <1>4, Exchange
<1>6. QED
  BY <1>1, <1>2, <1>3, <1>5, LoseStep, SetAsideStep DEF Settled

-----------------------------------------------------------------------------
(* Theorem                                                                 *)

LEMMA RefinesStep == TypeOK /\ Fresh /\ [Next]_vars => LedgerStep
<1>1. ASSUME TypeOK, Fresh, Next PROVE LedgerStep
  BY <1>1, RecordIsLedgerStep, MoveIsLedgerStep, InsertIsLedgerStep, DeadLetterIsLedgerStep
     DEF Next, Flush, FlushFails
<1>2. ASSUME Fresh, UNCHANGED vars PROVE LedgerStep
  BY <1>2, LoseStep DEF vars, flusherVars, Settled, Outstanding
<1>3. QED
  BY <1>1, <1>2

LEMMA RefinesInit == Init => Fresh /\ Ledger!LedgerInit
BY QueueEmpty DEF Init, Fresh, Outstanding, Settled, Ledger!LedgerInit, StatusOf

\* The pipeline keeps the ledger's promise, however flushers overlap and whatever
\* fails: a batch is stored all at once, a stored row stays stored, and an event is
\* lost from the hands of its caller or of a flusher only.
THEOREM RefinesLedger == Spec => ImplementsLedger
<1>1. TypeOK /\ Fresh /\ [Next]_vars => Fresh' /\ [Ledger!LedgerNext]_[e \in Events |-> StatusOf(e)]
  BY RefinesStep DEF LedgerStep, Statuses
<1>2. QED
  BY <1>1, RefinesInit, TypeCorrect, PTL DEF Spec, ImplementsLedger, Ledger!LedgerSpec

-----------------------------------------------------------------------------
(* Order.  A step keeps the order of a line if it keeps what precedes what *)
(* in it, which follows from the line's parts.                             *)

\* What precedes what in a line of rows, payloads and buffered events.
InLine(l, p, q, a, b) ==
    \/ Precedes(l, a, b) \/ Precedes(p, a, b) \/ Precedes(q, a, b)
    \/ a \in Range(l) /\ b \in Range(p)
    \/ a \in Range(l) \cup Range(p) /\ b \in Range(q)

LEMMA LineOrder ==
    ASSUME NEW l \in Seq(Events), NEW p \in Seq(Events), NEW q \in Seq(Events)
    PROVE  /\ l \o p \o q \in Seq(Events)
           /\ Range(l \o p \o q) = Range(l) \cup Range(p) \cup Range(q)
           /\ \A a, b : Precedes(l \o p \o q, a, b) <=> InLine(l, p, q, a, b)
<1>1. l \o p \in Seq(Events) /\ Range(l \o p) = Range(l) \cup Range(p)
  BY QueueConcat
<1>2. l \o p \o q \in Seq(Events) /\ Range(l \o p \o q) = Range(l \o p) \cup Range(q)
  <2>1. \A v \in Seq(Events) :
           v \o q \in Seq(Events) /\ Range(v \o q) = Range(v) \cup Range(q)
    BY QueueConcat
  <2>2. QED
    BY <1>1, <2>1, Zenon
<1>3. ASSUME NEW a, NEW b PROVE Precedes(l \o p \o q, a, b) <=> InLine(l, p, q, a, b)
  <2>1. Precedes(l \o p, a, b) <=>
           Precedes(l, a, b) \/ Precedes(p, a, b) \/ (a \in Range(l) /\ b \in Range(p))
    BY PrecedesConcat
  <2>2. Precedes(l \o p \o q, a, b) <=>
           Precedes(l \o p, a, b) \/ Precedes(q, a, b) \/ (a \in Range(l \o p) /\ b \in Range(q))
    BY <1>1, PrecedesConcat
  <2>3. QED
    BY <1>1, <2>1, <2>2, Zenon DEF InLine
<1>4. QED
  BY <1>1, <1>2, <1>3

\* A line keeps its order if what precedes what after the step did before it.
LEMMA OrderStep ==
    ASSUME NEW l \in Seq(Events), NEW p \in Seq(Events), NEW q \in Seq(Events),
           NEW l2 \in Seq(Events), NEW p2 \in Seq(Events), NEW q2 \in Seq(Events),
           \A a, b \in Range(l) \cup Range(p) \cup Range(q) :
              InLine(l2, p2, q2, a, b) => InLine(l, p, q, a, b)
    PROVE  KeepsOrder(l \o p \o q, l2 \o p2 \o q2)
<1> DEFINE u == l \o p \o q
           u2 == l2 \o p2 \o q2
<1>1. /\ Range(u) = Range(l) \cup Range(p) \cup Range(q)
      /\ \A a, b : Precedes(u, a, b) <=> InLine(l, p, q, a, b)
      /\ \A a, b : Precedes(u2, a, b) <=> InLine(l2, p2, q2, a, b)
  BY LineOrder
<1> HIDE DEF u, u2
<1>2. ASSUME NEW i \in DOMAIN u2, NEW j \in DOMAIN u2, i < j, {u2[i], u2[j]} \subseteq Range(u)
      PROVE  Precedes(u, u2[i], u2[j])
  <2>1. Precedes(u2, u2[i], u2[j])
    BY <1>2 DEF Precedes
  <2>2. QED
    BY <1>1, <1>2, <2>1
<1>3. KeepsOrder(u, u2)
  BY <1>2 DEF KeepsOrder, Precedes
<1>4. QED
  BY <1>3 DEF u, u2

\* Without a failure nothing is pushed back, unless a row clogs the pipeline.
NoRequeue == Without(FaultKinds) /\ ~Clogged => \A f \in Flushers : pc[f] # "requeue"

\* A step without a failure: none before it, and of the steps that can fail, the
\* successful ones.  What clogs the pipeline stays.
LEMMA CalmStep ==
    ASSUME TypeOK, OneCopyInv, NoRequeue, Next, Without(FaultKinds)', ~Clogged'
    PROVE  /\ OneCopy
           /\ \A f \in Flushers : pc[f] # "requeue"
           /\ \/ \E e \in Events : Record(e)
              \/ \E f \in Flushers :
                    \/ RPop(f) \/ BulkInsert(f) \/ DeadLetter(f)
                    \/ RPopNothing(f) \/ Preflight(f) \/ BulkInsertRefused(f)
<1>0. FaultTypes /\ FlusherTypes /\ FaultKinds \in SUBSET FaultKinds
  BY DEF TypeOK, FaultTypes, FlusherTypes
<1>1. /\ \A k \in FaultKinds : ~Fault(k)
      /\ NoFault => Without(FaultKinds)
      /\ faults' # [faults EXCEPT !["redis"] = @ + 1, !["operational"] = @ + 1]
  <2>1. "redis" \in FaultKinds
    BY DEF FaultKinds
  <2>2. QED
    BY <1>0, <2>1, FaultsGrow
<1>2. ASSUME NEW f \in Flushers PROVE ~FlushFails(f)
  BY <1>1 DEF FlushFails, RPopFails, PreflightRaises, RequeueFails, DeadLetterFails, Crash,
              FaultKinds
<1>3. ASSUME NEW e \in Events PROVE ~RecordWithoutRedis(e)
  BY <1>1 DEF RecordWithoutRedis, FaultKinds
<1>4. NoFault /\ new' \subseteq new
  BY <1>1, <1>2, <1>3
     DEF Next, Record, Flush, RPop, RPopNothing, Preflight, BulkInsert, BulkInsertRefused,
         BulkInsertFails, Requeue, DeadLetter, FaultKinds
<1>5. ~Clogged /\ Without(FaultKinds)
  BY <1>1, <1>4, AuditAssumption DEF Clogged, Recorded
<1>6. OneCopy
  BY <1>5 DEF OneCopyInv, Without, Ambiguous, FaultKinds
<1>7. \A f \in Flushers : pc[f] # "requeue"
  BY <1>5 DEF NoRequeue
<1>8. ASSUME NEW f \in Flushers PROVE ~Requeue(f) /\ ~BulkInsertFails(f)
  <2>1. ~Requeue(f)
    BY <1>7 DEF Requeue
  <2>2. Range(payloads[f]) \cap DataRows = {}
    <3>1. Range(payloads[f]) \cap new = {}
      BY <1>6 DEF OneCopy
    <3>2. QED
      BY <1>5, <3>1, AuditAssumption DEF Clogged, Recorded
  <2>3. ~BulkInsertFails(f)
    BY <1>1, <2>2 DEF BulkInsertFails, FaultKinds
  <2>4. QED
    BY <2>1, <2>3
<1>9. QED
  BY <1>2, <1>3, <1>6, <1>7, <1>8 DEF Next, Flush

LEMMA NoRequeueStep == TypeOK /\ OneCopyInv /\ NoRequeue /\ [Next]_vars => NoRequeue'
<1> SUFFICES ASSUME TypeOK, OneCopyInv, NoRequeue, [Next]_vars, Without(FaultKinds)', ~Clogged',
                    NEW g \in Flushers
             PROVE  pc'[g] # "requeue"
  BY DEF NoRequeue
<1>1. CASE Next
  <2>1. pc \in [Flushers -> Phases] /\ pc[g] # "requeue"
    BY <1>1, CalmStep DEF TypeOK
  <2>2. CASE \E e \in Events : Record(e)
    BY <2>1, <2>2 DEF Record, flusherVars
  <2>3. ASSUME NEW f \in Flushers,
               \/ RPop(f) \/ BulkInsert(f) \/ DeadLetter(f)
               \/ RPopNothing(f) \/ Preflight(f) \/ BulkInsertRefused(f)
        PROVE  pc'[g] # "requeue"
    <3>1. PICK phase : phase # "requeue" /\ (pc' = [pc EXCEPT ![f] = phase] \/ pc' = pc)
      BY <2>3 DEF RPop, BulkInsert, DeadLetter, RPopNothing, Preflight, BulkInsertRefused,
                  Finish, GoTo
    <3>2. QED
      BY <2>1, <3>1
  <2>4. QED
    BY <1>1, <2>2, <2>3, CalmStep
<1>2. CASE UNCHANGED vars
  <2>1. Without(FaultKinds) /\ ~Clogged /\ pc' = pc
    BY <1>2 DEF vars, flusherVars, Without, Clogged, Recorded
  <2>2. QED
    BY <2>1 DEF NoRequeue
<1>3. QED
  BY <1>1, <1>2

\* The steps without a failure keep the order of every line.
LEMMA LinesKeepOrder ==
    ASSUME TypeOK, OneCopyInv, NoRequeue, [Next]_vars, Without(FaultKinds)', ~Clogged',
           TypeOK', NEW f \in Flushers
    PROVE  KeepsOrder(Line(f), Line(f)')
<1>0. /\ log \in Seq(Events) /\ buffer \in Seq(Events) /\ payloads[f] \in Seq(Events)
      /\ log' \in Seq(Events) /\ buffer' \in Seq(Events) /\ payloads'[f] \in Seq(Events)
      /\ payloads \in [Flushers -> Seq(Events)]
  BY DEF TypeOK
<1>1. SUFFICES ASSUME NEW a \in Range(log) \cup Range(payloads[f]) \cup Range(buffer),
                      NEW b \in Range(log) \cup Range(payloads[f]) \cup Range(buffer),
                      InLine(log', payloads'[f], buffer', a, b)
               PROVE  InLine(log, payloads[f], buffer, a, b)
  BY <1>0, OrderStep DEF Line
<1>2. CASE UNCHANGED <<log, payloads, buffer>>
  BY <1>1, <1>2
<1>3. ASSUME Next PROVE OneCopy
  BY <1>3, CalmStep
<1>4. ASSUME NEW d \in Events, Record(d), Next PROVE InLine(log, payloads[f], buffer, a, b)
  <2>1. buffer' = Append(buffer, d) /\ UNCHANGED <<log, payloads>>
    BY <1>4 DEF Record, flusherVars
  <2>2. b # d
    BY <1>3, <1>4 DEF OneCopy, Record
  <2>3. Range(buffer') = Range(buffer) \cup {d}
    BY <1>0, <2>1, QueuePush
  <2>4. Precedes(buffer', a, b) => Precedes(buffer, a, b)
    BY <1>0, <2>1, <2>2, PrecedesAppend
  <2>5. QED
    BY <1>1, <2>1, <2>2, <2>3, <2>4 DEF InLine
<1>5. ASSUME NEW g \in Flushers, RPop(g) PROVE InLine(log, payloads[f], buffer, a, b)
  <2>1. /\ buffer # <<>> /\ buffer' = Tail(buffer) /\ log' = log
        /\ payloads' = [payloads EXCEPT ![g] = Append(payloads[g], Head(buffer))]
    BY <1>5 DEF RPop
  <2>2. Range(buffer) = Range(buffer') \cup {Head(buffer)} /\ Head(buffer) \in Events
    BY <1>0, <2>1, QueuePop
  <2>3. Precedes(buffer, a, b) <=>
           Precedes(buffer', a, b) \/ (a = Head(buffer) /\ b \in Range(buffer'))
    BY <1>0, <2>1, PrecedesTail
  <2>4. CASE g = f
    <3>1. payloads'[f] = Append(payloads[f], Head(buffer))
      BY <1>0, <2>1, <2>4
    <3>2. Range(payloads'[f]) = Range(payloads[f]) \cup {Head(buffer)}
      BY <1>0, <2>2, <3>1, QueuePush
    <3>3. Precedes(payloads'[f], a, b) <=>
             Precedes(payloads[f], a, b) \/ (a \in Range(payloads[f]) /\ b = Head(buffer))
      BY <1>0, <2>2, <3>1, PrecedesAppend
    <3>4. QED
      BY <1>1, <2>1, <2>2, <2>3, <3>2, <3>3 DEF InLine
  <2>5. CASE g # f
    <3>1. payloads'[f] = payloads[f]
      BY <1>0, <2>1, <2>5
    <3>2. QED
      BY <1>1, <2>1, <2>2, <2>3, <3>1 DEF InLine
  <2>6. QED
    BY <2>4, <2>5
<1>6. ASSUME NEW g \in Flushers, BulkInsert(g), Next PROVE InLine(log, payloads[f], buffer, a, b)
  <2>1. /\ log' = log \o payloads[g] /\ buffer' = buffer
        /\ payloads' = [payloads EXCEPT ![g] = <<>>]
    BY <1>6 DEF BulkInsert, Commit, Finish
  <2>2. payloads[g] \in Seq(Events)
    BY <1>0
  <2>3. /\ Range(log') = Range(log) \cup Range(payloads[g])
        /\ Precedes(log', a, b) <=>
              \/ Precedes(log, a, b) \/ Precedes(payloads[g], a, b)
              \/ a \in Range(log) /\ b \in Range(payloads[g])
    BY <1>0, <2>1, <2>2, QueueConcat, PrecedesConcat
  <2>4. CASE g = f
    <3>1. payloads'[f] = <<>>
      BY <1>0, <2>1, <2>4
    <3>2. QED
      BY <1>1, <2>1, <2>3, <2>4, <3>1, QueueEmpty, PrecedesEmpty DEF InLine
  <2>5. CASE g # f
    <3>1. payloads'[f] = payloads[f]
      BY <1>0, <2>1, <2>5
    <3>2. a \notin Range(payloads[g]) /\ b \notin Range(payloads[g])
      BY <1>3, <1>6, <2>5 DEF OneCopy
    <3>3. ~Precedes(payloads[g], a, b)
      BY <2>2, <3>2, PrecedesInside
    <3>4. QED
      BY <1>1, <2>1, <2>3, <3>1, <3>2, <3>3 DEF InLine
  <2>6. QED
    BY <2>4, <2>5
<1>7. ASSUME NEW g \in Flushers, DeadLetter(g) PROVE InLine(log, payloads[f], buffer, a, b)
  <2>1. payloads[g] # <<>> /\ UNCHANGED <<log, buffer>>
    BY <1>7 DEF DeadLetter
  <2>2. PICK s \in {<<>>, Tail(payloads[g])} : payloads' = [payloads EXCEPT ![g] = s]
    BY <1>7 DEF DeadLetter, Finish
  <2>3. Range(s) \subseteq Range(payloads[g]) /\ (Precedes(s, a, b) => Precedes(payloads[g], a, b))
    <3>1. Range(Tail(payloads[g])) \subseteq Range(payloads[g])
      BY <1>0, <2>1, QueuePop
    <3>2. Precedes(Tail(payloads[g]), a, b) => Precedes(payloads[g], a, b)
      BY <1>0, <2>1, PrecedesTail
    <3>3. QED
      BY <2>2, <3>1, <3>2, QueueEmpty, PrecedesEmpty
  <2>4. payloads'[f] = IF g = f THEN s ELSE payloads[f]
    BY <1>0, <2>2
  <2>5. QED
    BY <1>1, <2>1, <2>3, <2>4 DEF InLine
<1>8. ASSUME NEW g \in Flushers, RPopNothing(g) \/ Preflight(g) \/ BulkInsertRefused(g)
      PROVE  UNCHANGED <<log, payloads, buffer>>
  BY <1>8 DEF RPopNothing, Preflight, BulkInsertRefused, GoTo
<1>9. CASE Next
  BY <1>2, <1>4, <1>5, <1>6, <1>7, <1>8, <1>9, CalmStep
<1>10. CASE UNCHANGED vars
  BY <1>2, <1>10 DEF vars, flusherVars
<1>11. QED
  BY <1>9, <1>10

\* For any number of flushers and any batch size: while nothing fails, no two events that
\* are stored, held by one flusher or buffered change places.
THEOREM NothingOvertakes == Spec => OrderKept
<1>1. Init => OneCopyInv /\ NoRequeue
  BY QueueEmpty DEF Init, OneCopyInv, OneCopy, NoRequeue
<1>2. TypeOK /\ OneCopyInv /\ NoRequeue /\ [Next]_vars =>
         [~Clogged' /\ Without(FaultKinds)' =>
             \A f \in Flushers : KeepsOrder(Line(f), Line(f)')]_vars
  BY LinesKeepOrder, TypeStep
<1>3. QED
  BY <1>1, <1>2, TypeCorrect, OneCopyInductive, NoRequeueStep, PTL DEF Spec, OrderKept

=============================================================================
