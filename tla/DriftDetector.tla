--------------------------- MODULE DriftDetector ---------------------------
(***************************************************************************)
(* One pass of the drift detector (drift/detector.py, baseline.py,         *)
(* current.py, severity.py): for every kind of metric, every metric and    *)
(* every workspace, then the whole system, compare the median of the last  *)
(* seven days with the mean of the last hour and add an alert row.  All    *)
(* rows of a pass share one transaction, committed at its end.             *)
(*                                                                         *)
(* A triple of kind, metric and workspace is its place in the two loops.   *)
(* PostgreSQL refuses every statement of a transaction in which one has    *)
(* failed until it is rolled back, and answers its COMMIT with a rollback  *)
(* that raises nothing.                                                    *)
(*                                                                         *)
(* The baseline is of all hours of the seven days: nothing in the code     *)
(* looks at the hour of the day that its comments speak of.  Ages are      *)
(* hours before now, values small integers; a median is given twice over   *)
(* and a mean as sum and count, so that everything is whole.               *)
(***************************************************************************)
EXTENDS Integers, FiniteSets, SequencesExt

CONSTANTS
    Metrics,    \* pairs of a kind and a metric; 12 in the code
    Spaces,     \* workspaces
    ColdStart,  \* COLD_START_THRESHOLD: samples a baseline needs
    ScanLimit,  \* _SCAN_LIMIT: rows a query for the baseline returns at most
    Samples     \* the rows that the evaluation of one kind can have left

Sample == [age : Nat, value : Nat, own : BOOLEAN]  \* own: of the metric in question

ASSUME DriftAssumption ==
    /\ Metrics \in Nat /\ Spaces \in Nat
    /\ ColdStart \in Nat \ {0} /\ ScanLimit \in Nat \ {0}
    /\ Samples \subseteq Seq(Sample)

\* A metric's workspaces come first, the whole system after them.
Triples == (1 .. Metrics) \X (1 .. Spaces + 1)
OfTheSystem == (1 .. Metrics) \X {Spaces + 1}
Earlier(t, u) == t[1] < u[1] \/ (t[1] = u[1] /\ t[2] < u[2])

VARIABLES
    phase,      \* "start", "loop", or "done" when the pass is over
    todo,       \* triples of the loops that are still to come
    listed,     \* were the workspaces found?
    session,    \* "live", or "aborted" since a statement failed
    flushed,    \* rows of the transaction
    alerts,     \* rows of drift_alerts, committed
    returned,   \* triples counted in rows_written
    counter,    \* triples counted in drift_events_total
    failed,     \* triples whose queries raised
    refused,    \* triples whose insert raised
    quiet,      \* triples without a baseline or without recent samples
    samples,    \* the rows of one kind of metric, in any order
    scan,       \* the places of those that the query for the baseline returns
    metric      \* "hallucination" or a metric of which more is better

numbers == <<samples, scan, metric>>
driftVars == <<phase, todo, listed, session, flushed, alerts, returned, counter, failed, refused,
               quiet, numbers>>

DriftTypeOK ==
    /\ phase \in {"start", "loop", "done"} /\ listed \in BOOLEAN
    /\ session \in {"live", "aborted"}
    /\ {todo, flushed, alerts, returned, counter, failed, refused, quiet} \subseteq SUBSET Triples
    /\ samples \in Seq(Sample) /\ scan \subseteq DOMAIN samples
    /\ metric \in {"hallucination", "recall"}

---------------------------------------------------------------------------
(* The numbers of one triple.                                              *)

Hour == 1
SevenDays == 168

\* The values of the first n rows that stand at some places.
Picked(s, places) ==
    LET picked[n \in 0 .. Len(s)] ==
            IF n = 0 THEN <<>>
            ELSE IF n \in places THEN Append(picked[n - 1], s[n].value)
            ELSE picked[n - 1]
    IN  picked

ValuesAt(s, places) == Picked(s, places)[Len(s)]

Between(s, from, to) == {i \in 1 .. Len(s) : from < s[i].age /\ s[i].age <= to}
Own(s) == {i \in 1 .. Len(s) : s[i].own}

\* [now - 7d, now - 1h) and [now - 1h, now)
BaselineWindow(s) == Between(s, Hour, SevenDays)
CurrentWindow(s) == Between(s, 0, Hour)

\* The query for the baseline has a LIMIT and no ORDER BY: it returns any rows of its
\* window, of whatever metric, up to the limit.
Scans(s) ==
    LET rows == BaselineWindow(s)
    IN  {found \in SUBSET rows :
            IF Cardinality(rows) <= ScanLimit THEN found = rows
            ELSE Cardinality(found) = ScanLimit}

\* The metric is singled out afterwards, among the rows returned.
BaselineValues == ValuesAt(samples, scan \cap Own(samples))

\* The query for the last hour has no limit.
CurrentValues == ValuesAt(samples, CurrentWindow(samples) \cap Own(samples))

\* sorted(values)
Order(v) ==
    CHOOSE p \in Bijection(DOMAIN v, DOMAIN v) :
        \A i, j \in DOMAIN v : i < j => v[p[i]] <= v[p[j]]

Sorted(v) ==
    LET p == Order(v)
    IN  [i \in DOMAIN v |-> v[p[i]]]

\* _percentile(values, 0.5): between the two middle values of the sorted list
TwiceMedian(values) ==
    LET s == Sorted(values)
        n == Len(s)
        lo == (n - 1) \div 2 + 1
    IN  IF n = 0 THEN 0
        ELSE IF n % 2 = 1 THEN s[lo] * 2
        ELSE s[lo] + s[lo + 1]

\* HIGHER_IS_WORSE
HigherIsWorse == {"hallucination", "latency_p95"}

\* Mutant of the next definition: less is always worse.
IsRegressionDown(m, twiceBase, sum, n) == 2 * sum < n * twiceBase

\* is_regression: is the mean sum/n worse than the baseline?
IsRegression(m, twiceBase, sum, n) ==
    IF m \in HigherIsWorse THEN 2 * sum > n * twiceBase ELSE 2 * sum < n * twiceBase

\* severity_for: the ladder over |drift_pct|, which is 0 for a baseline of 0
Severity(m, twiceBase, sum, n) ==
    LET gap == 2 * sum - n * twiceBase
        size == 100 * (IF gap < 0 THEN -gap ELSE gap)
        share(pct) == twiceBase # 0 /\ size > pct * n * twiceBase
    IN  CASE ~IsRegression(m, twiceBase, sum, n) -> "info"
          [] IsRegression(m, twiceBase, sum, n) /\ share(30) -> "critical"
          [] IsRegression(m, twiceBase, sum, n) /\ ~share(30) /\ share(15) -> "warning"
          [] OTHER -> "info"

\* baseline_for_metric and current_for_metric return something
HasAlert == Len(BaselineValues) >= ColdStart /\ CurrentValues # <<>>

---------------------------------------------------------------------------
(* The pass.                                                               *)

DriftInit ==
    /\ session = "live" /\ listed = TRUE /\ todo = {}
    /\ flushed = {} /\ alerts = {} /\ returned = {} /\ counter = {}
    /\ failed = {} /\ refused = {}
    /\ \/ phase = "start" /\ quiet = {} /\ samples = <<>> /\ scan = {} /\ metric = "recall"
       \* no pass, only the numbers of one triple
       \/ /\ phase = "done" /\ quiet = Triples
          /\ samples \in Samples /\ scan \in Scans(samples)
          /\ metric \in {"hallucination", "recall"}

Rest == <<flushed, alerts, returned, counter, failed, refused, quiet, numbers>>

ListWorkspaces ==
    /\ phase = "start"
    /\ phase' = "loop"
    /\ todo' = Triples
    /\ UNCHANGED <<listed, session, Rest>>

\* _list_workspace_ids answers an error with an empty list: no workspace is looked at.
\* A statement that failed aborts the transaction, a missing connection does not.
ListingFails ==
    /\ phase = "start"
    /\ phase' = "loop"
    /\ todo' = OfTheSystem
    /\ listed' = FALSE
    /\ session' \in {"live", "aborted"}
    /\ UNCHANGED Rest

\* It is the turn of t, the first of the triples to come.
Take(t) ==
    /\ phase = "loop"
    /\ t \in todo /\ \A u \in todo : u = t \/ Earlier(t, u)
    /\ todo' = todo \ {t}
    /\ UNCHANGED <<phase, listed, alerts, numbers>>

\* _process_one returns None: cold start, or nothing in the last hour
NothingToSay(t) ==
    /\ Take(t)
    /\ session = "live"
    /\ quiet' = quiet \cup {t}
    /\ UNCHANGED <<session, flushed, returned, counter, failed, refused>>

\* Mutant of the next definition: an error of the counter leaves _process_one.
AddRowBumpRaises(t) ==
    /\ Take(t)
    /\ session = "live"
    /\ flushed' = flushed \cup {t}
    /\ \/ returned' = returned \cup {t} /\ counter' = counter \cup {t} /\ UNCHANGED failed
       \/ failed' = failed \cup {t} /\ UNCHANGED <<returned, counter>>
    /\ UNCHANGED <<session, refused, quiet>>

\* A row is flushed; the counter may fail to be bumped.
AddRow(t) ==
    /\ Take(t)
    /\ session = "live"
    /\ flushed' = flushed \cup {t}
    /\ returned' = returned \cup {t}
    /\ counter' \in {counter, counter \cup {t}}
    /\ UNCHANGED <<session, failed, refused, quiet>>

\* The insert is refused: the rollback takes the earlier rows of the pass too.
InsertFails(t) ==
    /\ Take(t)
    /\ session = "live"
    /\ flushed' = {}
    /\ refused' = refused \cup {t}
    /\ UNCHANGED <<session, returned, counter, failed, quiet>>

\* A query raises (every one does once the transaction is aborted): run
\* catches it and goes on with the next triple, without a rollback.
QueryFails(t) ==
    /\ Take(t)
    /\ session' = "aborted"
    /\ failed' = failed \cup {t}
    /\ UNCHANGED <<flushed, returned, counter, refused, quiet>>

\* The statement of the csat kind cannot even be built: its triples fail
\* before anything is sent, and the transaction lives on.
BuildFails(t) ==
    /\ Take(t)
    /\ failed' = failed \cup {t}
    /\ UNCHANGED <<session, flushed, returned, counter, refused, quiet>>

\* The commit at the end of run; it may fail, and does so silently when the
\* transaction is aborted.
CommitPass ==
    /\ phase = "loop" /\ todo = {}
    /\ phase' = "done"
    /\ flushed' = {}
    /\ \/ session = "live" /\ alerts' = alerts \cup flushed
       \/ UNCHANGED alerts
    /\ UNCHANGED <<todo, listed, session, returned, counter, failed, refused, quiet, numbers>>

DriftNext ==
    \/ ListWorkspaces \/ ListingFails
    \/ \E t \in Triples :
          NothingToSay(t) \/ AddRow(t) \/ InsertFails(t) \/ QueryFails(t) \/ BuildFails(t)
    \/ CommitPass

DriftSpec == DriftInit /\ [][DriftNext]_driftVars

---------------------------------------------------------------------------
(* Properties.                                                             *)

\* However its queries fail, a pass looks at every triple exactly once: each is found quiet,
\* fails or is counted.  Only when the workspaces cannot be listed are theirs skipped, all
\* of them, and nothing but a line of the log tells.
OnlyUnlistedSkipped ==
    LET fates == <<quiet, failed, refused, returned>>
    IN  /\ phase = "done" =>
              Triples \ UNION Range(fates) = IF listed THEN {} ELSE Triples \ OfTheSystem
        /\ \A i, j \in DOMAIN fates : i # j => fates[i] \cap fates[j] = {}

\* "Partial progress" (detector.py): a pass stores every row that it counts, or, if a query
\* failed or the commit did, none at all; but of those counted, a refused insert takes away
\* the ones before it.  So the count it returns never understates what is stored, and
\* overstates it by exactly these.  (One bad query does abort the whole tick, against the
\* words of the detector.)
CountedIsStored ==
    /\ alerts \cup flushed \subseteq returned
    /\ phase = "done" =>
          \/ alerts = {}
          \/ /\ session = "live"
             /\ returned \ alerts = {t \in returned : \E u \in refused : Earlier(t, u)}

\* A pass that fails in part loses what it skips, and what it takes back, and nothing else.
PassAccounted == OnlyUnlistedSkipped /\ CountedIsStored

\* A row of the metric in the last seven days counts in exactly one of the two windows,
\* unless the scan for the baseline is full of other rows, and an older one in none.
OneWindowEach ==
    LET week == Between(samples, 0, SevenDays) \cap Own(samples)
        unread == (BaselineWindow(samples) \ scan) \cap Own(samples)
    IN  /\ Len(BaselineValues) + Len(CurrentValues) + Cardinality(unread) = Cardinality(week)
        /\ unread # {} => Cardinality(scan) = ScanLimit

\* The baseline is a median: half of the rows it was made from are on either side of it.
MedianSplits ==
    LET v == BaselineValues
        m == TwiceMedian(v)
    IN  /\ 2 * Cardinality({i \in DOMAIN v : 2 * v[i] <= m}) >= Len(v)
        /\ 2 * Cardinality({i \in DOMAIN v : 2 * v[i] >= m}) >= Len(v)

Gravity == [info |-> 0, warning |-> 1, critical |-> 2]

\* The worse the hour, the graver the alert, and an improvement is never more
\* than info, in whichever direction worse lies for the metric.
WorseIsGraver ==
    LET base == TwiceMedian(BaselineValues)
        grave(mean) == Gravity[Severity(metric, base, mean, 1)]
        worse(a, b) == IF metric = "hallucination" THEN a >= b ELSE a <= b
    IN  HasAlert =>
            \A a, b \in 0 .. 4 :
                /\ worse(a, b) => grave(a) >= grave(b)
                /\ worse(base, 2 * a) => grave(a) = 0

\* What an alert rests on: both windows, the baseline and the severity.
AlertSound == OneWindowEach /\ MedianSplits /\ WorseIsGraver
=============================================================================
