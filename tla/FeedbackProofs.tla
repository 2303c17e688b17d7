-------------------------- MODULE FeedbackProofs --------------------------
(***************************************************************************)
(* Theorems about the submission of feedback, for any pairs, submissions,  *)
(* categories and number of failures.                                      *)
(***************************************************************************)
EXTENDS Feedback, SequenceTheorems, TLAPS

USE FeedbackAssumption

-----------------------------------------------------------------------------
(* The inductive invariant                                                 *)

\* A pair has one writer at a time: the row of the pair is its lock.
OneWriter ==
    \A r, s \in Submissions :
        r # s /\ Target[r] = Target[s] /\ pc[r] \in Holding => pc[s] \notin Holding

\* What a submission's transaction has written at each of its steps.  Past the
\* ticket it knows that nothing of its pair was stored before it.
Staged(r) ==
    LET stored == db[Target[r]]
        rows   == work[r]
    IN  /\ pc[r] = "ticket" =>
              rows = [stored EXCEPT !.rating = r, !.attribution = "pending"]
        /\ pc[r] \in Holding \ {"ticket"} => stored = NoRows /\ rows.rating = r
        /\ pc[r] \in {"queue", "attribute"} =>
              rows.attribution = "pending" /\ rows.attributions = <<>>
        /\ pc[r] = "attribute" => rows.ticket = "pending_attribution"
        /\ pc[r] = "route" => /\ rows.attribution = "succeeded"
                              /\ rows.ticket = "attributed"
                              /\ \E c \in Categories : rows.attributions = <<c>>
        /\ pc[r] = "commit" => Coherent(rows) /\ rows.ticket = answer[r].ticket
        /\ pc[r] \in {"audit", "answered"} =>
              stored.rating = r /\ stored.ticket = answer[r].ticket
        /\ stored.rating = r => pc[r] \in {"audit", "answered"} \/ faults > 0

SubmitInv ==
    /\ FeedbackTypeOK
    /\ StoredRowsCoherent
    /\ OneWriter
    /\ \A r \in Submissions : Staged(r)
    /\ \A r \in audited : pc[r] = "answered"

-----------------------------------------------------------------------------
(* Lemmas                                                                  *)

\* The empty rows have their type, and are those of a pair nobody submitted.
LEMMA NoRowsType == NoRows \in Rows /\ Coherent(NoRows)
  BY EmptySeq DEF NoRows, Rows, Coherent

\* In coherent rows a missing ticket means that nothing is there.
LEMMA NoTicketNoRows ==
    ASSUME NEW rows \in Rows, Coherent(rows), rows.ticket = "none"
    PROVE  rows = NoRows
  BY DEF Coherent

\* The first attribution of a row that had none.
LEMMA OneAttribution ==
    ASSUME NEW c \in Categories
    PROVE  /\ Append(<<>>, c) = <<c>>
           /\ <<c>> \in Seq(Categories)
           /\ Len(<<c>>) = 1
           /\ <<c>>[1] = c
  OBVIOUS

\* A step of submission r that writes nothing of another submission leaves the
\* others staged: a commit of r finds no other submission of its pair past its
\* own commit.
LEMMA OthersStaged ==
    ASSUME SubmitInv,
           NEW r \in Submissions, NEW s \in Submissions, s # r,
           pc'[s] = pc[s], work'[s] = work[s], answer'[s] = answer[s],
           faults' \in Nat, faults' >= faults,
           \/ db' = db
           \/ pc[r] = "commit" /\ db' = [db EXCEPT ![Target[r]] = work[r]]
    PROVE  Staged(s)'
<1>1. Staged(s) /\ Staged(r) /\ faults \in Nat
  BY DEF SubmitInv, FeedbackTypeOK
<1>2. CASE db'[Target[s]] = db[Target[s]]
  BY <1>1, <1>2 DEF Staged
<1>3. CASE db'[Target[s]] # db[Target[s]]
  <2>1. /\ Target[s] = Target[r] /\ pc[r] = "commit"
        /\ db'[Target[s]] = work[r]
    <3>1. Target[s] \in Pairs /\ db \in [Pairs -> Rows]
      BY DEF SubmitInv, FeedbackTypeOK
    <3>2. QED
      BY <3>1, <1>3
  <2>2. db[Target[s]] = NoRows /\ work[r].rating = r
    BY <2>1, <1>1 DEF Staged, Holding
  <2>3. pc[s] \notin Holding
    BY <2>1 DEF SubmitInv, OneWriter, Holding
  <2>4. db[Target[s]].rating # s
    BY <2>2 DEF NoRows
  <2>5. pc[s] \notin {"audit", "answered"}
    BY <2>4, <1>1 DEF Staged
  <2>6. db'[Target[s]].rating # s
    BY <2>1, <2>2
  <2>7. QED
    BY <2>3, <2>5, <2>6 DEF Staged, Holding
<1>4. QED
  BY <1>2, <1>3

\* A step of r alone keeps the pair's rows with one writer, unless it takes them.
LEMMA WriterStays ==
    ASSUME SubmitInv, NEW r \in Submissions, NEW step,
           pc' = [pc EXCEPT ![r] = step],
           pc[r] \in Holding \/ step \notin Holding
    PROVE  OneWriter'
  BY DEF SubmitInv, OneWriter, FeedbackTypeOK

\* Before the first request nothing is stored.
LEMMA SubmitInit == FeedbackInit => SubmitInv
<1> SUFFICES ASSUME FeedbackInit PROVE SubmitInv
  OBVIOUS
<1>1. FeedbackTypeOK
  BY NoRowsType DEF FeedbackInit, FeedbackTypeOK
<1>2. StoredRowsCoherent
  BY NoRowsType DEF FeedbackInit, StoredRowsCoherent
<1>3. OneWriter /\ \A r \in audited : pc[r] = "answered"
  BY DEF FeedbackInit, OneWriter, Holding
<1>4. ASSUME NEW r \in Submissions PROVE Staged(r)
  BY <1>4 DEF FeedbackInit, Staged, Holding, NoRows
<1>5. QED
  BY <1>1, <1>2, <1>3, <1>4 DEF SubmitInv

-----------------------------------------------------------------------------
(* The steps of a submission                                               *)

\* A step inside the transaction of r: what it must establish for r itself.
LEMMA InsideTransaction ==
    ASSUME SubmitInv, NEW r \in Submissions,
           NEW step \in {"feedback", "audit"} \cup Holding \cup Over,
           NEW rows \in Rows, NEW reply \in Answer \cup {NoAnswer},
           pc' = [pc EXCEPT ![r] = step],
           work' = [work EXCEPT ![r] = rows],
           answer' = [answer EXCEPT ![r] = reply],
           UNCHANGED <<db, audited>>,
           faults' \in Nat, faults' >= faults,
           OneWriter', Staged(r)', pc[r] # "answered"
    PROVE  SubmitInv'
<1>1. FeedbackTypeOK'
  BY DEF SubmitInv, FeedbackTypeOK
<1>2. ASSUME NEW s \in Submissions, s # r PROVE Staged(s)'
  <2>1. pc'[s] = pc[s] /\ work'[s] = work[s] /\ answer'[s] = answer[s]
    BY <1>2 DEF SubmitInv, FeedbackTypeOK
  <2>2. QED
    BY <2>1, <1>2, OthersStaged
<1>3. StoredRowsCoherent'
  BY DEF SubmitInv, StoredRowsCoherent
<1>4. \A s \in audited' : pc'[s] = "answered"
  BY DEF SubmitInv, FeedbackTypeOK
<1>5. QED
  BY <1>1, <1>2, <1>3, <1>4 DEF SubmitInv

\* Taking the row of the pair.
LEMMA CreateFeedbackStep ==
    ASSUME SubmitInv, NEW r \in Submissions, CreateFeedback(r) PROVE SubmitInv'
<1> DEFINE rows == [db[Target[r]] EXCEPT !.rating = r, !.attribution = "pending"]
<1>1. db[Target[r]] \in Rows /\ answer[r] \in Answer \cup {NoAnswer} /\ faults \in Nat
  BY DEF SubmitInv, FeedbackTypeOK
<1>2. rows \in Rows
  BY <1>1 DEF Rows, AttributionStatus
<1>3. /\ pc[r] = "feedback" /\ pc' = [pc EXCEPT ![r] = "ticket"]
      /\ work' = [work EXCEPT ![r] = rows]
      /\ answer' = [answer EXCEPT ![r] = answer[r]]
      /\ UNCHANGED <<db, audited, faults>>
  BY DEF CreateFeedback, GoTo, SubmitInv, FeedbackTypeOK
<1>4. OneWriter'
  <2>1. \A other \in Submissions : Target[other] = Target[r] => pc[other] \notin Holding
    BY DEF CreateFeedback
  <2>2. QED
    BY <2>1, <1>3 DEF OneWriter, SubmitInv, FeedbackTypeOK
<1>5. pc'[r] = "ticket" /\ work'[r] = rows
  BY <1>3 DEF SubmitInv, FeedbackTypeOK
<1> HIDE DEF rows
<1>6. Staged(r)'
  <2>1. Staged(r)
    BY DEF SubmitInv
  <2>2. db'[Target[r]].rating = r => faults' > 0
    BY <2>1, <1>3 DEF Staged
  <2>3. QED
    BY <2>2, <1>3, <1>5 DEF Staged, rows, Holding
<1>7. "ticket" \in Holding
  BY DEF Holding
<1>8. /\ "ticket" \in {"feedback", "audit"} \cup Holding \cup Over
      /\ faults' \in Nat /\ faults' >= faults /\ pc[r] # "answered"
  BY <1>1, <1>3, <1>7
<1>9. QED
  BY <1>1, <1>2, <1>3, <1>4, <1>6, <1>8, InsideTransaction

\* The ticket is opened only where nothing was stored before.
LEMMA CreateTicketStep ==
    ASSUME SubmitInv, NEW r \in Submissions, CreateTicket(r) PROVE SubmitInv'
<1> DEFINE rows == [work[r] EXCEPT !.ticket = "collected"]
<1>1. /\ db[Target[r]] \in Rows /\ work[r] \in Rows /\ faults \in Nat
      /\ answer[r] \in Answer \cup {NoAnswer} /\ Coherent(db[Target[r]])
      /\ Staged(r) /\ r # "nobody"
  BY DEF SubmitInv, FeedbackTypeOK, StoredRowsCoherent
<1>2. rows \in Rows
  BY <1>1 DEF Rows, TicketStatusKey
<1>3. /\ pc[r] = "ticket" /\ pc' = [pc EXCEPT ![r] = "queue"]
      /\ work' = [work EXCEPT ![r] = rows]
      /\ answer' = [answer EXCEPT ![r] = answer[r]]
      /\ UNCHANGED <<db, audited, faults>>
  BY DEF CreateTicket, GoTo, SubmitInv, FeedbackTypeOK
<1>4. work[r] = [db[Target[r]] EXCEPT !.rating = r, !.attribution = "pending"]
  BY <1>1, <1>3 DEF Staged
<1>5. db[Target[r]].ticket = "none"
  <2>1. work[r].ticket = "none"
    BY DEF CreateTicket
  <2>2. QED
    BY <2>1, <1>1, <1>4 DEF Rows
<1>6. db[Target[r]] = NoRows
  BY <1>1, <1>5, NoTicketNoRows
<1>7. rows.rating = r /\ rows.attribution = "pending" /\ rows.attributions = <<>>
  BY <1>4, <1>6 DEF NoRows
<1>8. pc'[r] = "queue" /\ work'[r] = rows /\ db'[Target[r]] = NoRows
  BY <1>3, <1>6 DEF SubmitInv, FeedbackTypeOK
<1> HIDE DEF rows
<1>9. Staged(r)'
  BY <1>1, <1>7, <1>8 DEF Staged, NoRows
<1>10. "queue" \in Holding /\ "ticket" \in Holding
  BY DEF Holding
<1>11. OneWriter'
  BY <1>3, <1>10, WriterStays
<1>12. /\ "queue" \in {"feedback", "audit"} \cup Holding \cup Over
       /\ faults' \in Nat /\ faults' >= faults /\ pc[r] # "answered"
  BY <1>1, <1>3, <1>10
<1>13. QED
  BY <1>1, <1>2, <1>3, <1>9, <1>11, <1>12, InsideTransaction

\* A step that ends the transaction of r without storing anything.
LEMMA RollbackStep ==
    ASSUME SubmitInv, NEW r \in Submissions, NEW step \in {"error", "killed"},
           pc[r] \notin Over, pc' = [pc EXCEPT ![r] = step], Rollback(r),
           UNCHANGED <<db, answer, audited>>, faults' \in Nat, faults' >= faults,
           faults' > 0 \/ db[Target[r]].rating # r
    PROVE  SubmitInv'
<1>1. answer[r] \in Answer \cup {NoAnswer} /\ pc[r] # "answered" /\ step \in Over
  BY DEF SubmitInv, FeedbackTypeOK, Over
<1>2. /\ work' = [work EXCEPT ![r] = NoRows]
      /\ answer' = [answer EXCEPT ![r] = answer[r]]
      /\ pc'[r] = step
  BY DEF Rollback, SubmitInv, FeedbackTypeOK
<1>3. Staged(r)'
  BY <1>2 DEF Staged, Holding
<1>4. OneWriter'
  BY WriterStays DEF Holding
<1>5. QED
  BY <1>1, <1>2, <1>3, <1>4, NoRowsType, InsideTransaction

\* The second ticket is refused.
LEMMA CreateTicketRefusedStep ==
    ASSUME SubmitInv, NEW r \in Submissions, CreateTicketRefused(r) PROVE SubmitInv'
<1>1. /\ pc[r] = "ticket" /\ pc' = [pc EXCEPT ![r] = "error"] /\ Rollback(r)
      /\ UNCHANGED <<db, answer, audited, faults>>
  BY DEF CreateTicketRefused, GoTo
<1>2. faults \in Nat /\ Staged(r)
  BY DEF SubmitInv, FeedbackTypeOK
<1>3. faults' > 0 \/ db[Target[r]].rating # r
  BY <1>1, <1>2 DEF Staged
<1>4. pc[r] \notin Over /\ faults' \in Nat /\ faults' >= faults
  BY <1>1, <1>2 DEF Over
<1>5. QED
  BY <1>1, <1>3, <1>4, RollbackStep

\* The ticket waits for its attribution.
LEMMA QueueTicketStep ==
    ASSUME SubmitInv, NEW r \in Submissions, QueueTicket(r) PROVE SubmitInv'
<1> DEFINE rows == [work[r] EXCEPT !.ticket = "pending_attribution"]
<1>1. /\ work[r] \in Rows /\ faults \in Nat /\ Staged(r)
      /\ answer[r] \in Answer \cup {NoAnswer}
  BY DEF SubmitInv, FeedbackTypeOK
<1>2. rows \in Rows
  BY <1>1 DEF Rows, TicketStatusKey
<1>3. /\ pc[r] = "queue" /\ pc' = [pc EXCEPT ![r] = "attribute"]
      /\ work' = [work EXCEPT ![r] = rows]
      /\ answer' = [answer EXCEPT ![r] = answer[r]]
      /\ UNCHANGED <<db, audited, faults>>
  BY DEF QueueTicket, GoTo, SubmitInv, FeedbackTypeOK
<1>4. "queue" \in Holding /\ "attribute" \in Holding
  BY DEF Holding
<1>5. /\ rows.rating = r /\ rows.attribution = "pending" /\ rows.attributions = <<>>
      /\ rows.ticket = "pending_attribution" /\ db[Target[r]] = NoRows
  BY <1>1, <1>3, <1>4 DEF Staged, Rows
<1>6. pc'[r] = "attribute" /\ work'[r] = rows
  BY <1>3 DEF SubmitInv, FeedbackTypeOK
<1> HIDE DEF rows
<1>7. Staged(r)'
  BY <1>1, <1>3, <1>5, <1>6 DEF Staged, NoRows
<1>8. OneWriter'
  BY <1>3, <1>4, WriterStays
<1>9. /\ "attribute" \in {"feedback", "audit"} \cup Holding \cup Over
      /\ faults' \in Nat /\ faults' >= faults /\ pc[r] # "answered"
  BY <1>1, <1>3, <1>4
<1>10. QED
  BY <1>1, <1>2, <1>3, <1>7, <1>8, <1>9, InsideTransaction

\* A submission without the question or the answer goes on to its commit.
LEMMA SkipAttributionStep ==
    ASSUME SubmitInv, NEW r \in Submissions, SkipAttribution(r) PROVE SubmitInv'
<1> DEFINE reply == [attribution |-> "skipped", ticket |-> "pending_attribution"]
<1>1. /\ work[r] \in Rows /\ faults \in Nat /\ Staged(r) /\ reply \in Answer \cup {NoAnswer}
  BY DEF SubmitInv, FeedbackTypeOK, Answer, AttributionStatus, TicketStatusKey
<1>2. /\ pc[r] = "attribute" /\ pc' = [pc EXCEPT ![r] = "commit"]
      /\ work' = [work EXCEPT ![r] = work[r]]
      /\ answer' = [answer EXCEPT ![r] = reply]
      /\ UNCHANGED <<db, audited, faults>>
  BY DEF SkipAttribution, GoTo, SubmitInv, FeedbackTypeOK
<1>3. "attribute" \in Holding /\ "commit" \in Holding
  BY DEF Holding
<1>4. /\ work[r].rating = r /\ work[r].attribution = "pending" /\ work[r].attributions = <<>>
      /\ work[r].ticket = "pending_attribution" /\ db[Target[r]] = NoRows
  BY <1>1, <1>2, <1>3 DEF Staged
<1>5. Coherent(work[r])
  BY <1>4 DEF Coherent
<1>6. pc'[r] = "commit" /\ work'[r] = work[r] /\ answer'[r] = reply
  BY <1>2 DEF SubmitInv, FeedbackTypeOK
<1>7. work[r].ticket = answer'[r].ticket
  BY <1>4, <1>6
<1>8. Staged(r)'
  BY <1>2, <1>4, <1>5, <1>6, <1>7 DEF Staged, NoRows
<1>9. OneWriter'
  BY <1>2, <1>3, WriterStays
<1>10. /\ "commit" \in {"feedback", "audit"} \cup Holding \cup Over
       /\ faults' \in Nat /\ faults' >= faults /\ pc[r] # "answered"
  BY <1>1, <1>2, <1>3
<1> HIDE DEF reply
<1>11. QED
  BY <1>1, <1>2, <1>8, <1>9, <1>10, InsideTransaction

\* A failed attribution is written as such.
LEMMA AttributionFailsStep ==
    ASSUME SubmitInv, NEW r \in Submissions, AttributionFails(r) PROVE SubmitInv'
<1> DEFINE reply == [attribution |-> "failed", ticket |-> "pending_attribution"]
           rows  == [work[r] EXCEPT !.attribution = "failed"]
<1>1. /\ work[r] \in Rows /\ faults \in Nat /\ Staged(r) /\ reply \in Answer \cup {NoAnswer}
  BY DEF SubmitInv, FeedbackTypeOK, Answer, AttributionStatus, TicketStatusKey
<1>2. rows \in Rows
  BY <1>1 DEF Rows, AttributionStatus
<1>3. /\ pc[r] = "attribute" /\ pc' = [pc EXCEPT ![r] = "commit"]
      /\ work' = [work EXCEPT ![r] = rows]
      /\ answer' = [answer EXCEPT ![r] = reply]
      /\ UNCHANGED <<db, audited, faults>>
  BY DEF AttributionFails, GoTo, SubmitInv, FeedbackTypeOK
<1>4. "attribute" \in Holding /\ "commit" \in Holding
  BY DEF Holding
<1>5. /\ rows.rating = r /\ rows.attribution = "failed" /\ rows.attributions = <<>>
      /\ rows.ticket = "pending_attribution" /\ db[Target[r]] = NoRows /\ r # "nobody"
  BY <1>1, <1>3, <1>4 DEF Staged, Rows
<1>6. Coherent(rows)
  BY <1>5 DEF Coherent
<1>7. pc'[r] = "commit" /\ work'[r] = rows /\ answer'[r].ticket = "pending_attribution"
  BY <1>3 DEF SubmitInv, FeedbackTypeOK
<1> HIDE DEF rows, reply
<1>8. Staged(r)'
  BY <1>3, <1>5, <1>6, <1>7 DEF Staged, NoRows
<1>9. OneWriter'
  BY <1>3, <1>4, WriterStays
<1>10. /\ "commit" \in {"feedback", "audit"} \cup Holding \cup Over
       /\ faults' \in Nat /\ faults' >= faults /\ pc[r] # "answered"
  BY <1>1, <1>3, <1>4
<1>11. QED
  BY <1>1, <1>2, <1>3, <1>8, <1>9, <1>10, InsideTransaction

\* A category is attributed: the first and only one of the row.
LEMMA AttributeStep ==
    ASSUME SubmitInv, NEW r \in Submissions, NEW c \in Categories, Attribute(r, c)
    PROVE  SubmitInv'
<1> DEFINE rows == [work[r] EXCEPT !.attributions = Append(@, c),
                                   !.attribution = "succeeded",
                                   !.ticket = "attributed"]
<1>1. /\ work[r] \in Rows /\ faults \in Nat /\ Staged(r)
      /\ answer[r] \in Answer \cup {NoAnswer}
  BY DEF SubmitInv, FeedbackTypeOK
<1>2. NextStatus("pending_attribution", c) = "attributed"
  BY DEF NextStatus
<1>3. /\ pc[r] = "attribute" /\ pc' = [pc EXCEPT ![r] = "route"]
      /\ work' = [work EXCEPT ![r] = rows]
      /\ answer' = [answer EXCEPT ![r] = answer[r]]
      /\ UNCHANGED <<db, audited, faults>>
  BY <1>2 DEF Attribute, GoTo, SubmitInv, FeedbackTypeOK
<1>4. "attribute" \in Holding /\ "route" \in Holding
  BY DEF Holding
<1>5. /\ work[r].rating = r /\ work[r].attributions = <<>> /\ db[Target[r]] = NoRows
      /\ r # "nobody"
  BY <1>1, <1>3, <1>4 DEF Staged
<1>6. /\ rows.rating = r /\ rows.attribution = "succeeded" /\ rows.ticket = "attributed"
      /\ rows.attributions = <<c>>
  BY <1>1, <1>5, OneAttribution DEF Rows
<1>7. rows \in Rows
  <2>1. Append(work[r].attributions, c) \in Seq(Categories)
    BY <1>5, OneAttribution
  <2>2. QED
    BY <2>1, <1>1 DEF Rows, AttributionStatus, TicketStatusKey
<1>8. pc'[r] = "route" /\ work'[r] = rows
  BY <1>3 DEF SubmitInv, FeedbackTypeOK
<1> HIDE DEF rows
<1>9. Staged(r)'
  BY <1>3, <1>5, <1>6, <1>8 DEF Staged, NoRows
<1>10. OneWriter'
  BY <1>3, <1>4, WriterStays
<1>11. /\ "route" \in {"feedback", "audit"} \cup Holding \cup Over
       /\ faults' \in Nat /\ faults' >= faults /\ pc[r] # "answered"
  BY <1>1, <1>3, <1>4
<1>12. QED
  BY <1>1, <1>3, <1>7, <1>9, <1>10, <1>11, InsideTransaction

\* The ticket is routed by the category of that attribution.
LEMMA RouteTicketStep ==
    ASSUME SubmitInv, NEW r \in Submissions, RouteTicket(r) PROVE SubmitInv'
<1>1. /\ work[r] \in Rows /\ faults \in Nat /\ Staged(r)
  BY DEF SubmitInv, FeedbackTypeOK
<1>2. "route" \in Holding /\ "commit" \in Holding /\ pc[r] = "route"
  BY DEF Holding, RouteTicket
<1>3. PICK c \in Categories : /\ work[r].attributions = <<c>> /\ work[r].ticket = "attributed"
                              /\ work[r].attribution = "succeeded"
                              /\ work[r].rating = r /\ db[Target[r]] = NoRows
  BY <1>1, <1>2 DEF Staged
<1> DEFINE status == IF c \in AutoClose THEN "closed" ELSE "pending"
           rows   == [work[r] EXCEPT !.ticket = status]
           reply  == [attribution |-> "succeeded", ticket |-> status]
<1>4. NextStatus(work[r].ticket, work[r].attributions[Len(work[r].attributions)]) = status
  BY <1>3, OneAttribution DEF NextStatus
<1>5. /\ pc' = [pc EXCEPT ![r] = "commit"]
      /\ work' = [work EXCEPT ![r] = rows]
      /\ answer' = [answer EXCEPT ![r] = reply]
      /\ UNCHANGED <<db, audited, faults>>
  BY <1>4 DEF RouteTicket, GoTo, SubmitInv, FeedbackTypeOK
<1>6. status \in TicketStatusKey
  BY DEF TicketStatusKey
<1>7. rows \in Rows /\ reply \in Answer \cup {NoAnswer}
  BY <1>1, <1>6 DEF Rows, Answer, AttributionStatus
<1>8. /\ rows.rating = r /\ rows.attribution = "succeeded" /\ rows.attributions = <<c>>
      /\ rows.ticket = status /\ r # "nobody"
  BY <1>1, <1>3 DEF Rows
<1>9. Coherent(rows)
  BY <1>8, OneAttribution DEF Coherent
<1>10. pc'[r] = "commit" /\ work'[r] = rows /\ answer'[r].ticket = status
  BY <1>5 DEF SubmitInv, FeedbackTypeOK
<1> HIDE DEF status, rows, reply
<1>11. Staged(r)'
  BY <1>3, <1>5, <1>8, <1>9, <1>10 DEF Staged, NoRows
<1>12. OneWriter'
  BY <1>2, <1>5, WriterStays
<1>13. /\ "commit" \in {"feedback", "audit"} \cup Holding \cup Over
       /\ faults' \in Nat /\ faults' >= faults /\ pc[r] # "answered"
  BY <1>1, <1>2, <1>5
<1>14. QED
  BY <1>5, <1>7, <1>11, <1>12, <1>13, InsideTransaction

\* A commit takes effect, and its reply may be lost: the coherent rows of r
\* replace a pair's empty ones.
LEMMA StoreStep ==
    ASSUME SubmitInv, NEW r \in Submissions, pc[r] = "commit",
           NEW step \in {"audit", "error"}, NEW rows \in Rows,
           pc' = [pc EXCEPT ![r] = step],
           work' = [work EXCEPT ![r] = rows],
           db' = [db EXCEPT ![Target[r]] = work[r]],
           UNCHANGED <<answer, audited>>,
           faults' \in Nat, faults' >= faults, step = "error" => faults' > 0
    PROVE  SubmitInv'
<1>1. /\ work[r] \in Rows /\ Staged(r) /\ Target[r] \in Pairs
      /\ db \in [Pairs -> Rows] /\ pc'[r] = step
  BY DEF SubmitInv, FeedbackTypeOK
<1>2. FeedbackTypeOK'
  BY <1>1 DEF SubmitInv, FeedbackTypeOK, Over
<1>3. Coherent(work[r]) /\ work[r].rating = r /\ work[r].ticket = answer[r].ticket
  BY <1>1 DEF Staged, Holding
<1>4. StoredRowsCoherent'
  BY <1>1, <1>3 DEF SubmitInv, StoredRowsCoherent
<1>5. OneWriter'
  BY WriterStays DEF Holding
<1>6. ASSUME NEW s \in Submissions PROVE Staged(s)'
  <2>1. CASE s # r
    <3>1. pc'[s] = pc[s] /\ work'[s] = work[s] /\ answer'[s] = answer[s]
      BY <2>1 DEF SubmitInv, FeedbackTypeOK
    <3>2. QED
      BY <3>1, <2>1, OthersStaged
  <2>2. CASE s = r
    <3>1. db'[Target[r]] = work[r] /\ answer'[r] = answer[r]
      BY <1>1
    <3>2. QED
      BY <3>1, <2>2, <1>1, <1>3 DEF Staged, Holding
  <2>3. QED
    BY <2>1, <2>2
<1>7. \A s \in audited' : pc'[s] = "answered"
  BY DEF SubmitInv, FeedbackTypeOK
<1>8. QED
  BY <1>2, <1>4, <1>5, <1>6, <1>7 DEF SubmitInv

\* The commit.
LEMMA CommitStep ==
    ASSUME SubmitInv, NEW r \in Submissions, Commit(r) PROVE SubmitInv'
<1>1. /\ pc[r] = "commit" /\ pc' = [pc EXCEPT ![r] = "audit"]
      /\ work' = [work EXCEPT ![r] = work[r]] /\ work[r] \in Rows
      /\ db' = [db EXCEPT ![Target[r]] = work[r]]
      /\ UNCHANGED <<answer, audited, faults>> /\ faults \in Nat
  BY DEF Commit, GoTo, SubmitInv, FeedbackTypeOK
<1>2. faults' \in Nat /\ faults' >= faults
  BY <1>1
<1>3. QED
  BY <1>1, <1>2, StoreStep

\* The audit event of a stored submission.
LEMMA RecordAuditStep ==
    ASSUME SubmitInv, NEW r \in Submissions, RecordAudit(r) PROVE SubmitInv'
<1>1. /\ pc[r] = "audit" /\ pc' = [pc EXCEPT ![r] = "answered"]
      /\ audited' = audited \cup {r} /\ UNCHANGED <<db, work, answer, faults>>
      /\ faults \in Nat /\ Staged(r) /\ pc'[r] = "answered"
  BY DEF RecordAudit, GoTo, SubmitInv, FeedbackTypeOK
<1>2. FeedbackTypeOK'
  BY <1>1 DEF SubmitInv, FeedbackTypeOK, Over
<1>3. StoredRowsCoherent'
  BY <1>1 DEF SubmitInv, StoredRowsCoherent
<1>4. OneWriter'
  BY <1>1, WriterStays DEF Holding
<1>5. ASSUME NEW s \in Submissions PROVE Staged(s)'
  <2>1. CASE s # r
    <3>1. pc'[s] = pc[s] /\ work'[s] = work[s] /\ answer'[s] = answer[s]
      BY <1>1, <2>1 DEF SubmitInv, FeedbackTypeOK
    <3>2. faults' \in Nat /\ faults' >= faults /\ db' = db
      BY <1>1
    <3>3. QED
      BY <3>1, <3>2, <2>1, OthersStaged
  <2>2. CASE s = r
    BY <2>2, <1>1 DEF Staged, Holding
  <2>3. QED
    BY <2>1, <2>2
<1>6. \A s \in audited' : pc'[s] = "answered"
  BY <1>1 DEF SubmitInv, FeedbackTypeOK
<1>7. QED
  BY <1>2, <1>3, <1>4, <1>5, <1>6 DEF SubmitInv

\* A failing statement rolls back, unless it is a commit that took effect.
LEMMA StatementFailsStep ==
    ASSUME SubmitInv, NEW r \in Submissions, StatementFails(r) PROVE SubmitInv'
<1>1. /\ pc[r] \notin Over /\ pc' = [pc EXCEPT ![r] = "error"] /\ Rollback(r)
      /\ UNCHANGED <<answer, audited>> /\ faults \in Nat /\ faults' = faults + 1
  BY DEF StatementFails, Fault, GoTo, SubmitInv, FeedbackTypeOK, Holding, Over
<1>2. faults' \in Nat /\ faults' >= faults /\ faults' > 0
  BY <1>1
<1>3. CASE db' = db
  BY <1>1, <1>2, <1>3, RollbackStep
<1>4. CASE db' # db
  <2>1. pc[r] = "commit" /\ db' = [db EXCEPT ![Target[r]] = work[r]]
    BY <1>4 DEF StatementFails
  <2>2. work' = [work EXCEPT ![r] = NoRows]
    BY <1>1 DEF Rollback
  <2>3. QED
    BY <2>1, <2>2, <1>1, <1>2, NoRowsType, StoreStep
<1>5. QED
  BY <1>3, <1>4

\* A killed process leaves what it had committed.
LEMMA KilledStep ==
    ASSUME SubmitInv, NEW r \in Submissions, Killed(r) PROVE SubmitInv'
<1>1. /\ pc[r] \notin Over /\ pc' = [pc EXCEPT ![r] = "killed"] /\ Rollback(r)
      /\ UNCHANGED <<db, answer, audited>> /\ faults \in Nat /\ faults' = faults + 1
  BY DEF Killed, Fault, GoTo, SubmitInv, FeedbackTypeOK
<1>2. faults' \in Nat /\ faults' >= faults /\ faults' > 0
  BY <1>1
<1>3. QED
  BY <1>1, <1>2, RollbackStep

\* Every step preserves the invariant.
LEMMA SubmitInductive == SubmitInv /\ [FeedbackNext]_feedbackVars => SubmitInv'
<1> SUFFICES ASSUME SubmitInv, [FeedbackNext]_feedbackVars PROVE SubmitInv'
  OBVIOUS
<1>1. CASE UNCHANGED feedbackVars
  <2>1. FeedbackTypeOK' /\ StoredRowsCoherent' /\ OneWriter' /\ \A r \in audited' : pc'[r] = "answered"
    BY <1>1 DEF feedbackVars, SubmitInv, FeedbackTypeOK, StoredRowsCoherent, OneWriter
  <2>2. ASSUME NEW r \in Submissions PROVE Staged(r)'
    <3>1. Staged(r)
      BY DEF SubmitInv
    <3>2. QED
      BY <3>1, <1>1 DEF feedbackVars, Staged
  <2>3. QED
    BY <2>1, <2>2 DEF SubmitInv
<1>2. ASSUME NEW r \in Submissions, Submit(r) PROVE SubmitInv'
  BY <1>2, CreateFeedbackStep, CreateTicketStep, CreateTicketRefusedStep, QueueTicketStep,
     SkipAttributionStep, AttributionFailsStep, AttributeStep, RouteTicketStep, CommitStep,
     RecordAuditStep DEF Submit
<1>3. QED
  BY <1>1, <1>2, StatementFailsStep, KilledStep DEF FeedbackNext

-----------------------------------------------------------------------------
(* Theorems                                                                *)

\* The invariant above holds through all submissions.
THEOREM SubmitInvariant == FeedbackSpec => []SubmitInv
  BY SubmitInit, SubmitInductive, PTL DEF FeedbackSpec

\* However many submissions of a pair overlap, fail or are killed, the tables
\* hold all of a submission's rows or none.
THEOREM NoPartialSubmission == FeedbackSpec => []StoredRowsCoherent
<1>1. SubmitInv => StoredRowsCoherent
  BY DEF SubmitInv
<1>2. QED
  BY <1>1, SubmitInvariant, PTL

\* An audited submission is the one stored, with the ticket its client was told of:
\* no later submission of the pair gets past the ticket.
THEOREM AuditTrailStands == FeedbackSpec => []AuditedStands
<1>1. SubmitInv => AuditedStands
  <2> SUFFICES ASSUME SubmitInv, NEW r \in audited
               PROVE  /\ db[Target[r]].rating = r
                      /\ db[Target[r]].ticket = answer[r].ticket
    BY DEF AuditedStands
  <2>1. r \in Submissions /\ pc[r] = "answered" /\ Staged(r)
    BY DEF SubmitInv, FeedbackTypeOK
  <2>2. QED
    BY <2>1 DEF Staged
<1>2. QED
  BY <1>1, SubmitInvariant, PTL

\* Without a failure, a submission that ends in an error leaves no trace.
THEOREM RefusedLeavesNothing == FeedbackSpec => []ErrorLeavesNothing
<1>1. SubmitInv => ErrorLeavesNothing
  <2> SUFFICES ASSUME SubmitInv, faults = 0, NEW r \in Submissions, pc[r] = "error"
               PROVE  db[Target[r]].rating # r
    BY DEF ErrorLeavesNothing
  <2>1. Staged(r)
    BY DEF SubmitInv
  <2>2. QED
    BY <2>1 DEF Staged
<1>2. QED
  BY <1>1, SubmitInvariant, PTL
-----------------------------------------------------------------------------
(* The moves of a ticket                                                   *)

\* The one thing the moves need beyond SubmitInv: a ticket is new when it is queued.
CollectedFirst == \A r \in Submissions : pc[r] = "queue" => work[r].ticket = "collected"

\* What a step does to the rows a submission sees.
RowsMove(r) ==
    \/ work'[r] = NoRows \/ pc[r] = "feedback"
    \/ LegalMove(work[r].ticket, work'[r].ticket)

\* A step of a submission moves its own ticket legally, and touches no other's rows.
LEMMA SubmissionMoves ==
    ASSUME SubmitInv, CollectedFirst, NEW r \in Submissions,
           Submit(r) \/ StatementFails(r) \/ Killed(r)
    PROVE  /\ RowsMove(r)
           /\ \A s \in Submissions \ {r} : work'[s] = work[s] /\ pc'[s] = pc[s]
           /\ pc'[r] = "queue" => work'[r].ticket = "collected"
<1>1. /\ work[r] \in Rows /\ Staged(r) /\ work \in [Submissions -> Rows]
      /\ pc \in [Submissions -> {"feedback", "audit"} \cup Holding \cup Over]
  BY DEF SubmitInv, FeedbackTypeOK
<1>2. ASSUME NEW rows, NEW step, work' = [work EXCEPT ![r] = rows], GoTo(r, step),
             rows = NoRows \/ pc[r] = "feedback" \/ LegalMove(work[r].ticket, rows.ticket),
             step = "queue" => rows.ticket = "collected"
      PROVE  /\ RowsMove(r)
             /\ \A s \in Submissions \ {r} : work'[s] = work[s] /\ pc'[s] = pc[s]
             /\ pc'[r] = "queue" => work'[r].ticket = "collected"
  <2>1. /\ work'[r] = rows /\ pc'[r] = step
        /\ \A s \in Submissions \ {r} : work'[s] = work[s] /\ pc'[s] = pc[s]
    BY <1>1, <1>2 DEF GoTo
  <2>2. QED
    BY <1>2, <2>1 DEF RowsMove
<1>3. CASE CreateFeedback(r)
  BY <1>2, <1>3 DEF CreateFeedback
<1>4. CASE CreateTicket(r)
  <2> DEFINE rows == [work[r] EXCEPT !.ticket = "collected"]
  <2>1. rows.ticket = "collected" /\ work[r].ticket = "none"
    BY <1>1, <1>4 DEF CreateTicket, Rows
  <2>2. work' = [work EXCEPT ![r] = rows] /\ GoTo(r, "queue")
    BY <1>4 DEF CreateTicket
  <2> HIDE DEF rows
  <2>3. QED
    BY <1>2, <2>1, <2>2 DEF LegalMove
<1>5. CASE QueueTicket(r)
  <2> DEFINE rows == [work[r] EXCEPT !.ticket = "pending_attribution"]
  <2>1. rows.ticket = "pending_attribution" /\ work[r].ticket = "collected"
    BY <1>1, <1>5 DEF QueueTicket, Rows, CollectedFirst
  <2>2. work' = [work EXCEPT ![r] = rows] /\ GoTo(r, "attribute")
    BY <1>5 DEF QueueTicket
  <2> HIDE DEF rows
  <2>3. QED
    BY <1>2, <2>1, <2>2 DEF LegalMove, LegalTransitions
<1>6. CASE AttributionFails(r)
  <2> DEFINE rows == [work[r] EXCEPT !.attribution = "failed"]
  <2>1. rows.ticket = work[r].ticket
    BY <1>1 DEF Rows
  <2>2. work' = [work EXCEPT ![r] = rows] /\ GoTo(r, "commit")
    BY <1>6 DEF AttributionFails
  <2> HIDE DEF rows
  <2>3. QED
    BY <1>2, <2>1, <2>2 DEF LegalMove
<1>7. ASSUME NEW c \in Categories, Attribute(r, c)
      PROVE  /\ RowsMove(r)
             /\ \A s \in Submissions \ {r} : work'[s] = work[s] /\ pc'[s] = pc[s]
             /\ pc'[r] = "queue" => work'[r].ticket = "collected"
  <2> DEFINE rows == [work[r] EXCEPT !.attributions = Append(@, c),
                                     !.attribution = "succeeded",
                                     !.ticket = "attributed"]
  <2>1. NextStatus("pending_attribution", c) = "attributed"
    BY DEF NextStatus
  <2>2. rows.ticket = "attributed" /\ work[r].ticket = "pending_attribution"
    BY <1>1, <1>7 DEF Attribute, Rows, Staged, Holding
  <2>3. work' = [work EXCEPT ![r] = rows] /\ GoTo(r, "route")
    BY <1>7, <2>1 DEF Attribute
  <2> HIDE DEF rows
  <2>4. QED
    BY <1>2, <2>2, <2>3 DEF LegalMove, LegalTransitions
<1>8. CASE RouteTicket(r)
  <2>1. PICK c \in Categories : work[r].attributions = <<c>> /\ work[r].ticket = "attributed"
    BY <1>1, <1>8 DEF RouteTicket, Staged, Holding
  <2> DEFINE status == IF c \in AutoClose THEN "closed" ELSE "pending"
             rows   == [work[r] EXCEPT !.ticket = status]
  <2>2. NextStatus(work[r].ticket, work[r].attributions[Len(work[r].attributions)]) = status
    BY <2>1, OneAttribution DEF NextStatus
  <2>3. rows.ticket = status /\ status \in {"closed", "pending"}
    BY <1>1 DEF Rows
  <2>4. work' = [work EXCEPT ![r] = rows] /\ GoTo(r, "commit")
    BY <1>8, <2>2 DEF RouteTicket
  <2> HIDE DEF status, rows
  <2>5. QED
    BY <1>2, <2>1, <2>3, <2>4 DEF LegalMove, LegalTransitions
<1>9. CASE CreateTicketRefused(r) \/ StatementFails(r) \/ Killed(r)
  BY <1>2, <1>9 DEF CreateTicketRefused, StatementFails, Killed, Rollback
<1>10. CASE SkipAttribution(r) \/ Commit(r) \/ RecordAudit(r)
  <2>1. PICK step \in {"commit", "audit", "answered"} : GoTo(r, step) /\ UNCHANGED work
    BY <1>10 DEF SkipAttribution, Commit, RecordAudit
  <2>2. work' = [work EXCEPT ![r] = work[r]]
    BY <1>1, <2>1
  <2>3. QED
    BY <1>2, <2>1, <2>2 DEF LegalMove
<1>11. QED
  BY <1>3, <1>4, <1>5, <1>6, <1>7, <1>8, <1>9, <1>10 DEF Submit

\* What is stored for a pair changes once, from no ticket at all.
LEMMA StoredTicketStays ==
    ASSUME SubmitInv, NEW r \in Submissions, Submit(r) \/ StatementFails(r) \/ Killed(r),
           NEW p \in Pairs, db[p].ticket # "none"
    PROVE  db'[p] = db[p]
<1>1. CASE UNCHANGED db
  BY <1>1
<1>2. CASE pc[r] = "commit" /\ db' = [db EXCEPT ![Target[r]] = work[r]]
  <2>1. db[Target[r]].ticket = "none"
    <3>1. Staged(r)
      BY DEF SubmitInv
    <3>2. db[Target[r]] = NoRows
      BY <1>2, <3>1 DEF Staged, Holding
    <3>3. QED
      BY <3>2 DEF NoRows
  <2>2. QED
    BY <1>2, <2>1 DEF SubmitInv, FeedbackTypeOK
<1>3. QED
  BY <1>1, <1>2 DEF Submit, CreateFeedback, CreateTicket, CreateTicketRefused, QueueTicket,
                    SkipAttribution, AttributionFails, Attribute, RouteTicket, Commit, RecordAudit,
                    StatementFails, Killed

\* A ticket moves along LegalTransitions only, in every transaction and in the table,
\* for any submissions of a pair, failures and categories.
THEOREM TicketsMoveLegally == FeedbackSpec => TicketMovesLegally
<1>1. FeedbackInit => CollectedFirst
  BY DEF FeedbackInit, CollectedFirst
<1>2. SubmitInv /\ CollectedFirst /\ [FeedbackNext]_feedbackVars => CollectedFirst'
  <2> SUFFICES ASSUME SubmitInv, CollectedFirst, [FeedbackNext]_feedbackVars PROVE CollectedFirst'
    OBVIOUS
  <2>1. CASE UNCHANGED feedbackVars
    BY <2>1 DEF feedbackVars, CollectedFirst
  <2>2. ASSUME NEW r \in Submissions, Submit(r) \/ StatementFails(r) \/ Killed(r)
        PROVE  CollectedFirst'
    BY <2>2, SubmissionMoves DEF CollectedFirst
  <2>3. QED
    BY <2>1, <2>2 DEF FeedbackNext
<1>3. SubmitInv /\ CollectedFirst /\ [FeedbackNext]_feedbackVars =>
        [/\ \A r \in Submissions :
               \/ work'[r] = NoRows
               \/ pc[r] = "feedback"
               \/ LegalMove(work[r].ticket, work'[r].ticket)
         /\ \A p \in Pairs :
               \/ db[p].ticket = "none"
               \/ LegalMove(db[p].ticket, db'[p].ticket)]_feedbackVars
  <2> SUFFICES ASSUME SubmitInv, CollectedFirst,
                      NEW r \in Submissions, Submit(r) \/ StatementFails(r) \/ Killed(r)
               PROVE  /\ \A s \in Submissions : RowsMove(s)
                      /\ \A p \in Pairs :
                            db[p].ticket = "none" \/ LegalMove(db[p].ticket, db'[p].ticket)
    BY DEF FeedbackNext, RowsMove
  <2>1. \A s \in Submissions : RowsMove(s)
    BY SubmissionMoves DEF RowsMove, LegalMove
  <2>2. ASSUME NEW p \in Pairs, db[p].ticket # "none"
        PROVE  LegalMove(db[p].ticket, db'[p].ticket)
    BY <2>2, StoredTicketStays DEF LegalMove
  <2>3. QED
    BY <2>1, <2>2
<1>4. QED
  BY <1>1, <1>2, <1>3, SubmitInvariant, PTL DEF FeedbackSpec, TicketMovesLegally
=============================================================================
