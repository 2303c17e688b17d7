------------------------------ MODULE Feedback ------------------------------
(***************************************************************************)
(* Submission of user feedback: feedback/service.py (FeedbackService),     *)
(* feedback/repository.py, feedback/ticket_state.py and the route          *)
(* POST /feedback, on top of the tables feedbacks, feedback_tickets and    *)
(* feedback_attributions.                                                  *)
(*                                                                         *)
(* A submission is one HTTP request, run by a thread with a database       *)
(* transaction of its own.  It inserts the feedback row of its (message,   *)
(* user) pair, or updates the one that exists, opens a ticket, attributes  *)
(* the feedback to a category, moves the ticket on, commits, and records   *)
(* an audit event.  Submissions of the same pair overlap: a double tap, a  *)
(* corrected rating.  Every statement can fail and the process can be      *)
(* killed between any two steps.                                           *)
(*                                                                         *)
(* PostgreSQL is modelled at READ COMMITTED: work[r] is what transaction r *)
(* would leave of its pair's rows, db[p] what is committed.  The INSERT    *)
(* (or UPDATE) of a pair's row waits while another transaction holds that  *)
(* row, so a pair has one writer at a time.  A rating, with its comment    *)
(* and scores, is represented by the submission that brought it.           *)
(*                                                                         *)
(* The checks of the route and of _submit_impl that the message exists and *)
(* lies in the workspace precede every write; submissions modelled here    *)
(* pass them.  The five categories of the cascade are seeded before the    *)
(* process serves requests and never deleted, so the branch of             *)
(* _submit_impl that adds a missing category is not taken.                 *)
(***************************************************************************)
EXTENDS Naturals, Sequences

CONSTANTS
    Pairs,        \* (message, user) pairs
    Submissions,  \* requests POST /feedback
    Target,       \* the pair of each submission
    Categories,   \* category keys the attributor produces
    AutoClose,    \* those that close a ticket at once: _AUTO_CLOSE_CATEGORY_KEYS
    MaxFaults     \* bound on failures

ASSUME FeedbackAssumption ==
    /\ Target \in [Submissions -> Pairs]
    /\ AutoClose \subseteq Categories
    /\ MaxFaults \in Nat
    /\ "nobody" \notin Submissions

-----------------------------------------------------------------------------
(* ticket_state.py                                                         *)

TicketStatusKey == {"collected", "pending_attribution", "attributed", "pending",
                    "in_verification", "closed", "kicked_back"}

LegalTransitions ==
    {<<"collected", "pending_attribution">>, <<"pending_attribution", "attributed">>,
     <<"attributed", "closed">>, <<"attributed", "pending">>,
     <<"pending", "in_verification">>, <<"in_verification", "closed">>,
     <<"in_verification", "kicked_back">>, <<"kicked_back", "pending">>}

\* The statuses next_status computes from; it raises for the others.
NextStatus(current, category) ==
    CASE current = "collected" -> "pending_attribution"
      [] current = "pending_attribution" -> "attributed"
      [] current = "attributed" -> IF category \in AutoClose THEN "closed" ELSE "pending"

-----------------------------------------------------------------------------
(* The rows of one pair: feedbacks (rating, attribution_status), the row of *)
(* feedback_tickets and those of feedback_attributions, in that order.      *)

AttributionStatus == {"pending", "succeeded", "failed", "skipped"}

Rows == [rating       : Submissions \cup {"nobody"},
         attribution  : AttributionStatus \cup {"none"},
         ticket       : TicketStatusKey \cup {"none"},
         attributions : Seq(Categories)]

NoRows == [rating |-> "nobody", attribution |-> "none", ticket |-> "none",
           attributions |-> <<>>]

\* SubmitResult, and the answer of a submission that has none.
Answer == [attribution : AttributionStatus, ticket : TicketStatusKey]
NoAnswer == [attribution |-> "none", ticket |-> "none"]

VARIABLES
    db,        \* committed rows of each pair
    work,      \* rows of its pair as each open transaction sees them
    pc,        \* where each submission is
    answer,    \* the SubmitResult it is about to return or has returned
    audited,   \* submissions with an audit event feedback_submit
    faults     \* failures so far

feedbackVars == <<db, work, pc, answer, audited, faults>>

\* The steps at which a submission holds the row of its pair.
Holding == {"ticket", "queue", "attribute", "route", "commit"}
Over == {"answered", "error", "killed"}

FeedbackTypeOK ==
    /\ db \in [Pairs -> Rows]
    /\ work \in [Submissions -> Rows]
    /\ pc \in [Submissions -> {"feedback", "audit"} \cup Holding \cup Over]
    /\ answer \in [Submissions -> Answer \cup {NoAnswer}]
    /\ audited \subseteq Submissions
    /\ faults \in Nat

FeedbackInit ==
    /\ db = [p \in Pairs |-> NoRows]
    /\ work = [r \in Submissions |-> NoRows]
    /\ pc = [r \in Submissions |-> "feedback"]
    /\ answer = [r \in Submissions |-> NoAnswer]
    /\ audited = {}
    /\ faults = 0

-----------------------------------------------------------------------------
GoTo(r, step) == pc' = [pc EXCEPT ![r] = step]

Fault == faults < MaxFaults /\ faults' = faults + 1

\* session.rollback(): what the transaction wrote is gone.
Rollback(r) == work' = [work EXCEPT ![r] = NoRows]

\* create_feedback: INSERT, or after its IntegrityError a rollback and an
\* UPDATE of the row that is there.
CreateFeedback(r) ==
    LET p == Target[r]
    IN  /\ pc[r] = "feedback"
        /\ \A other \in Submissions : Target[other] = p => pc[other] \notin Holding
        /\ work' = [work EXCEPT ![r] = [db[p] EXCEPT !.rating = r, !.attribution = "pending"]]
        /\ GoTo(r, "ticket")
        /\ UNCHANGED <<db, answer, audited, faults>>

\* Mutant of CreateTicket: no UNIQUE(feedback_id), the ticket starts over.
CreateTicketNotUnique(r) ==
    /\ pc[r] = "ticket"
    /\ work' = [work EXCEPT ![r].ticket = "collected"]
    /\ GoTo(r, "queue")
    /\ UNCHANGED <<db, answer, audited, faults>>

\* create_ticket: feedback_tickets.feedback_id is unique.
CreateTicket(r) ==
    /\ pc[r] = "ticket"
    /\ work[r].ticket = "none"
    /\ work' = [work EXCEPT ![r].ticket = "collected"]
    /\ GoTo(r, "queue")
    /\ UNCHANGED <<db, answer, audited, faults>>

\* Mutants of CreateTicketRefused: what was written is committed anyway
\* (`finally: commit`); the submission is retried.
CreateTicketRefusedCommits(r) ==
    /\ pc[r] = "ticket"
    /\ work[r].ticket # "none"
    /\ db' = [db EXCEPT ![Target[r]] = work[r]]
    /\ GoTo(r, "error")
    /\ UNCHANGED <<work, answer, audited, faults>>

CreateTicketRefusedRetries(r) ==
    /\ pc[r] = "ticket"
    /\ work[r].ticket # "none"
    /\ Rollback(r)
    /\ GoTo(r, "feedback")
    /\ UNCHANGED <<db, answer, audited, faults>>

\* The INSERT of a second ticket raises IntegrityError; submit() rolls back.
CreateTicketRefused(r) ==
    /\ pc[r] = "ticket"
    /\ work[r].ticket # "none"
    /\ Rollback(r)
    /\ GoTo(r, "error")
    /\ UNCHANGED <<db, answer, audited, faults>>

QueueTicket(r) ==
    /\ pc[r] = "queue"
    /\ work' = [work EXCEPT ![r].ticket = "pending_attribution"]
    /\ GoTo(r, "attribute")
    /\ UNCHANGED <<db, answer, audited, faults>>

\* query or answer is missing: nothing more is written.
SkipAttribution(r) ==
    /\ pc[r] = "attribute"
    /\ answer' = [answer EXCEPT ![r] = [attribution |-> "skipped",
                                        ticket |-> "pending_attribution"]]
    /\ GoTo(r, "commit")
    /\ UNCHANGED <<db, work, audited, faults>>

\* The attributor raises.
AttributionFails(r) ==
    /\ pc[r] = "attribute"
    /\ work' = [work EXCEPT ![r].attribution = "failed"]
    /\ answer' = [answer EXCEPT ![r] = [attribution |-> "failed",
                                        ticket |-> "pending_attribution"]]
    /\ GoTo(r, "commit")
    /\ UNCHANGED <<db, audited, faults>>

\* The attributor produces a category: create_attribution, the status of the
\* feedback, and the ticket's first hop.
Attribute(r, category) ==
    /\ pc[r] = "attribute"
    /\ work' = [work EXCEPT ![r].attributions = Append(@, category),
                            ![r].attribution = "succeeded",
                            ![r].ticket = NextStatus("pending_attribution", category)]
    /\ GoTo(r, "route")
    /\ UNCHANGED <<db, answer, audited, faults>>

\* The second hop.
RouteTicket(r) ==
    /\ pc[r] = "route"
    /\ LET rows   == work[r]
           status == NextStatus(rows.ticket, rows.attributions[Len(rows.attributions)])
       IN  /\ work' = [work EXCEPT ![r].ticket = status]
           /\ answer' = [answer EXCEPT ![r] = [attribution |-> "succeeded", ticket |-> status]]
    /\ GoTo(r, "commit")
    /\ UNCHANGED <<db, audited, faults>>

Commit(r) ==
    /\ pc[r] = "commit"
    /\ db' = [db EXCEPT ![Target[r]] = work[r]]
    /\ GoTo(r, "audit")
    /\ UNCHANGED <<work, answer, audited, faults>>

\* Mutant of RecordAudit: the event is recorded before the commit.
RecordAuditFirst(r) ==
    /\ pc[r] = "commit"
    /\ audited' = audited \cup {r}
    /\ UNCHANGED <<db, work, pc, answer, faults>>

\* The route records the audit event and returns 201.
RecordAudit(r) ==
    /\ pc[r] = "audit"
    /\ audited' = audited \cup {r}
    /\ GoTo(r, "answered")
    /\ UNCHANGED <<db, work, answer, faults>>

\* Mutant of StatementFails: what was written so far is committed.
StatementFailsCommits(r) ==
    /\ pc[r] \in Holding
    /\ Fault
    /\ db' = [db EXCEPT ![Target[r]] = work[r]]
    /\ Rollback(r)
    /\ GoTo(r, "error")
    /\ UNCHANGED <<answer, audited>>

\* A statement raises OperationalError, or the COMMIT does, before taking
\* effect or after: the transaction is over, the client gets a 500.
StatementFails(r) ==
    /\ pc[r] \in {"feedback"} \cup Holding
    /\ Fault
    /\ db' \in {db} \cup IF pc[r] = "commit"
                         THEN {[db EXCEPT ![Target[r]] = work[r]]} ELSE {}
    /\ Rollback(r)
    /\ GoTo(r, "error")
    /\ UNCHANGED <<answer, audited>>

\* The process is killed; PostgreSQL rolls its transaction back.
Killed(r) ==
    /\ pc[r] \notin Over
    /\ Fault
    /\ Rollback(r)
    /\ GoTo(r, "killed")
    /\ UNCHANGED <<db, answer, audited>>

Submit(r) ==
    \/ CreateFeedback(r) \/ CreateTicket(r) \/ CreateTicketRefused(r) \/ QueueTicket(r)
    \/ SkipAttribution(r) \/ AttributionFails(r)
    \/ \E category \in Categories : Attribute(r, category)
    \/ RouteTicket(r) \/ Commit(r) \/ RecordAudit(r)

FeedbackNext == \E r \in Submissions : Submit(r) \/ StatementFails(r) \/ Killed(r)

FeedbackSpec == FeedbackInit /\ [][FeedbackNext]_feedbackVars

\* A request thread runs until its answer, and a statement that waits for a
\* row gets it when the holder's transaction ends.
FairFeedbackSpec == FeedbackSpec /\ \A r \in Submissions : WF_feedbackVars(Submit(r))
-----------------------------------------------------------------------------
(* Properties                                                              *)

\* The rows of a pair belong together: there is no feedback without a ticket or
\* a ticket without feedback, an attributed feedback has one attribution and a
\* ticket routed by it, and any other has none and a ticket awaiting it.
Coherent(rows) ==
    \/ rows = NoRows
    \/ /\ rows.rating # "nobody"
       /\ rows.attribution \in {"pending", "failed"}
       /\ rows.ticket = "pending_attribution"
       /\ rows.attributions = <<>>
    \/ /\ rows.rating # "nobody"
       /\ rows.attribution = "succeeded"
       /\ Len(rows.attributions) = 1
       /\ rows.ticket = IF rows.attributions[1] \in AutoClose THEN "closed" ELSE "pending"

\* Whatever failed in the middle of however many submissions, no partial state is
\* stored (comment "F3" in service.py: the service owns the transaction).
StoredRowsCoherent == \A p \in Pairs : Coherent(db[p])

\* The audit trail shows committed submissions only, and each of them still
\* stands, its ticket as the client was told.
AuditedStands ==
    \A r \in audited : /\ db[Target[r]].rating = r
                       /\ db[Target[r]].ticket = answer[r].ticket

\* When nothing failed, what is stored was brought by a submission that
\* succeeds: one that ends in an error leaves nothing behind.
ErrorLeavesNothing ==
    faults = 0 =>
        \A r \in Submissions : pc[r] = "error" => db[Target[r]].rating # r

\* A ticket moves along LegalTransitions only, in the transaction and in the
\* table, also when a pair is submitted again.
LegalMove(before, after) ==
    \/ before = after
    \/ before = "none" /\ after \in {"collected", "pending_attribution"}
    \/ <<before, after>> \in LegalTransitions
TicketMovesLegally ==
    [][/\ \A r \in Submissions :
             \/ work'[r] = NoRows
             \/ pc[r] = "feedback"
             \/ LegalMove(work[r].ticket, work'[r].ticket)
       /\ \A p \in Pairs :
             \/ db[p].ticket = "none"
             \/ LegalMove(db[p].ticket, db'[p].ticket)]_feedbackVars

\* Every submission comes to an end, although those of a pair wait for each other.
EverySubmissionEnds == \A r \in Submissions : <>(pc[r] \in Over)

\* "if the same user submits feedback for the same message twice [...] the second
\* submission updates the existing row" (create_feedback): a submission meets an
\* error only if something failed.
SecondSubmissionUpdates ==
    faults = 0 => \A r \in Submissions : pc[r] # "error"

=============================================================================
