---------------------------- MODULE ChatRequests ----------------------------
(***************************************************************************)
(* POST /chat/query (api_gateway/chat_router.py) and ChatService.handle    *)
(* (chat/chat_service.py).  One ChatService, with one Masker, serves all   *)
(* requests of the process; the endpoint is synchronous, so requests run   *)
(* in a pool of threads and interleave between any two of their steps.     *)
(*                                                                         *)
(* A request's permission filter (build_user_filter) is represented by the *)
(* request itself, and so is the redaction summary of its answer.  Each    *)
(* request has a transaction; the rows it adds are stored by its commit.   *)
(* What the agent does in a turn is modelled in AgentLoop: here the agent, *)
(* like the direct path, reads the filter once and then produces an answer *)
(* or fails.                                                               *)
(***************************************************************************)
EXTENDS Naturals, FiniteSets

CONSTANT Requests

ASSUME ChatAssumption == IsFiniteSet(Requests) /\ "none" \notin Requests

VARIABLES
    pc,          \* where each request is
    aclFilter,   \* ChatService._acl_filter
    lastSummary, \* Masker._last_summary, "none" for an answer without redactions
    searched,    \* the filter each request's retrieval used
    reported,    \* the redactions each response reports and stores
    stored,      \* requests whose two messages are committed
    blocked,     \* requests with an audit event guardrail_block
    active,      \* gauge chat_active_sessions
    met          \* history: the requests each one was inside handle() together with

vars == <<pc, aclFilter, lastSummary, searched, reported, stored, blocked, active, met>>

Owner == Requests \cup {"none"}

\* Between inc_chat_active_sessions and the finally clause.
Inside == {"message", "stash", "search", "synthesize", "mask", "summary", "persist"}

TypeOK ==
    /\ pc \in [Requests -> Inside \cup {"guardrail", "commit", "answered", "refused",
                                      "failed", "commitFailed"}]
    /\ aclFilter \in Owner
    /\ lastSummary \in Owner
    /\ searched \in [Requests -> Owner]
    /\ reported \in [Requests -> Owner]
    /\ stored \subseteq Requests
    /\ blocked \subseteq Requests
    /\ active \in Nat
    /\ met \in [Requests -> SUBSET Requests]

Init ==
    /\ pc = [r \in Requests |-> "guardrail"]
    /\ aclFilter = "none"
    /\ lastSummary = "none"
    /\ searched = [r \in Requests |-> "none"]
    /\ reported = [r \in Requests |-> "none"]
    /\ stored = {}
    /\ blocked = {}
    /\ active = 0
    /\ met = [r \in Requests |-> {}]

-----------------------------------------------------------------------------
Goes(r, from, to) == pc[r] = from /\ pc' = [pc EXCEPT ![r] = to]

\* The guardrail refuses the query: an audit event and a 403.
Block(r) ==
    /\ Goes(r, "guardrail", "refused")
    /\ blocked' = blocked \cup {r}
    /\ UNCHANGED <<aclFilter, lastSummary, searched, reported, stored, active, met>>

Admit(r) ==
    /\ Goes(r, "guardrail", "message")
    /\ active' = active + 1
    /\ LET inside == {q \in Requests : pc[q] \in Inside}
       IN  met' = [q \in Requests |-> CASE q = r -> inside
                                        [] q \in inside -> met[q] \cup {r}
                                        [] OTHER -> met[q]]
    /\ UNCHANGED <<aclFilter, lastSummary, searched, reported, stored, blocked>>

\* The conversation and the user's message are flushed, the history is loaded
\* and the classifier chooses the path: one call of the language model.
SaveUserMessage(r) ==
    /\ Goes(r, "message", "stash")
    /\ UNCHANGED <<aclFilter, lastSummary, searched, reported, stored, blocked, active, met>>

\* Mutant of StashFilter: the filter is set once per process.
StashFilterOnce(r) ==
    /\ Goes(r, "stash", "search")
    /\ aclFilter' = IF aclFilter = "none" THEN r ELSE aclFilter
    /\ UNCHANGED <<lastSummary, searched, reported, stored, blocked, active, met>>

StashFilter(r) ==
    /\ Goes(r, "stash", "search")
    /\ aclFilter' = r
    /\ UNCHANGED <<lastSummary, searched, reported, stored, blocked, active, met>>

\* two_stage_search, or AgentRunner.run, is called with self._acl_filter.
Search(r) ==
    /\ Goes(r, "search", "synthesize")
    /\ searched' = [searched EXCEPT ![r] = aclFilter]
    /\ UNCHANGED <<aclFilter, lastSummary, reported, stored, blocked, active, met>>

\* The answer is there.  An empty one (the direct path found nothing) is not
\* masked and reports no redactions.
Synthesize(r) ==
    /\ \E next \in {"mask", "persist"} : Goes(r, "synthesize", next)
    /\ UNCHANGED <<aclFilter, lastSummary, searched, reported, stored, blocked, active, met>>

\* masker.mask(answer)
Mask(r) ==
    /\ Goes(r, "mask", "summary")
    /\ lastSummary' \in {r, "none"}
    /\ UNCHANGED <<aclFilter, searched, reported, stored, blocked, active, met>>

\* redactions = masker.last_summary
ReadSummary(r) ==
    /\ Goes(r, "summary", "persist")
    /\ reported' = [reported EXCEPT ![r] = lastSummary]
    /\ UNCHANGED <<aclFilter, lastSummary, searched, stored, blocked, active, met>>

\* Mutant of Persist: handle() commits although the route still can fail.
PersistCommits(r) ==
    /\ Goes(r, "persist", "commit")
    /\ active' = active - 1
    /\ stored' = stored \cup {r}
    /\ UNCHANGED <<aclFilter, lastSummary, searched, reported, blocked, met>>

\* The assistant's message and the citations are flushed; handle() returns and
\* the finally clause decrements the gauge.
Persist(r) ==
    /\ Goes(r, "persist", "commit")
    /\ active' = active - 1
    /\ UNCHANGED <<aclFilter, lastSummary, searched, reported, stored, blocked, met>>

\* Mutant of HandleFails: the gauge is decremented on success only.
HandleFailsLeaks(r) ==
    /\ \E from \in Inside : Goes(r, from, "failed")
    /\ UNCHANGED <<aclFilter, lastSummary, searched, reported, stored, blocked, active, met>>

\* EmptyQueryError, ChatServiceError or any other exception: 400 or 500.
HandleFails(r) ==
    /\ \E from \in Inside : Goes(r, from, "failed")
    /\ active' = active - 1
    /\ UNCHANGED <<aclFilter, lastSummary, searched, reported, stored, blocked, met>>

Commit(r) ==
    /\ Goes(r, "commit", "answered")
    /\ stored' = stored \cup {r}
    /\ UNCHANGED <<aclFilter, lastSummary, searched, reported, blocked, active, met>>

\* The COMMIT raises, before it takes effect or after.
CommitFails(r) ==
    /\ Goes(r, "commit", "commitFailed")
    /\ stored' \in {stored, stored \cup {r}}
    /\ UNCHANGED <<aclFilter, lastSummary, searched, reported, blocked, active, met>>

Next ==
    \E r \in Requests :
        \/ Block(r) \/ Admit(r) \/ SaveUserMessage(r) \/ StashFilter(r) \/ Search(r)
        \/ Synthesize(r) \/ Mask(r) \/ ReadSummary(r) \/ Persist(r) \/ HandleFails(r)
        \/ Commit(r) \/ CommitFails(r)

Spec == Init /\ [][Next]_vars
-----------------------------------------------------------------------------
(* Properties                                                              *)

\* The gauge of active sessions counts the requests inside handle(): every way out
\* decrements it once, however requests overlap.
GaugeCountsInside == active = Cardinality({r \in Requests : pc[r] \in Inside})

\* A request that runs alone is scoped to its caller and reports its own redactions:
\* what it takes from the shared objects was left there by itself or by a request
\* that was inside handle() at the same time.
ForeignOnlyWhenOverlapping ==
    \A r \in Requests :
        /\ searched[r] \in {r, "none"} \cup met[r]
        /\ reported[r] \in {r, "none"} \cup met[r]

\* An answered request has its two messages stored; one that was blocked, or failed
\* anywhere inside handle() after it flushed them, leaves none behind.
OnlyAnswersAreStored ==
    \A r \in Requests : /\ pc[r] = "answered" => r \in stored
                        /\ r \in stored => pc[r] \in {"answered", "commitFailed"}

\* "Stored on `self._acl_filter` for the request lifecycle so both the direct path
\* and the agent path scope retrieval to the caller's permitted documents"
\* (chat_service.py).
ScopedToCaller == \A r \in Requests : searched[r] \in {r, "none"}

=============================================================================
