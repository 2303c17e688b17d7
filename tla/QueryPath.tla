----------------------------- MODULE QueryPath -----------------------------
(***************************************************************************)
(* The way of one question through the chat service: the guardrail         *)
(* (query_guardrail/checker.py), the conversation, the route               *)
(* (router/classifier.py), the two-stage search under the caller's         *)
(* permission filter (retrieval_direct/two_stage.py), the direct answer or *)
(* the agent's, the long-context fallback, the filters on the answer and   *)
(* the stored citations (chat/chat_service.py, retrieval_direct/           *)
(* citations.py).                                                          *)
(*                                                                         *)
(* What requests share while they overlap is in ChatRequests, what the     *)
(* agent decides in AgentLoop; here the agent is a few rounds of the same  *)
(* search.  A point of the vector index is a record of its payload, as     *)
(* retrieval_direct/qdrant_init.py declares it.  (The indexer of this      *)
(* revision writes child points only, without is_parent, parent_chunk_id   *)
(* and owner_id: over its index the first stage finds no parents and the   *)
(* owner's layer nothing, a case of this model.)  A search returns its     *)
(* limit of matching points, or all of them when there are fewer, whatever *)
(* their scores.  Lists of chunks are sets: the agent's citations repeat a *)
(* chunk that two rounds found.  A query is the facts the checks look for; *)
(* the text of an answer is left out: it changes in post-processing, what  *)
(* is cited and stored with it does not.                                   *)
(***************************************************************************)
EXTENDS Integers, FiniteSets, FiniteSetsExt

CONSTANTS
    Points,         \* the index: [id, isParent, parent, space, owner] records
    StoredIds,      \* ids that have a row in chunks; the others are left-overs
    UserFilters,    \* what build_user_filter can return
    Questions,      \* [blank, sensitive, pii, injection, offTopic, keyword] records
    ParentTopK, ChildTopK, DirectTopK,
    Confidences,    \* confidences the classifier can report, in tenths
    AgentRounds     \* bound: searches of the agent

ASSUME QueryAssumption ==
    /\ IsFiniteSet(Points)
    /\ {ParentTopK, ChildTopK, DirectTopK, AgentRounds} \subseteq Nat \ {0}
    /\ Confidences \subseteq 0 .. 10

VARIABLES
    stage,      \* the step that is next, or how the request ended
    query,
    scope,      \* the caller's filter
    route,      \* "direct", "agent", "long_context"; "none" before
    rounds,     \* searches made
    parents,    \* hits of the first stage of the current search
    evidence,   \* chunks found: the hits, of every round for the agent
    lowScore,   \* fallback_triggered
    cited,      \* the citations of the response
    saved       \* rows of citations

queryVars == <<stage, query, scope, route, rounds, parents, evidence, lowScore, cited, saved>>

QueryTypeOK ==
    /\ stage \in {"guardrail", "conversation", "route", "parents", "children", "direct",
                  "agent", "longContext", "postProcess", "citations",
                  "blocked", "failed", "answered"}
    /\ query \in Questions /\ scope \in UserFilters
    /\ route \in {"none", "direct", "agent", "long_context"}
    /\ rounds \in 0 .. AgentRounds
    /\ {parents, evidence, cited, saved} \subseteq SUBSET Points
    /\ lowScore \in BOOLEAN

---------------------------------------------------------------------------
(* Filters of the vector index: every condition of must, and some condition*)
(* of should unless there is none.                                         *)

Matches(p, f) ==
    /\ \A c \in f.must : p[c.field] \in c.values
    /\ f.should = {} \/ \E c \in f.should : p[c.field] \in c.values

IsParentFilter == [must |-> {[field |-> "isParent", values |-> {TRUE}]}, should |-> {}]

ParentIdFilter(ids) == [must |-> {[field |-> "parent", values |-> ids]}, should |-> {}]

\* Mutant of the next definition: only the conditions of must are merged.
BothMust(base, extra) == [must |-> base.must \cup extra.must, should |-> {}]

\* _and: the permission layers are the base's should, and stay.
Both(base, extra) == [must |-> base.must \cup extra.must, should |-> base.should]

\* hybrid_search: up to k of the matching points
Hits(f, k) ==
    LET found == {p \in Points : Matches(p, f)}
        n == Cardinality(found)
    IN  kSubset(IF n < k THEN n ELSE k, found)

---------------------------------------------------------------------------

QueryInit ==
    /\ stage = "guardrail"
    /\ query \in Questions
    /\ scope \in UserFilters
    /\ route = "none"
    /\ rounds = 0
    /\ parents = {} /\ evidence = {} /\ cited = {} /\ saved = {}
    /\ lowScore = FALSE

Results == <<parents, evidence, lowScore, cited, saved>>

\* QueryGuardrail.check: the first class that matches decides.  A query with
\* personal data is admitted before the last two classes are looked at.
GuardrailAllows(q) ==
    \/ q.blank
    \/ ~q.sensitive /\ (q.pii \/ ~(q.injection \/ q.offTopic))

CheckQuery ==
    /\ stage = "guardrail"
    /\ stage' = IF GuardrailAllows(query) THEN "conversation" ELSE "blocked"
    /\ UNCHANGED <<query, scope, route, rounds, Results>>

\* handle: an empty query is refused; _ensure_conversation takes a new
\* conversation or one of the caller's in this workspace, and refuses others.
EnsureConversation ==
    /\ stage = "conversation"
    /\ stage' \in IF query.blank THEN {"failed"} ELSE {"route", "failed"}
    /\ UNCHANGED <<query, scope, route, rounds, Results>>

LlmVerdicts == [route : {"direct", "agent"}, confidence : Confidences, failed : {FALSE}]
               \cup {[route |-> "none", confidence |-> 0, failed |-> TRUE]}

\* ConfidenceRouter.route: the keyword classifier when the model fails, else
\* direct only if the model is sure and no keyword asks for the agent.
Decide(keyword, llm) ==
    CASE llm.failed -> IF keyword THEN "agent" ELSE "direct"
      [] ~llm.failed /\ llm.route = "direct" /\ llm.confidence >= 7 /\ ~keyword -> "direct"
      [] OTHER -> "agent"

\* _decide_route; an exception of the router, or none configured, is "agent".
ChooseRoute ==
    /\ stage = "route"
    /\ route' \in {Decide(query.keyword, v) : v \in LlmVerdicts} \cup {"agent"}
    /\ stage' = "parents"
    /\ UNCHANGED <<query, scope, rounds, Results>>

\* two_stage_search, stage 1: parents
SearchParents ==
    /\ stage = "parents"
    /\ rounds' = rounds + 1
    /\ parents' \in Hits(Both(scope, IsParentFilter), ParentTopK)
    /\ stage' = "children"
    /\ UNCHANGED <<query, scope, route, evidence, lowScore, cited, saved>>

AfterSearch == IF route = "direct" THEN "direct" ELSE "agent"

\* Stage 2: children of the parents, or of anybody when there are none.  The
\* agent keeps the parents too, and what earlier rounds found.  No parents, or
\* a best score below the threshold, sets fallback_triggered.
SearchChildren ==
    /\ stage = "children"
    /\ LET within == IF parents = {} THEN scope
                    ELSE Both(scope, ParentIdFilter({p.id : p \in parents}))
       IN  \E hits \in Hits(within, ChildTopK) :
               evidence' = IF route = "direct" THEN hits ELSE evidence \cup parents \cup hits
    /\ lowScore' \in {lowScore \/ parents = {}, TRUE}
    /\ stage' = AfterSearch
    /\ UNCHANGED <<query, scope, route, rounds, parents, cited, saved>>

\* A search of the agent that raises ends its rounds; a direct one fails the
\* request.
SearchFails ==
    /\ stage \in {"parents", "children"}
    /\ stage' = IF route = "direct" THEN "failed" ELSE "agent"
    /\ rounds' = AgentRounds
    /\ UNCHANGED <<query, scope, route, Results>>

\* _execute_direct: the best hits are cited and shown to the model.
AnswerDirectly ==
    /\ stage = "direct"
    /\ cited' \in kSubset(IF Cardinality(evidence) < DirectTopK THEN Cardinality(evidence)
                          ELSE DirectTopK, evidence)
    /\ stage' = "postProcess"
    /\ UNCHANGED <<query, scope, route, rounds, parents, evidence, lowScore, saved>>

\* AgentRunner.run: one more search, or the answer; everything found is cited.
AgentGoesOn ==
    /\ stage = "agent" /\ rounds < AgentRounds
    /\ stage' = "parents"
    /\ UNCHANGED <<query, scope, route, rounds, Results>>

AgentAnswers ==
    /\ stage = "agent"
    /\ cited' = evidence
    /\ stage' = "longContext"
    /\ UNCHANGED <<query, scope, route, rounds, parents, evidence, lowScore, saved>>

\* The synthesizer, or the runner, raises: a 500.
AnswerFails ==
    /\ stage \in {"direct", "agent"}
    /\ stage' = "failed"
    /\ UNCHANGED <<query, scope, route, rounds, Results>>

\* The fallback model answers from the cited parents instead ...
LongContext ==
    /\ stage = "longContext"
    /\ lowScore /\ \E p \in cited : p.isParent
    /\ route' = "long_context"
    /\ stage' = "postProcess"
    /\ UNCHANGED <<query, scope, rounds, parents, evidence, lowScore, cited, saved>>

\* ... or is not asked, or fails: the agent's answer stands.
KeepAgentAnswer ==
    /\ stage = "longContext"
    /\ stage' = "postProcess"
    /\ UNCHANGED <<query, scope, route, rounds, Results>>

\* filter_or_refuse and mask: the text may become a refusal, and parts of it masked, as
\* far as they find what they look for.  The citations stay, of a refused answer too.
PostProcess ==
    /\ stage = "postProcess"
    /\ stage' = "citations"
    /\ UNCHANGED <<query, scope, route, rounds, Results>>

\* record_citations: hits whose chunk has no row are skipped.
RecordCitations ==
    /\ stage = "citations"
    /\ saved' = {p \in cited : p.id \in StoredIds}
    /\ stage' = "answered"
    /\ UNCHANGED <<query, scope, route, rounds, parents, evidence, lowScore, cited>>

QueryNext ==
    \/ CheckQuery \/ EnsureConversation \/ ChooseRoute
    \/ SearchParents \/ SearchChildren \/ SearchFails
    \/ AnswerDirectly \/ AgentGoesOn \/ AgentAnswers \/ AnswerFails
    \/ LongContext \/ KeepAgentAnswer \/ PostProcess \/ RecordCitations

QuerySpec == QueryInit /\ [][QueryNext]_queryVars

---------------------------------------------------------------------------
(* Properties.                                                             *)

\* Whatever stage, fallback or round found it, and whether the rewriting of the answer
\* refused it or not: no chunk reaches the model, the response or the citations stored with
\* it that the caller's filter does not admit.
EvidenceIsPermitted ==
    \A p \in parents \cup evidence \cup cited \cup saved : Matches(p, scope)
=============================================================================
