-------------------------- MODULE AttributionRules --------------------------
(***************************************************************************)
(* The rules that say why an answer was disliked: AutoAttributor.attribute *)
(* (feedback/attributor.py) and the checks it calls (scope.py, cutoff.py,  *)
(* conflict.py).  They are pure: the state is one disliked answer.         *)
(*                                                                         *)
(* Texts are kept as the facts the checks look for.  A query has a length, *)
(* a script, the topics it mentions; an answer is absent, blank or a text  *)
(* with a certain ending; a chunk says things of the form noun, unit,      *)
(* number ("annual leave: 15 days"; the noun is "" when a space precedes   *)
(* the number), carries years and markers of staleness, and may continue   *)
(* the answer's last words.  Scores are in tenths.                         *)
(***************************************************************************)
EXTENDS Integers, SequencesExt

CONSTANTS
    Queries,    \* [length, cjk, spaced, vague, topics] records
    Answers,    \* [kind, ellipsis, dangling] records
    Chunks,     \* [says, stale, years, continues] records
    Retrievals, \* lists of chunks
    Scores,     \* raw scores: tenths, Missing or Unreadable
    KbTopics,   \* kb_topics, normalised; "" for a blank one
    ThisYear,   \* reference_year
    MaxYearAge  \* max_year_age

None == -1        \* a score nobody computed
Unreadable == -2  \* a boolean, or a text that is no number

ASSUME RulesAssumption ==
    /\ Retrievals \subseteq Seq(Chunks)
    /\ \A c \in Chunks : c.years \in Seq(Nat)
    /\ Scores \subseteq Nat \cup {None, Unreadable}
    /\ ThisYear \in Nat /\ MaxYearAge \in Nat

VARIABLE dislike  \* the answer and what is known of it

\* DEFAULT_CATEGORIES
DefaultCategories == {"retrieval", "chunking", "generation", "knowledge", "user_query"}

---------------------------------------------------------------------------
(* The checks.                                                             *)

\* is_ambiguous, on the stripped query
Ambiguous(q) ==
    \/ q.length < 4
    \/ ~q.cjk /\ ~q.spaced /\ q.length <= 8
    \/ q.vague

\* is_out_of_scope: without topics nothing is; a blank topic matches nothing.
OutOfScope(q) ==
    KbTopics # {} /\ (q.length = 0 \/ q.topics \cap (KbTopics \ {""}) = {})

\* has_boundary_cutoff: the answer ends like one that was cut, or a chunk goes
\* on where it stops.  A blank answer has no last letter to look at.
Cutoff(a, chunks) ==
    CASE a.kind = "absent" -> "no"
      [] a.kind = "blank" -> "raises"
      [] a.kind = "text" /\ (a.ellipsis \/ a.dangling \/ \E c \in Range(chunks) : c.continues) -> "yes"
      [] OTHER -> "no"

\* has_document_conflict: one noun and unit, two numbers
Conflict(chunks) ==
    /\ Len(chunks) >= 2
    /\ \E m, n \in UNION {c.says : c \in Range(chunks)} :
           m.noun = n.noun /\ m.unit = n.unit /\ m.number # n.number

Plausible(y) == 1990 <= y /\ y <= ThisYear

\* The oldest plausible year there is, after the first n of a chunk's years ...
Older(years, from) ==
    LET oldest[n \in 0 .. Len(years)] ==
            IF n = 0 THEN from
            ELSE IF Plausible(years[n]) /\ years[n] < oldest[n - 1] THEN years[n]
            ELSE oldest[n - 1]
    IN  oldest

\* ... and after the first n chunks.
Oldest(chunks) ==
    LET oldest[n \in 0 .. Len(chunks)] ==
            IF n = 0 THEN ThisYear
            ELSE Older(chunks[n].years, oldest[n - 1])[Len(chunks[n].years)]
    IN  oldest

\* is_document_expired: a marker of staleness, or the oldest plausible year
\* too long ago
Expired(chunks) ==
    \/ \E c \in Range(chunks) : c.stale
    \/ ThisYear - Oldest(chunks)[Len(chunks)] > MaxYearAge

\* Mutant of the next definition: no score is a score of zero.
SafeFloatZero(raw) == IF raw < 0 THEN 0 ELSE raw

\* _safe_float
SafeFloat(raw) == IF raw < 0 THEN None ELSE raw

---------------------------------------------------------------------------
(* The cascade: the first rule that applies gives its category.            *)

Rule(category, name) == [category |-> category, rule |-> name]

Attributed(d) ==
    LET relevance == SafeFloat(d.relevance)
        recall == SafeFloat(d.recall)
        faithfulness == SafeFloat(d.faithfulness)
        cutoff == Cutoff(d.answer, d.chunks)
        rules == <<
            <<Ambiguous(d.query), Rule("user_query", "ambiguous")>>,
            <<OutOfScope(d.query), Rule("user_query", "out_of_scope")>>,
            <<(relevance # None /\ relevance < 5) \/ recall = 0, Rule("retrieval", "scores")>>,
            <<cutoff = "raises", Rule("error", "error")>>,
            <<cutoff = "yes", Rule("chunking", "cutoff")>>,
            <<faithfulness # None /\ faithfulness < 6 /\ relevance > 7, Rule("generation", "scores")>>,
            <<Conflict(d.chunks), Rule("knowledge", "conflict")>>,
            <<Expired(d.chunks), Rule("knowledge", "expired")>>,
            <<TRUE, Rule("generation", "default")>> >>
    IN  rules[Min({i \in DOMAIN rules : rules[i][1]})][2]

RulesInit ==
    \E q \in Queries, a \in Answers, c \in Retrievals, s1, s2, s3 \in Scores :
        dislike = [query |-> q, answer |-> a, chunks |-> c,
                   relevance |-> s1, recall |-> s2, faithfulness |-> s3]

---------------------------------------------------------------------------
(* Properties.                                                             *)

\* Something in the question or in the computed scores explains the dislike.
Explained(d) ==
    \/ Ambiguous(d.query) \/ OutOfScope(d.query)
    \/ d.relevance \in 0 .. 4 \/ d.recall = 0

\* Every disliked answer gets one of the five categories, but for a blank one that is not
\* explained before the ending of the answer is looked at: that check takes the last letter
\* of a blank text and raises (cutoff.py), whatever the rules after it would have found.
VerdictIsKnown ==
    IF dislike.answer.kind = "blank" /\ ~Explained(dislike)
    THEN Attributed(dislike).category = "error"
    ELSE Attributed(dislike).category \in DefaultCategories

\* The scores with one beyond reproach in place of each that is missing or unreadable.
FilledIn(d) ==
    LET known(raw, good) == IF raw \in Nat THEN raw ELSE good
    IN  [d EXCEPT !.relevance = known(d.relevance, 6), !.recall = known(d.recall, 10),
                  !.faithfulness = known(d.faithfulness, 10)]

\* A score that is missing or unreadable accuses nobody, alone or beside others that were
\* computed: the verdict is the one that a score beyond reproach would lead to.
MissingScoresAccuseNobody == Attributed(dislike) = Attributed(FilledIn(dislike))

\* The verdict does not depend on the order in which the chunks were found.
ChunkOrderIsIrrelevant ==
    Attributed(dislike) = Attributed([dislike EXCEPT !.chunks = Reverse(dislike.chunks)])

\* A dislike gets one verdict, the same however the evidence was gathered, and never one
\* that is due to a score nobody computed.
VerdictSound == VerdictIsKnown /\ MissingScoresAccuseNobody /\ ChunkOrderIsIrrelevant
=============================================================================
