----------------------------- MODULE ServicesMC -----------------------------
(***************************************************************************)
(* Nine components that share no state, in one run: each has the run to   *)
(* itself in its own world, and rests in the others.                       *)
(***************************************************************************)
EXTENDS AgentLoop, FeedbackMC, SchemaMC, SensitiveWords, ConversationMemory,
        DriftDetector, AttributionRules, QueryPath, DocText

VARIABLE world

---------------------------------------------------------------------------
(* Values of the constants.                                                *)

\* SensitiveWords: words that share beginnings, and every text of four letters
SampleWords == {<<"a", "b">>, <<"a", "c", "b">>, <<"b", "c">>, <<"a", "b", "c">>, <<"c">>}
SampleDefaults == {<<"a", "b">>, <<"b", "c">>}
SampleTexts == BoundedSeq({"a", "b", "c", "x"}, 4)

\* DriftDetector: ages on both sides of both bounds, and rows of another metric
SampleLists ==
    BoundedSeq([age : {1, 2, 168, 169}, value : {0, 1, 3}, own : {TRUE}]
               \cup [age : {2, 168}, value : {0}, own : {FALSE}], 3)

\* AttributionRules
Says(noun, n) == [noun |-> noun, unit |-> "days", number |-> n]
Chunk(says, stale, years, continues) ==
    [says |-> says, stale |-> stale, years |-> years, continues |-> continues]
SampleChunks ==
    {Chunk({}, FALSE, <<>>, TRUE), Chunk({}, TRUE, <<>>, FALSE),
     Chunk({Says("leave", 10)}, FALSE, <<2020>>, FALSE),
     Chunk({Says("leave", 15)}, FALSE, <<2025>>, FALSE),
     Chunk({Says("", 15)}, FALSE, <<2025, 2099>>, FALSE)}
SampleRetrievals == BoundedSeq(SampleChunks, 2)
Asked(n, cjk, spaced, topics) ==
    [length |-> n, cjk |-> cjk, spaced |-> spaced, vague |-> FALSE, topics |-> topics]
SampleQueries ==
    {Asked(0, FALSE, FALSE, {}), Asked(12, FALSE, TRUE, {"hr"}),
     Asked(6, TRUE, FALSE, {"hr"}), Asked(20, FALSE, TRUE, {"lottery"})}
SampleAnswers ==
    {[kind |-> k, ellipsis |-> FALSE, dangling |-> FALSE] : k \in {"absent", "blank", "text"}}
    \cup {[kind |-> "text", ellipsis |-> FALSE, dangling |-> TRUE]}
SampleScores == {None, Unreadable, 0, 5, 8}

\* QueryPath: a child in another workspace than its parent, and one without a
\* parent; filters of an administrator, a member, an owner and of nobody
Point(id, isParent, parent, space, owner) ==
    [id |-> id, isParent |-> isParent, parent |-> parent, space |-> space, owner |-> owner]
SamplePoints ==
    {Point("P1", TRUE, "none", "hq", "ann"), Point("c1", FALSE, "P1", "hq", "ann"),
     Point("c2", FALSE, "P1", "lab", "ann"), Point("P2", TRUE, "none", "lab", "bob"),
     Point("c3", FALSE, "P2", "lab", "bob"), Point("c4", FALSE, "none", "hq", "bob")}
Layers(spaces, owner) ==
    [must |-> {}, should |-> {[field |-> "space", values |-> spaces],
                              [field |-> "owner", values |-> {owner}]}]
SampleFilters ==
    {[must |-> {}, should |-> {}], Layers({"hq"}, "bob"), Layers({}, "ann"),
     [must |-> {[field |-> "space", values |-> {}]}, should |-> {}]}
Question(facts) ==
    [f \in {"blank", "sensitive", "pii", "injection", "offTopic", "keyword"} |-> f \in facts]
SampleQuestions ==
    {Question({}), Question({"pii", "keyword"}), Question({"blank"}),
     Question({"sensitive"}), Question({"offTopic"})}

\* DocText: files of every format, of two lines to a page
Paper(format, kinds, n, ocr) ==
    [format : {format}, lines : BoundedSeq(kinds, n), fallback : ocr]
SamplePapers ==
    Paper("md", {"title", "text", "blank"}, 4, {FALSE})
    \cup Paper("txt", {"text", "blank"}, 5, {FALSE})
    \cup Paper("pdf", {"text", "long", "blank"}, 4, {FALSE})
    \cup Paper("docx", {"title", "emptySub", "sub", "text", "long"}, 4, {FALSE})
    \cup Paper("docx", {"list", "blank", "long", "table", "title"}, 3, {FALSE})
    \cup Paper("pptx", {"title", "text", "blank"}, 3, {FALSE})
    \cup Paper("xlsx", {"text", "blank"}, 4, {FALSE})
    \cup Paper("image", {"text", "long", "table", "figure", "blank"}, 3, BOOLEAN)
    \cup Paper("image", {"caption", "unknown", "text"}, 3, {TRUE})

---------------------------------------------------------------------------
(* One world each.  A component away from its own rests in one state.      *)

all == <<turnVars, feedbackVars, schemaVars, wordVars, memoryVars, driftVars, dislike, queryVars,
         textVars>>

TurnRests ==
    /\ node = "error" /\ plan = <<>> /\ index = 0 /\ iteration = 0 /\ decision = "none"
    /\ retrieved = <<>> /\ written = 0 /\ fallback = FALSE /\ truncated = FALSE

FeedbackRests ==
    /\ db = [p \in Pairs |-> NoRows] /\ work = [r \in Submissions |-> NoRows]
    /\ pc = [r \in Submissions |-> "killed"] /\ answer = [r \in Submissions |-> NoAnswer]
    /\ audited = {} /\ faults = 0

SchemaRests == revision = 0 /\ database = Schema(0) /\ deletes = 0

WordsRest ==
    /\ active = DefaultWords /\ payload = {} /\ filter = [p \in Workers |-> DefaultWords]
    /\ edit = [p \in Workers |-> Idle] /\ edits = 0 /\ inSync = FALSE /\ unread = {}
    /\ accepted = TRUE /\ text = <<>>

MemoryRests ==
    /\ stored = <<>> /\ writer = [w \in Writers |-> <<>>] /\ arrived = 0 /\ appended = <<>>
    /\ undisturbed = TRUE
    /\ size = [t \in 1 .. TurnsWritten |-> CHOOSE n \in Sizes : TRUE]
    /\ budget = CHOOSE n \in Budgets : TRUE

DriftRests ==
    /\ phase = "start" /\ todo = {} /\ listed = TRUE /\ session = "live"
    /\ flushed = {} /\ alerts = {} /\ returned = {} /\ counter = {} /\ failed = {}
    /\ refused = {} /\ quiet = {} /\ samples = <<>> /\ scan = {} /\ metric = "recall"

RulesRest ==
    dislike = [query |-> Asked(12, FALSE, TRUE, {"hr"}), chunks |-> <<>>,
               answer |-> [kind |-> "text", ellipsis |-> FALSE, dangling |-> FALSE],
               relevance |-> None, recall |-> None, faithfulness |-> None]

QuestionRests ==
    /\ stage = "guardrail" /\ query = Question({}) /\ scope = Layers({}, "ann")
    /\ route = "none" /\ rounds = 0 /\ lowScore = FALSE
    /\ parents = {} /\ evidence = {} /\ cited = {} /\ saved = {}

FileRests ==
    /\ paper = [format |-> "txt", lines |-> <<>>, fallback |-> FALSE]
    /\ parsing = "failed" /\ pagesRead = 0
    /\ sections = <<>> /\ chapters = <<>> /\ children = <<>> /\ vectors = <<>>

ServicesInit ==
    /\ world \in {"turn", "feedback", "schema", "words", "memory", "drift", "rules",
                  "question", "file"}
    /\ IF world = "turn" THEN TurnInit ELSE TurnRests
    /\ IF world = "feedback" THEN FeedbackInit ELSE FeedbackRests
    /\ IF world = "schema" THEN SchemaInit ELSE SchemaRests
    /\ IF world = "words" THEN WordsInit ELSE WordsRest
    /\ IF world = "memory" THEN MemoryInit ELSE MemoryRests
    /\ IF world = "drift" THEN DriftInit ELSE DriftRests
    /\ IF world = "rules" THEN RulesInit ELSE RulesRest
    /\ IF world = "question" THEN QueryInit ELSE QuestionRests
    /\ IF world = "file" THEN TextInit ELSE FileRests

TurnStep ==
    /\ world = "turn"
    /\ TurnNext
    /\ UNCHANGED <<feedbackVars, schemaVars, wordVars, memoryVars, driftVars, dislike, queryVars, textVars>>

FeedbackRest ==
    <<turnVars, schemaVars, wordVars, memoryVars, driftVars, dislike, queryVars, textVars>>

FeedbackStep ==
    /\ world = "feedback"
    /\ FeedbackNext
    /\ UNCHANGED FeedbackRest

SubmissionSteps(r) ==
    /\ world = "feedback"
    /\ Submit(r)
    /\ UNCHANGED FeedbackRest

SchemaStep ==
    /\ world = "schema"
    /\ SchemaNext
    /\ UNCHANGED <<turnVars, feedbackVars, wordVars, memoryVars, driftVars, dislike, queryVars, textVars>>

WordsStep ==
    /\ world = "words"
    /\ WordsNext
    /\ UNCHANGED <<turnVars, feedbackVars, schemaVars, memoryVars, driftVars, dislike, queryVars, textVars>>

MemoryStep ==
    /\ world = "memory"
    /\ MemoryNext
    /\ UNCHANGED <<turnVars, feedbackVars, schemaVars, wordVars, driftVars, dislike, queryVars, textVars>>

DriftStep ==
    /\ world = "drift"
    /\ DriftNext
    /\ UNCHANGED <<turnVars, feedbackVars, schemaVars, wordVars, memoryVars, dislike, queryVars, textVars>>

QuestionStep ==
    /\ world = "question"
    /\ QueryNext
    /\ UNCHANGED <<turnVars, feedbackVars, schemaVars, wordVars, memoryVars, driftVars, dislike, textVars>>

FileStep ==
    /\ world = "file"
    /\ TextNext
    /\ UNCHANGED <<turnVars, feedbackVars, schemaVars, wordVars, memoryVars, driftVars, dislike, queryVars>>

ServicesNext ==
    /\ \/ TurnStep \/ FeedbackStep \/ SchemaStep \/ WordsStep \/ MemoryStep \/ DriftStep
       \/ QuestionStep \/ FileStep
    /\ UNCHANGED world

\* The turn of the agent and every submission are run to their end by a thread of
\* their own; nothing else promises to end.
ServicesSpec ==
    /\ ServicesInit
    /\ [][ServicesNext]_<<all, world>>
    /\ WF_turnVars(TurnStep)
    /\ \A r \in Submissions : WF_feedbackVars(SubmissionSteps(r))

---------------------------------------------------------------------------
\* The states of all nine are what their types say.
ServicesTypeOK ==
    /\ TurnTypeOK /\ FeedbackTypeOK /\ SchemaTypeOK /\ WordsTypeOK
    /\ MemoryTypeOK /\ DriftTypeOK /\ QueryTypeOK /\ TextTypeOK

\* The agent's turns and the feedback submissions, started by a request that waits for
\* them, all end.
RequestsEnd == TurnEnds /\ EverySubmissionEnds
=============================================================================
