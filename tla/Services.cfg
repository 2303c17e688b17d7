SPECIFICATION ServicesSpec
CONSTANTS
    MaxIterations = 5
    PlanLimit = 4
    pair = pair
    otherPair = otherPair
    first = first
    second = second
    third = third
    Pairs = {pair, otherPair}
    Submissions = {first, second, third}
    Target <- TargetMC
    Categories = {"user_query", "generation"}
    AutoClose = {"user_query"}
    MaxFaults = 2
    Given <- SampleRows
    MaxDeletes = 1
    Workers = {p1, p2}
    Words <- SampleWords
    DefaultWords <- SampleDefaults
    Texts <- SampleTexts
    MaxEdits = 2
    Writers = {r1, r2}
    MaxTurns = 2
    TurnsWritten = 4
    Sizes = {1, 3}
    Budgets = {1, 2, 3, 6, 7}
    Separator = 2
    Metrics = 2
    Spaces = 1
    ColdStart = 2
    ScanLimit = 2
    Samples <- SampleLists
    Queries <- SampleQueries
    Answers <- SampleAnswers
    Chunks <- SampleChunks
    Retrievals <- SampleRetrievals
    Scores <- SampleScores
    KbTopics = {"hr", ""}
    ThisYear = 2026
    MaxYearAge = 2
    Points <- SamplePoints
    StoredIds = {"P1", "c1", "c3", "P2"}
    UserFilters <- SampleFilters
    Questions <- SampleQuestions
    ParentTopK = 1
    ChildTopK = 2
    DirectTopK = 1
    Confidences = {0, 6, 7, 10}
    AgentRounds = 2
    Papers <- SamplePapers
    WindowLines = 2
    LongLine = 3
    ChildMax = 3
    ParentMax = 4
    BatchSize = 2
INVARIANTS
    ServicesTypeOK
    RetrievalsBounded
    NothingSearchedTwice
    CompleteUnlessStopped
    StoredRowsCoherent
    AuditedStands
    ErrorLeavesNothing
    SchemaSound
    ListsSound
    ScanSound
    MemorySound
    PassAccounted
    AlertSound
    VerdictSound
    EvidenceIsPermitted
    TextSound
PROPERTIES
    AuditRowsStand
    TicketMovesLegally
    RequestsEnd
\* A turn that is over, the last submission, an answered question and a finished pass take no more steps.
CHECK_DEADLOCK FALSE
