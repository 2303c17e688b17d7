SPECIFICATION FeedbackSpec
CONSTANTS
    pair = pair
    otherPair = otherPair
    first = first
    second = second
    third = third
    Pairs = {pair, otherPair}
    Submissions = {first, second}
    Target <- TargetMC
    Categories = {"user_query", "generation"}
    AutoClose = {"user_query"}
    MaxFaults = 0
INVARIANT SecondSubmissionUpdates
\* Finitely many submissions: all of them over, nothing is left to do.
CHECK_DEADLOCK FALSE
