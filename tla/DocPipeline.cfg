SPECIFICATION FairSpec
CONSTANTS
    doc = doc
    w1 = w1
    w2 = w2
    Documents = {doc}
    Workers = {w1, w2}
    Batches <- BatchesMC
    MaxRetries = 1
    MaxFaults <- EveryFault
    MaxInAll = 3
INVARIANTS
    StoresAgree
    HandledFailureSurfaces
    DuplicatesPaidFor
PROPERTY EventuallySurfaces
\* Finitely many uploads: all of them processed, the system is at rest.
CHECK_DEADLOCK FALSE
