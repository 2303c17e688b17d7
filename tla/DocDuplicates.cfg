SPECIFICATION Spec
CONSTANTS
    doc = doc
    w1 = w1
    w2 = w2
    Documents = {doc}
    Workers = {w1, w2}
    Batches <- BatchesMC
    MaxRetries = 1
    MaxInAll = 3
    MaxFaults <- UncaughtOnce
INVARIANT RerunAddsNoRows
\* Finitely many uploads: all of them processed, the system is at rest.
CHECK_DEADLOCK FALSE
