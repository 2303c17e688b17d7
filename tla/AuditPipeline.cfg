SPECIFICATION FairSpec
CONSTANTS
    plain = plain
    other = other
    orphan = orphan
    poison = poison
    f1 = f1
    f2 = f2
    Events = {plain, orphan, poison}
    Flushers = {f1, f2}
    BatchSize = 2
    IntegrityRows = {poison}
    DataRows = {}
    Orphans = {orphan}
    MaxFaults <- EveryFault
INVARIANTS
    NothingDroppedByPgOutage
    NoDuplicateRows
    PoisonRadius
    AnonymityRadius
PROPERTIES
    ImplementsLedger
    OrderKept
    EventuallySettled
\* Finitely many events: all of them settled, the pipeline stops.
CHECK_DEADLOCK FALSE
