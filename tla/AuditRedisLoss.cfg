SPECIFICATION FairSpec
CONSTANTS
    plain = plain
    other = other
    orphan = orphan
    poison = poison
    f1 = f1
    f2 = f2
    Events = {plain, other}
    Flushers = {f1}
    BatchSize = 2
    IntegrityRows = {}
    DataRows = {}
    Orphans = {}
    MaxFaults <- RedisErrors
PROPERTY TransientErrorsRequeue
CHECK_DEADLOCK FALSE
