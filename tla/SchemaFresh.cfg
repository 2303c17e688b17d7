SPECIFICATION FreshSpec
CONSTANTS
    Given <- SampleRows
    MaxDeletes = 1
INVARIANT EmptyDatabaseUpgrades
CHECK_DEADLOCK FALSE
