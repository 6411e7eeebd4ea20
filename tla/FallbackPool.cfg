CONSTANTS
    Disk = {"a", "b", "c", "h", "u"}
    Rotational = {"h", "u"}
    Unsafe = {"u"}
    Inventories <- ChangingInventories
    Durations <- AnyDuration
    Workers = 2
    CommandTimeout = 2
    CycleTimeout = 4
    WaitDelay = 1
SPECIFICATION FairSpec
INVARIANTS ClaimsSound DeadlinesKept
PROPERTY EveryDiskProbed
