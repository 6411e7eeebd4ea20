\* The loop may be starved past SnapshotTimeout.
SPECIFICATION Spec
CONSTANTS
    Disk = {"d1"}
    PollValues = {0, 2}
    DefaultPoll = 2
    PollMargin = 0
    WakeMargin = 1
    SnapshotTimeout = 1
    MaxRefresh = 1
    MaxIdle = 2
    MaxTime = 7
INVARIANTS SourcesTrusted StatesEarned HeartbeatNotMissed SnapshotRenewed
PROPERTY AttemptsSpaced
