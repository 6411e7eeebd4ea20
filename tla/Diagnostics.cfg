\* The collector may be starved past its timeout, the daemon killed and started again.
SPECIFICATION DiagSpec
CONSTANTS
    Disk = {"d1"}
    PollValues = {1}
    DefaultPoll = 1
    PollMargin = 0
    DiskTimeout = 1
    PageMaxAge = 1
    MaxRefresh = 1
    MaxBuild = 1
    MaxReports = 1
    MaxRestarts = 1
    MaxTime = 4
INVARIANTS ShownIsFresh ShownIsOurs
