\* Timeout : mpt3ctl interval : StorCLI interval = 1 : 1 : 2, as in hba.go.
SPECIFICATION Spec
CONSTANTS
    Controller = {c0, c1}
    MPT3CTLInterval = 2
    StorCLIInterval = 4
    Timeout = 2
    MaxTime = 12
INVARIANTS ServedAgeBounded HealthyNeverExpires UndisturbedSucceeds OneDiscovery
\* The service stops at Cancel, and the model at MaxTime.
CHECK_DEADLOCK FALSE
