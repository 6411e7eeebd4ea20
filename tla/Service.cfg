\* Two scripts at once with a daemon that crashes; two daemons started by hand.
CONSTANTS
    Pid = {p1, p2}
    Script = {s1, s2}
    None = None
    Worlds <- MCWorlds
SPECIFICATION FairSpec
INVARIANTS OneKnownDaemon SocketOwned
PROPERTY OperationsEnd
