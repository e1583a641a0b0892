SPECIFICATION FairSpec
CONSTANTS
    Daemons = {d1, d2}
    Clients = {c1, c2}
    None = None
    ProbeLimit = 3
    LockLimit = 1
    ReadLimit = 6
    MaxDue = 1
    MaxLocked = 2
    Backlog = 2
    MaxFaults = 1
INVARIANTS
    ServesItsOwnSocket
    PromptRequestsWaitOneRound
PROPERTIES
    StopEndsDaemon
    StartsSucceed
