SPECIFICATION FairSpec
CONSTANTS
    SessionIds = {s1}
    Devices = {d1}
    RequestIds = {r1}
    Executions = {run}
    Refused = {}
    Tokens = {}
    ShortTokens = {}
    ExitCodes = {0}
    None = None
    LeaseSeconds = 1
    Monotone = TRUE
    MaxClock = 3
    MaxBoots = 1
    Submitters = {c1}
    Workers = {w1, w2}
    RemoteCodes = {0, 255}
    MaxTasks = 1
    MaxFaults = 2
PROPERTIES
    EndedWorkLeavesRunning
    AcceptedWorkIsClaimed
