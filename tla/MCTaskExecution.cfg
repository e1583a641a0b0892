SPECIFICATION ExecSpec
CONSTANTS
    c1 = c1
    w1 = w1
    w2 = w2
    SessionIds = {s1}
    Devices = {d1}
    RequestIds = {r1, r2}
    Executions = {run}
    Refused = {}
    Tokens = {t1, short}
    ShortTokens = {short}
    ExitCodes = {0}
    None = None
    LeaseSeconds = 0
    Monotone = FALSE
    MaxClock = 1
    MaxBoots = 2
    Submitters = {c1}
    Workers = {w1, w2}
    RemoteCodes = {0, 255}
    MaxTasks = 2
    MaxFaults = 1
SYMMETRY MCWorkerSymmetry
INVARIANTS
    DispatchedAtMostOnce
    ExecutorHoldsClaim
    ExitsAreTrue
    RemoteWorkIsSerial
    ControlMeansQuiet
    ReturnedExitsAreKept
