SPECIFICATION FairMcpSpec
CONSTANTS
    SessionIds = {s1}
    Devices = {d1}
    RequestIds = {r1, r2}
    Executions <- MCExecutions
    Refused <- MCRefused
    Tokens = {t1, t2}
    ShortTokens = {}
    ExitCodes = {0}
    None = None
    LeaseSeconds = 0
    Monotone = TRUE
    MaxClock = 2
    MaxBoots = 1
INVARIANTS
    FreshHolderIsAlone
    ToldTasksAreKept
PROPERTIES
    ControlIsNotStolen
    LeaseIsTheHolders
    AbandonedControlEnds
    WorkIsSanctioned
