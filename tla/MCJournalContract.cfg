SPECIFICATION JournalSpec
CONSTANTS
    r1 = r1
    r2 = r2
    SessionIds = {s1, s2}
    Watched = s1
    Devices = {d1}
    RequestIds = {r1, r2}
    Executions = {run, sudo}
    Refused = {sudo}
    Tokens = {t1, short}
    ShortTokens = {short}
    ExitCodes = {0}
    None = None
    LeaseSeconds = 0
    Monotone = FALSE
    MaxClock = 1
    MaxBoots = 2
SYMMETRY MCSymmetry
INVARIANTS
    TypeOK
    WorkIsSerial
    ControlExcludesWork
    RequestNamesOneTask
    RowsAgree
    ControlHasOwner
PROPERTIES
    ClaimsAndExitsAreFinal
    ImplementsContract
