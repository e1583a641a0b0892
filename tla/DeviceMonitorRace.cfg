SPECIFICATION Spec
CONSTANTS
    Devices = {1}
    Probers = {p1}
    None = None
    IdleSeconds = 1
    ProbeSeconds = 1
    Timed = {}
    LongTasks = TRUE
    Monotone = TRUE
    MaxClock = 3
    MaxBoots = 1
INVARIANTS
    DaemonKeepsMonitoring
