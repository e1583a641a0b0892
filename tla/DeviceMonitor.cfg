SPECIFICATION Spec
CONSTANTS
    Devices = {1}
    Probers = {p1}
    None = None
    IdleSeconds = 2
    ProbeSeconds = 1
    Timed = {1}
    LongTasks = TRUE
    Monotone = FALSE
    MaxClock = 2
    MaxBoots = 2
INVARIANTS
    TypeOK
    MonitoredWasReached
PROPERTIES
    ObservationsAreOrdered
    SleepFollowsIdleness
