SPECIFICATION Spec
CONSTANTS
    Devices = {1}
    Probers = {}
    None = None
    IdleSeconds = 2
    ProbeSeconds = 1
    Timed = {1}
    LongTasks = FALSE
    Monotone = TRUE
    MaxClock = 2
    MaxBoots = 1
PROPERTIES
    SleepFollowsIdleness
