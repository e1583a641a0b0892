SPECIFICATION FairSpec
CONSTANTS
    Devices = {1, 2}
    Probers = {}
    None = None
    IdleSeconds = 2
    ProbeSeconds = 1
    Timed = {}
    LongTasks = FALSE
    Monotone = TRUE
    MaxClock = 0
    MaxBoots = 1
PROPERTIES
    IdleDevicesSleep
    AwakeDevicesAreProbed
