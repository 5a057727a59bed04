SPECIFICATION LiveSpec
CONSTANTS
    TimeoutTicks = 1
    BadAccepts = {}
    CutLines = FALSE
    MaxInbox = 1
    MaxQueue = 1
    MaxBuffer = 2
PROPERTIES
    SilentClientGoes
    ReconnectIsServed
    StopEnds
