SPECIFICATION Spec
CONSTANTS
    TimeoutTicks = 1
    BadAccepts = {}
    CutLines = TRUE
    MaxInbox = 1
    MaxQueue = 2
    MaxBuffer = 2
PROPERTY
    IncomingIsQueued
