SPECIFICATION Spec
CONSTANTS
    TimeoutTicks = 2
    BadAccepts = {"error", "reset"}
    CutLines = TRUE
    MaxInbox = 2
    MaxQueue = 1
    MaxBuffer = 1
INVARIANTS
    TypeOK
    ServesOrAccepts
    ClientIsWatched
    SilenceBounded
    StatusIsRight
    LinesInOrder
PROPERTIES
    LinesIntact
    OnlyKnownCrashes
