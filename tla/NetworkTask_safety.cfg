SPECIFICATION Spec
CONSTANTS
    Size = 2
    MaxBatch = 1
    Readings = {r1, r2, r3}
    Alike = {}
    Zeroed = Zeroed
    MaxInFlight = 1
    QueueSize = 1
INVARIANTS
    TypeOK
    HeldOnce
PROPERTY
    OnlyKnownLosses
SYMMETRY Symmetry
