\* Stale handles, lost flushes and power losses between any two commits.
SPECIFICATION SaverSpec
CONSTANTS
    Size = 3
    MaxBatch = 1
    Readings = {r1, r2}
    Zeroed = Zeroed
INVARIANTS
    SaverTypeOK
    RingConsistent
    ContentsWritten
PROPERTY
    IsDropOldestQueue
