SPECIFICATION LiveSpec
CONSTANTS
    Size = 2
    MaxBatch = 0
    Readings = {r1}
    Alike = {r1}
    Zeroed = Zeroed
    MaxInFlight = 1
    QueueSize = 1
PROPERTIES
    SensorNeverStuck
    Reconnects
    BacklogDrains
