SPECIFICATION Spec
CONSTANTS
    Dates = {1, 2}
    FlushCount = 3
    MaxRows = 4
INVARIANTS
    GraphCanBeViewed
