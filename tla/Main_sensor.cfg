SPECIFICATION MainSpec
CONSTANTS
    MaxLines = 2
    MaxPending = 2
    FullFields = {1}
    Size = 2
    AvgValues = {1, 2}
INVARIANTS
    MainTypeOK
    ConfiguredMeansPresent
    RestartKeepsConfig
    AverageExact
    OldestGoesOut
    NeverDividesByZero
    OffByOne
PROPERTIES
    WholeLineTaken
