SPECIFICATION ConfigSpec
CONSTANTS
    MaxLines = 1
    MaxPending = 1
    FullFields = {1, 2, 3}
INVARIANTS
    ConfigurationSurvives
