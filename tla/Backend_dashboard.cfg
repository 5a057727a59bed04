SPECIFICATION BackendSpec
CONSTANTS
    Dates = {1, 2}
    FlushCount = 2
    MaxRows = 3
    Stamps = {10, 20}
    Ppms = {450, 2001}
    DayLength = 10
    MaxValues = 2
    MaxPieces = 2
INVARIANTS
    BackendTypeOK
    FewAtRisk
    SplicesRejected
    CurrentIsAverage
PROPERTIES
    LoadShowsAll
