SPECIFICATION CopySpec
CONSTANTS
    Copies = {"a", "b"}
    Platforms = {"windows", "unix"}
    Attempts = 2
    MaxUserCopies = 1
    MaxBusy = 2
    Size <- MCSize
    Retain = 2
    TrimThreshold = 4
    MaxDiskFull = 1
INVARIANTS
    NewestSurvives
PROPERTIES
    DestroysOnlyWhatRaced
    SecretLeaves
CHECK_DEADLOCK FALSE
