SPECIFICATION Spec
CONSTANTS
    ChunkSize = 2
    KeyLength = 2
    RecoveryKeys <- MCRecoveryKeys
    Names = {"taxes", "notes"}
    CodeFiles = {"taxes", "notes"}
    Batches <- MCBatches
    Recoveries = {"notes"}
    Edited = {"taxes", "notes"}
    Directories <- MCDirectories
    MaxCalls = 2
    MaxSaves = 1
    MaxFaults = 1
INVARIANTS
    NothingLost
    RecoversWithoutPhone
    NeverADifferentFile
    BatchTellsTheTruth
CHECK_DEADLOCK FALSE
