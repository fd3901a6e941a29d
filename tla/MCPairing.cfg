SPECIFICATION Spec
CONSTANTS
    Peers <- MCClaimants
    Conns = {a, b}
    Attachable = {}
    Purposes = {"ssh"}
    Digits = {1}
    MAX_SESSIONS_PER_DEVICE = 1
    MaxAttempts = 2
    StoredDevices <- MCNothingStored
    MaxCodes = 2
    MaxFaults = 1
    a = a
    b = b
SYMMETRY ConnSymmetry
INVARIANTS
    OnlyConfirmedPhonesPark
    OnlyWhatWasConfirmed
    AnsweredIsDurable
CHECK_DEADLOCK FALSE
