SPECIFICATION Spec
CONSTANTS
    a = a
    b = b
    Peers <- MCThreePeers
    Conns = {"a"}
    Attachable = {"login", "vault"}
    Purposes = {"ssh"}
    Digits = {1}
    MAX_SESSIONS_PER_DEVICE = 2
    MaxAttempts = 0
    StoredDevices <- MCPairedStore
    MaxCodes = 0
    MaxFaults = 1
PROPERTIES
    NoCrowdingOut
    ForgottenPhoneFades
CHECK_DEADLOCK FALSE
