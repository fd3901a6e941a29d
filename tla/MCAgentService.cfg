SPECIFICATION AgentSpec
CONSTANTS
    DeviceIds = {"d1", "d2"}
    CredentialIds = {"c1"}
    Keys = {"k1", "k2"}
    Fields <- MCFields
    Permissions <- MCPermissions
    RequestIds = {"r1", "r2"}
    Sessions = {"lan", "dev", "ble"}
    Security <- MCSecurity
    Stored <- MCStored
    Enrolments <- MCEnrolments
    Validities = {1}
    MAX_VALIDITY_MS = 1
    Times = {0, 1}
    Capacity = 1
    MaxJudged = 2
    MaxSignatures = 2
    Threads = {"login", "tray", "pairing", "editor"}
    CallsOf <- MCCallsOf
    PeerOf <- MCPeerOf
INVARIANTS
    PromptsAreAccounted
PROPERTIES
    GrantStillIssuable
    EveryCallIsAnswered
    KeepsContract
CHECK_DEADLOCK FALSE
