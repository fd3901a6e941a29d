SPECIFICATION Spec
CONSTANTS
    DeviceIds = {"d1", "d2"}
    CredentialIds = {"c1"}
    Keys = {"k1", "k2"}
    Fields <- MCFields
    Permissions <- MCPermissions
    RequestIds = {"r1", "r2"}
    Sessions = {"lan", "ble", "open"}
    Security <- MCSecurity
    Stored <- MCStored
    Enrolments <- MCEnrolments
    Validities = {5}
    MAX_VALIDITY_MS = 1
    Times = {0, 1}
    Capacity = 1
    MaxJudged = 3
    MaxSignatures = 1
INVARIANTS
    UniqueCredentials
    SpentOnce
    GrantIsTheUsersAnswer
PROPERTIES
    RevocationHolds
CHECK_DEADLOCK FALSE
