SPECIFICATION Spec
CONSTANTS
    Volumes = {"root", "data"}
    Root = "root"
    Stores <- MCStores
    Shells = {1, 2}
    MaxAge = 1
    MaxCalls = 2
    MaxDay = 2
    MaxStops = 2
INVARIANTS
    BootOpens
    NoLiveKeyLeftBehind
    PhoneSlotIsThePhones
    CheckIsHonest
PROPERTIES
    BootEnds
CHECK_DEADLOCK FALSE
