SPECIFICATION FairSpec
CONSTANTS
    Conns = {1, 2}
    Keys = {1, 2}
    KeyOf <- MCKeyOf
    Names <- MCNames
    FirstKey = 1
    None = None
    Idle = 1
    MaxQueue = 1
    MaxRequests = 1
    IdModulus = 2
    MaxPartial = 1
    MaxCounter = 3
PROPERTIES KeepsOrder HandsOutRecentKeys HubIsFreed
CHECK_DEADLOCK FALSE
