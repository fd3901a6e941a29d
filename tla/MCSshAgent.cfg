SPECIFICATION FairSpec
CONSTANTS
    Base = 4
    ScalarLen = 2
    Clients = {1, 2}
    Keys = {k1, k2}
    FirstKeys = {k1}
    Hosts = {h1, h2}
    Data = {d1, d2}
    TooLong = {}
    k1 = k1
    k2 = k2
    h1 = h1
    h2 = h2
    d1 = d1
    d2 = d2
    AccountOf <- MCAccountOf
    Sends <- MCSends
    RawOf <- MCRawOf
    MaxMessages <- MCMaxMessages
    MaxPairings = 1
    None = None
INVARIANTS SignedAsShown SignedWithTheKeyAsked SignatureReadsBack
PROPERTIES AnsweredInTurn
CHECK_DEADLOCK FALSE
