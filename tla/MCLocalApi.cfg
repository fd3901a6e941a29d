SPECIFICATION ApiFairSpec
CONSTANTS
    Conns = {1, 2, 3}
    Requests = {r1, r2}
    Makes <- MCMakes
    MaxCancelled = 1
    MaxCalls <- MCMaxCalls
    MaxPolls = 1
    None = None
INVARIANT CancelNotLost
PROPERTIES ServiceIsReleased NeglectedIsReleased
CHECK_DEADLOCK FALSE
