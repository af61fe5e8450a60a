SPECIFICATION FairSpec
CONSTANTS
    Data = 1
    SynRetries = 2
    DataRetries = 1
    PathLoads <- NoLoads
    MaxLost = 1
    MaxEarly = 1
INVARIANT PeacefulClose
PROPERTIES ConnectResolves EndpointsReleased
CHECK_DEADLOCK FALSE
