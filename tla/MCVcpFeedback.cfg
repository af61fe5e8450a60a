SPECIFICATION FairSpec
CONSTANTS
    Segments = 5
    MaxFlight = 3
    MaxLost = 2
    DelAckMax = 2
    PathLoads = {0, 1, 2, 3}
INVARIANTS TypeOK InOrder NeverUnderReported
PROPERTIES OncePerWindow OverloadReachesSender
CHECK_DEADLOCK FALSE
