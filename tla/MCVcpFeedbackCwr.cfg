SPECIFICATION Spec
CONSTANTS
    Segments = 4
    MaxFlight = 2
    MaxLost = 0
    DelAckMax = 0
    PathLoads = {1, 2, 3}
INVARIANT CwrOnlyAfterCe
CHECK_DEADLOCK FALSE
