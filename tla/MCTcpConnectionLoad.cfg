SPECIFICATION Spec
CONSTANTS
    Data = 1
    SynRetries = 2
    DataRetries = 1
    PathLoads <- LowLoad
    MaxLost = 0
    MaxEarly = 0
INVARIANTS PeacefulClose
CHECK_DEADLOCK FALSE
