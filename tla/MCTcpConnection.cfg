SPECIFICATION Spec
CONSTANTS
    Data = 2
    SynRetries = 2
    DataRetries = 1
    PathLoads <- TwoLoads
    MaxLost = 1
    MaxEarly = 1
INVARIANTS EofAfterData AcksOnlySent FinWait2Acked
CHECK_DEADLOCK FALSE
