SPECIFICATION FairSpec
CONSTANTS
    Data = 6
    Seg = 2
    Windows = {2, 12}
    RetxThresh = 3
    DataRetries = 2
    Echoes = {FALSE, TRUE}
    MaxLost = 2
    MaxEarly = 1
INVARIANTS TypeOK Scoreboard DupAcksCounted RecoveryEnds NeverDiscardsUnreceived TimerRuns WindowDefined
PROPERTIES OneRecoveryPerWindow FlightWithinWindow Delivered
CHECK_DEADLOCK FALSE
