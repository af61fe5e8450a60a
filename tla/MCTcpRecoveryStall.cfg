SPECIFICATION FairSpec
CONSTANTS
    Data = 2
    Seg = 2
    Windows = {1, 2}
    RetxThresh = 3
    DataRetries = 2
    Echoes = {FALSE}
    MaxLost = 1
    MaxEarly = 0
PROPERTY Delivered
CHECK_DEADLOCK FALSE
