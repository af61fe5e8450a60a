SPECIFICATION FairSpec
CONSTANTS
    Sizes = {1, 3}
    Header = 1
    Mtu = 4
    DevMax = 7
    Limit = 3
    Quota = 2
    UintMax = 7
    Total = 9
INVARIANT WakeUpPending
PROPERTY ImplementsFifo
CHECK_DEADLOCK FALSE
