SPECIFICATION FairSpec
CONSTANTS
    MaxSize = 2
    TimeInterval = 4
    SampleInterval = 1
    CtorTimeInterval = 4
    CtorSampleInterval = 1
    Kq = 1
    KqUnit = 2
    Capacity = 1
    Incoming = {0, 1, 2, 3}
    MaxArrivals = 3
INVARIANTS TypeOK SumIsWindow WindowIsInterval
PROPERTIES MarkIsWorst IdleRecovers StandingQueueMarked
