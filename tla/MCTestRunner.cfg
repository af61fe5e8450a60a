SPECIFICATION FairSpec
CONSTANTS
    NumJobs = 2
    Workers = {w1, w2}
    MaxRaised = 1
INVARIANTS JobsConserved SuccessIsTotal
PROPERTIES InterruptStops RunEnds
CHECK_DEADLOCK FALSE
