SPECIFICATION FairSpec
CONSTANTS
    Rtts <- MCRtts
    EstInterval = 2
    ScaledXi <- MCScaledXi
    ScaledAlpha <- MCScaledAlpha
    Beta = 14
    MaxIncrease = 24
    SegSize = 2
    InitWindow = 4
    MaxWindow = 8
INVARIANTS TypeOK RestoresOwnWindow GrowthBounded
PROPERTIES NeverRescheduled AdditiveNeverShrinks ImplementsPacing FreezeEnds
