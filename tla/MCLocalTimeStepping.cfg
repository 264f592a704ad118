SPECIFICATION LTSFairSpec
CONSTANTS
    i1 = i1
    i2 = i2
    k2 = k2
    i4 = i4
    i8 = i8
    Clusters <- ChainClusters
    Links <- ChainLinks
    Rate <- ChainRate
    StepCounts <- ChainStepCounts
INVARIANTS
    CorrectedWhatWasPredicted
    NoPredictionOverwritten
PROPERTIES
    EveryPhaseEnds
CHECK_DEADLOCK FALSE
