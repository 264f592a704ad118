SPECIFICATION ClusterFairSpec
CONSTANTS
    i1 = i1
    i2 = i2
    k2 = k2
    i6 = i6
    Clusters <- ChainClusters
    Links <- ChainLinks
    Rate <- ChainRate
    MaxTimeStepSize <- ChainMax
    SyncTimes <- ChainSyncTimes
    StartTime = 0
    Rounded <- Exact
    RoundedCeil <- Exact
    CopyClusters <- ChainCopy
    InteriorOf <- ChainInterior
    SamplingInterval = 3
    PrintTimeInterval = 1
INVARIANTS
    TypeOK
    MessageTimesIncrease
    ResetLeavesNoMessage
    ManagerAssertions
    AllReachSyncTime
    ReceiversAreInStep
    FaultOutputsAreInStep
PROPERTIES
    EveryAdvanceReturns
    ImplementsLocalTimeStepping
    CorrectUsesMatchingData
    FrictionOncePerStep
