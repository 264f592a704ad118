SPECIFICATION ClusterSpec
CONSTANTS
    i1 = i1
    i2 = i2
    k2 = k2
    i6 = i6
    Clusters <- PairClusters
    Links <- PairLinks
    Rate <- PairRate
    MaxTimeStepSize <- PairMax
    SyncTimes <- PairSyncTimes
    StartTime = 0
    Rounded <- Exact
    RoundedCeil <- Exact
    CopyClusters <- PairCopy
    InteriorOf <- PairInterior
    SamplingInterval = 3
    PrintTimeInterval = 2
INVARIANTS
    EveryIntervalIsRecorded
