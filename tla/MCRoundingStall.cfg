SPECIFICATION FairSpec
CONSTANTS
    c1 = c1
    c2 = c2
    Digits = 5
    UnitStep = 17
    Sync1 = 104
    Sync2 = 208
    Clusters <- TwoClusters
    Links <- TwoLinks
    Rate <- TwoRate
    MaxTimeStepSize <- TwoMax
    SyncTimes <- TwoSyncTimes
    StartTime = 0
    Rounded <- SmallRounded
    RoundedCeil <- SmallRoundedCeil
PROPERTY
    EveryAdvanceReturns
