SPECIFICATION GhostFairSpec
CONSTANTS
    A = A
    B = B
    a1 = a1
    b2 = b2
    a1b2 = a1b2
    b2a1 = b2a1
    Ranks <- TwoRanks
    Ghosts <- PairGhosts
    Clusters <- PairClusters
    RankOf <- PairRankOf
    Rate <- PairRate
    MaxTimeStepSize <- PairMax
    Links <- PairLinks
    Regions <- PairRegions
    SyncTimes <- PairSyncTimes
    StartTime = 0
    Threaded = TRUE
    Rounded <- Exact
    RoundedCeil <- Exact
INVARIANTS
    RequestsDoNotOverlap
    NoHangingRequest
PROPERTIES
    CorrectUsesReceivedData
    NoSendOverwritten
    EveryRankReturns
    RanksImplementLocalTimeStepping
