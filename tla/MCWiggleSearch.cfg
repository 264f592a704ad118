SPECIFICATION WiggleSpec
CONSTANTS
    c1 = c1
    c2 = c2
    c3 = c3
    c4 = c4
    Cells <- PathCells
    Faces <- PathFaces
    DynamicRupture <- PathFault
    MaxClusterId = 2
    Rates <- SeveralRates
    One = 8
    MinWiggles = {5, 8}
    Stepsize = 2
    TimeSteps = {8, 15, 88}
    CellCost <- PathCost
    MaxNumbersOfClusters = {2, 3}
    Allowed = 20
INVARIANTS
    CacheIsExact
    ClusteringIsValid
    BestWiggleFactor
    EveryIdHasAConstraint
