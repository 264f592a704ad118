SPECIFICATION LtsSpec
CONSTANTS
    A = A
    B = B
    C = C
    Ranks = {A, B, C}
    Cells <- MeshCells
    RankOf <- MeshRankOf
    Faces <- MeshFaces
    CellsAt <- MeshCellsAt
    GlobalId <- MeshGlobalId
    LocalId <- MeshLocalId
    Clusters = {0, 1, 2}
    FaultFaces <- MeshFaultFaces
    Boundaries <- MeshBoundaries
INVARIANTS
    HaloRegionsMatch
    TransfersMatch
    EveryPointerIsSet
    FacesReadWhatTheyNeed
