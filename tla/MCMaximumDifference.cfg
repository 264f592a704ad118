SPECIFICATION DifferenceFairSpec
CONSTANTS
    A = A
    B = B
    c1 = c1
    c2 = c2
    c3 = c3
    c4 = c4
    c5 = c5
    Ranks = {A, B}
    Cells <- MeshCells
    RankOf <- MeshRankOf
    Faces <- MeshFaces
    DynamicRupture <- MeshFault
    MaxClusterId = 2
INVARIANTS
    DifferenceTypeOK
    NothingLoweredTooFar
    ReturnsAdmissible
PROPERTIES
    EnforcementEnds
