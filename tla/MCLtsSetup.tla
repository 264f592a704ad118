----------------------------- MODULE MCLtsSetup -----------------------------
EXTENDS LtsSetup

CONSTANTS A, B, C

\* Six cells on three ranks; the ranks number their cells in another order than
\* the mesh.  Cell 2 has neighbours on two ranks and cells 1, 2 and 3 are a
\* triangle; three cells are at the boundary.
MeshCells == 1..6
MeshRankOf == [c \in MeshCells |-> IF c <= 3 THEN A ELSE IF c <= 5 THEN B ELSE C]
MeshCellsAt ==
    [f \in {"12", "13", "23", "24", "34", "35", "45", "56", "26", "1", "4", "6"} |->
        CASE f = "12" -> {1, 2} [] f = "13" -> {1, 3} [] f = "23" -> {2, 3}
          [] f = "24" -> {2, 4} [] f = "34" -> {3, 4} [] f = "35" -> {3, 5}
          [] f = "45" -> {4, 5} [] f = "56" -> {5, 6} [] f = "26" -> {2, 6}
          [] f = "1" -> {1} [] f = "4" -> {4} [] f = "6" -> {6}]
MeshFaces == DOMAIN MeshCellsAt
MeshGlobalId == [c \in MeshCells |-> c]
MeshLocalId == [c \in MeshCells |-> 10 - c]
MeshFaultFaces == {{}, {"12"}, {"24"}, {"13", "35"}}
MeshBoundaries == {{}, {"1", "4"}}

=============================================================================
