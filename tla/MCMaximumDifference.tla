------------------------ MODULE MCMaximumDifference ------------------------
EXTENDS MaximumDifference, TLC

CONSTANTS A, B, c1, c2, c3, c4, c5

Symmetric(S) == S \cup {<<f[2], f[1]>> : f \in S}

\* A triangle on A, two cells on B, two shared faces: a path of five cells that
\* is closed on A.  The fault crosses the border of the ranks and one face in A.
MeshCells == {c1, c2, c3, c4, c5}
MeshRankOf == [c \in MeshCells |-> IF c \in {c4, c5} THEN B ELSE A]
MeshFaces == Symmetric({<<c1, c2>>, <<c2, c3>>, <<c1, c3>>, <<c3, c4>>, <<c4, c5>>, <<c2, c5>>})
MeshFault == Symmetric({<<c1, c2>>, <<c3, c4>>})

=============================================================================
