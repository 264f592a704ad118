--------------------------- MODULE MCWiggleSearch ---------------------------
EXTENDS WiggleSearch

CONSTANTS c1, c2, c3, c4

Symmetric(S) == S \cup {<<f[2], f[1]>> : f \in S}

\* A path of four cells, the last face is a fault.
PathCells == {c1, c2, c3, c4}
PathFaces == Symmetric({<<c1, c2>>, <<c2, c3>>, <<c3, c4>>})
PathFault == Symmetric({<<c3, c4>>})
PathCost == [c \in PathCells |-> IF c \in {c3, c4} THEN 3 ELSE 2]

\* Several rates, with a 1 that ends the list: cluster 2 has no upper bound.  The
\* time steps cross the bounds 2, 6 and 12 for some wiggle factors only.
SeveralRates == <<2, 3, 2, 1>>

=============================================================================
