-------------------------- MODULE MCGhostClusters --------------------------
EXTENDS GhostClusters

CONSTANTS A, B, a1, b2, a1b2, b2a1

Symmetric(S) == S \cup {<<l[2], l[1]>> : l \in S}

Exact == <<>>

\* Two ranks with one copy cluster each, of different rates.  The ghost cluster
\* xy belongs to the copy cluster x and stands for the remote y.
TwoRanks == {A, B}
PairGhosts == {a1b2, b2a1}
PairClusters == {a1, b2} \cup PairGhosts
PairRankOf == [c \in PairClusters |-> IF c \in {a1, a1b2} THEN A ELSE B]
PairRate == [c \in PairClusters |-> IF c \in {a1, b2a1} THEN 1 ELSE 2]
PairMax == [c \in PairClusters |-> 2 * PairRate[c]]
PairLinks == Symmetric({<<a1, a1b2>>, <<b2, b2a1>>})
PairRegions == Symmetric({<<a1b2, b2a1>>})
PairSyncTimes == <<9, 11>>

=============================================================================
