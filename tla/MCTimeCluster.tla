--------------------------- MODULE MCTimeCluster ---------------------------
EXTENDS TimeCluster, TLC

CONSTANTS i1, i2, k2, i6

Symmetric(S) == S \cup {<<l[2], l[1]>> : l \in S}

\* Interior clusters of rate 1, 2 and 6 and a copy cluster of rate 2.  connect()
\* joins clusters whose ids differ by at most one, so i1 and i6 do not meet.
ChainClusters == {i1, i2, k2, i6}
ChainLinks == Symmetric({<<i1, i2>>, <<i1, k2>>, <<i2, k2>>, <<i2, i6>>, <<k2, i6>>})
ChainRate == (i1 :> 1) @@ (i2 :> 2) @@ (k2 :> 2) @@ (i6 :> 6)
ChainCopy == {k2}
ChainInterior == (i1 :> i1) @@ (i2 :> i2) @@ (k2 :> i2) @@ (i6 :> i6)

\* A unit step is 2 ticks: the first phase ends within a step of every rate,
\* the second within a step of rate 2 and 6.
ChainMax == (i1 :> 2) @@ (i2 :> 4) @@ (k2 :> 4) @@ (i6 :> 12)
ChainSyncTimes == <<15, 21>>

\* The clusters of rate 2 alone.
PairClusters == {i2, k2}
PairLinks == Symmetric({<<i2, k2>>})
PairRate == (i2 :> 2) @@ (k2 :> 2)
PairMax == (i2 :> 4) @@ (k2 :> 4)
PairCopy == {k2}
PairInterior == (i2 :> i2) @@ (k2 :> i2)
PairSyncTimes == <<24>>

Exact == <<>>

=============================================================================
