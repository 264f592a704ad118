------------------------ MODULE MCLocalTimeStepping ------------------------
EXTENDS LocalTimeStepping, TLC

CONSTANTS i1, i2, k2, i4, i8

Symmetric(S) == S \cup {<<l[2], l[1]>> : l \in S}

\* Rates 1, 2, 4 and 8 in a chain, with a copy layer at rate 2.
ChainClusters == {i1, i2, k2, i4, i8}
ChainLinks == Symmetric({<<i1, i2>>, <<i1, k2>>, <<i2, k2>>, <<i2, i4>>, <<k2, i4>>,
                         <<i4, i8>>})
ChainRate == (i1 :> 1) @@ (i2 :> 2) @@ (k2 :> 2) @@ (i4 :> 4) @@ (i8 :> 8)

\* One phase that ends within a step of every rate but 1, one that is shorter
\* than a step of the slowest cluster, one that every rate divides.
ChainStepCounts == <<11, 5, 8>>

=============================================================================
