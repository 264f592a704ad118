------------------------- MODULE MaximumDifference -------------------------
(***************************************************************************)
(* LtsWeights::enforceMaximumDifference.  The cluster ids of neighbouring   *)
(* cells may differ by one at most, and not at all across a fault.  Every   *)
(* rank lowers the ids of its cells in a parallel loop in which a thread    *)
(* may read a neighbour's id before or after it is lowered; then the ranks  *)
(* exchange the ids at their borders and lower them once more, and begin    *)
(* again until no rank has lowered any.                                    *)
(***************************************************************************)
EXTENDS Clusterings

CONSTANTS Ranks, RankOf       \* the distribution of the cells

ASSUME RanksAssumption == Ranks # {} /\ RankOf \in [Cells -> Ranks]

VARIABLES
    m_clusterIds,
    initial,       \* the ids the enforcement began with
    before,        \* the ids at the beginning of the parallel loop
    copy,          \* the ids a rank sent in this round
    phase,         \* of each rank
    todo,          \* cells the parallel loops have not finished
    reduced        \* whether a rank has lowered an id in this round

differenceVars == <<m_clusterIds, initial, before, copy, phase, todo, reduced>>

CellsOf(r) == {c \in Cells : RankOf[c] = r}

LocalNeighbors(c) == {n \in Cells : <<c, n>> \in Faces /\ RankOf[n] = RankOf[c]}

GhostNeighbors(c) == {n \in Cells : <<c, n>> \in Faces /\ RankOf[n] # RankOf[c]}

\* Mutant of Difference: regular faces are treated like fault faces.
ZeroEverywhere(c, n) == 0

\* Mutant of Difference: the difference has the wrong sign.
OneBelow(c, n) == IF <<c, n>> \in DynamicRupture THEN 0 ELSE -1

Difference(c, n) == IF <<c, n>> \in DynamicRupture THEN 0 ELSE 1

Least(S) == {v \in S : \A w \in S : v <= w}

DifferenceInit ==
    /\ m_clusterIds \in Ids
    /\ initial = m_clusterIds
    /\ before = m_clusterIds
    /\ copy = m_clusterIds
    /\ phase = [r \in Ranks |-> "local"]
    /\ todo = Cells
    /\ reduced = [r \in Ranks |-> FALSE]

\* One iteration of the parallel loop; of each neighbour the id at the begin of
\* the loop or the one it has by now is read.
EnforceLocal(c) ==
    /\ c \in todo
    /\ phase[RankOf[c]] = "local"
    /\ \E fresh \in SUBSET LocalNeighbors(c) :
       \E v \in Least({m_clusterIds[c]} \cup
                {(IF n \in fresh THEN m_clusterIds[n] ELSE before[n]) + Difference(c, n) :
                     n \in LocalNeighbors(c)}) :
           /\ m_clusterIds' = [m_clusterIds EXCEPT ![c] = v]
           /\ reduced' = [reduced EXCEPT ![RankOf[c]] = @ \/ v < m_clusterIds[c]]
    /\ todo' = todo \ {c}
    /\ UNCHANGED <<initial, before, copy, phase>>

Send(r) ==
    /\ phase[r] = "local"
    /\ CellsOf(r) \cap todo = {}
    /\ copy' = [c \in Cells |-> IF RankOf[c] = r THEN m_clusterIds[c] ELSE copy[c]]
    /\ phase' = [phase EXCEPT ![r] = "exchange"]
    /\ UNCHANGED <<m_clusterIds, initial, before, todo, reduced>>

\* After Waitall: the loop over the boundary cells reads only what was received.
EnforceGhost(r) ==
    /\ phase[r] = "exchange"
    /\ \A c \in CellsOf(r) : \A n \in GhostNeighbors(c) : phase[RankOf[n]] # "local"
    /\ \E new \in [CellsOf(r) -> 0..MaxClusterId] :
           /\ \A c \in CellsOf(r) :
                  new[c] \in Least({m_clusterIds[c]} \cup
                                {copy[n] + Difference(c, n) : n \in GhostNeighbors(c)})
           /\ m_clusterIds' = [c \in Cells |-> IF RankOf[c] = r THEN new[c] ELSE m_clusterIds[c]]
           /\ reduced' = [reduced EXCEPT ![r] = @ \/ \E c \in CellsOf(r) : new[c] < m_clusterIds[c]]
    /\ phase' = [phase EXCEPT ![r] = "reduce"]
    /\ UNCHANGED <<initial, before, copy, todo>>

\* Mutant of GlobalReductions: the ranks stop when one of them has finished.
EveryRankReduced == \A r \in Ranks : reduced[r]

GlobalReductions == \E r \in Ranks : reduced[r]

\* Mutant of NoReductions: the counter is not set to 0 in each round.
ReductionsSoFar == reduced

NoReductions == [r \in Ranks |-> FALSE]

Allreduce ==
    /\ \A r \in Ranks : phase[r] = "reduce"
    /\ phase' = [r \in Ranks |-> IF GlobalReductions THEN "local" ELSE "done"]
    /\ todo' = IF GlobalReductions THEN Cells ELSE {}
    /\ before' = m_clusterIds
    /\ reduced' = NoReductions
    /\ UNCHANGED <<m_clusterIds, initial, copy>>

Returned == (\A r \in Ranks : phase[r] = "done") /\ UNCHANGED differenceVars

DifferenceNext ==
    \/ \E c \in Cells : EnforceLocal(c)
    \/ \E r \in Ranks : Send(r) \/ EnforceGhost(r)
    \/ Allreduce
    \/ Returned

DifferenceSpec == DifferenceInit /\ [][DifferenceNext]_differenceVars

DifferenceFairSpec == DifferenceSpec /\ WF_differenceVars(DifferenceNext)

----------------------------------------------------------------------------

\* Types of the ids and of the loops of the ranks.
DifferenceTypeOK ==
    /\ m_clusterIds \in Ids /\ initial \in Ids /\ before \in Ids /\ copy \in Ids
    /\ phase \in [Ranks -> {"local", "exchange", "reduce", "done"}]
    /\ todo \subseteq Cells
    /\ reduced \in [Ranks -> BOOLEAN]

\* No cell loses more than it must: every admissible clustering below the
\* initial one stays below (LtsWeights.cpp:579-581 and 643-645), whatever the
\* threads and ranks have read of each other.
NothingLoweredTooFar ==
    /\ \A ids \in AdmissibleIds : Below(ids, initial) => Below(ids, m_clusterIds)
    /\ Below(m_clusterIds, initial)

\* When enforceMaximumDifference returns, on all ranks at once, the ids are
\* admissible (LtsWeights.cpp:489-499); with the property above they are the
\* greatest such ids, so that they do not depend on threads or ranks.
ReturnsAdmissible == (\E r \in Ranks : phase[r] = "done") => Admissible(m_clusterIds)

\* The rounds come to an end (LtsWeights.cpp:499).
EnforcementEnds == <>(\A r \in Ranks : phase[r] = "done")

=============================================================================
