---------------------------- MODULE WiggleSearch ----------------------------
(***************************************************************************)
(* LtsWeights::computeWeights up to the cluster ids: the search for the     *)
(* wiggle factor with the smallest cost, or with the fewest clusters whose  *)
(* cost stays in a budget.  Clusterings already computed are cached and     *)
(* help to compute others.  The enforcement of the maximum difference is    *)
(* what MaximumDifference shows of it.  Wiggle factors are integers, in     *)
(* units of 1/One; costs are compared as fractions.                         *)
(***************************************************************************)
EXTENDS Clusterings, Sequences, FiniteSetsExt

CONSTANTS
    Rates,                  \* ClusteredLTS
    One, MinWiggles, Stepsize,
    TimeSteps,              \* time steps cells may have
    CellCost,
    MaxNumbersOfClusters,   \* settings of LtsMaxNumberOfClusters
    Allowed                 \* LtsAllowedRelativePerformanceLossAutoMerge, in percent

ASSUME RatesAssumption == Rates \in Seq(Nat \ {0}) /\ Rates # <<>>

ASSUME WiggleAssumption ==
    /\ {One, Stepsize} \subseteq Nat \ {0} /\ MinWiggles \subseteq 1..One
    /\ \A w \in MinWiggles : w * Rates[1] > One \/ (Rates[1] = 1 /\ w = One)

ASSUME CellsAssumption ==
    /\ IsFiniteSet(Cells) /\ Cells # {}
    /\ TimeSteps \subseteq Nat \ {0} /\ CellCost \in [Cells -> Nat]
    /\ MaxNumbersOfClusters \subseteq Nat \ {0} /\ Allowed \in Nat

VARIABLES
    timestep,          \* of the cells
    settings,
    pc,
    merge,             \* whether this search merges clusters
    baseline,          \* the baseline cost, or NoCost
    ith,               \* wiggle factors this search has looked at
    clusteringCache, clusterIds, wiggleFactor, maxClusterId,
    lowestCost, bestWiggle,    \* by the largest cluster id
    ncon

wiggleVars == <<timestep, settings, pc, merge, baseline, ith, clusteringCache,
                clusterIds, wiggleFactor, maxClusterId, lowestCost, bestWiggle, ncon>>

----------------------------------------------------------------------------

Rate(i) == Rates[Minimum(i, Len(Rates))]

\* ClusterLayout::clusterRate and ratepow: the rate of each cluster.
ClusterRate[k \in Nat] == IF k = 0 THEN 1 ELSE ClusterRate[k - 1] * Rate(k)

\* MaxClusterId bounds the ids of all cells under all wiggle factors.
ASSUME MaxClusterIdAssumption ==
    \A least, step \in TimeSteps : \A minimum \in MinWiggles : \A wiggle \in minimum..One :
        least <= step =>
            \E k \in 0..MaxClusterId :
                wiggle * least * ClusterRate[k + 1] > One * step \/ Rate(k + 2) = 1

LeastStep == Min({timestep[c] : c \in Cells})

\* Mutant of GetCluster: the interval of the first cluster is left out.
ClusterAbove(step, wiggle) ==
    CHOOSE k \in 0..MaxClusterId :
        /\ \A j \in 0..(k - 1) : wiggle * LeastStep * ClusterRate[j] <= One * step /\ Rate(j + 2) # 1
        /\ wiggle * LeastStep * ClusterRate[k] > One * step \/ Rate(k + 2) = 1

\* The loop that raises the upper bound until it exceeds the time step, or the
\* next rate is 1.
GetCluster(step, wiggle) ==
    CHOOSE k \in 0..MaxClusterId :
        /\ \A j \in 1..k : wiggle * LeastStep * ClusterRate[j] <= One * step /\ Rate(j + 1) # 1
        /\ wiggle * LeastStep * ClusterRate[k + 1] > One * step \/ Rate(k + 2) = 1

ComputeClusterIds(wiggle) == [c \in Cells |-> GetCluster(timestep[c], wiggle)]

\* Costs are fractions <<n, d>>; the sum is scaled by the rate of the last cluster.
Cost(ids, wiggle) ==
    <<MapThenSumSet(LAMBDA c : CellCost[c] * (ClusterRate[MaxClusterId] \div ClusterRate[ids[c]]), Cells),
      wiggle>>

NotAbove(a, b) == a[1] * b[2] <= b[1] * a[2]

NoCost == <<0, 0>>

Budget(cost) == <<cost[1] * (100 + Allowed), cost[2] * 100>>

LargestId(ids) == Max({ids[c] : c \in Cells})

\* Merge while the cost is in the budget.
MaxClusterIdAfterAutoMerge(ids, budget, wiggle) ==
    LET admissible(m) == NotAbove(Cost(EnforceMaxClusterId(ids, m), wiggle), budget)
        enough == {m \in 0..LargestId(ids) : \A k \in m..LargestId(ids) : admissible(k)}
    IN IF enough = {} THEN LargestId(ids) ELSE Min(enough)

\* Mutant of Nearest: the order of the cache is the usual one.
NearestAbove(cache, wiggle) == {w \in DOMAIN cache : w >= wiggle
                                   /\ \A v \in DOMAIN cache : v >= wiggle => w <= v}

\* lower_bound in a map that is ordered by std::greater.
Nearest(cache, wiggle) == {w \in DOMAIN cache : w <= wiggle
                              /\ \A v \in DOMAIN cache : v <= wiggle => v <= w}

\* computeClusterIdsAndEnforceMaximumDifferenceCached.
Clustering(cache, wiggle) ==
    LET new == ComputeClusterIds(wiggle)
        lb == Nearest(cache, wiggle)
        begin == IF lb = {} THEN new
                 ELSE [c \in Cells |-> Minimum(cache[Max(lb)][c], new[c])]
        changes == lb = {} \/ begin # cache[Max(lb)]
    IN IF wiggle \in DOMAIN cache THEN cache[wiggle]
       ELSE IF settings.enforce /\ changes THEN GreatestBelow(begin) ELSE begin

\* std::map::insert_or_assign.
Assign(map, key, value) ==
    [k \in DOMAIN map \cup {key} |-> IF k = key THEN value ELSE map[k]]

Cached(cache, wiggle) == Assign(cache, wiggle, Clustering(cache, wiggle))

----------------------------------------------------------------------------

WiggleInit ==
    /\ timestep \in [Cells -> TimeSteps]
    /\ settings \in [enforce : BOOLEAN, autoMerge : BOOLEAN, bestBaseline : BOOLEAN,
                     minWiggle : MinWiggles, maxClusters : MaxNumbersOfClusters]
    /\ pc = "computeWeights"
    /\ merge = FALSE /\ baseline = NoCost /\ ith = 0
    /\ clusteringCache = <<>>
    /\ clusterIds = [c \in Cells |-> 0]
    /\ wiggleFactor = One
    /\ maxClusterId = settings.maxClusters - 1
    /\ lowestCost = <<>> /\ bestWiggle = <<>>
    /\ ncon = 0

WiggleFactorUsed == settings.minWiggle < One

\* The baseline is the best wiggle factor without merging, so that it is searched
\* for twice.
TwoSearches == settings.bestBaseline /\ settings.autoMerge /\ WiggleFactorUsed

ComputeWeights ==
    /\ pc = "computeWeights"
    /\ pc' = IF Rates = <<1>> \/ ~(WiggleFactorUsed \/ settings.autoMerge)
             THEN "finish" ELSE "search"
    /\ merge' = (settings.autoMerge /\ ~TwoSearches)
    /\ maxClusterId' = IF Rates = <<1>> THEN 0 ELSE maxClusterId
    /\ UNCHANGED <<timestep, settings, baseline, ith, clusteringCache, clusterIds,
                   wiggleFactor, lowestCost, bestWiggle, ncon>>

\* Without a baseline: the cost without wiggle factor and merging.
ComputeBaseline ==
    /\ pc = "search" /\ baseline = NoCost
    /\ clusteringCache' = Cached(clusteringCache, One)
    /\ clusterIds' = clusteringCache'[One]
    /\ baseline' = Cost(clusterIds', One)
    /\ UNCHANGED <<timestep, settings, pc, merge, ith, wiggleFactor, maxClusterId,
                   lowestCost, bestWiggle, ncon>>

NumberOfSteps == (One - settings.minWiggle + Stepsize - 1) \div Stepsize + 1

Wiggle(i) == Minimum(settings.minWiggle + i * Stepsize, One)

LimitOf(ids, wiggle) ==
    IF merge THEN Minimum(MaxClusterIdAfterAutoMerge(ids, Budget(baseline), wiggle),
                          settings.maxClusters - 1)
    ELSE settings.maxClusters - 1

Evaluate ==
    /\ pc = "search" /\ baseline # NoCost /\ ith < NumberOfSteps
    /\ LET w == Wiggle(ith)
           ids == Clustering(clusteringCache, w)
           merged == EnforceMaxClusterId(ids, LimitOf(ids, w))
           m == LargestId(merged)
       IN /\ clusteringCache' = Cached(clusteringCache, w)
          /\ clusterIds' = merged
          /\ IF m \notin DOMAIN lowestCost \/ NotAbove(Cost(merged, w), lowestCost[m])
             THEN /\ lowestCost' = Assign(lowestCost, m, Cost(merged, w))
                  /\ bestWiggle' = Assign(bestWiggle, m, w)
             ELSE UNCHANGED <<lowestCost, bestWiggle>>
    /\ ith' = ith + 1
    /\ ncon' = GetCluster(Max({timestep[c] : c \in Cells}), wiggleFactor) + 1
    /\ UNCHANGED <<timestep, settings, pc, merge, baseline, wiggleFactor, maxClusterId>>

\* Mutant of Eligible: the cheapest of the merged clusterings is taken.
CheapestAlways ==
    {m \in DOMAIN lowestCost : \A k \in DOMAIN lowestCost : NotAbove(lowestCost[m], lowestCost[k])}

\* When merging: the fewest clusters in the budget; else the (first) smallest cost.
Eligible ==
    IF merge THEN {m \in DOMAIN lowestCost : NotAbove(lowestCost[m], Budget(baseline))}
    ELSE {m \in DOMAIN lowestCost : \A k \in DOMAIN lowestCost : NotAbove(lowestCost[m], lowestCost[k])}

SearchEnds ==
    /\ pc = "search" /\ baseline # NoCost /\ ith = NumberOfSteps
    /\ IF Eligible = {}
       THEN pc' = "aborted" /\ UNCHANGED <<merge, baseline, wiggleFactor, maxClusterId>>
       ELSE LET best == Min(Eligible)
            IN IF TwoSearches /\ ~merge
               THEN /\ merge' = TRUE
                    /\ baseline' = lowestCost[best]
                    /\ UNCHANGED <<pc, wiggleFactor, maxClusterId>>
               ELSE /\ pc' = "finish"
                    /\ wiggleFactor' = bestWiggle[best]
                    /\ maxClusterId' = IF settings.autoMerge THEN Minimum(maxClusterId, best)
                                       ELSE maxClusterId
                    /\ UNCHANGED <<merge, baseline>>
    /\ ith' = 0 /\ lowestCost' = <<>> /\ bestWiggle' = <<>>
    /\ UNCHANGED <<timestep, settings, clusteringCache, clusterIds, ncon>>

\* Mutant of NumberOfConstraints: computed before the wiggle factor is known.
ConstraintsOfLastCall == IF ncon = 0 THEN GetCluster(Max({timestep[c] : c \in Cells}), One) + 1 ELSE ncon

NumberOfConstraints == GetCluster(Max({timestep[c] : c \in Cells}), wiggleFactor) + 1

Finish ==
    /\ pc = "finish"
    /\ ncon' = NumberOfConstraints
    /\ LET ids == Clustering(clusteringCache, wiggleFactor)
           enforced == IF settings.enforce THEN ids ELSE GreatestBelow(ids)
       IN clusterIds' = EnforceMaxClusterId(enforced, maxClusterId)
    /\ clusteringCache' = Cached(clusteringCache, wiggleFactor)
    /\ pc' = "done"
    /\ UNCHANGED <<timestep, settings, merge, baseline, ith, wiggleFactor, maxClusterId,
                   lowestCost, bestWiggle>>

Over == pc \in {"done", "aborted"} /\ UNCHANGED wiggleVars

WiggleNext == ComputeWeights \/ ComputeBaseline \/ Evaluate \/ SearchEnds \/ Finish \/ Over

WiggleSpec == WiggleInit /\ [][WiggleNext]_wiggleVars

----------------------------------------------------------------------------

\* Types of the search.
WiggleTypeOK ==
    /\ clusterIds \in Ids
    /\ DOMAIN clusteringCache \subseteq {Wiggle(i) : i \in 0..(NumberOfSteps - 1)} \cup {One}
    /\ \A w \in DOMAIN clusteringCache : clusteringCache[w] \in Ids
    /\ DOMAIN bestWiggle = DOMAIN lowestCost /\ DOMAIN lowestCost \subseteq 0..MaxClusterId
    /\ wiggleFactor \in settings.minWiggle..One
    /\ maxClusterId \in Nat

Fresh(wiggle) ==
    IF settings.enforce THEN GreatestBelow(ComputeClusterIds(wiggle)) ELSE ComputeClusterIds(wiggle)

\* A clustering that was made from a cached one, or not enforced because nothing
\* changed, is the one that would have been computed without the cache
\* (LtsWeights.cpp:411-417).  The types come first.
CacheIsExact == WiggleTypeOK /\ \A w \in DOMAIN clusteringCache : clusteringCache[w] = Fresh(w)

\* The ids the mesh is partitioned with obey the rule, although clusters were
\* merged after it had been enforced (LtsWeights.cpp:255-256), and no cell makes
\* longer steps than it may.
ClusteringIsValid ==
    pc = "done" =>
        /\ Admissible(clusterIds)
        /\ \A c \in Cells : wiggleFactor * LeastStep * ClusterRate[clusterIds[c]] <= One * timestep[c]

Grid == {Wiggle(i) : i \in 0..(NumberOfSteps - 1)}

Limited(wiggle) == EnforceMaxClusterId(Fresh(wiggle), settings.maxClusters - 1)

Searched == Rates # <<1>> /\ settings.enforce /\ (WiggleFactorUsed \/ settings.autoMerge)

\* Without merging no other wiggle factor of the grid is cheaper
\* (docs/local-timestepping.rst:105), neither at the end nor as a baseline.
NoneIsCheaper ==
    /\ pc = "done" /\ ~settings.autoMerge =>
          \A w \in Grid : NotAbove(Cost(clusterIds, wiggleFactor), Cost(Limited(w), w))
    /\ merge /\ TwoSearches =>
          \A w \in Grid : NotAbove(baseline, Cost(Limited(w), w))

\* With merging the cost stays in the budget, no wiggle factor of the grid needs
\* fewer clusters, and the program gives up only if none stays in the budget.
NoneNeedsFewerClusters ==
    LET cost(w, m) == Cost(EnforceMaxClusterId(Limited(w), m), w)
        number == LargestId(clusterIds)
    IN settings.autoMerge =>
        /\ pc = "done" =>
              /\ NotAbove(Cost(clusterIds, wiggleFactor), Budget(baseline))
              /\ \A w \in Grid : \A m \in 0..(number - 1) : ~NotAbove(cost(w, m), Budget(baseline))
        /\ pc = "aborted" => \A w \in Grid : ~NotAbove(cost(w, MaxClusterId), Budget(baseline))

\* When the maximum difference is enforced during the search, it finds the best
\* wiggle factor of the grid, by either measure, although it reuses clusterings
\* and may search twice (LtsWeights.cpp:161-360).  When it is not, Finish enforces
\* it after the search, and the costs the search compared are not the final ones.
BestWiggleFactor == Searched => NoneIsCheaper /\ NoneNeedsFewerClusters

\* The weights of a cell are stored at its cluster id: each has its constraint.
EveryIdHasAConstraint == pc = "done" => LargestId(clusterIds) < ncon

=============================================================================
