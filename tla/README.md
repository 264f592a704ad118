# A formal model of SeisSol's time stepping, its setup and its simulation loop

SeisSol solves wave propagation with clustered local time stepping. Cells are
grouped into *time clusters*; cluster `c` advances `Rate[c]` unit steps at a
time. The clusters are actors: each owns its clock, keeps a delayed copy of its
neighbours' clocks, and learns of their progress by messages. *Ghost clusters*
extend this over MPI, polled by a second thread. Around the clusters a loop leads
the simulation from one *synchronization point* to the next, where outputs and
checkpoints are written. Before the first step, the mesh is *clustered*, and the
*LTS setup* decides which data each cell stores, reads and sends. This directory
models that control, checks it with TLC on small instances and proves part of it
with TLAPS for all instances. Numerical kernels are outside of it: data appears
only as the interval of time it stands for.

Source paths below are relative to `src/src/` unless they begin with `src/`.

## 1. Inventory

| Component | State | Operations | Interacts with | Hard to get right | What makes it correct |
|---|---|---|---|---|---|
| Time cluster actor (`Solver/TimeStepping/AbstractTimeCluster.*`, `ActorState.*`) | actor state, own `ClusterTimes`, a `ClusterTimes` and a queue per neighbour, `syncTime` | `getNextLegalAction`, `act`, `processMessages`, `mayPredict`, `mayCorrect`, `maySync`, `setSyncTime`, `reset`, `setTime`, `connect` | neighbours by queues; driven by TimeManager | guards read stale mirrors; messages are sent only when believed useful; the last step is cut; every cluster counts its steps to the synchronization in doubles by itself | nothing used before it exists, nothing overwritten while needed, all meet at the synchronization time, no cluster waits for ever |
| `TimeManager` | the clusters, their order, the ghost clusters | `addClusters`, `advanceInTime`, `setInitialTimes` | clusters, communication manager, Simulator | any order of actions by priority and outcome | assertions at the phase borders; each call returns |
| Cell cluster (`TimeCluster.*`) | `lastSubTime`, `neighborTimestep`, buffers, derivatives, friction scheduler, receivers | `predict`, `correct`, `reset`, message handlers | neighbours' data read without copies | which data a neighbour of other rate has to offer, when a buffer may start anew, friction on faces shared by two layers | every correction reads data of its own interval; friction once per step |
| Receivers (`Kernels/Receiver.cpp`, `ResultWriter/ReceiverWriter.cpp`) | receiver time, samples | `calcReceivers`, `syncPoint` | predict of a cell cluster | cut steps, several rates | same samples in all clusters |
| Pickpoint output (`DynamicRupture/Output/OutputManager.cpp`) | `iterationStep`, recorded times | `writePickpointOutput`, `isAtPickpoint` | correct of a cell cluster | one counter for all layers, loop over a cut step | same times in all layers, none missing |
| Ghost clusters (`AbstractGhostTimeCluster`, `DirectGhostTimeCluster`, `GhostTimeClusterWithCopy`) | outstanding sends and receives | `act`, `predict`, `correct`, the message handlers, `reset`, `testQueue` | copy clusters by queues, other ranks by MPI | when to post a receive; messages across synchronization points | each send meets one receive; data of the right step; no stall |
| Communication manager, helper thread (`CommunicationManager.cpp`, `Parallel/HelperThread.*`) | flags, the thread | `reset`, `progression`, `checkIfFinished`; `start`, `stop`, `restart` | ghost clusters on a second thread | queue read without its lock; flags across restarts | no lost finish, no actor touched by both threads |
| Clustering (`Initializer/TimeStepping/LtsWeights/*`, `ClusterLayout.*`) | cluster ids, cache, wiggle factor | `enforceMaximumDifference`, `computeBestWiggleFactor`, `enforceMaxClusterId` | mesh, other ranks | convergence across threads and ranks; reuse of cached ids | ids of neighbours differ by at most one; the best factor is found |
| LTS setup (`Initializer/InitProcedure/Internal/LtsSetup.cpp`, `MeshLayout.cpp`, `Buckets.cpp`) | bits per face, halo regions | derivation, exchange, normalization, transfer | cell clusters, ghost clusters, other ranks | rank borders | both ends of a region agree; the data a face reads exists and fits |
| Modules (`Modules/*`) | registered hooks; `nextSyncPoint`, `lastSyncPoint` per module | `registerHook`, `callHook`, `potentialSyncPoint`, `setSimulationStartTime` | every output, Simulator | tolerances, several intervals, restart | every point served once, in time |
| Simulator (`Solver/Simulator.*`) | `currentTime`, `finalTime`, `aborted` | `simulate`, `abort`, `setCurrentTime` | Modules, TimeManager | no-progress test, forced last point | every run ends, with its outputs |
| Output writers, checkpoints (`IO/*`) | per module one asynchronous write, files | `setUp`, `simulationStart`, `syncPoint`, `simulationEnd`; `loadCheckpoint` | Modules, an I/O thread | pending writes, crash, file numbers | no output is lost; restart from a complete checkpoint |
| Time mirror, energy output | - | hooks | Modules, Simulator | registration; abort | only their hooks appear, in `SyncPoints` |
| Legacy XDMF writers, friction laws, kernels, sources, memory layout | - | - | - | numerical or pure I/O | not modelled |

`PROJECT.json` lists the same parts with their status, and under `hazards` the
lines at which each difficulty bites with the properties that watch it.

## 2. Modules

| Module | Models | State |
|---|---|---|
| `Doubles` | double arithmetic on times: exact, or with tables of results a format cannot represent | constants only |
| `AbstractTimeCluster` | the actor and its handlers | `state`, `syncTime`, `ct` (own `ClusterTimes`), `nct` and `inbox` per link |
| `Phases` | the synchronization times and the unit steps between them | constants only |
| `TimeManager` | `advanceInTime` on one rank: reset loop, restart loop, polling loop | `phase`, `epoch`, `todo` |
| `TimeCluster` | data of the cell clusters on top of `TimeManager` | `derivative`, `buffer`, `friction`, `lastSubTime`, `neighborTimestep`, `lastCorrectionStepsInterior`, `receiverTime`, `sampled`, `iterationStep`, `pickpoints` |
| `LocalTimeStepping` | the abstract promise: clusters on shared counters, without messages | `round`, `predicted`, `corrected` |
| `GhostClusters` | several ranks: the ghost clusters, MPI, the barrier, `advanceInTime` per rank | `phase`, `epoch`, `todo` per rank; `receiving`, `sending`, `lastSendTime`; `channel` and `region` per pair of ghost clusters |
| `HelperThread` | the threaded communication manager, load by load and store by store | `main`, `helper` (what each thread does next), `shouldReset`, `isFinished`, `ghost`, `at`, `finished` |
| `Clusterings` | what an admissible clustering is, and the greatest one below given ids | constants only |
| `MaximumDifference` | `enforceMaximumDifference` over threads and ranks | `m_clusterIds`, `before`, `copy`, `phase`, `todo`, `reduced` |
| `WiggleSearch` | `computeWeights` up to the cluster ids | `clusteringCache`, `wiggleFactor`, `maxClusterId`, `lowestCost`, `bestWiggle`, `ncon`, ... |
| `LtsSetup` | derivation, exchange and normalization of the LTS setups; halo regions and transfers | `setup`, `halo`, `phase` per rank |
| `SyncPoints` | Simulator, Modules, writers, crash and restart | `phase`, `currentTime`, `upcomingTime`, `nextSyncPoint`, `lastSyncPoint`, `served`, `files`, `pending`, ... |
| `Phases_proofs` | lemmas about one actor and one link within a phase, used by both `TimeManager_proofs` and `GhostClusters_proofs` | - |
| `TimeManager_proofs`, `TimeCluster_proofs`, `GhostClusters_proofs`, `SyncPoints_proofs`, `LtsSetup_proofs` | theorems about the module of that name | - |
| `Scheduling_proofs` | theorems about `LocalTimeStepping` and `HelperThread` | - |
| `Clusterings_proofs` | theorems about `MaximumDifference` and `WiggleSearch` | - |
| `MC...` | values of the constants for TLC | - |

`TimeManager` and `GhostClusters` both extend `Phases`, which extends `AbstractTimeCluster`; `TimeCluster`
extends `TimeManager`; both `TimeManager` and `GhostClusters` are shown to
implement `LocalTimeStepping`. `WiggleSearch` uses the result of
`MaximumDifference` (`GreatestBelow`), which that module establishes.

How state and actions correspond to the code:

* One action per `ActorAction` and handler. `Predict`, `Correct`, `Sync` and
  `RestartAfterSync` contain everything `act()` does: pop one message from every
  neighbour that has sent one, evaluate the guard, move the clock, send. They
  are atomic because a cluster is touched by one thread only (`HelperThread`
  shows this for the ghost clusters).
  `Poll` is a call of `getNextLegalAction` whose result is not used: it too
  pops messages (`TimeManager.cpp:311-341` calls it as a predicate).
* `ResetCluster`, `RestartCluster` are iterations of the two loops at
  `TimeManager.cpp:283-304`; `Finish` is its loop condition. Which cluster is
  polled or acts next is free. The code goes by priority and rate; every
  order it can produce is included.
* Counters are `ClusterTimes` without `predictionsSinceStart` (nothing reads it).
  The times are integers; `TimeStepSize`, `NextCorrectionSteps` and `StepsUntil`
  are its methods.
* `LocalTimeStepping` is related to `TimeManager` by the refinement mapping of
  `TimeManager!LTS`: the own counters of a cluster, taken as 0 once a phase
  has begun and the cluster waits for its reset. `GhostClusters!LTS(r)` is the same
  mapping for the cell and ghost clusters of one rank. (It is per rank: a copy
  cluster may run ahead of the remote one, when MPI has buffered what that sent.)
* In `TimeCluster` an interval `[from, to]` stands for the data made from the
  predictor of that interval. `buffer` is extended by every `predict` that does
  not reset it; `friction` is moved by the layer that evaluates first. Of
  several slower neighbours whose predictions are popped by one call, either may
  be processed last (the order of `connect`). Every layer is non-empty and has
  fault faces. `WritePickpointOutput` is the loop over the smallest time step in
  `handleDynamicRupture`, with the counter that `OutputManager` keeps for all layers.
* In `GhostClusters`, `sending[g]` and `receiving[g]` are the requests whose
  `MPI_Test` has not succeeded. `ReadCopyLayer` may happen at once (an eager send) or
  only after the receive is posted; `FillGhostLayer` matches messages of one tag in
  order. A message holds the phase and step its data was predicted for. With
  `Threaded`, the ghost clusters act from their reset on, and `hasMessages`,
  which takes no lock (`ActorState.cpp:63`), may miss a message that has
  just been pushed: `Seen` is any subset of the neighbours with messages.
* In `HelperThread` a ghost cluster is only what `poll()` sees of it.
  `shouldReset` and `isFinished` are atomics; each load and store is a step.
* In `MaximumDifference` an iteration of the OpenMP loop (`LtsWeights.cpp:573`)
  reads of each neighbour the id before the loop or the present one: the race is
  in the model, over whole integers. Ranks proceed independently between the
  exchange and the `MPI_Allreduce`.
* `WiggleSearch` is sequential. Wiggle factors and costs are integers and fractions;
  the settings are chosen in `WiggleInit`.
* In `LtsSetup` messages are sequences without ids, as in the code: that the
  receiver assigns them to the right cells is what `HaloRegionsMatch` is about.
* `SyncPoints` handles a synchronization point module by module (`todo`), in
  any order; the code orders them by priority. Every module is a writer like
  `WriterModule`, with one output in flight: `WriteDone` is the writer thread,
  `SyncPoint` and `End` wait for it. A file has the number `WriteCount` and
  truncates what stands under it. `Crash` may strike between any two steps and
  loses what is pending, truncated file included; `Restart` continues from any
  complete checkpoint, or from 0. What an earlier run wrote after the time of
  a restart no longer counts: it is written anew. At least one module is
  registered (`SyncPointsAssumption`).

Each module has one type invariant. Those of `GhostClusters`, `SyncPoints`,
`WiggleSearch` and `LtsSetup` are the first conjunct of a property
(`RequestsDoNotOverlap`, `EveryDuePointIsServed`, `CacheIsExact`,
`TransfersMatch`); those of `LocalTimeStepping` and `HelperThread` are proved.

## 3. Runs

The bounds are in the `MC` modules and the `.cfg` files.

| Run | Instance | Shows |
|---|---|---|
| `chain` | 4 clusters, rates 1, 2 (interior and copy), 6, two phases, receivers every 3 ticks, fault output at every step, exact arithmetic; 41,933 states | Message times increase, the reset leaves no message, the code's assertions hold, all clusters meet at the synchronization time, every call returns, the actors implement `LocalTimeStepping`; corrections read matching data; friction once per step in any order of the layers; receivers and fault output complete and equal in all clusters |
| `local_time_stepping` | rates 1, 2, 2, 4, 8, three phases; 719 states | The abstract scheme is safe and live. `CHECK_DEADLOCK FALSE`: it stops after the last phase |
| `ghost_pair` | 2 ranks, rates 1 and 2, two phases, helper threads; 3,739 states | Requests are never posted twice, none is left at a synchronization, received data is that of the step corrected, no send buffer is overwritten, every rank returns, and each rank implements `LocalTimeStepping` |
| `helper_thread` | 3 ghost clusters, 3 calls; 196 states | No ghost cluster is acted on while the main thread resets or destroys it, no call returns on an old flag, every call ends |
| `maximum_difference` | 5 cells with a cycle on 2 ranks, 2 fault faces, all initial ids up to 2; 23,715 states | The result is the greatest admissible clustering below the initial one, whatever threads and ranks read of each other, and the rounds end |
| `wiggle_search` | 4 cells in a row, 3 time steps, rates 2, 3, 2, 1, all settings; 17,440 states | The cache never changes a result; the ids are admissible after merging; with the maximum difference enforced in the search, the factor found is the cheapest, or that with fewest clusters in the budget; weights have a place for each id |
| `lts_setup` | 6 cells on 3 ranks, admissible ids up to 2, 4 faults, 2 boundaries; 27,552 states | Both ends of a halo region hold the same cells and agree on its messages; no face points to missing data; each face reads data that fits its relation |
| `sync_points` | intervals 20, 24, 30 to time 104, tolerance 5 and 6 at the start, abort, two crashes; 242,308 states | No synchronization point is skipped, none is early, completed runs keep their outputs, the last one too (except for one whose number the last one takes, violation 4), every run ends |
| `rounding_stall` | two clusters of rates 1 and 2 in a binary format of 5 digits | Violation 1 below |
| `pickpoints` | two layers of one rate, output every second step | Violation 2 |
| `mirror`, `final_file` | as `sync_points`, with another module or final time | Violations 3 and 4 |

Why the bounds are enough. Guards of clusters compare the counters of two
neighbours, so what matters is the pair of rates and whether the cut of the last
step falls inside a step of one, the other or both. Rates 1:2, 2:2, 2:6 (and 2:4,
4:8 in the abstract scheme), a cut inside a step of each, and a second phase that
begins with the leftovers of the first are all present; in `chain` an interior and
a copy cluster share an id and both meet a slower and a faster neighbour.
In `ghost_pair` both directions, a slow and a fast sender, occur; the second phase
is shorter than a step of the slower rank. Three calls of `helper_thread` cover
thread ended, stopped and restarted in each order. A cycle and two shared
faces let ids travel between ranks more than once. `MaxClusterId = 2`
allows a cell whose neighbours are one above and one below. Interval 20 and 24
meet within the tolerance (100 and 96) and miss it, 20 and 30 coincide; the tolerance at the
start is larger than the other, as it usually is in the code, but no two points lie
between the two (`PointsApart`);
two crashes allow a restart of a restarted run.

Fairness.
* `ClusterFairSpec` (and `FairSpec` of `TimeManager`) is `WF(Next)`: the main
  thread keeps polling as long as some call changes something. It does not say
  which cluster is polled; `EveryAdvanceReturns` holds without that.
* `GhostFairSpec`: every rank, with its helper thread, keeps running; MPI reads a
  send whose receive is posted, and delivers what it has read. Nothing
  makes MPI read a send earlier: no eager buffering is relied upon.
* `HelperFairSpec`: both threads run, and a ghost cluster that is polled again
  and again is synced at last (strong fairness; that it is, is `EveryRankReturns`).
* `DifferenceFairSpec`: the loops and exchanges go on.
* `SyncPoints` has `WF(Run)`: a crashed program is started again and a running
  one runs. Nothing is assumed of the writer threads: the next synchronization
  point waits for them, as `WriterModule::syncPoint` and `simulationEnd` do. Crashes
  are bounded by `MaxRestarts`, so that a last run exists.

Each property of a passing run names in `PROJECT.json` a mutant of the code that
violates it; the mutated operators stand above the ones they replace.

### Violations

1. `rounding_stall` - a cluster counts its steps to the synchronization, and those of
   its neighbours, by `ceil(rate * (syncTime - correctionTime) / maxTimeStepSize)`
   from its own rounded time (`ActorState.cpp:79-82`). Clusters can disagree and
   wait for each other for ever. The model has 5-digit numbers; evaluating
   the same expressions in 53-bit doubles, steps of 0.01 and 0.02 with synchronization every
   0.1 disagree in the second interval.
2. `pickpoints` - "every printtimeinterval (local) time step" is decided by one
   counter for all layers: with two layers and every second step, one layer is
   recorded at every step and the other at none.
3. `mirror` - a module that registers for the synchronization point but not for the
   start is never given its start time and stops the simulation.
4. `final_file` - the output forced at the end takes the file number of the
   output less than half an interval before and overwrites it.

`PROJECT.json` quotes the lines each of them contradicts. Seen while modelling, and
not the subject of a run:

* A step too many (as in 1) has length 0, and its message repeats a time,
  against the assertion at `AbstractTimeCluster.cpp:157`.
* `neighborTimestep` (`TimeCluster.cpp:844`) is set at the reset; in the cut step before a
  synchronization it is not the time step of the largest neighbour, as the
  comment in `TimeCluster.h` says. `CorrectUsesMatchingData` covers uncut steps.
* Points less than the absolute 1e-6 after the start are skipped (`Module.cpp:39`); see
  the premise of `DuePointsAreServed`.
* In a list of rates that ends in 1, the interval before that 1 is merged into the
  last cluster (`LtsWeights.cpp:374-377`). `wiggle_search` has such a list; the properties
  hold of the merged cluster, but would also hold if it were split.
* The pickpoint loop repeats the synchronization time, with a negative time step, in
  a cut step; the recorded times stay right (`FaultOutputsAreInStep`).

## 4. Proofs

| Theorem | States | Hypotheses, beyond the assumptions on the constants |
|---|---|---|
| `TimeManager_proofs!TypeCorrect`, `AssertionsHold` | `Spec => []TypeOK`, `Spec => []ManagerAssertions` | none: any rounding |
| `TimeManager_proofs!NothingSurvivesReset` | `Spec => []ResetLeavesNoMessage` | `ExactArithmetic`, `SameUnitStep` |
| `TimeManager_proofs!ClustersReachSyncTime` | `Spec => []AllReachSyncTime` | `ExactArithmetic` |
| `TimeManager_proofs!MessagesComeInOrder` | `Spec => []MessageTimesIncrease` | `ExactArithmetic`, `SameUnitStep` |
| `TimeManager_proofs!ClustersImplementLocalTimeStepping` | `Spec => LTS!LTSSpec`, the refinement | `ExactArithmetic`, `SameUnitStep` |
| `TimeManager_proofs!ClustersKeepThePromises` | the two safety properties of the abstract scheme, of the actors | `ExactArithmetic`, `SameUnitStep` |
| `TimeCluster_proofs!ReceiversSampleInStep` | `ClusterSpec => []ReceiversAreInStep` | `ExactArithmetic` |
| `TimeCluster_proofs!CorrectionsUseMatchingData` | `ClusterSpec => CorrectUsesMatchingData` | `ExactArithmetic`, `SameUnitStep`, `NeighborRates` |
| `TimeCluster_proofs!FrictionIsEvaluatedOncePerStep` | `ClusterSpec => FrictionOncePerStep` | the same and `LayersOfAnId` |
| `TimeCluster_proofs!FaultOutputsAreRecordedInStep` | `ClusterSpec => []FaultOutputsAreInStep` | those of friction and `FastestStep` |
| `GhostClusters_proofs!NoRequestOverlaps` | `GhostSpec => []RequestsDoNotOverlap` | `ExactArithmetic`, `SameUnitStep` |
| `GhostClusters_proofs!NoRequestIsLeftHanging` | `GhostSpec => []NoHangingRequest` | `ExactArithmetic`, `SameUnitStep`, `RegionRates` |
| `GhostClusters_proofs!NoCopyLayerIsOverwritten` | `GhostSpec => NoSendOverwritten` | `ExactArithmetic`, `SameUnitStep` |
| `GhostClusters_proofs!CorrectionsUseReceivedData` | `GhostSpec => CorrectUsesReceivedData` | `ExactArithmetic`, `SameUnitStep`, `RegionRates` |
| `GhostClusters_proofs!RanksFollowLocalTimeStepping` | `GhostSpec => RanksImplementLocalTimeStepping`, the refinement on every rank | `ExactArithmetic`, `SameUnitStep` |
| `Scheduling_proofs!LTSTypesHold`, `OnlyPredictedIsCorrected`, `NothingNeededIsOverwritten` | the types and safety of the abstract scheme | none |
| `Scheduling_proofs!HelperTypesHold`, `HelperNeverActsDuringReset`, `HelperReturnsWhenSynced` | types and both safety properties of the two threads | none |
| `Clusterings_proofs!DifferenceTypesHold`, `NoCellIsLoweredTooFar`, `ReturnedIdsAreAdmissible` | the enforcement, for any mesh and distribution | none |
| `Clusterings_proofs!MergingKeepsAdmissible`, `SmallerOfTwoIsAdmissible` | merging and minima of admissible ids are admissible | none |
| `Clusterings_proofs!CachedClusteringsAreExact`, `FinalClusteringIsValid`, `ConstraintsCoverIds`, `SearchFindsTheBest` | `[]CacheIsExact`, `[]ClusteringIsValid`, `[]EveryIdHasAConstraint`, `[]BestWiggleFactor` of `WiggleSpec` | none |
| `LtsSetup_proofs!RegionsMatch`, `TransfersFitTogether`, `PointersAreSet`, `DataIsThereWhenRead` | `[]HaloRegionsMatch`, `[]TransfersMatch`, `[]EveryPointerIsSet`, `[]FacesReadWhatTheyNeed` of `LtsSpec` | none |
| `SyncPoints_proofs!SyncPointsTypesHold`, `OutputsStayOnSchedule` | types; no output off schedule | none: any tolerances |
| `SyncPoints_proofs!SimulationAdvances` | `Spec => []AlwaysAdvances` | `AllStarted`: every module starts; intervals and start tolerance not below the tolerance |
| `SyncPoints_proofs!DuePointsAreServed` | `Spec => []EveryDuePointIsServed` | `PointsApart` |
| `SyncPoints_proofs!RunsKeepTheirOutputs` | `Spec => []OutputsAreComplete` | `IntervalsAboveTolerance` |

They hold for any number of clusters, connections, rates, step sizes,
synchronization times, cells, ranks, modules, intervals and crashes, within
these hypotheses:

* `ExactArithmetic`: no time is rounded. Under rounding the clocks, the refinement
  and the data rules fail, which violation 1 shows.
* `SameUnitStep`: the time step of a cluster is its rate times one unit step, as
  `ClusterLayout` computes it.
* `NeighborRates`: of two connected rates the larger is a multiple of the smaller, and the
  slower neighbours of a cluster have one rate. Connected ids differ by at
  most one (`TimeManager.cpp:172-190`, which rests on `ReturnedIdsAreAdmissible`),
  and rates are products along the list of rates.
* `RegionRates`: of the rates of the two ends of a region one divides the other, for the
  same reason: a region joins clusters whose ids differ by at most one.
* `LayersOfAnId`: clusters that share fault faces, the layers of one id, are
  connected (`TimeManager.cpp:172-190`), and an interior cluster is its own interior.
* `FastestStep`: finitely many clusters, a start at 0, and one cluster whose time step divides
  those of all others: rates are products along one list.
* `IntervalsAboveTolerance`: the tolerance is at most half an interval. It is 1e-5
  of the smallest time step (`TimeManager.cpp:362`).
* `PointsApart`: the tolerance at the start is an absolute 1e-6
  (`Module.cpp:39`), that of the points 1e-5 of the smallest time step, and a point
  between the two after a restart is skipped.

The instances of `chain`, `ghost_pair` and `sync_points` satisfy their hypotheses, so these are
not empty. The arguments:

* *Assertions.* Neither `ManagerAssertions` alone nor `TypeOK` is inductive: that
  a cluster is synced at the reset follows from the end of the last phase. `PhaseInv`
  adds what holds of the clusters that a loop has passed and of those it has not.
* *Clocks.* `AllReachSyncTime` says nothing in the middle of a phase.
  `ClockInv` ties each clock to its counter: after `n` unit steps of a
  phase from `b` to `s`, cluster `c` stands at the time `t` with
  `Rate * (t - b) = min(Rate * (s - b), n * MaxTimeStepSize)` (`AtStep`). One step
  preserves this (`GridStep`) although the last is cut, and when `n` reaches
  `ceil(Rate * (s - b) / MaxTimeStepSize)` it gives `t = s`. Multiplying by the rate
  avoids any division.
* *Reset.* The reset of a cluster reads one message per neighbour, once. That this is enough
  is a fact about the end of the phase before (`Settled`): only the last correction of a
  neighbour can still be unread, since its last prediction was needed to synchronize.
* *Messages and refinement.* The guards read mirrors, the abstract scheme the counters
  themselves. `MessageInv` places everything a link holds, the mirror and the
  messages in their order, between the past and the present of the sender
  (`Reported`): each is a step the sender has been at, at the time the grid gives it, and
  the last of them lacks only what the sender has done without telling, which it
  leaves out only where the receiver cannot need it. So a guard that holds of the
  mirror holds of the counters, message times increase, and every step maps to
  a step of one cluster or to none. Under `SameUnitStep` all clusters agree on
  the end of the phase.
* *Links of any scheduler.* What a step of one cluster does to the clock and the link of another
  is stated in `Phases_proofs` for a single cluster and a single link (`LinkAt`), and does not
  depend on who polls it. `TimeManager_proofs` adds the phases of one rank, `GhostClusters_proofs`
  those of several and the calls of `processMessages` that miss a message.
* *Ghost clusters.* Whether a request is posted while the last is pending depends on
  what a ghost cluster has not yet popped. `ReqInv` says: a prediction it has not
  popped is the last its copy cluster can make before this ghost cluster corrects,
  and it may correct only when nothing is being sent; a correction
  it has not popped is the last the copy cluster can make before this ghost cluster predicts, and it
  may predict only when nothing is being received (`InTurn`). That the two sides
  stay within one interval of the larger rate is the message invariant of the link in both directions
  (`Abreast`), and a started ghost cluster has posted its receives for
  exactly the steps it has not predicted (`Posted`). The refinement on each rank is that of
  `TimeManager` with counters that are not reset yet counted as 0 (`Count`); `DoneInv` says
  that an idle rank has made all its steps.
* *Regions.* `PairInv` relates the two ends of a region. What a sender has sent and its
  receiver has not taken is a chain of copy layers of one phase, each later by the larger of the two
  rates or cut by the end of the phase (`Chain`, `Follows`); what is pending is next.
  A receiver waits for exactly one layer, and it has used what it has received up to the larger
  rate (`Received`). The barrier, which a rank may leave when others are already in the next phase, keeps two ranks in the same phase or in neighbouring ones, the
  rank ahead between two phases (`EpochInv`), so that no layer of one phase is
  taken for one of the next. That MPI reads the layer it was told to send, and not a
  later one, is `CopyOfGhost`: a copy cluster does not run ahead of its ghost cluster.
* *Receivers.* A cluster's samples are the multiples of the interval before its
  `predictionTime`, cut steps or not; at a synchronization the clocks agree.
* *Data.* `DataInv` says of the buffers and derivatives of each cluster which
  interval they stand for, in terms of its counters alone: a buffer begins at the last
  step of the slower neighbour. What a cluster believes to be the sub-time in a
  slower neighbour's step is that of the last prediction it heard of: a property of the
  mirror, so that it rests on `MessageInv` and on predictions and corrections alternating
  in each inbox.
* *Friction.* Two layers of an id are connected and of one rate, so neither is a
  full step ahead. `FrictionInv` ties the friction of the interior layer to the steps
  of each layer: one that has not corrected the last evaluated step finds it
  evaluated, one that has corrected it finds its own time reached, and always one has.
* *Fault output.* `OutputInv`: each layer is recorded exactly as far as its friction has
  been advanced, that of a copy layer with its cluster. The calls of one step are the output
  times between its ends, cut or not (`CallsOfAStep`), and a phase that ends
  hands the next one a record that is complete.
* *Abstract scheme.* `LTSInv` adds to the two properties that the prediction
  of a cluster is at most one of its intervals ahead of its correction.
* *Threads.* `HInv` adds what the local variable `finished` says of the clusters the
  present poll has passed (`PollInv`) and that a stored `isFinished` means that all are
  synced (`FinishedInv`): a flag of the call before cannot survive `start()`.
* *Maximum difference.* An admissible clustering below the ids that were read is below
  their minimum, hence below the new ids, for old and new values alike
  (`LowerInv`). `RoundInv` says, as long as no rank has reported a reduction,
  that the ids are those of the beginning of the round and obey the rule on all faces a rank
  has checked; `Allreduce` then sees the whole mesh.
* *Synchronization points.* `AlwaysAdvances` and `EveryDuePointIsServed` hold between
  the hooks, not within them. `AdvanceInv` and `DueInv` separate the modules that have been
  asked, whose next point lies ahead, from those that have not, whose next point is
  now or later and whose last lies a tolerance back, so that `Duplicate` never hides
  a due point. Through a crash, what lies a tolerance before the checkpoint has been handled
  and survives the restart. That a run can only restart at a multiple of some
  interval, at 0 or at the end is `PointsInv`.
* *Outputs.* `FilesInv` says that the outputs of the present run are on the disk or being
  written and that their file numbers lie below that of the next point: the
  numbers of two points of one module differ when its interval is above the tolerance. The
  forced output at the end may take the number of one before it, which is then the only one
  missing (`TakenAtTheEnd`); it is itself on the disk since `End` waits for it. The
  theorem speaks of the outputs since the last start, not of those before a crash.
* *LTS setup.* Regions are sorted lists of the same cells on both ranks.
  That a sorted list of a finite set is unique, and that `SortSeq` lists each cell once, follows
  by counting: the place of a cell is the number of smaller ones (`SortedBy`).
  `First` and `Last` are the setups that follow from the mesh and the ids alone;
  `ExchangeInv` says which of the two each rank has, in each phase, for its own cells and
  its ghosts, and which messages each region holds, so that at the end two ranks
  agree on every cell both know. The properties then are facts about the mesh.
* *Wiggle search.* `BestWiggleFactor` is about searches in which the maximum difference is
  enforced; otherwise it is enforced after the search and the costs change. The result of the enforcement is the greatest admissible clustering
  below the computed one, and unique. A larger factor raises no id, so the result
  for it is also the greatest below a cached result for a smaller one, and nothing is
  lowered when the cached one lies below already (`Exact`). `BestInv` says that every
  factor looked at is recorded or needs no fewer clusters than one that is: it suffices to keep
  one factor per number of clusters, because merging more of them only costs more.
  Sums and maxima over cells and the loop over the rates are handled by the
  least counterexample, since induction over data is out of the provers' reach in
  the form the library has. `MaxClusterIdAssumption`, that no id exceeds
  `MaxClusterId`, is only the range in which the model looks for an id; TLC evaluates it.

Only model-checked: liveness (temporal proofs with `ENABLED` are beyond the prover),
and with it that the refinements keep the fairness of the abstract scheme. Every
safety property a passing run checks is also a theorem. No module uses a RECURSIVE operator.

## 5. Abstractions and what is left out

* `TimeManager` and `TimeCluster` are one rank: their copy clusters have no ghost
  neighbours. `GhostClusters` has several ranks, with one cluster of data:
  what was received, and for which step.
* Of the ghost clusters, `GhostTimeClusterWithCopy` (device memory staged through
  the host), persistent requests and the progress calls of MPI.
* Point sources, plasticity, device execution, statistics, timeouts that only
  print, and the order of loops; of the fault output the cache of pickpoints and
  the elementwise output.
* `lastCorrectionStepsCopy` is written but never read.
* Exact arithmetic in `chain` and `ghost_pair`, and in the proofs whose hypotheses
  say so (section 4). The other proofs hold for every rounding.
* `Clusterings`: time steps of cells are inputs, the weights handed to the
  partitioner are left out but for their number.
* `LtsSetup`: device storage, the layout of the fault faces, offsets in buckets.
* `sync_points` leaves out (a) points at the time of the checkpoint a run
  started from: the earlier run may have crashed before serving them;
  (b) the file lost by violation 4; (c) outputs an earlier, crashed run had
  not finished.
* Not modelled: numerical kernels and generated code, friction laws, point sources,
  reading and writing of files, allocation of memory, mesh generation and
  preprocessing, and the tools around the program. They are computation or I/O
  without a protocol; most of the repository's lines are of this kind.

## 6. Plan

Done: actors, TimeManager, abstract scheme, cell-cluster data with receivers and
pickpoints, ghost clusters over MPI, helper thread, clustering of the mesh, LTS setup,
synchronization points with their proofs.

1. `GhostTimeClusterWithCopy`, with its staged buffers.
2. The loop order of `advanceInTime` as an implementation of `TimeManager`.
3. Registration of hooks, priorities and hooks around restart; buffers of
   `WriterModule`.
