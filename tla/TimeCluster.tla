---------------------------- MODULE TimeCluster ----------------------------
(***************************************************************************)
(* The cell clusters: what predict() and correct() of TimeCluster do to the *)
(* data that neighbouring clusters share.  Data is abstracted to the time   *)
(* interval it stands for:                                                  *)
(*   derivative[c]  the interval of the last predictor of c, from which its *)
(*                  time derivatives and its GTS buffers are made;          *)
(*   buffer[c]      what the accumulating (LTS) buffers of c hold: they     *)
(*                  start at from and have had to - from added to them;     *)
(*   friction[l]    the fault faces of layer l: the friction law was last   *)
(*                  evaluated at from and has been advanced to to;          *)
(*   sampled[c]     the times at which the receivers in c have been sampled; *)
(*   pickpoints[l]  the times at which the fault output of layer l has been   *)
(*                  recorded.                                               *)
(* A slower neighbour reads buffers, a faster one derivatives, one of equal *)
(* rate the last predictor (TimeCommon::computeIntegrals, getLtsSetup).     *)
(***************************************************************************)
EXTENDS TimeManager, FiniteSetsExt

CONSTANTS
    CopyClusters,      \* clusters of copy layers; the others are interior
    InteriorOf,        \* the interior cluster with the same cluster id
    SamplingInterval,  \* of the receivers
    PrintTimeInterval  \* of the pickpoints on the fault, in time steps

ASSUME LayerAssumption ==
    /\ CopyClusters \subseteq Clusters
    /\ InteriorOf \in [Clusters -> Clusters \ CopyClusters]
    /\ \A c \in Clusters : Rate[InteriorOf[c]] = Rate[c]
    /\ SamplingInterval \in Nat \ {0} /\ PrintTimeInterval \in Nat \ {0}

VARIABLES
    lastSubTime,                    \* start of the last slower neighbour's predictor
    neighborTimestep,               \* time step of the largest neighbour
    derivative, buffer, friction,
    lastCorrectionStepsInterior,    \* DynamicRuptureScheduler, one per cluster id
    receiverTime, sampled,          \* the next and the past samples of the receivers
    iterationStep, pickpoints       \* OutputManager: calls so far, and what they recorded

receiverVars == <<receiverTime, sampled>>

pickpointVars == <<iterationStep, pickpoints>>

Perms == INSTANCE SequencesExt

dataVars == <<lastSubTime, neighborTimestep, derivative, buffer, friction,
              lastCorrectionStepsInterior, receiverVars, pickpointVars>>

clusterVars == <<vars, dataVars>>

Interval(from, to) == [from |-> from, to |-> to]

InteriorClusters == Clusters \ CopyClusters

\* The time step of the fastest cluster with fault faces; here all have some.
OutputTimestep == Min({MaxTimeStepSize[c] : c \in Clusters})

EndTime == SyncTimes[Len(SyncTimes)]

\* isAtPickpoint() in the call that finds iterationStep = n.
IsAtPickpoint(n, time, dt) ==
    n = 0 \/ n % PrintTimeInterval = 0 \/ 1000 * (EndTime - time) < 1005 * dt

\* writePickpointOutput(0.0, 0.0) before the first step: one call per layer, in
\* the order of an unordered_map.
InitialPickpoints ==
    \E order \in Perms!SetToSeqs(Clusters) :
        pickpoints = [l \in Clusters |->
            {t \in {0} : \E i \in DOMAIN order : order[i] = l /\ IsAtPickpoint(i - 1, t, 0)}]

ClusterInit ==
    LET none == [c \in Clusters |-> Interval(StartTime, StartTime)]
    IN  /\ Init
        /\ lastSubTime = [c \in Clusters |-> StartTime]
        /\ neighborTimestep = [c \in Clusters |-> 0]
        /\ derivative = none /\ buffer = none /\ friction = none
        /\ lastCorrectionStepsInterior = [c \in InteriorClusters |-> -1]
        /\ receiverTime = [c \in Clusters |-> StartTime]
        /\ sampled = [c \in Clusters |-> {}]
        /\ iterationStep = Cardinality(Clusters)
        /\ InitialPickpoints

\* handleAdvancedPredictionTimeMessage for each message c pops.  Of several
\* slower neighbours the one processed last decides.
HandlePredictionMessages(c) ==
    LET slower == {n \in Waiting(c) : /\ Head(inbox[<<c, n>>]).kind = "prediction"
                                      /\ MaxTimeStepSize[n] > MaxTimeStepSize[c]}
    IN  IF slower = {} THEN UNCHANGED lastSubTime
        ELSE \E n \in slower :
                lastSubTime' = [lastSubTime EXCEPT ![c] = nct[<<c, n>>].correctionTime]

\* Mutant of ResetBuffers: one slower neighbour that is done suffices.
ResetBuffersOfAnySlower(c) ==
    \/ ct[c].stepsSinceLastSync = 0
    \/ \E n \in Neighbors(c) :
           Rate[n] > Rate[c] /\
               ct[c].stepsSinceLastSync >= Mirror(c, Waiting(c))[n].stepsSinceLastSync

\* predict(): the accumulating buffers start anew unless a slower neighbour
\* has not corrected as far as this cluster.
ResetBuffers(c) ==
    \/ ct[c].stepsSinceLastSync = 0
    \/ \A n \in Neighbors(c) :
           Rate[n] > Rate[c] =>
               ct[c].stepsSinceLastSync <= Mirror(c, Waiting(c))[n].stepsSinceLastSync

\* Mutant of SamplesUntil: the end of the step is sampled as well.
SamplesThrough(t, end) == {s \in t..end : (s - t) % SamplingInterval = 0}

SamplesUntil(t, end) == {s \in t..(end - 1) : (s - t) % SamplingInterval = 0}

\* writeReceivers(): the samples due before the end of the step are taken from
\* its predictor, and are lost when the first of them lies before the step.
WriteReceivers(c, from, end) ==
    LET due == SamplesUntil(receiverTime[c], end)
    IN  /\ receiverTime' = [receiverTime EXCEPT ![c] = @ + SamplingInterval * Cardinality(due)]
        /\ sampled' = [sampled EXCEPT ![c] = @ \cup IF receiverTime[c] >= from THEN due ELSE {}]

PredictData(c) ==
    LET from == ct[c].correctionTime
        dt   == TimeStepSize(c)
    IN  /\ derivative' = [derivative EXCEPT ![c] = Interval(from, Plus(from, dt))]
        /\ buffer' = [buffer EXCEPT ![c] =
                         IF ResetBuffers(c) THEN Interval(from, Plus(from, dt))
                         ELSE Interval(@.from, Plus(@.to, dt))]
        /\ WriteReceivers(c, from, Plus(from, dt))
        /\ UNCHANGED <<neighborTimestep, friction, lastCorrectionStepsInterior, pickpointVars>>

\* Mutant of MayComputeInterior: one comparison too weak.
MayComputeInteriorAgain(c) ==
    ct[c].stepsSinceStart >= lastCorrectionStepsInterior[InteriorOf[c]]

\* correct(): the first cluster of an id to correct a step evaluates friction
\* on the interior fault faces; a copy cluster also evaluates it on its own.
MayComputeInterior(c) ==
    ct[c].stepsSinceStart > lastCorrectionStepsInterior[InteriorOf[c]]

Evaluated(c) ==
    (IF MayComputeInterior(c) THEN {InteriorOf[c]} ELSE {}) \cup ({c} \cap CopyClusters)

\* Mutant of OutputCalls: the calls run past the synchronization time.
UncutOutputCalls(c) ==
    LET from == ct[c].correctionTime
    IN  [k \in 1..CeilDiv(MaxTimeStepSize[c], OutputTimestep) |->
            Interval(from + (k - 1) * OutputTimestep, from + k * OutputTimestep)]

\* The loop of handleDynamicRupture: one call of writePickpointOutput for each
\* OutputTimestep of a whole time step.  When the step is cut, the last calls
\* repeat the synchronization time, with a negative time step.
OutputCalls(c) ==
    LET from == ct[c].correctionTime
    IN  [k \in 1..CeilDiv(MaxTimeStepSize[c], OutputTimestep) |->
            Interval(from + (k - 1) * OutputTimestep,
                     Smaller(from + k * OutputTimestep, syncTime[c]))]

\* iterationStep counts the calls of all layers; those of the interior come first.
WritePickpointOutput(c) ==
    LET calls    == OutputCalls(c)
        first(l) == iterationStep
                        + Len(calls) * Cardinality(Evaluated(c) \ ({l} \cup CopyClusters))
        times(l) == {calls[k].to : k \in {j \in DOMAIN calls :
                        IsAtPickpoint(first(l) + j - 1, calls[j].to, calls[j].to - calls[j].from)}}
    IN  /\ iterationStep' = iterationStep + Len(calls) * Cardinality(Evaluated(c))
        /\ pickpoints' = [l \in Clusters |->
               IF l \in Evaluated(c) THEN pickpoints[l] \cup times(l) ELSE pickpoints[l]]

CorrectData(c) ==
    /\ friction' = [l \in Clusters |->
           IF l \in Evaluated(c)
           THEN Interval(ct[c].correctionTime, Plus(friction[l].to, TimeStepSize(c)))
           ELSE friction[l]]
    /\ lastCorrectionStepsInterior' =
           IF MayComputeInterior(c)
           THEN [lastCorrectionStepsInterior EXCEPT ![InteriorOf[c]] = ct[c].stepsSinceStart]
           ELSE lastCorrectionStepsInterior
    /\ WritePickpointOutput(c)
    /\ UNCHANGED <<neighborTimestep, derivative, buffer, receiverVars>>

\* The largest step of the cluster itself and its neighbours.
LargestTimestep(c) ==
    Max({Smaller(Minus(SyncTimes[epoch], ct[c].correctionTime), MaxTimeStepSize[c])}
        \cup {MaxTimeStepSize[n] : n \in Neighbors(c)})

\* TimeCluster::reset() after AbstractTimeCluster::reset().
ResetData(c) ==
    /\ neighborTimestep' = [neighborTimestep EXCEPT ![c] = LargestTimestep(c)]
    /\ UNCHANGED <<derivative, buffer, friction, lastCorrectionStepsInterior,
                   receiverVars, pickpointVars>>

KeepData == UNCHANGED <<neighborTimestep, derivative, buffer, friction,
                        lastCorrectionStepsInterior, receiverVars, pickpointVars>>

ClusterStep(c) ==
    /\ HandlePredictionMessages(c)
    /\ \/ ResetCluster(c) /\ ResetData(c)
       \/ PredictCluster(c) /\ PredictData(c)
       \/ CorrectCluster(c) /\ CorrectData(c)
       \/ (RestartCluster(c) \/ PollCluster(c) \/ SyncCluster(c)) /\ KeepData

ClusterNext ==
    \/ (AdvanceInTime \/ Finish \/ Over) /\ UNCHANGED dataVars
    \/ \E c \in Clusters : ClusterStep(c)

ClusterSpec == ClusterInit /\ [][ClusterNext]_clusterVars

\* The main thread keeps polling, as in FairSpec.
ClusterFairSpec == ClusterSpec /\ WF_clusterVars(ClusterNext)

----------------------------------------------------------------------------

Corrects(c) == state[c] = "Predicted" /\ state'[c] = "Corrected"

\* The step cluster c corrects.
CorrectedStep(c) == Interval(ct[c].correctionTime, ct'[c].correctionTime)

\* A faster neighbour's buffer holds exactly the corrected step, a neighbour of
\* equal rate has predicted exactly this step, and a slower neighbour's
\* derivatives cover it and are evaluated at the offset they were expanded at
\* and, unless that step was cut, in the time basis of their own step
\* (TimeCluster.cpp:673-704, 786, 844 and 920).
CorrectUsesMatchingData ==
    [][\A c \in Clusters : Corrects(c) =>
          \A n \in Neighbors(c) :
             /\ Rate[n] < Rate[c] => buffer[n] = CorrectedStep(c)
             /\ Rate[n] = Rate[c] => derivative[n] = CorrectedStep(c)
             /\ Rate[n] > Rate[c] =>
                   /\ lastSubTime'[c] = derivative[n].from
                   /\ derivative[n].from <= CorrectedStep(c).from
                   /\ CorrectedStep(c).to <= derivative[n].to
                   /\ derivative[n].to # syncTime[c] =>
                         neighborTimestep[c] = derivative[n].to - derivative[n].from]_clusterVars

\* The friction law of the interior fault faces is evaluated once for every
\* step, whether the interior or the copy cluster corrects first, and when
\* both have predicted that step (TimeCluster.cpp:788-800).
FrictionOncePerStep ==
    [][\A c \in Clusters : Corrects(c) =>
          /\ friction'[InteriorOf[c]] = CorrectedStep(c)
          /\ friction'[InteriorOf[c]] # friction[InteriorOf[c]] =>
                \A k \in Clusters : InteriorOf[k] = InteriorOf[c]
                                       => derivative[k] = CorrectedStep(c)]_clusterVars

\* At a synchronization time, when the receivers are written to disk, those of
\* every cluster have been sampled at the same times: all that lie before it,
\* although clusters step at different rates and cut their last step
\* (TimeCluster.cpp:154-161, Receiver.cpp:121-124 and 140).
ReceiversAreInStep ==
    phase = "idle" /\ epoch > 0 =>
        \A c \in Clusters : sampled[c] =
            {s \in StartTime..(SyncTimes[epoch] - 1) : (s - StartTime) % SamplingInterval = 0}

\* Recorded at every step, the fault output of all layers has the same times at
\* a synchronization: those of the fastest cluster, and each synchronization
\* time, although the layers step at different rates (TimeCluster.cpp:734-747).
FaultOutputsAreInStep ==
    LET phaseTimes(i) ==
            {t \in PhaseStart(i)..SyncTimes[i] :
                (t - PhaseStart(i)) % OutputTimestep = 0 \/ t = SyncTimes[i]}
    IN  phase = "idle" /\ epoch > 0 /\ PrintTimeInterval = 1 =>
            \A l \in Clusters :
                pickpoints[l] = {0} \cup UNION {phaseTimes(i) : i \in 1..epoch}

\* "every printtimeinterval (local) time step" (docs/fault-output.rst:129): the
\* fault output of a layer is recorded within any PrintTimeInterval of its steps.
EveryIntervalIsRecorded ==
    \A l \in Clusters :
        LET span == PrintTimeInterval * MaxTimeStepSize[l]
        IN  \A t \in (StartTime + span)..friction[l].to :
                \E s \in pickpoints[l] : s <= t /\ t < s + span

=============================================================================
