------------------------------- MODULE Phases -------------------------------
(***************************************************************************)
(* The phases of the clusters: advanceInTime is called with increasing      *)
(* synchronization times, and the clusters advance from one to the next.    *)
(***************************************************************************)
EXTENDS AbstractTimeCluster

CONSTANT SyncTimes     \* the times advanceInTime is called with, in order

ASSUME SyncTimesAssumption ==
    /\ SyncTimes \in Seq(Nat)
    /\ \A i \in 1..Len(SyncTimes) :
           SyncTimes[i] > IF i = 1 THEN StartTime ELSE SyncTimes[i - 1]
    /\ Clusters # {}

\* The time the i-th phase starts at.
PhaseStart(i) == IF i = 1 THEN StartTime ELSE SyncTimes[i - 1]

\* The unit steps of each phase, those of any cluster.
StepCounts ==
    LET c == CHOOSE x \in Clusters : TRUE
    IN  [i \in 1..Len(SyncTimes) |->
            CeilDiv(Rate[c] * (SyncTimes[i] - PhaseStart(i)), MaxTimeStepSize[c])]

=============================================================================
