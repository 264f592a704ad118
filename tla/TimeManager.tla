---------------------------- MODULE TimeManager ----------------------------
(***************************************************************************)
(* One rank: TimeManager::advanceInTime drives the cell clusters through    *)
(* the phases between two synchronization times.  A phase sets the new      *)
(* synchronization time and resets every cluster, restarts every cluster,   *)
(* then lets the clusters act until all are synced.                         *)
(*                                                                         *)
(* All clusters of this module run on the main thread, so a call pops a     *)
(* message of every neighbour that sent one.  The polling loop is left      *)
(* free: any cluster may be polled or may act next, which covers the order  *)
(* by priority and rate the code uses.                                      *)
(***************************************************************************)
EXTENDS Phases

VARIABLES
    phase,      \* where advanceInTime is: "idle" outside of it
    epoch,      \* number of calls of advanceInTime so far
    todo        \* clusters the current for-loop has not reached yet

managerVars == <<phase, epoch, todo>>

vars == <<actorVars, managerVars>>

Init ==
    /\ ActorInit
    /\ phase = "idle"
    /\ epoch = 0
    /\ todo = {}

\* Mutant of AdvanceInTime: called once more after the end.
AdvancePastTheEnd ==
    /\ phase = "idle"
    /\ epoch' = epoch + 1
    /\ phase' = "reset"
    /\ todo' = Clusters
    /\ UNCHANGED actorVars

AdvanceInTime ==
    /\ phase = "idle"
    /\ epoch < Len(SyncTimes)
    /\ epoch' = epoch + 1
    /\ phase' = "reset"
    /\ todo' = Clusters
    /\ UNCHANGED actorVars

\* One iteration of a loop over all clusters; next is the phase after it.
LoopStep(c, next) ==
    /\ c \in todo
    /\ todo' = IF todo = {c} THEN (IF next = "restart" THEN Clusters ELSE {})
               ELSE todo \ {c}
    /\ phase' = IF todo = {c} THEN next ELSE phase
    /\ UNCHANGED epoch

ResetCluster(c) ==
    /\ phase = "reset"
    /\ SetSyncTimeAndReset(c, SyncTimes[epoch], Waiting(c))
    /\ LoopStep(c, "restart")

RestartCluster(c) ==
    /\ phase = "restart"
    /\ RestartAfterSync(c, Waiting(c))
    /\ LoopStep(c, "loop")

PollCluster(c) == phase = "loop" /\ Poll(c, Waiting(c)) /\ UNCHANGED managerVars

PredictCluster(c) == phase = "loop" /\ Predict(c, Waiting(c)) /\ UNCHANGED managerVars

CorrectCluster(c) == phase = "loop" /\ Correct(c, Waiting(c)) /\ UNCHANGED managerVars

SyncCluster(c) == phase = "loop" /\ Sync(c, Waiting(c)) /\ UNCHANGED managerVars

\* Mutant of AllSynced: one synced cluster ends the loop.
OneSynced == \E c \in Clusters : state[c] = "Synced"

AllSynced == \A c \in Clusters : state[c] = "Synced"

Finish ==
    /\ phase = "loop"
    /\ AllSynced
    /\ phase' = "idle"
    /\ UNCHANGED <<actorVars, epoch, todo>>

\* The simulation is over: nothing calls advanceInTime again.
Over == phase = "idle" /\ epoch = Len(SyncTimes) /\ UNCHANGED vars

Step(c) ==
    \/ ResetCluster(c) \/ RestartCluster(c)
    \/ PollCluster(c) \/ PredictCluster(c) \/ CorrectCluster(c) \/ SyncCluster(c)

Next == AdvanceInTime \/ Finish \/ Over \/ \E c \in Clusters : Step(c)

Spec == Init /\ [][Next]_vars

\* The main thread never stops polling: as long as some call would change
\* something, one is made.
FairSpec == Spec /\ WF_vars(Next)

----------------------------------------------------------------------------

\* Types; outside of the calls of advanceInTime no synchronization time is read.
TypeOK ==
    /\ ActorTypeOK
    /\ phase \in {"idle", "reset", "restart", "loop"}
    /\ epoch \in (IF phase = "idle" THEN 0 ELSE 1)..Len(SyncTimes)
    /\ todo \subseteq Clusters

\* What setSyncTime, reset and advanceInTime assert of the actors' states
\* (AbstractTimeCluster.cpp:215-222, TimeManager.cpp:301): a new phase finds
\* every cluster synced and behind the new synchronization time, and a restart
\* finds it synced with its counters cleared.
ManagerAssertions ==
    /\ phase = "reset" => \A c \in todo : /\ state[c] = "Synced"
                                          /\ syncTime[c] < SyncTimes[epoch]
    /\ phase = "restart" => \A c \in todo : /\ state[c] = "Synced"
                                            /\ ct[c].stepsSinceLastSync = 0

\* Messages of one link arrive with increasing times: what processMessages
\* asserts of every message it pops (AbstractTimeCluster.cpp:157 and 162).
MessageTimesIncrease ==
    \A l \in Links : inbox[l] # <<>> =>
        LET m == Head(inbox[l])
        IN  m.time > IF m.kind = "prediction" THEN nct[l].predictionTime
                     ELSE nct[l].correctionTime

\* reset() pops one message per neighbour and asserts that none is left
\* (AbstractTimeCluster.cpp:224-228): a message of the finished phase that
\* survived would be taken for one of the next phase.
ResetLeavesNoMessage ==
    phase = "reset" => \A c \in todo : \A n \in Neighbors(c) : Len(inbox[<<c, n>>]) <= 1

\* After advanceInTime every cluster stands exactly at the synchronization
\* time, whatever part of its last time step had to be cut off
\* (AbstractTimeCluster.cpp:71, ActorState.cpp:75-77).
AllReachSyncTime ==
    phase = "idle" /\ epoch > 0 =>
        \A c \in Clusters : /\ ct[c].correctionTime = SyncTimes[epoch]
                            /\ ct[c].predictionTime = SyncTimes[epoch]

\* Every call of advanceInTime returns (TimeManager.cpp:306-346).
EveryAdvanceReturns == phase # "idle" ~> phase = "idle"

----------------------------------------------------------------------------
(* The clusters implement local time stepping on shared counters. *)

\* A cluster whose reset is still due counts as reset: nothing reads its old
\* counters any more.
Counter(c, n) == IF phase = "reset" /\ c \in todo THEN 0 ELSE n

LTS == INSTANCE LocalTimeStepping WITH
    round     <- epoch,
    predicted <- [c \in Clusters |-> Counter(c, ct[c].predictionsSinceLastSync)],
    corrected <- [c \in Clusters |-> Counter(c, ct[c].stepsSinceLastSync)]

\* Guards evaluated on delayed copies of the neighbours' counters allow no step
\* that the counters themselves would forbid, and every phase is completed.
ImplementsLocalTimeStepping == LTS!LTSFairSpec

=============================================================================
