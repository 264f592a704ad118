------------------------ MODULE TimeManager_proofs ------------------------
(***************************************************************************)
(* Proofs about TimeManager for any set of clusters, any links, rates and   *)
(* time steps, and any synchronization times, in three parts:               *)
(*   - types and assertions, whatever the rounding of the times;            *)
(*   - the clocks, in exact arithmetic: where each cluster stands in the    *)
(*     loops of advanceInTime, and that its times are on the grid there;    *)
(*   - the messages, in exact arithmetic: a cluster never believes its      *)
(*     neighbour to be further than it is, a synchronization finds at most  *)
(*     the last correction unread, and so the clusters implement local      *)
(*     time stepping on shared counters, whatever order they are polled in. *)
(* What one act does to one clock and one link is in Phases_proofs.         *)
(***************************************************************************)
EXTENDS TimeManager, Phases_proofs

\* While a phase runs it is one of those advanceInTime was called for.
LEMMA InAPhase ==
    ASSUME TypeOK
    PROVE  ActorTypeOK /\ (phase # "idle" => epoch \in 1..Len(SyncTimes))
BY DEF TypeOK

\* A loop over the clusters keeps phase, epoch and todo well typed.
LEMMA LoopStepType ==
    ASSUME TypeOK, NEW c \in Clusters, NEW next \in {"restart", "loop"}, LoopStep(c, next)
    PROVE  /\ phase' \in {"idle", "reset", "restart", "loop"}
           /\ epoch = epoch' /\ (phase # "idle" => phase' # "idle")
           /\ todo' \subseteq Clusters
BY DEF LoopStep, TypeOK

\* Constructed clusters are well typed.
LEMMA InitType == Init => TypeOK
<1> SUFFICES ASSUME Init PROVE TypeOK
  OBVIOUS
<1> DEFINE fresh == [predictionTime |-> StartTime, correctionTime |-> StartTime,
                     stepsUntilSync |-> 0, stepsSinceLastSync |-> 0,
                     predictionsSinceLastSync |-> 0, stepsSinceStart |-> 0]
<1>1. fresh \in ClusterTimes
  BY RateAssumption DEF ClusterTimes, Time
<1>2. ActorTypeOK
  BY <1>1 DEF Init, ActorInit, ActorTypeOK, ActorState, Time
<1>3. epoch = 0 /\ phase = "idle" /\ Len(SyncTimes) \in Nat
  BY SyncTimesAssumption DEF Init
<1> QED
  BY <1>2, <1>3 DEF Init, TypeOK

\* Every step keeps the types.
LEMMA NextType == TypeOK /\ [Next]_vars => TypeOK'
<1> SUFFICES ASSUME TypeOK, [Next]_vars PROVE TypeOK'
  OBVIOUS
<1>a. ActorTypeOK
  BY DEF TypeOK
<1>1. CASE AdvanceInTime
  <2>1. epoch + 1 \in 1..Len(SyncTimes)
    BY <1>1, SyncTimesAssumption DEF AdvanceInTime, TypeOK
  <2> QED
    BY <1>1, <2>1 DEF AdvanceInTime, TypeOK, ActorTypeOK, actorVars
<1>2. CASE Finish
  BY <1>2 DEF Finish, TypeOK, ActorTypeOK, actorVars
<1>3. CASE Over
  BY <1>3 DEF Over, TypeOK, ActorTypeOK, vars, actorVars, managerVars
<1>4. ASSUME NEW c \in Clusters, Step(c)
      PROVE  TypeOK'
  <2>1. CASE ResetCluster(c)
    <3>1. SyncTimes[epoch] \in Time
      BY <2>1, SyncTimesAssumption DEF Time, TypeOK, ResetCluster
    <3> QED
      BY <1>a, <2>1, <3>1, ResetType, LoopStepType DEF ResetCluster, TypeOK
  <2>2. CASE RestartCluster(c)
    <3>1. state' \in [Clusters -> ActorState]
      BY <1>a, <2>2 DEF RestartCluster, RestartAfterSync, ActorTypeOK, ActorState
    <3>2. ActorTypeOK'
      BY <1>a, <2>2, <3>1, QuietType DEF RestartCluster, RestartAfterSync
    <3> QED
      BY <2>2, <3>2, LoopStepType DEF RestartCluster, TypeOK
  <2>3. CASE PollCluster(c)
    <3>1. ActorTypeOK'
      BY <1>a, <2>3, QuietType DEF PollCluster, Poll, ActorTypeOK
    <3> QED
      BY <2>3, <3>1 DEF PollCluster, TypeOK, managerVars
  <2>4. CASE PredictCluster(c)
    BY <1>a, <2>4, PredictType DEF PredictCluster, TypeOK, managerVars
  <2>5. CASE CorrectCluster(c)
    BY <1>a, <2>5, CorrectType DEF CorrectCluster, TypeOK, managerVars
  <2>6. CASE SyncCluster(c)
    <3>1. state' \in [Clusters -> ActorState]
      BY <1>a, <2>6 DEF SyncCluster, Sync, ActorTypeOK, ActorState
    <3>2. ActorTypeOK'
      BY <1>a, <2>6, <3>1, QuietType DEF SyncCluster, Sync
    <3> QED
      BY <2>6, <3>2 DEF SyncCluster, TypeOK, managerVars
  <2> QED
    BY <1>4, <2>1, <2>2, <2>3, <2>4, <2>5, <2>6 DEF Step
<1>5. CASE UNCHANGED vars
  BY <1>5 DEF TypeOK, ActorTypeOK, vars, actorVars, managerVars
<1> QED
  BY <1>1, <1>2, <1>3, <1>4, <1>5 DEF Next

\* Type correctness of the clusters and of advanceInTime, for all constants.
THEOREM TypeCorrect == Spec => []TypeOK
BY InitType, NextType, PTL DEF Spec

----------------------------------------------------------------------------
(* The assertions of the phases. *)

LastSync(e) == IF e = 0 THEN 0 ELSE SyncTimes[e]

\* What the loops of advanceInTime have done to cluster c so far.
PhaseOf(c) ==
    /\ syncTime[c] = LastSync(IF phase = "reset" /\ c \in todo THEN epoch - 1 ELSE epoch)
    /\ phase \in {"idle", "reset"} \/ (phase = "restart" /\ c \in todo)
          => state[c] = "Synced"
    /\ (phase = "reset" /\ c \notin todo) \/ (phase = "restart" /\ c \in todo)
          => ct[c].stepsSinceLastSync = 0

PhaseInv == \A c \in Clusters : PhaseOf(c)

\* The synchronization times increase from 0.
LEMMA LastSyncIncreases ==
    ASSUME TypeOK, phase # "idle"
    PROVE  LastSync(epoch - 1) < LastSync(epoch)
<1>1. epoch \in 1..Len(SyncTimes) /\ Len(SyncTimes) \in Nat
  BY SyncTimesAssumption DEF TypeOK
<1>2. SyncTimes[epoch] > IF epoch = 1 THEN StartTime ELSE SyncTimes[epoch - 1]
  BY <1>1, SyncTimesAssumption
<1>3. SyncTimes[epoch] \in Nat /\ (epoch # 1 => SyncTimes[epoch - 1] \in Nat)
  BY <1>1, SyncTimesAssumption
<1>4. CASE epoch = 1
  BY <1>2, <1>3, <1>4, RateAssumption DEF LastSync
<1>5. CASE epoch # 1
  <2>1. epoch - 1 # 0 /\ epoch # 0
    BY <1>1, <1>5
  <2> QED
    BY <1>2, <1>3, <1>5, <2>1 DEF LastSync
<1> QED
  BY <1>4, <1>5

\* In the main loop the restarted clusters change only their own state.
LEMMA LoopPhaseInv ==
    ASSUME PhaseInv, phase = "loop", UNCHANGED <<managerVars, syncTime>>
    PROVE  PhaseInv'
BY DEF PhaseInv, PhaseOf, managerVars, LastSync

\* Resetting c gives it the new synchronization time and clears its counters.
LEMMA ResetPhaseInv ==
    ASSUME TypeOK, PhaseInv, NEW c \in Clusters, ResetCluster(c)
    PROVE  PhaseInv'
<1>1. /\ phase = "reset" /\ c \in todo
      /\ syncTime' = [syncTime EXCEPT ![c] = SyncTimes[epoch]]
      /\ ct'[c].stepsSinceLastSync = 0
      /\ \A k \in Clusters \ {c} : ct'[k] = ct[k]
      /\ state' = state /\ epoch' = epoch
  BY DEF ResetCluster, SetSyncTimeAndReset, LoopStep, Cleared, TypeOK, ActorTypeOK, ClusterTimes
<1>2. syncTime'[c] = LastSync(epoch) /\ epoch # 0
  BY <1>1, SyncTimesAssumption DEF TypeOK, ActorTypeOK, LastSync
<1>3. \A k \in Clusters : state'[k] = "Synced"
  BY <1>1 DEF PhaseInv, PhaseOf
<1>4. CASE todo = {c}
  <2>1. phase' = "restart" /\ todo' = Clusters
    BY <1>4 DEF ResetCluster, LoopStep
  <2>2. ASSUME NEW k \in Clusters
        PROVE  syncTime'[k] = LastSync(epoch) /\ ct'[k].stepsSinceLastSync = 0
    BY <1>1, <1>2, <1>4 DEF PhaseInv, PhaseOf, TypeOK, ActorTypeOK
  <2> QED
    BY <1>1, <1>3, <2>1, <2>2 DEF PhaseInv, PhaseOf, LastSync
<1>5. CASE todo # {c}
  <2>1. phase' = "reset" /\ todo' = todo \ {c}
    BY <1>1, <1>5 DEF ResetCluster, LoopStep
  <2>2. ASSUME NEW k \in Clusters
        PROVE  PhaseOf(k)'
    BY <1>1, <1>2, <1>3, <2>1 DEF PhaseInv, PhaseOf, TypeOK, ActorTypeOK, LastSync
  <2> QED
    BY <2>2 DEF PhaseInv
<1> QED
  BY <1>4, <1>5

\* The phase invariant is inductive.
LEMMA NextPhaseInv == TypeOK /\ PhaseInv /\ [Next]_vars => PhaseInv'
<1> SUFFICES ASSUME TypeOK, PhaseInv, [Next]_vars PROVE PhaseInv'
  OBVIOUS
<1>1. CASE AdvanceInTime
  <2>1. epoch' - 1 = epoch /\ phase' = "reset" /\ todo' = Clusters
    BY <1>1, SyncTimesAssumption DEF AdvanceInTime, TypeOK
  <2>2. phase = "idle" /\ UNCHANGED <<state, syncTime, ct>>
    BY <1>1 DEF AdvanceInTime, actorVars
  <2>3. ASSUME NEW c \in Clusters
        PROVE  PhaseOf(c)'
    <3>1. syncTime[c] = LastSync(epoch) /\ state[c] = "Synced"
      BY <2>2 DEF PhaseInv, PhaseOf
    <3>2. syncTime'[c] = LastSync(epoch' - 1) /\ state'[c] = "Synced"
      BY <2>1, <2>2, <3>1
    <3> QED
      BY <2>1, <3>2 DEF PhaseOf, LastSync
  <2> QED
    BY <2>3 DEF PhaseInv
<1>2. CASE Finish
  BY <1>2 DEF Finish, AllSynced, PhaseInv, PhaseOf, actorVars, LastSync
<1>3. CASE Over
  BY <1>3 DEF Over, vars, actorVars, managerVars, PhaseInv, PhaseOf, LastSync
<1>4. ASSUME NEW c \in Clusters, Step(c)
      PROVE  PhaseInv'
  <2>1. CASE ResetCluster(c)
    BY <2>1, ResetPhaseInv
  <2>2. CASE RestartCluster(c)
    <3>1. /\ phase = "restart" /\ c \in todo /\ epoch' = epoch
          /\ UNCHANGED <<syncTime, ct>>
          /\ \A k \in Clusters \ {c} : state'[k] = state[k]
          /\ \/ phase' = "loop"
             \/ phase' = "restart" /\ todo' = todo \ {c}
      BY <2>2 DEF RestartCluster, RestartAfterSync, LoopStep, TypeOK, ActorTypeOK
    <3> QED
      BY <3>1 DEF PhaseInv, PhaseOf, LastSync
  <2>3. CASE PollCluster(c)
    BY <2>3, LoopPhaseInv DEF PollCluster, Poll
  <2>4. CASE PredictCluster(c)
    BY <2>4, LoopPhaseInv DEF PredictCluster, Predict
  <2>5. CASE CorrectCluster(c)
    BY <2>5, LoopPhaseInv DEF CorrectCluster, Correct
  <2>6. CASE SyncCluster(c)
    BY <2>6, LoopPhaseInv DEF SyncCluster, Sync
  <2> QED
    BY <1>4, <2>1, <2>2, <2>3, <2>4, <2>5, <2>6 DEF Step
<1>5. CASE UNCHANGED vars
  BY <1>5 DEF PhaseInv, PhaseOf, vars, actorVars, managerVars, LastSync
<1> QED
  BY <1>1, <1>2, <1>3, <1>4, <1>5 DEF Next

\* Every assertion of setSyncTime, reset and advanceInTime on the states of the
\* clusters holds, whatever the rounding does to the times.
THEOREM AssertionsHold == Spec => []ManagerAssertions
<1>1. Init => PhaseInv
  BY DEF Init, ActorInit, PhaseInv, PhaseOf, LastSync
<1>2. TypeOK /\ PhaseInv => ManagerAssertions
  BY LastSyncIncreases DEF PhaseInv, PhaseOf, ManagerAssertions, LastSync, TypeOK
<1>3. Spec => []TypeOK
  BY TypeCorrect
<1> QED
  BY <1>1, <1>2, <1>3, NextPhaseInv, PTL DEF Spec

----------------------------------------------------------------------------
(* The clocks *)

InPhase(c) ==
    /\ ClockAt(epoch, c, state[c], ct[c])
    /\ phase = "loop" \/ (phase = "restart" /\ c \notin todo)
          => (state[c] = "Synced" => MaySync(ct[c]))

ClockOf(c) ==
    IF phase = "idle" THEN StandsAt(ct[c], PhaseStart(epoch + 1))
    ELSE IF phase = "reset" /\ c \in todo THEN StandsAt(ct[c], PhaseStart(epoch))
    ELSE InPhase(c)

ClockInv == \A c \in Clusters : ClockOf(c)

\* A cluster the step leaves alone keeps its clock.
LEMMA OtherClock ==
    ASSUME ClockInv, NEW k \in Clusters, phase = "loop", phase' = phase, epoch' = epoch,
           state'[k] = state[k], ct'[k] = ct[k]
    PROVE  ClockOf(k)'
BY DEF ClockInv, ClockOf, InPhase

\* Resetting a cluster, also the last one of the loop, keeps all other clocks.
LEMMA ResetClockInv ==
    ASSUME ExactArithmetic, TypeOK, PhaseInv, ClockInv, NEW c \in Clusters, ResetCluster(c)
    PROVE  ClockInv'
<1>1. /\ phase = "reset" /\ epoch' = epoch /\ state' = state
      /\ \A k \in Clusters \ {c} : ct'[k] = ct[k]
      /\ \/ phase' = "restart" /\ todo' = Clusters /\ todo = {c}
         \/ phase' = "reset" /\ todo' = todo \ {c}
  BY DEF ResetCluster, SetSyncTimeAndReset, LoopStep, TypeOK, ActorTypeOK
<1>2. InPhase(c)'
  <2>1. /\ state[c] = "Synced" /\ StandsAt(ct[c], PhaseStart(epoch))
        /\ SetSyncTimeAndReset(c, SyncTimes[epoch], Waiting(c)) /\ c \in todo
    BY <1>1 DEF ResetCluster, LoopStep, PhaseInv, PhaseOf, ClockInv, ClockOf
  <2>2. ClockAt(epoch, c, state'[c], ct'[c])
    BY <1>1, <2>1, InAPhase, ResetClock
  <2> QED
    BY <1>1, <2>2 DEF InPhase
<1>3. ASSUME NEW k \in Clusters
      PROVE  ClockOf(k)'
  <2>1. CASE k = c
    BY <1>1, <1>2, <2>1 DEF ClockOf
  <2>2. CASE k # c /\ k \in todo
    BY <1>1, <2>2 DEF ClockInv, ClockOf
  <2>3. CASE k # c /\ k \notin todo
    <3>1. InPhase(k)
      BY <1>1, <2>3 DEF ClockInv, ClockOf
    <3>2. InPhase(k)'
      BY <1>1, <2>3, <3>1 DEF InPhase
    <3> QED
      BY <1>1, <2>3, <3>2 DEF ClockOf
  <2> QED
    BY <2>1, <2>2, <2>3
<1> QED
  BY <1>3 DEF ClockInv

\* Restarting a cluster changes its state only.
LEMMA RestartClockInv ==
    ASSUME TypeOK, ClockInv, NEW c \in Clusters, RestartCluster(c)
    PROVE  ClockInv'
<1>1. /\ phase = "restart" /\ epoch' = epoch /\ ct' = ct /\ c \in todo
      /\ state[c] = "Synced" /\ state'[c] = "Corrected"
      /\ \A k \in Clusters \ {c} : state'[k] = state[k]
      /\ \/ phase' = "loop" /\ todo = {c}
         \/ phase' = "restart" /\ todo' = todo \ {c}
  BY DEF RestartCluster, RestartAfterSync, LoopStep, TypeOK, ActorTypeOK
<1>2. ASSUME NEW k \in Clusters
      PROVE  ClockOf(k)'
  <2>1. InPhase(k)
    BY <1>1 DEF ClockInv, ClockOf
  <2>2. InPhase(k)'
    <3>1. k = c => ClockAt(epoch, k, state'[k], ct'[k])
      BY <1>1, <2>1 DEF InPhase, ClockAt
    <3> QED
      BY <1>1, <2>1, <3>1 DEF InPhase
  <2> QED
    BY <1>1, <2>2 DEF ClockOf
<1> QED
  BY <1>2 DEF ClockInv

\* A step of the main loop keeps every clock if it keeps that of its cluster.
LEMMA LoopClockInv ==
    ASSUME ClockInv, NEW c \in Clusters, phase = "loop", UNCHANGED managerVars, InPhase(c)',
           \A k \in Clusters \ {c} : state'[k] = state[k] /\ ct'[k] = ct[k]
    PROVE  ClockInv'
<1>1. ASSUME NEW k \in Clusters
      PROVE  ClockOf(k)'
  <2>1. CASE k = c
    BY <2>1 DEF ClockOf, managerVars
  <2>2. CASE k # c
    BY <2>2, OtherClock DEF managerVars
  <2> QED
    BY <2>1, <2>2
<1> QED
  BY <1>1 DEF ClockInv

\* The clocks stay on the grid.
LEMMA NextClockInv ==
    ASSUME ExactArithmetic, TypeOK, PhaseInv, ClockInv, [Next]_vars
    PROVE  ClockInv'
<1>1. CASE AdvanceInTime
  BY <1>1 DEF AdvanceInTime, ClockInv, ClockOf, actorVars
<1>2. CASE Finish
  <2>1. /\ phase = "loop" /\ phase' = "idle" /\ epoch' = epoch /\ ct' = ct
        /\ \A c \in Clusters : state[c] = "Synced"
    BY <1>2 DEF Finish, AllSynced, actorVars
  <2>2. PhaseStart(epoch + 1) = SyncTimes[epoch]
    BY <2>1, InAPhase, PhaseTimes DEF PhaseStart
  <2>3. ASSUME NEW c \in Clusters
        PROVE  ClockOf(c)'
    <3>1. InPhase(c) /\ MaySync(ct[c])
      BY <2>1 DEF ClockInv, ClockOf, InPhase
    <3>2. ct[c] \in ClusterTimes /\ ClockAt(epoch, c, state[c], ct[c]) /\ state[c] # "Predicted"
      BY <2>1, <3>1 DEF InPhase, TypeOK, ActorTypeOK
    <3>3. StandsAt(ct[c], PhaseStart(epoch + 1))
      BY <2>1, <2>2, <3>1, <3>2, InAPhase, DoneIsOnTime
    <3> QED
      BY <2>1, <3>3 DEF ClockOf
  <2> QED
    BY <2>3 DEF ClockInv
<1>3. CASE UNCHANGED vars
  BY <1>3 DEF vars, actorVars, managerVars, ClockInv, ClockOf, InPhase
<1>4. ASSUME NEW c \in Clusters, Step(c)
      PROVE  ClockInv'
  <2>0. ASSUME phase = "loop"
        PROVE  InPhase(c) /\ syncTime[c] = SyncTimes[epoch]
    <3>1. epoch # 0
      BY <2>0, InAPhase, PhaseTimes
    <3> QED
      BY <2>0, <3>1 DEF ClockInv, ClockOf, PhaseInv, PhaseOf, LastSync
  <2>1. CASE ResetCluster(c)
    BY <2>1, ResetClockInv
  <2>2. CASE RestartCluster(c)
    BY <2>2, RestartClockInv
  <2>3. CASE PollCluster(c)
    BY <2>3, LoopClockInv, <2>0 DEF PollCluster, Poll, InPhase, managerVars
  <2>4. CASE PredictCluster(c)
    <3>1. \A k \in Clusters \ {c} : state'[k] = state[k] /\ ct'[k] = ct[k]
      BY <2>4 DEF PredictCluster, Predict, TypeOK, ActorTypeOK
    <3>2. phase = "loop" /\ Predict(c, Waiting(c)) /\ UNCHANGED managerVars
      BY <2>4 DEF PredictCluster
    <3>3. ClockAt(epoch, c, state'[c], ct'[c]) /\ state'[c] # "Synced"
      <4>1. state'[c] # "Synced"
        BY <3>2 DEF Predict, TypeOK, ActorTypeOK
      <4> QED
        BY <2>0, <3>2, <4>1, InAPhase, PredictClock DEF InPhase
    <3>4. InPhase(c)'
      BY <3>2, <3>3 DEF InPhase, managerVars
    <3> QED
      BY <3>1, <3>2, <3>4, LoopClockInv
  <2>5. CASE CorrectCluster(c)
    <3>1. \A k \in Clusters \ {c} : state'[k] = state[k] /\ ct'[k] = ct[k]
      BY <2>5 DEF CorrectCluster, Correct, TypeOK, ActorTypeOK
    <3>2. phase = "loop" /\ Correct(c, Waiting(c)) /\ UNCHANGED managerVars
      BY <2>5 DEF CorrectCluster
    <3>3. ClockAt(epoch, c, state'[c], ct'[c]) /\ state'[c] # "Synced"
      <4>1. state'[c] # "Synced"
        BY <3>2 DEF Correct, TypeOK, ActorTypeOK
      <4> QED
        BY <2>0, <3>2, <4>1, InAPhase, CorrectClock DEF InPhase
    <3>4. InPhase(c)'
      BY <3>2, <3>3 DEF InPhase, managerVars
    <3> QED
      BY <3>1, <3>2, <3>4, LoopClockInv
  <2>6. CASE SyncCluster(c)
    <3>1. /\ phase = "loop" /\ UNCHANGED managerVars /\ ct' = ct
          /\ state[c] = "Corrected" /\ MaySync(ct[c]) /\ state'[c] = "Synced"
          /\ \A k \in Clusters \ {c} : state'[k] = state[k]
      BY <2>6 DEF SyncCluster, Sync, TypeOK, ActorTypeOK
    <3>2. ClockAt(epoch, c, state'[c], ct'[c])
      BY <2>0, <3>1 DEF InPhase, ClockAt
    <3>3. InPhase(c)'
      BY <3>1, <3>2 DEF InPhase, managerVars
    <3> QED
      BY <3>1, <3>3, LoopClockInv
  <2> QED
    BY <1>4, <2>1, <2>2, <2>3, <2>4, <2>5, <2>6 DEF Step
<1> QED
  BY <1>1, <1>2, <1>3, <1>4 DEF Next, Over

\* In exact arithmetic every call of advanceInTime that returns leaves every
\* cluster exactly at the synchronization time (TimeManager::advanceInTime,
\* ClusterTimes::timeStepSize), for all rates, time steps and neighbourhoods.
THEOREM ClustersReachSyncTime ==
    ASSUME ExactArithmetic
    PROVE  Spec => []AllReachSyncTime
<1>1. Init => ClockInv
  BY DEF Init, ActorInit, ClockInv, ClockOf, StandsAt, PhaseStart
<1>2. Init => PhaseInv
  BY DEF Init, ActorInit, PhaseInv, PhaseOf, LastSync
<1>3. TypeOK /\ PhaseInv /\ ClockInv /\ [Next]_vars => ClockInv'
  BY NextClockInv
<1>4. TypeOK /\ ClockInv => AllReachSyncTime
  <2> SUFFICES ASSUME TypeOK, ClockInv, phase = "idle", epoch > 0, NEW c \in Clusters
               PROVE  StandsAt(ct[c], SyncTimes[epoch])
    BY DEF AllReachSyncTime, StandsAt
  <2>1. PhaseStart(epoch + 1) = SyncTimes[epoch]
    BY SyncTimesAssumption DEF TypeOK, PhaseStart
  <2> QED
    BY <2>1 DEF ClockInv, ClockOf
<1>5. Spec => []TypeOK
  BY TypeCorrect
<1> QED
  BY <1>1, <1>2, <1>3, <1>4, <1>5, NextPhaseInv, PTL DEF Spec

----------------------------------------------------------------------------
(* The messages *)

LinkOf(l) ==
    IF phase = "idle" THEN Settled(nct[l], inbox[l], PhaseStart(epoch + 1))
    ELSE IF phase = "reset" /\ l[1] \in todo THEN Settled(nct[l], inbox[l], PhaseStart(epoch))
    ELSE IF phase = "reset" THEN Fresh(epoch, l[2], nct[l], inbox[l])
    ELSE LinkAt(epoch, l, ct[l[1]], ct[l[2]], nct[l], inbox[l])

LinkInv == \A l \in Links : LinkOf(l)

\* Resetting the clusters one by one, and entering the phase after the last.
LEMMA ResetLinks ==
    ASSUME ExactArithmetic, TypeOK, TypeOK', PhaseInv, PhaseInv', ClockInv, ClockInv', LinkInv,
           NEW c \in Clusters, ResetCluster(c)
    PROVE  LinkInv'
<1>1. /\ phase = "reset" /\ c \in todo /\ UNCHANGED epoch
      /\ \/ phase' = "restart" /\ todo' = Clusters /\ todo = {c}
         \/ phase' = "reset" /\ todo' = todo \ {c}
      /\ \A l \in Links : l[1] # c => nct'[l] = nct[l] /\ inbox'[l] = inbox[l]
  BY DEF ResetCluster, SetSyncTimeAndReset, LoopStep, TypeOK, ActorTypeOK
<1>2. ASSUME NEW l \in Links, l[1] = c \/ l[1] \notin todo
      PROVE  Fresh(epoch, l[2], nct[l], inbox[l])'
  <2>1. CASE l[1] = c
    <3>1. /\ SetSyncTimeAndReset(c, SyncTimes[epoch], Waiting(c))
          /\ StandsAt(ct[c], PhaseStart(epoch))
          /\ Settled(nct[l], inbox[l], PhaseStart(epoch))
      BY <1>1, <2>1 DEF ResetCluster, ClockInv, ClockOf, LinkInv, LinkOf
    <3>2. Fresh(epoch, l[2], nct'[l], inbox'[l])
      BY <2>1, <3>1, InAPhase, ResetLink
    <3> QED
      BY <1>1, <3>2
  <2>2. CASE l[1] # c
    <3>1. Fresh(epoch, l[2], nct[l], inbox[l])
      BY <1>1, <1>2, <2>2 DEF LinkInv, LinkOf
    <3> QED
      BY <1>1, <2>2, <3>1
  <2> QED
    BY <2>1, <2>2
<1>3. CASE phase' = "reset"
  <2>1. ASSUME NEW l \in Links
        PROVE  LinkOf(l)'
    <3>1. CASE l[1] = c \/ l[1] \notin todo
      BY <1>1, <1>2, <1>3, <3>1 DEF LinkOf
    <3>2. CASE l[1] # c /\ l[1] \in todo
      <4>1. Settled(nct[l], inbox[l], PhaseStart(epoch))
        BY <1>1, <3>2 DEF LinkInv, LinkOf
      <4>2. Settled(nct[l], inbox[l], PhaseStart(epoch))'
        BY <1>1, <3>2, <4>1
      <4> QED
        BY <1>1, <1>3, <3>2, <4>2 DEF LinkOf
    <3> QED
      BY <3>1, <3>2
  <2> QED
    BY <2>1 DEF LinkInv
<1>4. CASE phase' = "restart"
  <2>1. todo' = Clusters /\ todo = {c}
    BY <1>1, <1>4
  <2>2. ASSUME NEW k \in Clusters
        PROVE  ct'[k].stepsSinceLastSync = 0 /\ ct'[k].predictionsSinceLastSync = 0
    <3>1. ct'[k].stepsSinceLastSync = 0 /\ state'[k] = "Synced"
      BY <1>4, <2>1 DEF PhaseInv, PhaseOf
    <3>2. InPhase(k)'
      BY <1>4, <2>1 DEF ClockInv, ClockOf
    <3>3. ct'[k].predictionsSinceLastSync = 0 + 0
      BY <3>1, <3>2 DEF InPhase, ClockAt
    <3> QED
      BY <3>1, <3>3
  <2>3. ASSUME NEW l \in Links
        PROVE  LinkOf(l)'
    <3>1. l[1] \in Clusters /\ l[2] \in Clusters
      BY LinkPair
    <3>2. Fresh(epoch, l[2], nct[l], inbox[l])'
      BY <1>2, <2>1, <3>1
    <3>3. Running(epoch, l[2], 0, 0, nct'[l], inbox'[l])
      BY <1>1, <3>1, <3>2, InAPhase, FreshRuns
    <3>4. EndOf(epoch, l[1]) \in Nat \ {0}
      BY <1>1, <3>1, InAPhase, EndOfFacts
    <3>5. ~(0 >= EndOf(epoch, l[1]))
      BY <3>4
    <3>6. LinkAt(epoch, l, ct'[l[1]], ct'[l[2]], nct'[l], inbox'[l])
      BY <2>2, <3>1, <3>3, <3>5 DEF LinkAt
    <3> QED
      BY <1>1, <1>4, <3>6 DEF LinkOf
  <2> QED
    BY <2>3 DEF LinkInv
<1> QED
  BY <1>1, <1>3, <1>4

\* When every cluster is synced every link is settled.
LEMMA FinishLinks ==
    ASSUME ExactArithmetic, TypeOK, ClockInv, LinkInv, Finish
    PROVE  LinkInv'
<1>1. /\ phase = "loop" /\ phase' = "idle" /\ UNCHANGED <<epoch, nct, inbox>>
      /\ \A c \in Clusters : state[c] = "Synced"
  BY DEF Finish, AllSynced, actorVars
<1>2. ASSUME NEW l \in Links
      PROVE  LinkOf(l)'
  <2> DEFINE p == ct[l[2]].predictionsSinceLastSync
  <2>1. /\ l[1] \in Clusters /\ l[2] \in Clusters /\ p \in Int
        /\ nct[l] \in ClusterTimes /\ inbox[l] \in Seq(Message)
        /\ \A k \in Clusters : ct[k].stepsSinceLastSync \in Int
    BY LinkTypes DEF TypeOK
  <2>2. \A k \in Clusters : /\ ct[k].predictionsSinceLastSync = ct[k].stepsSinceLastSync
                             /\ ct[k].stepsSinceLastSync >= EndOf(epoch, k)
    <3> SUFFICES ASSUME NEW k \in Clusters
                 PROVE  /\ ct[k].predictionsSinceLastSync = ct[k].stepsSinceLastSync
                        /\ ct[k].stepsSinceLastSync >= EndOf(epoch, k)
      OBVIOUS
    <3>1. InPhase(k) /\ MaySync(ct[k]) /\ state[k] # "Predicted"
      BY <1>1 DEF ClockInv, ClockOf, InPhase
    <3>2. ct[k].predictionsSinceLastSync = ct[k].stepsSinceLastSync + 0
      BY <3>1 DEF InPhase, ClockAt
    <3> QED
      BY <2>1, <3>1, <3>2 DEF InPhase, ClockAt, MaySync
  <2>3. LinkAt(epoch, l, ct[l[1]], ct[l[2]], nct[l], inbox[l])
    BY <1>1 DEF LinkInv, LinkOf
  <2>4. Running(epoch, l[2], p, p, nct[l], inbox[l]) /\ p >= EndOf(epoch, l[2])
    BY <2>1, <2>2, <2>3 DEF LinkAt
  <2>5. nct[l].predictionsSinceLastSync >= EndOf(epoch, l[2])
    BY <2>1, <2>2, <2>3 DEF LinkAt
  <2>6. Settled(nct[l], inbox[l], SyncTimes[epoch])
    BY <1>1, <2>1, <2>4, <2>5, InAPhase, RunningSettles
  <2>7. PhaseStart(epoch + 1)' = SyncTimes[epoch]
    BY <1>1, InAPhase, PhaseTimes DEF PhaseStart
  <2> QED
    BY <1>1, <2>6, <2>7 DEF LinkOf
<1> QED
  BY <1>2 DEF LinkInv

\* The invariant of the links is kept by every step.
LEMMA NextLinkInv ==
    ASSUME ExactArithmetic, SameUnitStep, TypeOK, TypeOK', PhaseInv, PhaseInv', ClockInv, ClockInv',
           LinkInv, [Next]_vars
    PROVE  LinkInv'
<1>1. CASE AdvanceInTime
  <2>1. /\ phase = "idle" /\ phase' = "reset" /\ epoch' = epoch + 1 /\ todo' = Clusters
        /\ UNCHANGED <<nct, inbox>>
    BY <1>1 DEF AdvanceInTime, actorVars
  <2>2. PhaseStart(epoch + 1) = PhaseStart(epoch)'
    BY <2>1 DEF PhaseStart
  <2> QED
    BY <2>1, <2>2, LinkPair DEF LinkInv, LinkOf
<1>2. CASE Finish
  BY <1>2, FinishLinks
<1>3. CASE UNCHANGED vars
  BY <1>3 DEF vars, actorVars, managerVars, LinkInv, LinkOf
<1>4. ASSUME NEW c \in Clusters, Step(c)
      PROVE  LinkInv'
  <2>1. CASE ResetCluster(c)
    BY <2>1, ResetLinks
  <2>2. ASSUME phase \in {"restart", "loop"}, phase' \in {"restart", "loop"}, epoch' = epoch,
               \A l \in Links : LinkAt(epoch, l, ct[l[1]], ct[l[2]], nct[l], inbox[l]) =>
                                  LinkAt(epoch, l, ct'[l[1]], ct'[l[2]], nct'[l], inbox'[l])
        PROVE  LinkInv'
    BY <2>2 DEF LinkInv, LinkOf
  <2>3. ASSUME phase \in {"restart", "loop"}, phase' \in {"restart", "loop"},
               ProcessAndSend(c, Waiting(c), <<>>, {}), UNCHANGED <<ct, epoch>>
        PROVE  LinkInv'
    <3>1. ASSUME NEW l \in Links, LinkAt(epoch, l, ct[l[1]], ct[l[2]], nct[l], inbox[l])
          PROVE  LinkAt(epoch, l, ct'[l[1]], ct'[l[2]], nct'[l], inbox'[l])
      <4>1. EndOf(epoch, l[2]) \in Int
        BY <2>3, InAPhase, EndOfFacts, LinkPair
      <4>2. LinkAt(epoch, l, ct[l[1]], ct[l[2]], nct'[l], inbox'[l])
        BY <2>3, <3>1, <4>1, InAPhase, QuietLinks
      <4> QED
        BY <2>3, <4>2
    <3> QED
      BY <2>2, <2>3, <3>1
  <2>4. CASE RestartCluster(c)
    BY <2>3, <2>4 DEF RestartCluster, RestartAfterSync, LoopStep
  <2>5. CASE PollCluster(c)
    BY <2>3, <2>5 DEF PollCluster, Poll, managerVars
  <2>6. CASE SyncCluster(c)
    BY <2>3, <2>6 DEF SyncCluster, Sync, managerVars
  <2>7. phase = "loop" => /\ ClockAt(epoch, c, state[c], ct[c])
                          /\ syncTime[c] = SyncTimes[epoch]
    <3>1. phase = "loop" => epoch # 0
      BY InAPhase, PhaseTimes
    <3> QED
      BY <3>1 DEF ClockInv, ClockOf, InPhase, PhaseInv, PhaseOf, LastSync
  <2>8. CASE PredictCluster(c)
    <3>1. phase = "loop" /\ phase' = "loop" /\ Predict(c, Waiting(c)) /\ UNCHANGED managerVars
      BY <2>8 DEF PredictCluster, managerVars
    <3>2. \A l \in Links : LinkAt(epoch, l, ct[l[1]], ct[l[2]], nct[l], inbox[l]) =>
                             LinkAt(epoch, l, ct'[l[1]], ct'[l[2]], nct'[l], inbox'[l])
      BY <2>7, <3>1, InAPhase, PredictLinks
    <3> QED
      BY <2>2, <3>1, <3>2 DEF managerVars
  <2>9. CASE CorrectCluster(c)
    <3>1. phase = "loop" /\ phase' = "loop" /\ Correct(c, Waiting(c)) /\ UNCHANGED managerVars
      BY <2>9 DEF CorrectCluster, managerVars
    <3>2. \A l \in Links : LinkAt(epoch, l, ct[l[1]], ct[l[2]], nct[l], inbox[l]) =>
                             LinkAt(epoch, l, ct'[l[1]], ct'[l[2]], nct'[l], inbox'[l])
      BY <2>7, <3>1, InAPhase, CorrectLinks
    <3> QED
      BY <2>2, <3>1, <3>2 DEF managerVars
  <2> QED
    BY <1>4, <2>1, <2>4, <2>5, <2>6, <2>8, <2>9 DEF Step
<1> QED
  BY <1>1, <1>2, <1>3, <1>4 DEF Next, Over

\* At the end of a phase all clusters have made the steps of all.
DoneInv ==
    phase = "idle" =>
        \A c, d \in Clusters : ct[c].stepsSinceLastSync >= IF epoch = 0 THEN 0 ELSE EndOf(epoch, d)

MessageInv == TypeOK /\ PhaseInv /\ ClockInv /\ LinkInv /\ DoneInv

\* Constructed clusters have sent nothing.
LEMMA InitMessageInv == Init => MessageInv
<1> SUFFICES ASSUME Init PROVE MessageInv
  OBVIOUS
<1>1. TypeOK /\ PhaseInv /\ ClockInv
  BY InitType DEF Init, ActorInit, PhaseInv, PhaseOf, LastSync, ClockInv, ClockOf, StandsAt,
                  PhaseStart
<1>2. LinkInv
  BY DEF Init, ActorInit, LinkInv, LinkOf, Settled, PhaseStart
<1>3. DoneInv
  BY DEF Init, ActorInit, DoneInv
<1> QED
  BY <1>1, <1>2, <1>3 DEF MessageInv

\* advanceInTime returns only when all steps are made.
LEMMA NextDoneInv ==
    ASSUME ExactArithmetic, SameUnitStep, TypeOK, PhaseInv, ClockInv, DoneInv, [Next]_vars
    PROVE  DoneInv'
<1>1. CASE Finish
  <2>1. /\ phase = "loop" /\ UNCHANGED <<epoch, ct>> /\ \A c \in Clusters : state[c] = "Synced"
    BY <1>1 DEF Finish, AllSynced, actorVars
  <2>2. ASSUME NEW c \in Clusters, NEW d \in Clusters
        PROVE  ct[c].stepsSinceLastSync >= EndOf(epoch, d)
    <3>1. InPhase(c) /\ MaySync(ct[c])
      BY <2>1 DEF ClockInv, ClockOf, InPhase
    <3>2. EndOf(epoch, c) = EndOf(epoch, d)
      BY <2>1, InAPhase, SameEnd
    <3> QED
      BY <3>1, <3>2 DEF InPhase, ClockAt, MaySync
  <2>3. epoch # 0
    BY <2>1, InAPhase, PhaseTimes
  <2> QED
    BY <2>1, <2>2, <2>3 DEF DoneInv
<1>2. CASE UNCHANGED vars
  BY <1>2 DEF vars, actorVars, managerVars, DoneInv
<1>3. CASE AdvanceInTime \/ \E c \in Clusters : Step(c)
  <2>1. phase' # "idle"
    BY <1>3 DEF AdvanceInTime, Step, ResetCluster, RestartCluster, LoopStep, PollCluster,
                PredictCluster, CorrectCluster, SyncCluster, managerVars
  <2> QED
    BY <2>1 DEF DoneInv
<1> QED
  BY <1>1, <1>2, <1>3 DEF Next, Over

\* The invariant of the messages is inductive.
LEMMA MessagesInvariant ==
    ASSUME ExactArithmetic, SameUnitStep
    PROVE  Spec => []MessageInv
<1>1. ASSUME MessageInv, [Next]_vars
      PROVE  MessageInv'
  <2>1. TypeOK' /\ PhaseInv'
    BY <1>1, NextType, NextPhaseInv DEF MessageInv
  <2>2. ClockInv'
    BY <1>1, NextClockInv DEF MessageInv
  <2>3. LinkInv'
    BY <1>1, <2>1, <2>2, NextLinkInv DEF MessageInv
  <2>4. DoneInv'
    BY <1>1, NextDoneInv DEF MessageInv
  <2> QED
    BY <2>1, <2>2, <2>3, <2>4 DEF MessageInv
<1> QED
  BY <1>1, InitMessageInv, PTL DEF Spec

\* A reset finds at most one message per neighbour to pop
\* (AbstractTimeCluster::reset), whatever the clusters have told each other in
\* the finished phase.
THEOREM NothingSurvivesReset ==
    ASSUME ExactArithmetic, SameUnitStep
    PROVE  Spec => []ResetLeavesNoMessage
<1>1. MessageInv => ResetLeavesNoMessage
  <2> SUFFICES ASSUME MessageInv, phase = "reset", NEW c \in todo, NEW n \in Neighbors(c)
               PROVE  Len(inbox[<<c, n>>]) <= 1
    BY DEF ResetLeavesNoMessage
  <2>1. <<c, n>> \in Links /\ <<c, n>>[1] = c
    BY DEF Neighbors
  <2>2. Settled(nct[<<c, n>>], inbox[<<c, n>>], PhaseStart(epoch))
    BY <2>1 DEF MessageInv, LinkInv, LinkOf
  <2>3. CASE inbox[<<c, n>>] = <<>>
    <3>1. Len(<<>>) = 0
      OBVIOUS
    <3>2. Len(inbox[<<c, n>>]) = 0
      BY <2>3, <3>1, Zenon
    <3> QED
      BY <3>2
  <2>4. CASE Len(inbox[<<c, n>>]) = 1
    BY <2>4
  <2> QED
    BY <2>2, <2>3, <2>4 DEF Settled
<1> QED
  BY <1>1, MessagesInvariant, PTL

\* Every message is later than what its receiver knows of the sender: the
\* assertions of AbstractTimeCluster::processMessages hold.
THEOREM MessagesComeInOrder ==
    ASSUME ExactArithmetic, SameUnitStep
    PROVE  Spec => []MessageTimesIncrease
<1>1. MessageInv => MessageTimesIncrease
  <2> SUFFICES ASSUME MessageInv, NEW l \in Links, inbox[l] # <<>>
               PROVE  Head(inbox[l]).time >
                         IF Head(inbox[l]).kind = "prediction" THEN nct[l].predictionTime
                         ELSE nct[l].correctionTime
    BY DEF MessageTimesIncrease
  <2> DEFINE m == Head(inbox[l])
             t == nct[l]
             q == inbox[l]
  <2>1. /\ t \in ClusterTimes /\ q \in Seq(Message) /\ m \in Message
        /\ m = q[1] /\ 1 \in 1..Len(q) /\ l[2] \in Clusters
    <3>1. t \in ClusterTimes /\ q \in Seq(Message) /\ l[2] \in Clusters
      BY LinkTypes DEF MessageInv, TypeOK
    <3>2. m \in Message
      BY <3>1, HeadTailProperties
    <3>3. Len(q) \in Nat \ {0} /\ m = q[1]
      BY <3>1, EmptySeq
    <3> QED
      BY <3>1, <3>2, <3>3
  <2>2. LinkOf(l)
    BY DEF MessageInv, LinkInv
  <2>3. ASSUME NEW time, Settled(t, q, time)
        PROVE  m.kind = "correction" /\ m.time > t.correctionTime
    <3>1. m.kind = "correction" /\ m.time = time /\ t.correctionTime < time
      BY <2>3 DEF Settled
    <3>2. m.time \in Int /\ t.correctionTime \in Int
      BY <2>1 DEF Message, ClusterTimes, Time
    <3> QED
      BY <3>1, <3>2
  <2>4. ASSUME phase # "idle", NEW p \in Int, NEW s, Running(epoch, l[2], p, s, t, q)
        PROVE  m.time > IF m.kind = "prediction" THEN t.predictionTime ELSE t.correctionTime
    <3> DEFINE n == l[2]
               P == t.predictionsSinceLastSync
               S == t.stepsSinceLastSync
               v == m.stepsSinceSync
    <3>1. /\ MessageOf(epoch, n, p, s, t, m)
          /\ Reported(epoch, n, p, P, t.predictionTime) /\ Reported(epoch, n, p, S, t.correctionTime)
      BY <2>1, <2>4 DEF Running, MirrorOf, QueueOf
    <3>2. /\ P \in Int /\ S \in Int /\ v \in Int /\ m.time \in Int
          /\ t.predictionTime \in Int /\ t.correctionTime \in Int
          /\ m.kind \in {"prediction", "correction"}
      BY <2>1, LinkTypes DEF MessageInv, TypeOK, Message, ClusterTimes, Time
    <3>3. v <= p /\ OnGrid(epoch, n, m.time, v) /\ n \in Clusters /\ TypeOK
      BY <2>1, <3>1 DEF MessageOf, Reported, MessageInv
    <3>4. ASSUME NEW w \in Int, NEW u \in Int, Reported(epoch, n, p, w, u), w < v
          PROVE  u < m.time
      <4>1. w < EndOf(epoch, n) /\ OnGrid(epoch, n, u, w)
        BY <3>2, <3>3, <3>4 DEF Reported
      <4> QED
        BY <2>4, <3>2, <3>3, <3>4, <4>1, InAPhase, GridTimes
    <3>5. CASE m.kind = "prediction"
      <4>1. P < v
        BY <3>1, <3>2, <3>5 DEF MessageOf, Turn
      <4> QED
        BY <3>1, <3>2, <3>4, <3>5, <4>1
    <3>6. CASE m.kind = "correction"
      <4>1. S < v
        BY <3>1, <3>2, <3>6 DEF MessageOf, Turn
      <4> QED
        BY <3>1, <3>2, <3>4, <3>6, <4>1
    <3> QED
      BY <3>2, <3>5, <3>6
  <2>5. CASE phase = "idle" \/ (phase = "reset" /\ l[1] \in todo)
    BY <2>2, <2>3, <2>5 DEF LinkOf
  <2>6. CASE phase # "idle" /\ ~(phase = "reset" /\ l[1] \in todo)
    <3> DEFINE k == ct[l[2]]
    <3>1. k.predictionsSinceLastSync \in Int
      BY <2>1, LinkTypes DEF MessageInv, TypeOK
    <3>2. Running(epoch, l[2], k.predictionsSinceLastSync, k.stepsSinceLastSync, t, q)
      BY <2>2, <2>6 DEF LinkOf, LinkAt, Fresh
    <3> QED
      BY <2>4, <2>6, <3>1, <3>2
  <2> QED
    BY <2>5, <2>6
<1> QED
  BY <1>1, MessagesInvariant, PTL

----------------------------------------------------------------------------
(* The clusters implement local time stepping on shared counters.  Liveness *)
(* is left to the runs: what is shown here is that no step of a cluster is   *)
(* one that the counters themselves would forbid.                           *)

\* The phase ends where the steps of some cluster do.
LEMMA UntilIsEnd ==
    ASSUME ExactArithmetic, TypeOK, epoch # 0
    PROVE  \E d \in Clusters : LTS!Until = EndOf(epoch, d)
<1> DEFINE d == CHOOSE x \in Clusters : TRUE
<1>1. d \in Clusters
  BY SyncTimesAssumption
<1>2. epoch \in 1..Len(SyncTimes) /\ epoch - 1 \in 0..Len(SyncTimes)
  BY DEF TypeOK
<1>3. SyncTimes[epoch] \in Int /\ PhaseStart(epoch) \in Int
  BY <1>2, SyncTimesAssumption, RateAssumption DEF PhaseStart
<1>4. Minus(SyncTimes[epoch], PhaseStart(epoch)) = SyncTimes[epoch] - PhaseStart(epoch)
  BY <1>3, ExactOperations
<1>5. LTS!Until = StepCounts[epoch]
  BY DEF LTS!Until
<1>6. StepCounts[epoch] = CeilDiv(Rate[d] * (SyncTimes[epoch] - PhaseStart(epoch)), MaxTimeStepSize[d])
  BY <1>2 DEF StepCounts
<1>7. LTS!Until = EndOf(epoch, d)
  BY <1>4, <1>5, <1>6 DEF EndOf, StepsUntil
<1> QED
  BY <1>1, <1>7

\* Within a phase it ends where the steps of every cluster do.
LEMMA UntilOfPhase ==
    ASSUME ExactArithmetic, SameUnitStep, TypeOK, phase # "idle", NEW c \in Clusters
    PROVE  LTS!Until = EndOf(epoch, c)
<1>1. epoch # 0
  BY InAPhase, PhaseTimes
<1> QED
  BY <1>1, InAPhase, UntilIsEnd, SameEnd

\* advanceInTime begins a phase: all steps of the last one are made.
LEMMA AdvanceSimulates ==
    ASSUME ExactArithmetic, TypeOK, DoneInv, AdvanceInTime
    PROVE  LTS!BeginPhase
<1>1. /\ phase = "idle" /\ epoch < Len(SyncTimes) /\ epoch' = epoch + 1
      /\ phase' = "reset" /\ todo' = Clusters
  BY DEF AdvanceInTime
<1>2. Len(StepCounts) = Len(SyncTimes)
  BY SyncTimesAssumption DEF StepCounts
<1>3. ASSUME NEW c \in Clusters
      PROVE  LTS!Done(c)
  <2>1. ct[c].stepsSinceLastSync >= LTS!Until
    <3>1. CASE epoch = 0
      BY <1>1, <3>1 DEF DoneInv, LTS!Until
    <3>2. CASE epoch # 0
      BY <1>1, <3>2, UntilIsEnd DEF DoneInv
    <3> QED
      BY <3>1, <3>2
  <2> QED
    BY <1>1, <2>1 DEF LTS!Done, Counter
<1> QED
  BY <1>1, <1>2, <1>3 DEF LTS!BeginPhase, Counter

\* A reset clears counters that count as cleared already.
LEMMA ResetSimulates ==
    ASSUME TypeOK, NEW c \in Clusters, ResetCluster(c)
    PROVE  UNCHANGED LTS!ltsVars
<1>1. /\ phase = "reset" /\ c \in todo /\ epoch' = epoch
      /\ ct' = [ct EXCEPT ![c] = Cleared(@, StepsUntil(c, ct[c].correctionTime, SyncTimes[epoch]))]
      /\ \/ phase' = "restart" /\ todo = {c}
         \/ phase' = "reset" /\ todo' = todo \ {c}
  BY DEF ResetCluster, SetSyncTimeAndReset, LoopStep
<1>2. ct \in [Clusters -> ClusterTimes]
  BY DEF TypeOK, ActorTypeOK
<1>3. /\ ct'[c].predictionsSinceLastSync = 0 /\ ct'[c].stepsSinceLastSync = 0
      /\ \A k \in Clusters \ {c} : ct'[k] = ct[k]
  BY <1>1, <1>2 DEF Cleared, ClusterTimes
<1>4. ASSUME NEW k \in Clusters
      PROVE  /\ Counter(k, ct[k].predictionsSinceLastSync)' = Counter(k, ct[k].predictionsSinceLastSync)
             /\ Counter(k, ct[k].stepsSinceLastSync)' = Counter(k, ct[k].stepsSinceLastSync)
  <2>1. CASE k = c
    BY <1>1, <1>3, <2>1 DEF Counter
  <2>2. CASE k # c
    BY <1>1, <1>3, <2>2 DEF Counter
  <2> QED
    BY <2>1, <2>2
<1> QED
  BY <1>1, <1>4 DEF LTS!ltsVars

\* Steps outside of the resets that leave the counters alone are not visible.
LEMMA QuietSimulates ==
    ASSUME UNCHANGED <<ct, epoch>>, phase # "reset", phase' # "reset"
    PROVE  UNCHANGED LTS!ltsVars
BY DEF LTS!ltsVars, Counter

\* A cluster that predicts by what it believes may do so by what is true.
LEMMA PredictSimulates ==
    ASSUME ExactArithmetic, SameUnitStep, TypeOK, phase = "loop", LinkInv, NEW c \in Clusters,
           InPhase(c), Predict(c, Waiting(c)), UNCHANGED managerVars
    PROVE  LTS!PredictStep(c)
<1> DEFINE new == [ct[c] EXCEPT !.predictionsSinceLastSync = @ + Rate[c],
                                !.predictionTime = Plus(@, TimeStepSize(c))]
           m == [kind |-> "prediction", time |-> new.predictionTime,
                 stepsSinceSync |-> new.predictionsSinceLastSync]
           to == {n \in Neighbors(c) : TellPrediction(new, Mirror(c, Waiting(c)), n)}
<1>1. /\ state[c] = "Corrected" /\ ~MaySync(ct[c])
      /\ ct' = [ct EXCEPT ![c] = new] /\ ProcessAndSend(c, Waiting(c), m, to)
      /\ UNCHANGED <<phase, epoch, todo>>
  BY DEF Predict, managerVars
<1>2. ActorTypeOK /\ ct \in [Clusters -> ClusterTimes]
  BY DEF TypeOK, ActorTypeOK
<1>3. /\ ct'[c] = new /\ \A k \in Clusters \ {c} : ct'[k] = ct[k]
      /\ new.predictionsSinceLastSync = ct[c].predictionsSinceLastSync + Rate[c]
      /\ new.stepsSinceLastSync = ct[c].stepsSinceLastSync
  BY <1>1, <1>2 DEF ClusterTimes
<1>4. /\ ct[c].stepsUntilSync = LTS!Until
      /\ ct[c].predictionsSinceLastSync = ct[c].stepsSinceLastSync
      /\ ct[c].stepsSinceLastSync \in Int /\ ct[c].stepsUntilSync \in Int
      /\ ~(ct[c].stepsSinceLastSync >= ct[c].stepsUntilSync)
  <2>1. LTS!Until = EndOf(epoch, c)
    BY UntilOfPhase
  <2>2. ct[c].stepsSinceLastSync \in Int /\ ct[c].stepsUntilSync \in Int
    BY <1>2 DEF ClusterTimes
  <2> QED
    BY <1>1, <2>1, <2>2 DEF InPhase, ClockAt, MaySync
<1> HIDE DEF new, m, to
<1>5. ASSUME NEW n \in Clusters, <<c, n>> \in Links
      PROVE  ct[c].predictionsSinceLastSync < ct[n].stepsSinceLastSync + Rate[n]
  <2>1. \A l \in Links : LinkAt(epoch, l, ct[l[1]], ct[l[2]], nct[l], inbox[l])
    BY DEF LinkInv, LinkOf
  <2> QED
    BY <1>2, <1>5, <2>1, PredictIsAllowed
<1>6. LTS!MayPredictNow(c)
  BY <1>5 DEF LTS!MayPredictNow, LTS!Near, Counter
<1>7. ~LTS!Done(c)
  BY <1>4 DEF LTS!Done, Counter
<1>8. UNCHANGED [k \in Clusters |-> Counter(k, ct[k].stepsSinceLastSync)]
  <2>1. \A k \in Clusters : ct'[k].stepsSinceLastSync = ct[k].stepsSinceLastSync
    BY <1>3
  <2> QED
    BY <1>1, <2>1 DEF Counter
<1>9. [k \in Clusters |-> Counter(k, ct[k].predictionsSinceLastSync)]'
         = [[k \in Clusters |-> Counter(k, ct[k].predictionsSinceLastSync)] EXCEPT ![c] = @ + Rate[c]]
  <2>1. \A k \in Clusters \ {c} : ct'[k].predictionsSinceLastSync = ct[k].predictionsSinceLastSync
    BY <1>3
  <2>2. ct'[c].predictionsSinceLastSync = ct[c].predictionsSinceLastSync + Rate[c]
    BY <1>3
  <2> QED
    BY <1>1, <2>1, <2>2 DEF Counter
<1> QED
  BY <1>1, <1>4, <1>6, <1>7, <1>8, <1>9 DEF LTS!PredictStep, Counter

\* A cluster that corrects by what it believes may do so by what is true.
LEMMA CorrectSimulates ==
    ASSUME ExactArithmetic, SameUnitStep, TypeOK, phase = "loop", LinkInv, NEW c \in Clusters,
           InPhase(c), Correct(c, Waiting(c)), UNCHANGED managerVars
    PROVE  LTS!CorrectStep(c)
<1> DEFINE new == [ct[c] EXCEPT !.correctionTime = Plus(@, TimeStepSize(c)),
                                !.stepsSinceLastSync = @ + Rate[c],
                                !.stepsSinceStart = @ + Rate[c]]
           m == [kind |-> "correction", time |-> new.correctionTime,
                 stepsSinceSync |-> new.stepsSinceLastSync]
           to == {n \in Neighbors(c) : TellCorrection(new, Mirror(c, Waiting(c)), n)}
<1>1. /\ state[c] = "Predicted"
      /\ ct' = [ct EXCEPT ![c] = new] /\ ProcessAndSend(c, Waiting(c), m, to)
      /\ UNCHANGED <<phase, epoch, todo>>
  BY DEF Correct, managerVars
<1>2. ActorTypeOK /\ ct \in [Clusters -> ClusterTimes]
  BY DEF TypeOK, ActorTypeOK
<1>3. /\ ct'[c] = new /\ \A k \in Clusters \ {c} : ct'[k] = ct[k]
      /\ new.predictionsSinceLastSync = ct[c].predictionsSinceLastSync
      /\ new.stepsSinceLastSync = ct[c].stepsSinceLastSync + Rate[c]
  BY <1>1, <1>2 DEF ClusterTimes
<1>4. ct[c].predictionsSinceLastSync # ct[c].stepsSinceLastSync
  <2>1. ct[c].stepsSinceLastSync \in Int /\ Rate[c] \in Nat \ {0}
    BY <1>2, RateAssumption DEF ClusterTimes
  <2> QED
    BY <1>1, <2>1 DEF InPhase, ClockAt
<1> HIDE DEF new, m, to
<1>5. ASSUME NEW n \in Clusters, <<c, n>> \in Links
      PROVE  \/ ct[n].predictionsSinceLastSync >= LTS!Until
             \/ ct[c].predictionsSinceLastSync <= ct[n].predictionsSinceLastSync
  <2>1. \A l \in Links : LinkAt(epoch, l, ct[l[1]], ct[l[2]], nct[l], inbox[l])
    BY DEF LinkInv, LinkOf
  <2>2. LTS!Until = EndOf(epoch, n)
    BY UntilOfPhase
  <2> QED
    BY <1>2, <1>5, <2>1, <2>2, CorrectIsAllowed
<1>6. LTS!MayCorrectNow(c)
  BY <1>5 DEF LTS!MayCorrectNow, LTS!Near, Counter
<1>7. UNCHANGED [k \in Clusters |-> Counter(k, ct[k].predictionsSinceLastSync)]
  <2>1. \A k \in Clusters : ct'[k].predictionsSinceLastSync = ct[k].predictionsSinceLastSync
    BY <1>3
  <2> QED
    BY <1>1, <2>1 DEF Counter
<1>8. [k \in Clusters |-> Counter(k, ct[k].stepsSinceLastSync)]'
         = [[k \in Clusters |-> Counter(k, ct[k].stepsSinceLastSync)] EXCEPT ![c] = @ + Rate[c]]
  <2>1. \A k \in Clusters \ {c} : ct'[k].stepsSinceLastSync = ct[k].stepsSinceLastSync
    BY <1>3
  <2>2. ct'[c].stepsSinceLastSync = ct[c].stepsSinceLastSync + Rate[c]
    BY <1>3
  <2> QED
    BY <1>1, <2>1, <2>2 DEF Counter
<1> QED
  BY <1>1, <1>4, <1>6, <1>7, <1>8 DEF LTS!CorrectStep, Counter

\* Constructed clusters are at the start of the abstract run.
LEMMA InitSimulates == Init => LTS!LTSInit
BY DEF Init, ActorInit, LTS!LTSInit, Counter

\* Every step of the clusters is a step on the shared counters, or none.
LEMMA NextSimulates ==
    ASSUME ExactArithmetic, SameUnitStep, MessageInv, [Next]_vars
    PROVE  [LTS!LTSNext]_(LTS!ltsVars)
<1>1. CASE AdvanceInTime
  BY <1>1, AdvanceSimulates DEF MessageInv, LTS!LTSNext
<1>2. CASE Finish
  BY <1>2, QuietSimulates DEF Finish, actorVars
<1>3. CASE UNCHANGED vars
  BY <1>3 DEF vars, actorVars, managerVars, LTS!ltsVars, Counter
<1>4. ASSUME NEW c \in Clusters, Step(c)
      PROVE  [LTS!LTSNext]_(LTS!ltsVars)
  <2>1. phase = "loop" => InPhase(c)
    BY DEF MessageInv, ClockInv, ClockOf
  <2>2. CASE ResetCluster(c)
    BY <2>2, ResetSimulates DEF MessageInv
  <2>3. CASE RestartCluster(c)
    <3>1. UNCHANGED <<ct, epoch>> /\ phase # "reset" /\ phase' # "reset"
      BY <2>3 DEF RestartCluster, RestartAfterSync, LoopStep
    <3> QED
      BY <3>1, QuietSimulates
  <2>4. CASE PollCluster(c) \/ SyncCluster(c)
    <3>1. UNCHANGED <<ct, epoch>> /\ phase # "reset" /\ phase' # "reset"
      BY <2>4 DEF PollCluster, Poll, SyncCluster, Sync, managerVars
    <3> QED
      BY <3>1, QuietSimulates
  <2>5. CASE PredictCluster(c)
    <3>1. LTS!PredictStep(c)
      BY <2>1, <2>5, PredictSimulates DEF MessageInv, PredictCluster
    <3> QED
      BY <3>1 DEF LTS!LTSNext
  <2>6. CASE CorrectCluster(c)
    <3>1. LTS!CorrectStep(c)
      BY <2>1, <2>6, CorrectSimulates DEF MessageInv, CorrectCluster
    <3> QED
      BY <3>1 DEF LTS!LTSNext
  <2> QED
    BY <1>4, <2>2, <2>3, <2>4, <2>5, <2>6 DEF Step
<1> QED
  BY <1>1, <1>2, <1>3, <1>4 DEF Next, Over

\* Clusters that only know what their neighbours told them
\* (AbstractTimeCluster::mayPredict, mayCorrect, processMessages) step as if
\* they read the neighbours' counters: for all clusters, links, rates and
\* synchronization times, and whatever order they are polled in.
THEOREM ClustersImplementLocalTimeStepping ==
    ASSUME ExactArithmetic, SameUnitStep
    PROVE  Spec => LTS!LTSSpec
<1>1. MessageInv /\ [Next]_vars => [LTS!LTSNext]_(LTS!ltsVars)
  BY NextSimulates
<1> QED
  BY <1>1, InitSimulates, MessagesInvariant, PTL DEF Spec, LTS!LTSSpec

----------------------------------------------------------------------------
(* What local time stepping promises holds of the clusters. *)

Pred == [c \in Clusters |-> Counter(c, ct[c].predictionsSinceLastSync)]

Corr == [c \in Clusters |-> Counter(c, ct[c].stepsSinceLastSync)]

\* The counters of cluster c: in whole steps, at most one of them predicted and
\* not corrected, none of them begun after the end of the phase.
WholeSteps(c) ==
    /\ Pred[c] \in Int /\ Corr[c] \in Int /\ Corr[c] >= 0
    /\ Multiple(Corr[c], Rate[c]) /\ Multiple(Pred[c], Rate[c])
    /\ Pred[c] = Corr[c] \/ Pred[c] = Corr[c] + Rate[c]
    /\ Pred[c] = 0 \/ Pred[c] - Rate[c] < LTS!Until

\* The counters of linked clusters c and n: what c has corrected n has predicted,
\* what c has predicted does not overwrite what n still needs.
InStep(c, n) ==
    /\ Corr[c] <= Pred[n] \/ Pred[n] >= LTS!Until
    /\ Pred[c] # Corr[c] => Corr[c] < Corr[n] + Rate[n]

Rules ==
    /\ \A c \in Clusters : WholeSteps(c)
    /\ \A l \in Links : InStep(l[1], l[2])

\* A new phase starts in step.
LEMMA BeginRules ==
    ASSUME LTS!BeginPhase, TypeOK
    PROVE  Rules'
<1>1. \A c \in Clusters : Pred'[c] = 0 /\ Corr'[c] = 0
  BY DEF LTS!BeginPhase, Pred, Corr
<1>2. \A c \in Clusters : Rate[c] \in Nat \ {0}
  BY RateAssumption
<1>3. \A c \in Clusters : Multiple(0, Rate[c])
  BY <1>2, ZeroIsMultiple
<1>4. \A c \in Clusters : WholeSteps(c)'
  BY <1>1, <1>2, <1>3 DEF WholeSteps
<1>5. \A l \in Links : InStep(l[1], l[2])'
  BY <1>1, <1>2, LinkPair DEF InStep
<1> QED
  BY <1>4, <1>5 DEF Rules

\* A prediction keeps the clusters in step.
LEMMA PredictRules ==
    ASSUME NEW c \in Clusters, LTS!PredictStep(c), Rules, LTS!Until \in Int
    PROVE  Rules'
<1>1. /\ Pred[c] = Corr[c] /\ Corr[c] < LTS!Until /\ LTS!Until' = LTS!Until
      /\ \A n \in Clusters : <<c, n>> \in Links => Pred[c] < Corr[n] + Rate[n]
      /\ Corr' = Corr /\ Pred' = [Pred EXCEPT ![c] = @ + Rate[c]]
  <2>1. Corr[c] \in Int
    BY DEF Rules, WholeSteps
  <2> QED
    BY <2>1 DEF LTS!PredictStep, LTS!Done, LTS!MayPredictNow, LTS!Near, LTS!Until, Pred, Corr
<1>2. \A k \in Clusters : Rate[k] \in Nat \ {0}
  BY RateAssumption
<1>3. /\ Pred'[c] = Pred[c] + Rate[c] /\ \A k \in Clusters \ {c} : Pred'[k] = Pred[k]
      /\ \A k \in Clusters : Corr'[k] = Corr[k]
  BY <1>1 DEF Pred
<1>4. ASSUME NEW k \in Clusters
      PROVE  WholeSteps(k)'
  <2>1. WholeSteps(k) /\ WholeSteps(c)
    BY DEF Rules
  <2>2. CASE k = c
    <3>1. Multiple(Pred[c] + Rate[c], Rate[c])
      BY <1>2, <2>1, NextMultiple DEF WholeSteps
    <3>2. Pred[c] \in Int /\ Corr[c] \in Int /\ Corr[c] >= 0 /\ Multiple(Corr[c], Rate[c])
      BY <2>1 DEF WholeSteps
    <3> QED
      BY <1>1, <1>2, <1>3, <2>2, <3>1, <3>2 DEF WholeSteps
  <2>3. CASE k # c
    BY <1>1, <1>3, <2>1, <2>3 DEF WholeSteps
  <2> QED
    BY <2>2, <2>3
<1>5. ASSUME NEW l \in Links
      PROVE  InStep(l[1], l[2])'
  <2> DEFINE x == l[1]
             y == l[2]
  <2>1. /\ x \in Clusters /\ y \in Clusters /\ x # y /\ l = <<x, y>>
        /\ InStep(x, y) /\ WholeSteps(x) /\ WholeSteps(y)
    BY LinkPair DEF Rules
  <2> HIDE DEF x, y
  <2>2. /\ Corr[x] \in Int /\ Corr[y] \in Int /\ Pred[x] \in Int /\ Pred[y] \in Int
        /\ Rate[x] \in Nat /\ Rate[y] \in Nat
    BY <1>2, <2>1 DEF WholeSteps
  <2>3. Corr'[x] <= Pred'[y] \/ Pred'[y] >= LTS!Until
    BY <1>3, <2>1, <2>2 DEF InStep
  <2>4. Pred'[x] # Corr'[x] => Corr'[x] < Corr'[y] + Rate[y]
    BY <1>1, <1>3, <2>1, <2>2 DEF InStep
  <2>5. InStep(x, y)'
    BY <1>1, <2>3, <2>4 DEF InStep
  <2> QED
    BY <2>5 DEF x, y
<1> QED
  BY <1>4, <1>5 DEF Rules

\* A correction keeps the clusters in step.
LEMMA CorrectRules ==
    ASSUME NEW c \in Clusters, LTS!CorrectStep(c), Rules, LTS!Until \in Int
    PROVE  Rules'
<1>1. /\ Pred[c] # Corr[c] /\ LTS!Until' = LTS!Until
      /\ \A n \in Clusters : <<c, n>> \in Links => Pred[n] >= LTS!Until \/ Pred[c] <= Pred[n]
      /\ Pred' = Pred /\ Corr' = [Corr EXCEPT ![c] = @ + Rate[c]]
  BY DEF LTS!CorrectStep, LTS!MayCorrectNow, LTS!Near, LTS!Until, Pred, Corr
<1>2. \A k \in Clusters : Rate[k] \in Nat \ {0}
  BY RateAssumption
<1>3. /\ Corr'[c] = Corr[c] + Rate[c] /\ \A k \in Clusters \ {c} : Corr'[k] = Corr[k]
      /\ \A k \in Clusters : Pred'[k] = Pred[k]
  BY <1>1 DEF Corr
<1>4. ASSUME NEW k \in Clusters
      PROVE  WholeSteps(k)'
  <2>1. WholeSteps(k) /\ WholeSteps(c)
    BY DEF Rules
  <2>2. CASE k = c
    <3>1. Multiple(Corr[c] + Rate[c], Rate[c])
      BY <1>2, <2>1, NextMultiple DEF WholeSteps
    <3>2. /\ Pred[c] \in Int /\ Corr[c] \in Int /\ Corr[c] >= 0 /\ Multiple(Pred[c], Rate[c])
          /\ Pred[c] = 0 \/ Pred[c] - Rate[c] < LTS!Until
          /\ Pred[c] = Corr[c] + Rate[c]
      BY <1>1, <2>1 DEF WholeSteps
    <3> QED
      BY <1>1, <1>2, <1>3, <2>2, <3>1, <3>2 DEF WholeSteps
  <2>3. CASE k # c
    BY <1>1, <1>3, <2>1, <2>3 DEF WholeSteps
  <2> QED
    BY <2>2, <2>3
<1>5. ASSUME NEW l \in Links
      PROVE  InStep(l[1], l[2])'
  <2> DEFINE x == l[1]
             y == l[2]
  <2>1. /\ x \in Clusters /\ y \in Clusters /\ x # y /\ <<x, y>> \in Links
        /\ InStep(x, y) /\ WholeSteps(x) /\ WholeSteps(y)
    BY LinkPair DEF Rules
  <2> HIDE DEF x, y
  <2>2. /\ Corr[x] \in Int /\ Corr[y] \in Int /\ Pred[x] \in Int /\ Pred[y] \in Int
        /\ Rate[x] \in Nat /\ Rate[y] \in Nat
        /\ Pred[x] = Corr[x] \/ Pred[x] = Corr[x] + Rate[x]
    BY <1>2, <2>1 DEF WholeSteps
  <2>3. Corr'[x] <= Pred'[y] \/ Pred'[y] >= LTS!Until
    BY <1>1, <1>3, <2>1, <2>2 DEF InStep
  <2>4. Pred'[x] # Corr'[x] => Corr'[x] < Corr'[y] + Rate[y]
    BY <1>1, <1>3, <2>1, <2>2 DEF InStep
  <2>5. InStep(x, y)'
    BY <1>1, <2>3, <2>4 DEF InStep
  <2> QED
    BY <2>5 DEF x, y
<1> QED
  BY <1>4, <1>5 DEF Rules

\* Every step of the clusters keeps them in step.
LEMMA NextRules ==
    ASSUME ExactArithmetic, SameUnitStep, MessageInv, Rules, [Next]_vars
    PROVE  Rules'
<1>1. CASE LTS!BeginPhase
  BY <1>1, BeginRules DEF MessageInv
<1>2. CASE UNCHANGED LTS!ltsVars
  BY <1>2 DEF LTS!ltsVars, Rules, WholeSteps, InStep, Pred, Corr, LTS!Until
<1>3. ASSUME NEW c \in Clusters, LTS!PredictStep(c) \/ LTS!CorrectStep(c)
      PROVE  Rules'
  <2>1. LTS!Until \in Int
    <3>1. CASE epoch = 0
      BY <3>1 DEF LTS!Until
    <3>2. CASE epoch # 0
      <4>1. PICK d \in Clusters : LTS!Until = EndOf(epoch, d)
        BY <3>2, UntilIsEnd DEF MessageInv
      <4>2. epoch \in 1..Len(SyncTimes)
        BY <3>2 DEF MessageInv, TypeOK
      <4>3. SyncTimes[epoch] \in Int /\ PhaseStart(epoch) \in Int
        BY <4>2, SyncTimesAssumption, RateAssumption DEF PhaseStart
      <4> QED
        BY <4>1, <4>3, StepsUntilType DEF EndOf, Time
    <3> QED
      BY <3>1, <3>2
  <2> QED
    BY <1>3, <2>1, PredictRules, CorrectRules
<1> QED
  BY <1>1, <1>2, <1>3, NextSimulates DEF LTS!LTSNext

\* Constructed clusters are in step.
LEMMA InitRules == Init => Rules
<1> SUFFICES ASSUME Init PROVE Rules
  OBVIOUS
<1>1. \A c \in Clusters : Pred[c] = 0 /\ Corr[c] = 0
  BY DEF Init, ActorInit, Pred, Corr, Counter
<1>2. \A c \in Clusters : Rate[c] \in Nat \ {0}
  BY RateAssumption
<1>3. \A c \in Clusters : Multiple(0, Rate[c])
  BY <1>2, ZeroIsMultiple
<1>4. \A c \in Clusters : WholeSteps(c)
  BY <1>1, <1>2, <1>3 DEF WholeSteps
<1>5. \A l \in Links : InStep(l[1], l[2])
  BY <1>1, <1>2, LinkPair DEF InStep
<1> QED
  BY <1>4, <1>5 DEF Rules

\* No cluster corrects with what a neighbour has not predicted, and none
\* overwrites what a neighbour still needs: the promises of the abstract
\* specification hold of the clusters that exchange messages
\* (AbstractTimeCluster::mayCorrect, mayPredict).
THEOREM ClustersKeepThePromises ==
    ASSUME ExactArithmetic, SameUnitStep
    PROVE  Spec => [](LTS!CorrectedWhatWasPredicted /\ LTS!NoPredictionOverwritten)
<1>1. MessageInv /\ Rules /\ [Next]_vars => Rules'
  BY NextRules
<1>2. Rules => LTS!CorrectedWhatWasPredicted /\ LTS!NoPredictionOverwritten
  <2> SUFFICES ASSUME Rules, NEW c \in Clusters, NEW n \in Clusters, <<c, n>> \in Links
               PROVE  /\ Corr[c] <= Pred[n] \/ Pred[n] >= LTS!Until
                      /\ Pred[c] # Corr[c] => Corr[c] < Corr[n] + Rate[n]
    BY DEF LTS!CorrectedWhatWasPredicted, LTS!NoPredictionOverwritten, LTS!Near, Pred, Corr
  <2>1. InStep(<<c, n>>[1], <<c, n>>[2])
    BY DEF Rules
  <2> QED
    BY <2>1 DEF InStep
<1> QED
  BY <1>1, <1>2, InitRules, MessagesInvariant, PTL DEF Spec

=============================================================================
