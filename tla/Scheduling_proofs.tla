-------------------------- MODULE Scheduling_proofs --------------------------
(***************************************************************************)
(* Proofs about the two schedulers that are small enough to be stated       *)
(* without the clusters' data.  First the abstract local time stepping, for *)
(* every set of clusters, every connection between them and all rates: the  *)
(* data rules that make a correction meaningful.  Then the helper thread:   *)
(* it and the main thread never work on the ghost clusters at once, and     *)
(* advanceInTime returns only when all are synced, whatever the number of   *)
(* ghost clusters and calls.  The two systems share no constant and no      *)
(* variable.                                                                *)
(***************************************************************************)
EXTENDS LocalTimeStepping, HelperThread, TLAPS


\* A cluster is at most one of its own intervals ahead of its correction.
OneIntervalAhead ==
    \A c \in Clusters : predicted[c] \in {corrected[c], corrected[c] + Rate[c]}

LTSInv == LTSTypeOK /\ OneIntervalAhead /\ CorrectedWhatWasPredicted /\ NoPredictionOverwritten

\* The end of a phase is a number of steps.
LEMMA UntilType == LTSTypeOK => Until \in Nat
BY StepCountsAssumption DEF LTSTypeOK, Until

\* Initially nothing is predicted and nothing corrected.
LEMMA LTSInitInv == LTSInit => LTSInv
BY StepCountsAssumption, SMT
   DEF LTSInit, LTSInv, LTSTypeOK, OneIntervalAhead, CorrectedWhatWasPredicted,
       NoPredictionOverwritten, Near, Until

\* A new phase starts from equal counters again.
LEMMA BeginPhaseInv == LTSInv /\ BeginPhase => LTSInv'
BY StepCountsAssumption, SMT
   DEF BeginPhase, LTSInv, LTSTypeOK, OneIntervalAhead, CorrectedWhatWasPredicted,
       NoPredictionOverwritten, Near, Until

\* A prediction overwrites only what every neighbour has corrected with.
LEMMA PredictStepInv ==
    ASSUME NEW c \in Clusters, LTSInv, PredictStep(c)
    PROVE  LTSInv'
<1>0. Until \in Nat /\ Until' = Until
  BY UntilType DEF LTSInv, PredictStep, Until
<1>1. /\ predicted' \in [Clusters -> Nat]
      /\ \A k \in Clusters : predicted'[k] = IF k = c THEN predicted[c] + Rate[c]
                                             ELSE predicted[k]
  <2>1. predicted \in [Clusters -> Nat] /\ predicted[c] + Rate[c] \in Nat
    BY StepCountsAssumption DEF LTSInv, LTSTypeOK
  <2>2. QED BY <2>1 DEF PredictStep
<1>2. LTSTypeOK'
  BY <1>1 DEF LTSInv, LTSTypeOK, PredictStep
<1>3. OneIntervalAhead'
  BY <1>1, StepCountsAssumption DEF LTSInv, LTSTypeOK, OneIntervalAhead, PredictStep
<1>4. CorrectedWhatWasPredicted'
  BY <1>0, <1>1, StepCountsAssumption
     DEF LTSInv, LTSTypeOK, CorrectedWhatWasPredicted, PredictStep, Near
<1>5. NoPredictionOverwritten'
  BY <1>1, StepCountsAssumption
     DEF LTSInv, LTSTypeOK, NoPredictionOverwritten, PredictStep, MayPredictNow, Near
<1>6. QED BY <1>2, <1>3, <1>4, <1>5 DEF LTSInv

\* A correction uses only what every neighbour has predicted.
LEMMA CorrectStepInv ==
    ASSUME NEW c \in Clusters, LTSInv, CorrectStep(c)
    PROVE  LTSInv'
<1>0. Until \in Nat /\ Until' = Until
  BY UntilType DEF LTSInv, CorrectStep, Until
<1>1. /\ corrected' \in [Clusters -> Nat]
      /\ \A k \in Clusters : corrected'[k] = IF k = c THEN corrected[c] + Rate[c]
                                             ELSE corrected[k]
  <2>1. corrected \in [Clusters -> Nat] /\ corrected[c] + Rate[c] \in Nat
    BY StepCountsAssumption DEF LTSInv, LTSTypeOK
  <2>2. QED BY <2>1 DEF CorrectStep
<1>2. predicted[c] = corrected[c] + Rate[c]
  BY DEF LTSInv, OneIntervalAhead, CorrectStep
<1>3. LTSTypeOK'
  BY <1>1 DEF LTSInv, LTSTypeOK, CorrectStep
<1>4. OneIntervalAhead'
  BY <1>1, <1>2, StepCountsAssumption DEF LTSInv, LTSTypeOK, OneIntervalAhead, CorrectStep
<1>5. CorrectedWhatWasPredicted'
  BY <1>0, <1>1, <1>2, StepCountsAssumption
     DEF LTSInv, LTSTypeOK, CorrectedWhatWasPredicted, CorrectStep, MayCorrectNow, Near
<1>6. NoPredictionOverwritten'
  BY <1>1, <1>2, StepCountsAssumption
     DEF LTSInv, LTSTypeOK, NoPredictionOverwritten, CorrectStep, Near
<1>7. QED BY <1>3, <1>4, <1>5, <1>6 DEF LTSInv

\* The invariant is inductive: every reachable state satisfies it.
THEOREM LTSInvariant == LTSSpec => []LTSInv
<1>1. LTSInv /\ [LTSNext]_ltsVars => LTSInv'
  <2> SUFFICES ASSUME LTSInv, [LTSNext]_ltsVars PROVE LTSInv'
    OBVIOUS
  <2>1. CASE BeginPhase
    BY <2>1, BeginPhaseInv
  <2>2. ASSUME NEW c \in Clusters, PredictStep(c) PROVE LTSInv'
    BY <2>2, PredictStepInv
  <2>3. ASSUME NEW c \in Clusters, CorrectStep(c) PROVE LTSInv'
    BY <2>3, CorrectStepInv
  <2>4. CASE UNCHANGED ltsVars
    BY <2>4 DEF ltsVars, LTSInv, LTSTypeOK, OneIntervalAhead,
                CorrectedWhatWasPredicted, NoPredictionOverwritten, Near, Until
  <2>5. QED BY <2>1, <2>2, <2>3, <2>4 DEF LTSNext
<1>2. QED BY LTSInitInv, <1>1, PTL DEF LTSSpec

\* The counters stay natural numbers within the steps of their phase, although a
\* cluster steps by its rate and the last step is cut.
THEOREM LTSTypesHold == LTSSpec => []LTSTypeOK
BY LTSInvariant, PTL DEF LTSInv

\* No cluster corrects an interval that a neighbour has not predicted
\* (AbstractTimeCluster::mayCorrect).
THEOREM OnlyPredictedIsCorrected == LTSSpec => []CorrectedWhatWasPredicted
BY LTSInvariant, PTL DEF LTSInv

\* No cluster overwrites an interval that a neighbour still has to correct with
\* (AbstractTimeCluster::mayPredict).
THEOREM NothingNeededIsOverwritten == LTSSpec => []NoPredictionOverwritten
BY LTSInvariant, PTL DEF LTSInv

-----------------------------------------------------------------------------
\* The helper thread.


AllSynced == \A g \in Names : ghost[g] = "synced"

\* What poll() knows in the middle of its loop.
PollInv ==
    /\ helper = "poll" /\ finished => \A g \in Names : g < at => ghost[g] = "synced"
    /\ helper = "store" /\ finished => AllSynced

\* A finished helper has ended, or will end at its next two tests.
FinishedInv ==
    /\ isFinished /\ main \notin {"reset", "start"} =>
           AllSynced /\ helper \notin {"poll", "store"}
    /\ main \in {"reset", "start"} => helper = "none"
    /\ main \in {"idle", "stop", "join"} => isFinished \/ (helper = "none" /\ AllSynced)

HInv == HelperTypeOK /\ NoActDuringReset /\ PollInv /\ FinishedInv

USE DEF Names

\* The initial state satisfies the invariant.
LEMMA HelperStarts == HelperInit => HInv
<1>1. HelperInit => HelperTypeOK
  <2> SUFFICES ASSUME HelperInit PROVE HelperTypeOK
    OBVIOUS
  <2>1. shouldReset \in BOOLEAN /\ isFinished \in BOOLEAN /\ finished \in BOOLEAN
    BY Zenon DEF HelperInit
  <2>2. calls \in 0..Advances /\ at \in Names
    BY HelperAssumption DEF HelperInit
  <2>3. ghost \in [Names -> {"fresh", "running", "synced"}]
    BY DEF HelperInit
  <2>4. QED
    BY <2>1, <2>2, <2>3, Zenon DEF HelperInit, HelperTypeOK
<1>2. HelperInit => NoActDuringReset /\ PollInv /\ FinishedInv
  BY DEF HelperInit, NoActDuringReset, PollInv, FinishedInv, AllSynced
<1>3. QED
  BY <1>1, <1>2 DEF HInv

\* Every step of the main thread preserves it.
LEMMA MainKeeps ==
    ASSUME HInv, MainNext
    PROVE  HInv'
<1> USE HelperAssumption
        DEF HInv, HelperTypeOK, NoActDuringReset, PollInv, FinishedInv, AllSynced, flags, pollVars
<1>1. CASE AdvanceInTime
  BY <1>1 DEF AdvanceInTime
<1>2. CASE StoreShouldReset
  BY <1>2 DEF StoreShouldReset
<1>3. CASE Join
  BY <1>3 DEF Join
<1>4. CASE ResetGhost
  BY <1>4 DEF ResetGhost
<1>5. CASE Start
  BY <1>5 DEF Start, ClearFlags, joinable
<1>6. CASE KeepPolling
  BY <1>6 DEF KeepPolling, helperVars
<1>7. CASE Return
  BY <1>7 DEF Return
<1>8. CASE Destroy
  BY <1>8 DEF Destroy
<1>9. QED
  BY <1>1, <1>2, <1>3, <1>4, <1>5, <1>6, <1>7, <1>8, MainNext DEF MainNext

\* Every step of the helper thread preserves it.
LEMMA HelperKeeps ==
    ASSUME HInv, HelperThreadNext
    PROVE  HInv'
<1> USE HelperAssumption
        DEF HInv, HelperTypeOK, NoActDuringReset, PollInv, FinishedInv, AllSynced, flags, pollVars
<1>1. CASE LoadShouldReset
  BY <1>1 DEF LoadShouldReset
<1>2. CASE LoadIsFinished
  BY <1>2 DEF LoadIsFinished
<1>3. CASE ActOnGhost
  BY <1>3 DEF ActOnGhost, AfterAct, Conjoin
<1>4. CASE StoreIsFinished
  BY <1>4 DEF StoreIsFinished
<1>5. QED
  BY <1>1, <1>2, <1>3, <1>4, HelperThreadNext DEF HelperThreadNext

\* The invariant holds in every reachable state.
LEMMA HelperInvariant == HelperSpec => []HInv
<1>1. HInv /\ [HelperNext]_helperVars => HInv'
  <2> SUFFICES ASSUME HInv, [HelperNext]_helperVars PROVE HInv'
    OBVIOUS
  <2>1. CASE MainNext
    BY <2>1, MainKeeps
  <2>2. CASE HelperThreadNext
    BY <2>2, HelperKeeps
  <2>3. CASE Over \/ UNCHANGED helperVars
    BY <2>3 DEF Over, helperVars, pollVars, flags, HInv, HelperTypeOK, NoActDuringReset,
                PollInv, FinishedInv, AllSynced
  <2>4. QED
    BY <2>1, <2>2, <2>3 DEF HelperNext
<1>2. QED
  BY <1>1, HelperStarts, PTL DEF HelperSpec

\* The loops of reset() and poll() stay within the ghost clusters, and the flags
\* and the two threads in their states.
THEOREM HelperTypesHold == HelperSpec => []HelperTypeOK
<1>1. HInv => HelperTypeOK
  BY DEF HInv
<1>2. QED
  BY <1>1, HelperInvariant, PTL

\* While the main thread resets, starts or destroys the ghost clusters, the
\* helper thread has ended (CommunicationManager.cpp:75-79).
THEOREM HelperNeverActsDuringReset == HelperSpec => []NoActDuringReset
<1>1. HInv => NoActDuringReset
  BY DEF HInv
<1>2. QED
  BY <1>1, HelperInvariant, PTL

\* advanceInTime returns only when every ghost cluster is synced
\* (HelperThread.cpp:50-52).
THEOREM HelperReturnsWhenSynced == HelperSpec => []ReturnsWhenSynced
<1>1. HInv => ReturnsWhenSynced
  BY DEF HInv, FinishedInv, ReturnsWhenSynced, AllSynced
<1>2. QED
  BY <1>1, HelperInvariant, PTL

=============================================================================
