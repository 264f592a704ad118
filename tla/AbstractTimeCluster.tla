------------------------ MODULE AbstractTimeCluster ------------------------
(***************************************************************************)
(* The actor every time cluster of SeisSol is built from: its clock and     *)
(* step counters (ClusterTimes), the copy of each neighbour's counters it   *)
(* keeps (NeighborCluster), one message queue per direction of a connection *)
(* and the handlers of AbstractTimeCluster.  This module has no next-state  *)
(* relation of its own: TimeManager schedules the actors.                   *)
(*                                                                         *)
(* A link <<c, n>> is what cluster c keeps about its neighbour n: the       *)
(* mirror nct[<<c, n>>] and the inbox fed by n.  connect() creates both     *)
(* directions, so Links is symmetric.                                      *)
(***************************************************************************)
EXTENDS Sequences, Doubles

CONSTANTS
    Clusters,          \* the time clusters of a rank
    Links,             \* pairs <<c, n>> of connected clusters
    Rate,              \* timeStepRate of each cluster
    MaxTimeStepSize,   \* maxTimeStepSize of each cluster
    StartTime          \* the time setInitialTimes hands to every cluster

Time == Int

ASSUME LinksAssumption ==
    /\ Links \subseteq Clusters \X Clusters
    /\ \A l \in Links : <<l[2], l[1]>> \in Links /\ l[1] # l[2]

ASSUME RateAssumption ==
    /\ Rate \in [Clusters -> Nat \ {0}]
    /\ MaxTimeStepSize \in [Clusters -> Nat \ {0}]
    /\ StartTime \in Nat

VARIABLES
    state,      \* ActorState of each cluster
    syncTime,   \* the synchronization time each cluster works towards
    ct,         \* ClusterTimes of each cluster
    nct,        \* per link: the ClusterTimes a cluster believes of a neighbour
    inbox       \* per link <<c, n>>: messages from n that c has not popped

actorVars == <<state, syncTime, ct, nct, inbox>>

Neighbors(c) == {n \in Clusters : <<c, n>> \in Links}

ActorState == {"Corrected", "Predicted", "Synced"}

\* The counters of ClusterTimes that messages and guards read.
ClusterTimes == [predictionTime : Time, correctionTime : Time,
                 stepsUntilSync : Int, stepsSinceLastSync : Int,
                 predictionsSinceLastSync : Int, stepsSinceStart : Int]

Message == [kind : {"prediction", "correction"}, time : Time, stepsSinceSync : Int]

----------------------------------------------------------------------------
(* ClusterTimes *)

Smaller(a, b) == IF a < b THEN a ELSE b

NextCorrectionSteps(rate, t) ==
    Smaller(t.stepsSinceLastSync + rate, t.stepsUntilSync)

\* Mutants of TimeStepSize: the last step is not cut, and it is measured from
\* the prediction instead of the correction.
WholeTimeStep(c) == MaxTimeStepSize[c]

StepFromPrediction(c) ==
    Smaller(Minus(syncTime[c], ct[c].predictionTime), MaxTimeStepSize[c])

\* Returns a time step that does not miss the synchronization point.
TimeStepSize(c) ==
    Smaller(Minus(syncTime[c], ct[c].correctionTime), MaxTimeStepSize[c])

\* Steps cluster c needs from oldSync to newSync, counted in units in which c
\* advances by Rate[c] per time step.
StepsUntil(c, oldSync, newSync) ==
    CeilDiv(Rate[c] * Minus(newSync, oldSync), MaxTimeStepSize[c])

----------------------------------------------------------------------------
(* Receiving: one message per neighbour and call *)

Waiting(c) == {n \in Neighbors(c) : inbox[<<c, n>>] # <<>>}

AfterMessage(t, m) ==
    IF m.kind = "prediction"
    THEN [t EXCEPT !.predictionTime = m.time,
                   !.predictionsSinceLastSync = m.stepsSinceSync]
    ELSE [t EXCEPT !.correctionTime = m.time,
                   !.stepsSinceLastSync = m.stepsSinceSync]

\* What c believes of its neighbours once it popped one message from each
\* neighbour in seen.
Mirror(c, seen) ==
    [n \in Neighbors(c) |-> IF n \in seen
                            THEN AfterMessage(nct[<<c, n>>], Head(inbox[<<c, n>>]))
                            ELSE nct[<<c, n>>]]

\* c pops one message from each neighbour in seen, then sends m to those in to.
ProcessAndSend(c, seen, m, to) ==
    /\ nct' = [l \in Links |-> IF l[1] = c THEN Mirror(c, seen)[l[2]] ELSE nct[l]]
    /\ inbox' = [l \in Links |->
                    IF l[1] = c /\ l[2] \in seen THEN Tail(inbox[l])
                    ELSE IF l[2] = c /\ l[1] \in to THEN Append(inbox[l], m)
                    ELSE inbox[l]]

----------------------------------------------------------------------------
(* Guards and messages: own counters t, mirrors m of the neighbours *)

MaySync(t) == t.stepsSinceLastSync >= t.stepsUntilSync

\* Mutant of MayPredict: one comparison too weak.
PredictOneStepEarly(t, m) ==
    \A n \in DOMAIN m : t.predictionsSinceLastSync <= NextCorrectionSteps(Rate[n], m[n])

MayPredict(t, m) ==
    \A n \in DOMAIN m : t.predictionsSinceLastSync < NextCorrectionSteps(Rate[n], m[n])

MayCorrect(t, m) ==
    \A n \in DOMAIN m :
        \/ m[n].stepsUntilSync <= m[n].predictionsSinceLastSync
        \/ t.predictionsSinceLastSync <= m[n].predictionsSinceLastSync

JustBeforeSync(t) == t.stepsUntilSync <= t.predictionsSinceLastSync

\* Mutant of TellPrediction: a prediction that just suffices is not told.
TellPredictionLate(t, m, n) ==
    t.predictionsSinceLastSync > NextCorrectionSteps(Rate[n], m[n])

\* Whether neighbour n is told of a prediction (t, m after that prediction).
TellPrediction(t, m, n) ==
    \/ JustBeforeSync(t)
    \/ t.predictionsSinceLastSync >= NextCorrectionSteps(Rate[n], m[n])

\* Whether neighbour n is told of a correction (t, m after that correction).
TellCorrection(t, m, n) ==
    \/ JustBeforeSync(t)
    \/ t.stepsSinceLastSync >= m[n].predictionsSinceLastSync

----------------------------------------------------------------------------
(* The handlers *)

\* getNextLegalAction() without performing the action it returns; it changes
\* nothing when no message is waiting.
Poll(c, seen) ==
    /\ ProcessAndSend(c, seen, <<>>, {})
    /\ UNCHANGED <<state, syncTime, ct>>

Predict(c, seen) ==
    LET m   == Mirror(c, seen)
        new == [ct[c] EXCEPT !.predictionsSinceLastSync = @ + Rate[c],
                             !.predictionTime = Plus(@, TimeStepSize(c))]
        to  == {n \in Neighbors(c) : TellPrediction(new, m, n)}
    IN  /\ state[c] = "Corrected"
        /\ ~MaySync(ct[c])
        /\ MayPredict(ct[c], m)
        /\ ct' = [ct EXCEPT ![c] = new]
        /\ ProcessAndSend(c, seen, [kind |-> "prediction", time |-> new.predictionTime,
                                    stepsSinceSync |-> new.predictionsSinceLastSync], to)
        /\ state' = [state EXCEPT ![c] = "Predicted"]
        /\ UNCHANGED syncTime

Correct(c, seen) ==
    LET m   == Mirror(c, seen)
        new == [ct[c] EXCEPT !.correctionTime = Plus(@, TimeStepSize(c)),
                             !.stepsSinceLastSync = @ + Rate[c],
                             !.stepsSinceStart = @ + Rate[c]]
        to  == {n \in Neighbors(c) : TellCorrection(new, m, n)}
    IN  /\ state[c] = "Predicted"
        /\ MayCorrect(ct[c], m)
        /\ ct' = [ct EXCEPT ![c] = new]
        /\ ProcessAndSend(c, seen, [kind |-> "correction", time |-> new.correctionTime,
                                    stepsSinceSync |-> new.stepsSinceLastSync], to)
        /\ state' = [state EXCEPT ![c] = "Corrected"]
        /\ UNCHANGED syncTime

Sync(c, seen) ==
    /\ state[c] = "Corrected"
    /\ MaySync(ct[c])
    /\ ProcessAndSend(c, seen, <<>>, {})
    /\ state' = [state EXCEPT ![c] = "Synced"]
    /\ UNCHANGED <<syncTime, ct>>

RestartAfterSync(c, seen) ==
    /\ state[c] = "Synced"
    /\ ct[c].stepsSinceLastSync = 0
    /\ ProcessAndSend(c, seen, <<>>, {})
    /\ state' = [state EXCEPT ![c] = "Corrected"]
    /\ UNCHANGED <<syncTime, ct>>

Cleared(r, steps) ==
    [r EXCEPT !.stepsSinceLastSync = 0, !.predictionsSinceLastSync = 0,
              !.stepsUntilSync = steps]

\* setSyncTime(t) and reset(): the pending messages of the last phase are
\* popped, then every counter since the last synchronization is cleared.
SetSyncTimeAndReset(c, t, seen) ==
    LET steps(k) == StepsUntil(k, ct[c].correctionTime, t)
    IN  /\ syncTime' = [syncTime EXCEPT ![c] = t]
        /\ ct' = [ct EXCEPT ![c] = Cleared(@, steps(c))]
        /\ nct' = [l \in Links |-> IF l[1] = c
                                   THEN Cleared(Mirror(c, seen)[l[2]], steps(l[2]))
                                   ELSE nct[l]]
        /\ inbox' = [l \in Links |-> IF l[1] = c /\ l[2] \in seen THEN Tail(inbox[l])
                                     ELSE inbox[l]]
        /\ UNCHANGED state

\* Constructed clusters after TimeManager::setInitialTimes.
ActorInit ==
    LET fresh == [predictionTime |-> StartTime, correctionTime |-> StartTime,
                  stepsUntilSync |-> 0, stepsSinceLastSync |-> 0,
                  predictionsSinceLastSync |-> 0, stepsSinceStart |-> 0]
    IN  /\ state = [c \in Clusters |-> "Synced"]
        /\ syncTime = [c \in Clusters |-> 0]
        /\ ct = [c \in Clusters |-> fresh]
        /\ nct = [l \in Links |-> fresh]
        /\ inbox = [l \in Links |-> <<>>]

\* Types of the actors' clocks, mirrors and queues.
ActorTypeOK ==
    /\ state \in [Clusters -> ActorState]
    /\ syncTime \in [Clusters -> Time]
    /\ ct \in [Clusters -> ClusterTimes]
    /\ nct \in [Links -> ClusterTimes]
    /\ inbox \in [Links -> Seq(Message)]

=============================================================================
