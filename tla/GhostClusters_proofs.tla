----------------------- MODULE GhostClusters_proofs -----------------------
(***************************************************************************)
(* Several ranks, with ghost clusters that only MPI makes wait: the         *)
(* messages and clocks of each rank, then the requests of each ghost        *)
(* cluster, then what the two ends of each region have sent and received,   *)
(* for all clusters, ranks, rates and synchronization times, in exact       *)
(* arithmetic, and whatever MPI and the helper thread do when.              *)
(***************************************************************************)
EXTENDS GhostClusters, Phases_proofs

\* A ghost cluster has one neighbour, its copy cluster, on the same rank.
LEMMA CopyCluster ==
    ASSUME NEW g \in Ghosts
    PROVE  /\ g \in Clusters /\ CopyOf(g) \in Clusters \ Ghosts
           /\ Neighbors(g) = {CopyOf(g)}
           /\ <<g, CopyOf(g)>> \in Links /\ <<CopyOf(g), g>> \in Links
           /\ RankOf[CopyOf(g)] = RankOf[g]
<1>1. PICK k \in Clusters \ Ghosts : Neighbors(g) = {k}
  BY GhostAssumption
<1>2. CopyOf(g) = k
  BY <1>1 DEF CopyOf
<1>3. <<g, k>> \in Links
  BY <1>1 DEF Neighbors
<1>4. <<k, g>> \in Links
  BY <1>3, LinksAssumption
<1>5. RankOf[g] = RankOf[k]
  BY <1>3, GhostAssumption
<1> QED
  BY <1>1, <1>2, <1>3, <1>4, <1>5, GhostAssumption

\* Links stay on a rank.
LEMMA LinkRank ==
    ASSUME NEW l \in Links
    PROVE  RankOf[l[1]] = RankOf[l[2]] /\ RankOf[l[1]] \in Ranks
BY LinkPair, GhostAssumption

\* What a call pops is waiting.
LEMMA SeenIsWaiting ==
    ASSUME NEW c, NEW seen \in Seen(c)
    PROVE  seen \in SUBSET Waiting(c)
BY DEF Seen

\* What the clusters do with their clocks and messages in a phase.
Act(c, seen) ==
    Poll(c, seen) \/ RestartAfterSync(c, seen) \/ Predict(c, seen) \/ Correct(c, seen) \/ Sync(c, seen)

\* Such a step is one cluster's.
LEMMA ActIsOwn ==
    ASSUME ActorTypeOK, NEW c \in Clusters, NEW seen \in SUBSET Waiting(c), Act(c, seen)
    PROVE  /\ ActorTypeOK' /\ syncTime' = syncTime
           /\ \A k \in Clusters \ {c} : state'[k] = state[k] /\ ct'[k] = ct[k]
<1>1. CASE Poll(c, seen)
  <2>1. ProcessAndSend(c, seen, <<>>, {}) /\ UNCHANGED <<state, syncTime, ct>>
    BY <1>1 DEF Poll
  <2> QED
    BY <2>1, QuietType DEF ActorTypeOK
<1>2. CASE RestartAfterSync(c, seen) \/ Sync(c, seen)
  <2>1. ProcessAndSend(c, seen, <<>>, {}) /\ UNCHANGED <<syncTime, ct>>
    BY <1>2 DEF RestartAfterSync, Sync
  <2>2. state' = [state EXCEPT ![c] = "Synced"] \/ state' = [state EXCEPT ![c] = "Corrected"]
    BY <1>2 DEF RestartAfterSync, Sync
  <2>3. /\ state' \in [Clusters -> ActorState]
        /\ \A k \in Clusters \ {c} : state'[k] = state[k]
    BY <2>2 DEF ActorTypeOK, ActorState
  <2> QED
    BY <2>1, <2>3, QuietType
<1>3. CASE Predict(c, seen)
  BY <1>3, PredictType DEF Predict, ActorTypeOK
<1>4. CASE Correct(c, seen)
  BY <1>4, CorrectType DEF Correct, ActorTypeOK
<1> QED
  BY <1>1, <1>2, <1>3, <1>4 DEF Act

----------------------------------------------------------------------------
(* The clocks *)

\* A step of c keeps its clock, and it does not become synced too early.
LEMMA ActClock ==
    ASSUME ExactArithmetic, ActorTypeOK, NEW e \in 1..Len(SyncTimes), NEW c \in Clusters,
           NEW seen \in SUBSET Waiting(c), Act(c, seen),
           syncTime[c] = SyncTimes[e], ClockAt(e, c, state[c], ct[c])
    PROVE  /\ ClockAt(e, c, state'[c], ct'[c])
           /\ state'[c] = "Synced" =>
                  (state[c] = "Synced" /\ ct'[c] = ct[c]) \/ MaySync(ct'[c])
<1>1. CASE Poll(c, seen)
  BY <1>1 DEF Poll
<1>2. CASE RestartAfterSync(c, seen) \/ Sync(c, seen)
  <2>1. /\ ct' = ct /\ state[c] # "Predicted" /\ state'[c] # "Predicted"
        /\ state'[c] = "Synced" => MaySync(ct[c])
    BY <1>2 DEF RestartAfterSync, Sync, ActorTypeOK
  <2> QED
    BY <2>1 DEF ClockAt
<1>3. CASE Predict(c, seen)
  BY <1>3, PredictClock DEF Predict, ActorTypeOK
<1>4. CASE Correct(c, seen)
  BY <1>4, CorrectClock DEF Correct, ActorTypeOK
<1> QED
  BY <1>1, <1>2, <1>3, <1>4 DEF Act

\* Between two phases a cluster stands at the start of the next.
Rested(c, e) == state[c] = "Synced" /\ StandsAt(ct[c], PhaseStart(e)) /\ MaySync(ct[c])

\* Whether c may be synced because it has not been restarted.
AwaitsRestart(c) ==
    \/ c \in Ghosts
    \/ phase[RankOf[c]] \in {"reset", "barrier"}
    \/ phase[RankOf[c]] = "restart" /\ c \in todo[RankOf[c]]

Working(c) ==
    /\ syncTime[c] = SyncTimes[epoch[RankOf[c]]]
    /\ ClockAt(epoch[RankOf[c]], c, state[c], ct[c])
    /\ phase[RankOf[c]] = "reset" => state[c] = "Synced" /\ ct[c].stepsSinceLastSync = 0
    /\ state[c] = "Synced" =>
           MaySync(ct[c]) \/ (AwaitsRestart(c) /\ ct[c].stepsSinceLastSync = 0)

ToReset(c) == phase[RankOf[c]] = "reset" /\ c \in todo[RankOf[c]]

ClockOf(c) ==
    IF phase[RankOf[c]] = "idle" THEN Rested(c, epoch[RankOf[c]] + 1)
    ELSE IF ToReset(c) THEN Rested(c, epoch[RankOf[c]])
    ELSE Working(c)

ClockInv == \A c \in Clusters : ClockOf(c)

\* A rank that is not idle is in one of the phases.
LEMMA RankInAPhase ==
    ASSUME GhostTypeOK, NEW r \in Ranks, phase[r] # "idle"
    PROVE  epoch[r] \in 1..Len(SyncTimes)
BY SyncTimesAssumption DEF GhostTypeOK

\* The clusters act after the reset, in phases their step does not end.
Runs(c) ==
    /\ phase[RankOf[c]] \in {"barrier", "restart", "loop"}
    /\ epoch' = epoch
    /\ UNCHANGED rankVars \/ RestartNext(RankOf[c], c)

LEMMA ActClockInv ==
    ASSUME ExactArithmetic, GhostTypeOK, ClockInv, NEW c \in Clusters,
           NEW seen \in SUBSET Waiting(c), Act(c, seen), Runs(c)
    PROVE  ClockInv'
<1> DEFINE r == RankOf[c]
<1>1. r \in Ranks /\ ActorTypeOK
  BY GhostAssumption DEF GhostTypeOK
<1>2. epoch[r] \in 1..Len(SyncTimes) /\ Working(c)
  BY <1>1, RankInAPhase DEF Runs, ClockInv, ClockOf, ToReset
<1>3. /\ ClockAt(epoch[r], c, state'[c], ct'[c])
      /\ state'[c] = "Synced" => (state[c] = "Synced" /\ ct'[c] = ct[c]) \/ MaySync(ct'[c])
  BY <1>1, <1>2, ActClock DEF Working
<1>4. /\ syncTime' = syncTime
      /\ \A k \in Clusters \ {c} : state'[k] = state[k] /\ ct'[k] = ct[k]
  BY <1>1, ActIsOwn
<1>5. CASE UNCHANGED rankVars
  <2>1. UNCHANGED <<phase, epoch, todo>>
    BY <1>5 DEF rankVars
  <2>2. ClockOf(c)'
    BY <1>2, <1>3, <1>4, <2>1 DEF Runs, ClockOf, ToReset, Working, AwaitsRestart
  <2>3. ASSUME NEW k \in Clusters \ {c}
        PROVE  ClockOf(k)'
    BY <1>4, <2>1 DEF ClockInv, ClockOf, ToReset, Rested, Working, AwaitsRestart
  <2> QED
    BY <2>2, <2>3 DEF ClockInv
<1>6. CASE RestartNext(r, c)
  <2>1. /\ phase[r] = "restart" /\ epoch' = epoch
        /\ phase'[r] \in {"restart", "loop"} /\ (phase'[r] = "loop" => todo[r] = {c})
        /\ todo'[r] = todo[r] \ {c}
        /\ \A s \in Ranks \ {r} : phase'[s] = phase[s] /\ todo'[s] = todo[s]
    BY <1>1, <1>6 DEF RestartNext, GhostTypeOK
  <2>2. state'[c] = "Corrected"
    BY <1>1, <1>6 DEF RestartNext, RestartAfterSync, ActorTypeOK
  <2>3. ClockOf(c)'
    BY <1>2, <1>3, <1>4, <2>1, <2>2 DEF ClockOf, ToReset, Working
  <2>4. ASSUME NEW k \in Clusters \ {c}
        PROVE  ClockOf(k)'
    <3>1. ClockOf(k) /\ RankOf[k] \in Ranks
      BY GhostAssumption DEF ClockInv
    <3>2. CASE RankOf[k] = r
      <4>1. Working(k) /\ (AwaitsRestart(k) => AwaitsRestart(k)')
        BY <2>1, <3>1, <3>2 DEF ClockOf, ToReset, AwaitsRestart
      <4> QED
        BY <1>4, <2>1, <3>2, <4>1 DEF ClockOf, ToReset, Working
    <3>3. CASE RankOf[k] # r
      BY <1>4, <2>1, <3>1, <3>3 DEF ClockOf, ToReset, Rested, Working, AwaitsRestart
    <3> QED
      BY <3>2, <3>3
  <2> QED
    BY <2>3, <2>4 DEF ClockInv
<1> QED
  BY <1>5, <1>6 DEF Runs

\* Resetting a cluster.
LEMMA ResetClockInv ==
    ASSUME ExactArithmetic, GhostTypeOK, ClockInv, NEW r \in Ranks, NEW c \in Own(r),
           ResetNext(r, c)
    PROVE  ClockInv'
<1>1. c \in Clusters /\ RankOf[c] = r /\ ActorTypeOK
  BY GhostAssumption DEF Own, Cells, GhostsOf, GhostTypeOK
<1>2. /\ phase[r] = "reset" /\ c \in todo[r] /\ UNCHANGED <<phase, epoch, state>>
      /\ SetSyncTimeAndReset(c, SyncTimes[epoch[r]], Waiting(c))
      /\ todo' = [todo EXCEPT ![r] = @ \ {c}]
  BY DEF ResetNext, MayBeNext, SetSyncTimeAndReset
<1>3. todo'[r] = todo[r] \ {c} /\ \A s \in Ranks \ {r} : todo'[s] = todo[s]
  BY <1>2 DEF GhostTypeOK
<1>4. /\ syncTime'[c] = SyncTimes[epoch[r]]
      /\ \A k \in Clusters \ {c} : syncTime'[k] = syncTime[k] /\ ct'[k] = ct[k]
  BY <1>1, <1>2 DEF SetSyncTimeAndReset, ActorTypeOK
<1>5. epoch[r] \in 1..Len(SyncTimes) /\ Rested(c, epoch[r])
  BY <1>1, <1>2, RankInAPhase DEF ClockInv, ClockOf, ToReset
<1>6. ClockAt(epoch[r], c, state'[c], ct'[c]) /\ ct'[c].stepsSinceLastSync = 0
  BY <1>1, <1>2, <1>5, ResetClock DEF Rested
<1>7. ClockOf(c)'
  BY <1>1, <1>2, <1>3, <1>4, <1>5, <1>6 DEF ClockOf, ToReset, Rested, Working, AwaitsRestart
<1>8. ASSUME NEW k \in Clusters \ {c}
      PROVE  ClockOf(k)'
  <2>1. ClockOf(k) /\ RankOf[k] \in Ranks /\ (k \in todo'[RankOf[k]] <=> k \in todo[RankOf[k]])
    BY <1>3, GhostAssumption DEF ClockInv
  <2> QED
    BY <1>2, <1>4, <2>1 DEF ClockOf, ToReset, Rested, Working, AwaitsRestart
<1> QED
  BY <1>7, <1>8 DEF ClockInv

----------------------------------------------------------------------------
(* The messages *)

\* A step of c keeps what holds of the links of its phase.
LEMMA ActLinks ==
    ASSUME ExactArithmetic, SameUnitStep, ActorTypeOK, NEW e \in 1..Len(SyncTimes),
           NEW c \in Clusters, NEW seen \in SUBSET Waiting(c), Act(c, seen),
           syncTime[c] = SyncTimes[e], ClockAt(e, c, state[c], ct[c]),
           NEW l \in Links, LinkAt(e, l, ct[l[1]], ct[l[2]], nct[l], inbox[l])
    PROVE  LinkAt(e, l, ct'[l[1]], ct'[l[2]], nct'[l], inbox'[l])
<1>1. CASE Poll(c, seen) \/ RestartAfterSync(c, seen) \/ Sync(c, seen)
  <2>1. ProcessAndSend(c, seen, <<>>, {}) /\ ct' = ct
    BY <1>1 DEF Poll, RestartAfterSync, Sync
  <2>2. EndOf(e, l[2]) \in Int
    BY EndOfFacts, LinkPair
  <2>3. LinkAt(e, l, ct[l[1]], ct[l[2]], nct'[l], inbox'[l])
    BY <2>1, <2>2, QuietLinks
  <2> QED
    BY <2>1, <2>3
<1>2. CASE Predict(c, seen)
  BY <1>2, PredictLinks
<1>3. CASE Correct(c, seen)
  BY <1>3, CorrectLinks
<1> QED
  BY <1>1, <1>2, <1>3 DEF Act

\* It leaves the links of other clusters alone.
LEMMA ActFarLinks ==
    ASSUME NEW c \in Clusters, NEW seen, Act(c, seen), NEW l \in Links, l[1] # c, l[2] # c
    PROVE  nct'[l] = nct[l] /\ inbox'[l] = inbox[l]
<1>1. PICK m, to : ProcessAndSend(c, seen, m, to)
  BY Zenon DEF Act, Poll, RestartAfterSync, Sync, Predict, Correct
<1> QED
  BY <1>1, LinksAfter

LinkOf(l) ==
    LET e == epoch[RankOf[l[1]]]
    IN  IF phase[RankOf[l[1]]] = "idle" THEN Settled(nct[l], inbox[l], PhaseStart(e + 1))
        ELSE IF ToReset(l[1]) THEN Settled(nct[l], inbox[l], PhaseStart(e))
        ELSE IF phase[RankOf[l[1]]] = "reset" THEN Fresh(e, l[2], nct[l], inbox[l])
        ELSE LinkAt(e, l, ct[l[1]], ct[l[2]], nct[l], inbox[l])

LinkInv == \A l \in Links : LinkOf(l)

LEMMA ActLinkInv ==
    ASSUME ExactArithmetic, SameUnitStep, GhostTypeOK, ClockInv, LinkInv, NEW c \in Clusters,
           NEW seen \in SUBSET Waiting(c), Act(c, seen), Runs(c)
    PROVE  LinkInv'
<1> DEFINE r == RankOf[c]
<1>1. r \in Ranks /\ ActorTypeOK
  BY GhostAssumption DEF GhostTypeOK
<1>2. epoch[r] \in 1..Len(SyncTimes) /\ Working(c)
  BY <1>1, RankInAPhase DEF Runs, ClockInv, ClockOf, ToReset
<1>3. /\ epoch' = epoch /\ phase[r] \in {"barrier", "restart", "loop"}
      /\ phase'[r] \in {"barrier", "restart", "loop"}
      /\ \A s \in Ranks \ {r} : phase'[s] = phase[s] /\ todo'[s] = todo[s]
  BY <1>1 DEF Runs, RestartNext, rankVars, GhostTypeOK
<1>4. ASSUME NEW l \in Links
      PROVE  LinkOf(l)'
  <2>1. /\ l[1] \in Clusters /\ l[2] \in Clusters /\ RankOf[l[1]] = RankOf[l[2]]
        /\ RankOf[l[1]] \in Ranks /\ LinkOf(l)
    BY LinkPair, LinkRank DEF LinkInv
  <2>2. CASE RankOf[l[1]] = r
    <3>1. LinkAt(epoch[r], l, ct[l[1]], ct[l[2]], nct[l], inbox[l])
      BY <1>3, <2>1, <2>2 DEF LinkOf, ToReset
    <3>2. LinkAt(epoch[r], l, ct'[l[1]], ct'[l[2]], nct'[l], inbox'[l])
      BY <1>1, <1>2, <3>1, ActLinks DEF Working
    <3> QED
      BY <1>3, <2>2, <3>2 DEF LinkOf, ToReset
  <2>3. CASE RankOf[l[1]] # r
    <3>1. nct'[l] = nct[l] /\ inbox'[l] = inbox[l]
      BY <2>1, <2>3, ActFarLinks
    <3>2. ct'[l[1]] = ct[l[1]] /\ ct'[l[2]] = ct[l[2]]
      BY <1>1, <2>1, <2>3, ActIsOwn
    <3> QED
      BY <1>3, <2>1, <2>3, <3>1, <3>2 DEF LinkOf, ToReset
  <2> QED
    BY <2>2, <2>3
<1> QED
  BY <1>4 DEF LinkInv

\* Resetting a cluster reads its links to the end and sends nothing.
LEMMA ResetLinkInv ==
    ASSUME ExactArithmetic, GhostTypeOK, ClockInv, LinkInv, NEW r \in Ranks, NEW c \in Own(r),
           ResetNext(r, c)
    PROVE  LinkInv'
<1>1. c \in Clusters /\ RankOf[c] = r /\ ActorTypeOK
  BY GhostAssumption DEF Own, Cells, GhostsOf, GhostTypeOK
<1>2. /\ phase[r] = "reset" /\ c \in todo[r] /\ UNCHANGED <<phase, epoch, state>>
      /\ SetSyncTimeAndReset(c, SyncTimes[epoch[r]], Waiting(c))
      /\ todo' = [todo EXCEPT ![r] = @ \ {c}]
  BY DEF ResetNext, MayBeNext, SetSyncTimeAndReset
<1>3. todo'[r] = todo[r] \ {c} /\ \A s \in Ranks \ {r} : todo'[s] = todo[s]
  BY <1>2 DEF GhostTypeOK
<1>4. StandsAt(ct[c], PhaseStart(epoch[r]))
  BY <1>1, <1>2 DEF ClockInv, ClockOf, ToReset, Rested
<1>5. \A k \in Clusters \ {c} : ct'[k] = ct[k]
  BY <1>1, <1>2 DEF SetSyncTimeAndReset, ActorTypeOK
<1>6. ASSUME NEW l \in Links
      PROVE  LinkOf(l)'
  <2>1. /\ l[1] \in Clusters /\ l[2] \in Clusters /\ RankOf[l[1]] = RankOf[l[2]]
        /\ RankOf[l[1]] \in Ranks /\ LinkOf(l)
    BY LinkPair, LinkRank DEF LinkInv
  <2>2. CASE l[1] = c
    <3>1. Settled(nct[l], inbox[l], PhaseStart(epoch[r]))
      BY <1>1, <1>2, <2>1, <2>2 DEF LinkOf, ToReset
    <3>2. Fresh(epoch[r], l[2], nct'[l], inbox'[l])
      BY <1>1, <1>2, <1>4, <2>2, <3>1, ResetLink
    <3> QED
      BY <1>1, <1>2, <1>3, <2>2, <3>2 DEF LinkOf, ToReset
  <2>3. CASE l[1] # c
    <3>1. nct'[l] = nct[l] /\ inbox'[l] = inbox[l]
      BY <1>2, <2>3 DEF SetSyncTimeAndReset
    <3>2. CASE RankOf[l[1]] = r
      <4>1. l[1] \in todo'[r] <=> l[1] \in todo[r]
        BY <1>3, <2>3
      <4> QED
        BY <1>2, <2>1, <3>1, <3>2, <4>1 DEF LinkOf, ToReset
    <3>3. CASE RankOf[l[1]] # r
      <4>1. ct'[l[1]] = ct[l[1]] /\ ct'[l[2]] = ct[l[2]]
        BY <1>1, <1>5, <2>1, <3>3
      <4> QED
        BY <1>2, <1>3, <2>1, <3>1, <3>3, <4>1 DEF LinkOf, ToReset
    <3> QED
      BY <3>2, <3>3
  <2> QED
    BY <2>2, <2>3
<1> QED
  BY <1>6 DEF LinkInv

\* When the clusters of a rank are reset, nothing of the phase has been told.
LEMMA BarrierLinkInv ==
    ASSUME ExactArithmetic, GhostTypeOK, ClockInv, LinkInv, NEW r \in Ranks, EnterBarrier(r)
    PROVE  LinkInv'
<1>1. /\ phase[r] = "reset" /\ todo[r] = {} /\ UNCHANGED <<actorVars, epoch, todo>>
      /\ phase'[r] = "barrier" /\ \A s \in Ranks \ {r} : phase'[s] = phase[s]
  BY DEF EnterBarrier, GhostTypeOK
<1>2. epoch[r] \in 1..Len(SyncTimes)
  BY <1>1, RankInAPhase
<1>3. ASSUME NEW l \in Links
      PROVE  LinkOf(l)'
  <2>1. /\ l[1] \in Clusters /\ l[2] \in Clusters /\ RankOf[l[1]] = RankOf[l[2]]
        /\ RankOf[l[1]] \in Ranks /\ LinkOf(l)
    BY LinkPair, LinkRank DEF LinkInv
  <2>2. CASE RankOf[l[1]] = r
    <3>1. Fresh(epoch[r], l[2], nct[l], inbox[l])
      BY <1>1, <2>1, <2>2 DEF LinkOf, ToReset
    <3>2. ASSUME NEW k \in {l[1], l[2]}
          PROVE  ct[k].stepsSinceLastSync = 0 /\ ct[k].predictionsSinceLastSync = 0
      <4>1. Working(k) /\ RankOf[k] = r
        BY <1>1, <2>1, <2>2 DEF ClockInv, ClockOf, ToReset
      <4> QED
        BY <1>1, <4>1 DEF Working, ClockAt
    <3>3. Running(epoch[r], l[2], 0, 0, nct[l], inbox[l]) /\ EndOf(epoch[r], l[1]) > 0
      BY <1>2, <2>1, <3>1, FreshRuns, EndOfFacts
    <3>4. EndOf(epoch[r], l[1]) \in Nat
      BY <1>2, <2>1, EndOfFacts
    <3>5. LinkAt(epoch[r], l, ct[l[1]], ct[l[2]], nct[l], inbox[l])
      BY <3>2, <3>3, <3>4 DEF LinkAt
    <3> QED
      BY <1>1, <2>2, <3>5 DEF LinkOf, ToReset, actorVars
  <2>3. CASE RankOf[l[1]] # r
    BY <1>1, <2>1, <2>3 DEF LinkOf, ToReset, actorVars
  <2> QED
    BY <2>2, <2>3
<1> QED
  BY <1>3 DEF LinkInv

\* A rank whose clusters are synced has made all steps, its ghost clusters too:
\* their copy cluster has heard of their last prediction.
LEMMA AllStepsAreMade ==
    ASSUME ExactArithmetic, GhostTypeOK, ClockInv, LinkInv, NEW r \in Ranks, Return(r),
           NEW c \in Clusters, RankOf[c] = r
    PROVE  /\ MaySync(ct[c]) /\ Rested(c, epoch[r] + 1)
           /\ ct[c].predictionsSinceLastSync = ct[c].stepsSinceLastSync
           /\ ct[c].stepsSinceLastSync >= EndOf(epoch[r], c)
<1>1. phase[r] = "loop" /\ state[c] = "Synced" /\ ActorTypeOK
  BY DEF Return, Own, Cells, GhostsOf, GhostTypeOK
<1>2. epoch[r] \in 1..Len(SyncTimes) /\ Working(c)
  BY <1>1, RankInAPhase DEF ClockInv, ClockOf, ToReset
<1>3. /\ ct[c] \in ClusterTimes /\ ct[c].stepsSinceLastSync \in Int
      /\ ct[c].predictionsSinceLastSync \in Int
      /\ ct[c].predictionsSinceLastSync = ct[c].stepsSinceLastSync
      /\ ct[c].stepsUntilSync = EndOf(epoch[r], c) /\ EndOf(epoch[r], c) \in Nat \ {0}
  BY <1>1, <1>2, EndOfFacts DEF Working, ClockAt, ActorTypeOK, ClusterTimes
<1>4. MaySync(ct[c])
  <2>1. CASE c \notin Ghosts
    BY <1>1, <1>2, <2>1 DEF Working, AwaitsRestart
  <2>2. CASE c \in Ghosts
    <3> DEFINE k == CopyOf(c)
               l == <<k, c>>
    <3>1. /\ k \in Clusters \ Ghosts /\ l \in Links /\ RankOf[k] = r
          /\ l[1] = k /\ l[2] = c
      BY <2>2, CopyCluster
    <3> HIDE DEF k, l
    <3>2. state[k] = "Synced" /\ Working(k)
      BY <1>1, <3>1 DEF Return, Own, Cells, ClockInv, ClockOf, ToReset
    <3>3. ct[k].stepsSinceLastSync >= EndOf(epoch[r], k)
      BY <1>1, <3>1, <3>2 DEF Working, AwaitsRestart, ClockAt, MaySync
    <3>4. LinkAt(epoch[r], l, ct[k], ct[c], nct[l], inbox[l])
      BY <1>1, <3>1 DEF LinkInv, LinkOf, ToReset
    <3>5. /\ nct[l].predictionsSinceLastSync >= EndOf(epoch[r], c)
          /\ nct[l].predictionsSinceLastSync \in 0..ct[c].predictionsSinceLastSync
      BY <3>1, <3>3, <3>4 DEF LinkAt, Running, MirrorOf, Reported
    <3>6. ct[c].stepsSinceLastSync # 0
      BY <1>3, <3>5
    <3> QED
      BY <1>1, <1>2, <3>6 DEF Working
  <2> QED
    BY <2>1, <2>2
<1>5. StandsAt(ct[c], SyncTimes[epoch[r]])
  BY <1>1, <1>2, <1>3, <1>4, DoneIsOnTime DEF Working
<1>6. PhaseStart(epoch[r] + 1) = SyncTimes[epoch[r]]
  BY <1>2, PhaseTimes DEF PhaseStart
<1> QED
  BY <1>1, <1>3, <1>4, <1>5, <1>6 DEF Rested, MaySync

LEMMA ReturnKeeps ==
    ASSUME ExactArithmetic, GhostTypeOK, ClockInv, LinkInv, NEW r \in Ranks, Return(r)
    PROVE  ClockInv' /\ LinkInv'
<1>1. /\ phase[r] = "loop" /\ UNCHANGED <<actorVars, epoch, todo>>
      /\ phase'[r] = "idle" /\ \A s \in Ranks \ {r} : phase'[s] = phase[s]
  BY DEF Return, GhostTypeOK
<1>2. epoch[r] \in 1..Len(SyncTimes) /\ ActorTypeOK
  BY <1>1, RankInAPhase DEF GhostTypeOK
<1>3. ASSUME NEW c \in Clusters
      PROVE  ClockOf(c)'
  <2>1. RankOf[c] \in Ranks /\ ClockOf(c)
    BY GhostAssumption DEF ClockInv
  <2>2. CASE RankOf[c] = r
    <3>1. Rested(c, epoch[r] + 1)
      BY <2>2, AllStepsAreMade
    <3> QED
      BY <1>1, <2>2, <3>1 DEF ClockOf, Rested, actorVars
  <2>3. CASE RankOf[c] # r
    BY <1>1, <2>1, <2>3 DEF ClockOf, ToReset, Rested, Working, AwaitsRestart, actorVars
  <2> QED
    BY <2>2, <2>3
<1>4. ASSUME NEW l \in Links
      PROVE  LinkOf(l)'
  <2> DEFINE p == ct[l[2]].predictionsSinceLastSync
  <2>1. /\ l[1] \in Clusters /\ l[2] \in Clusters /\ RankOf[l[1]] = RankOf[l[2]]
        /\ RankOf[l[1]] \in Ranks /\ LinkOf(l)
    BY LinkPair, LinkRank DEF LinkInv
  <2>2. CASE RankOf[l[1]] = r
    <3>1. p \in Int /\ nct[l] \in ClusterTimes /\ inbox[l] \in Seq(Message)
      BY <1>2, <2>1, LinkTypes
    <3>2. /\ p = ct[l[2]].stepsSinceLastSync /\ p >= EndOf(epoch[r], l[2])
          /\ ct[l[1]].stepsSinceLastSync >= EndOf(epoch[r], l[1])
      BY <2>1, <2>2, AllStepsAreMade
    <3>3. LinkAt(epoch[r], l, ct[l[1]], ct[l[2]], nct[l], inbox[l])
      BY <1>1, <2>1, <2>2 DEF LinkOf, ToReset
    <3>4. /\ Running(epoch[r], l[2], p, p, nct[l], inbox[l])
          /\ nct[l].predictionsSinceLastSync >= EndOf(epoch[r], l[2])
      BY <3>2, <3>3 DEF LinkAt
    <3> HIDE DEF p
    <3>5. Settled(nct[l], inbox[l], SyncTimes[epoch[r]])
      BY <1>2, <2>1, <3>1, <3>2, <3>4, RunningSettles
    <3>6. PhaseStart(epoch[r] + 1) = SyncTimes[epoch[r]]
      BY <1>2, PhaseTimes DEF PhaseStart
    <3> QED
      BY <1>1, <2>2, <3>5, <3>6 DEF LinkOf, actorVars
  <2>3. CASE RankOf[l[1]] # r
    BY <1>1, <2>1, <2>3 DEF LinkOf, ToReset, actorVars
  <2> QED
    BY <2>2, <2>3
<1> QED
  BY <1>3, <1>4 DEF ClockInv, LinkInv

----------------------------------------------------------------------------
(* The steps of a rank *)

CellStep(c) ==
    /\ Runs(c) /\ phase[RankOf[c]] # "barrier" /\ UNCHANGED mpiVars
    /\ \E seen \in SUBSET Waiting(c) : Act(c, seen)

GhostStep(g) ==
    /\ Runs(g) /\ UNCHANGED rankVars
    /\ \E seen \in SUBSET Waiting(g), starts \in BOOLEAN :
           Act(g, seen) /\ HandleMessage(g, seen, starts)

LEMMA GhostActs ==
    ASSUME NEW g \in Ghosts, GhostAct(g)
    PROVE  GhostStep(g)
<1>1. /\ phase[RankOf[g]] \in {"barrier", "restart", "loop"} /\ UNCHANGED rankVars
  BY DEF GhostAct, GhostPoll, GhostRestart, GhostPredict, GhostCorrect, GhostSync, Polled
<1>2. \E seen \in Seen(g), starts \in BOOLEAN : Act(g, seen) /\ HandleMessage(g, seen, starts)
  BY Zenon DEF GhostAct, GhostPoll, GhostRestart, GhostPredict, GhostCorrect, GhostSync, Act
<1> QED
  BY <1>1, <1>2, SeenIsWaiting DEF GhostStep, Runs, rankVars

LEMMA CellActs ==
    ASSUME NEW c \in Clusters \ Ghosts, CellAct(c) \/ RestartNext(RankOf[c], c)
    PROVE  CellStep(c)
<1>1. CASE CellAct(c)
  <2>1. \E seen \in Seen(c) : Act(c, seen)
    BY <1>1 DEF CellAct, Act
  <2> QED
    BY <1>1, <2>1, SeenIsWaiting DEF CellAct, CellStep, Runs, rankVars
<1>2. CASE RestartNext(RankOf[c], c)
  <2>1. \E seen \in Seen(c) : Act(c, seen)
    BY <1>2 DEF RestartNext, Act
  <2> QED
    BY <1>2, <2>1, SeenIsWaiting DEF RestartNext, CellStep, Runs
<1> QED
  BY <1>1, <1>2

\* Every step is one of these; MPI leaves the clusters alone.
MPIStep ==
    \/ UNCHANGED ghostVars
    \/ \E p \in Regions : ReadCopyLayer(p[1], p[2]) \/ FillGhostLayer(p[1], p[2])

LEMMA StepCases ==
    ASSUME [GhostNext]_ghostVars
    PROVE  \/ \E r \in Ranks : Advance(r) \/ EnterBarrier(r) \/ LeaveBarrier(r) \/ Return(r)
           \/ \E r \in Ranks : \E c \in Own(r) : ResetNext(r, c)
           \/ \E c \in Clusters \ Ghosts : CellStep(c)
           \/ \E g \in Ghosts : GhostAct(g)
           \/ MPIStep
<1>1. CASE \E r \in Ranks : \E c \in Cells(r) : RestartNext(r, c) \/ CellAct(c)
  BY <1>1, CellActs DEF Cells
<1>2. CASE \E r \in Ranks : \E g \in GhostsOf(r) : GhostAct(g)
  BY <1>2 DEF GhostsOf
<1> QED
  BY <1>1, <1>2 DEF GhostNext, RankStep, AllOver, MPIStep

----------------------------------------------------------------------------
(* Types *)

MPIType ==
    /\ receiving \in [Ghosts -> SUBSET Ghosts] /\ sending \in [Ghosts -> SUBSET Ghosts]
    /\ \A g \in Ghosts : receiving[g] \cup sending[g] \subseteq Remote(g)
    /\ lastSendTime \in [Ghosts -> Time]
    /\ channel \in [Regions -> Seq(CopyLayers)] /\ region \in [Regions -> CopyLayers]

RankType ==
    /\ phase \in [Ranks -> {"idle", "reset", "barrier", "restart", "loop"}]
    /\ epoch \in [Ranks -> 0..Len(SyncTimes)]
    /\ \A r \in Ranks : phase[r] # "idle" => epoch[r] # 0
    /\ todo \in [Ranks -> SUBSET Clusters]

LEMMA TypeParts == GhostTypeOK <=> ActorTypeOK /\ RankType /\ MPIType
BY DEF GhostTypeOK, RankType, MPIType

\* Handling a message posts requests of the ghost cluster only.
LEMMA PostRequestsType ==
    ASSUME MPIType, NEW g \in Ghosts, NEW seen, NEW starts, PostRequests(g, seen, starts),
           NEW t \in Time,
           lastSendTime' = lastSendTime \/ lastSendTime' = [lastSendTime EXCEPT ![g] = t]
    PROVE  MPIType'
<1>2. Remote(g) \in SUBSET Ghosts /\ \A h \in Ghosts : Remote(h)' = Remote(h)
  BY DEF Remote
<1>3. /\ receiving' = receiving \/ receiving' = [receiving EXCEPT ![g] = Remote(g)]
      /\ sending' = sending \/ sending' = [sending EXCEPT ![g] = Remote(g)]
      /\ UNCHANGED <<channel, region>>
  BY DEF PostRequests
<1>4. /\ receiving' \in [Ghosts -> SUBSET Ghosts] /\ sending' \in [Ghosts -> SUBSET Ghosts]
      /\ \A h \in Ghosts : receiving'[h] \cup sending'[h] \subseteq Remote(h)
  <2> DEFINE R == Remote(g)
  <2>1. /\ receiving \in [Ghosts -> SUBSET Ghosts] /\ sending \in [Ghosts -> SUBSET Ghosts]
        /\ \A h \in Ghosts : receiving[h] \subseteq Remote(h) /\ sending[h] \subseteq Remote(h)
    BY DEF MPIType
  <2>2. R \in SUBSET Ghosts /\ R = Remote(g)
    BY <1>2
  <2>3. /\ receiving' = receiving \/ receiving' = [receiving EXCEPT ![g] = R]
        /\ sending' = sending \/ sending' = [sending EXCEPT ![g] = R]
    BY <1>3
  <2> HIDE DEF R
  <2>4. /\ receiving' \in [Ghosts -> SUBSET Ghosts] /\ sending' \in [Ghosts -> SUBSET Ghosts]
    BY <2>1, <2>2, <2>3
  <2>5. ASSUME NEW h \in Ghosts
        PROVE  receiving'[h] \subseteq Remote(h) /\ sending'[h] \subseteq Remote(h)
    <3>1. receiving'[h] = receiving[h] \/ (h = g /\ receiving'[h] = R)
      BY <2>1, <2>3
    <3>2. sending'[h] = sending[h] \/ (h = g /\ sending'[h] = R)
      BY <2>1, <2>3
    <3> QED
      BY <2>1, <2>2, <3>1, <3>2
  <2> QED
    BY <2>4, <2>5
<1>5. lastSendTime' \in [Ghosts -> Time]
  BY DEF MPIType
<1> QED
  BY <1>2, <1>3, <1>4, <1>5 DEF MPIType

LEMMA RegionPair ==
    \A p \in Regions : /\ p = <<p[1], p[2]>> /\ p[1] \in Ghosts /\ p[2] \in Ghosts
                        /\ <<p[2], p[1]>> \in Regions
<1> SUFFICES ASSUME NEW p \in Regions
             PROVE  /\ p = <<p[1], p[2]>> /\ p[1] \in Ghosts /\ p[2] \in Ghosts
                    /\ <<p[2], p[1]>> \in Regions
  OBVIOUS
<1>1. p \in Ghosts \X Ghosts
  BY GhostAssumption
<1>2. p = <<p[1], p[2]>> /\ p[1] \in Ghosts /\ p[2] \in Ghosts
  BY <1>1
<1>3. <<p[2], p[1]>> \in Regions
  BY GhostAssumption
<1> QED
  BY <1>2, <1>3

LEMMA MPIStepType ==
    ASSUME ActorTypeOK, RankType, MPIType, MPIStep
    PROVE  MPIType'
<1>1. CASE UNCHANGED ghostVars
  BY <1>1 DEF ghostVars, mpiVars, MPIType, Remote
<1>2. ASSUME NEW p \in Regions, ReadCopyLayer(p[1], p[2])
      PROVE  MPIType'
  <2> DEFINE g == p[1]
             h == p[2]
             L == CopyLayer(g)
  <2>1. p = <<g, h>> /\ g \in Ghosts /\ h \in Ghosts
    BY RegionPair
  <2>2. L \in CopyLayers
    <3>1. ct[CopyOf(g)].predictionsSinceLastSync \in Int
      BY <2>1, CopyCluster DEF ActorTypeOK, ClusterTimes
    <3>2. epoch[RankOf[g]] \in Nat
      BY <2>1, SyncTimesAssumption, GhostAssumption DEF RankType
    <3> QED
      BY <3>1, <3>2 DEF CopyLayer, CopyLayers
  <2>3. /\ sending' = [sending EXCEPT ![g] = @ \ {h}]
        /\ channel' = [channel EXCEPT ![<<g, h>>] = Append(@, L)]
        /\ UNCHANGED <<receiving, lastSendTime, region>>
    BY <1>2 DEF ReadCopyLayer
  <2> HIDE DEF L, g, h
  <2>4. channel' \in [Regions -> Seq(CopyLayers)]
    <3>1. channel[p] \in Seq(CopyLayers)
      BY DEF MPIType
    <3>2. Append(channel[p], L) \in Seq(CopyLayers)
      BY <2>2, <3>1
    <3>3. channel' = [channel EXCEPT ![p] = Append(channel[p], L)]
      BY <2>1, <2>3
    <3> QED
      BY <3>2, <3>3 DEF MPIType
  <2> QED
    BY <2>1, <2>3, <2>4 DEF MPIType, Remote
<1>3. ASSUME NEW p \in Regions, FillGhostLayer(p[1], p[2])
      PROVE  MPIType'
  <2> DEFINE g == p[1]
             h == p[2]
  <2>1. p = <<g, h>> /\ g \in Ghosts /\ h \in Ghosts /\ <<h, g>> \in Regions
    BY RegionPair
  <2>2. /\ channel[p] # <<>> /\ receiving' = [receiving EXCEPT ![h] = @ \ {g}]
        /\ region' = [region EXCEPT ![<<h, g>>] = Head(channel[p])]
        /\ channel' = [channel EXCEPT ![p] = Tail(@)]
        /\ UNCHANGED <<sending, lastSendTime>>
    BY <1>3, <2>1 DEF FillGhostLayer
  <2> HIDE DEF g, h
  <2>3. Head(channel[p]) \in CopyLayers /\ Tail(channel[p]) \in Seq(CopyLayers)
    BY <2>2, HeadTailProperties DEF MPIType
  <2> QED
    BY <2>1, <2>2, <2>3 DEF MPIType, Remote
<1> QED
  BY <1>1, <1>2, <1>3 DEF MPIStep

\* Handling a message is posting requests and remembering a time.
LEMMA HandleMessageType ==
    ASSUME ActorTypeOK, MPIType, NEW g \in Ghosts, NEW seen, NEW starts,
           HandleMessage(g, seen, starts)
    PROVE  MPIType'
<1>1. ct[g].correctionTime \in Time
  BY CopyCluster DEF ActorTypeOK, ClusterTimes
<1>2. lastSendTime' = lastSendTime
      \/ lastSendTime' = [lastSendTime EXCEPT ![g] = ct[g].correctionTime]
  BY DEF HandleMessage
<1> QED
  BY <1>1, <1>2, PostRequestsType DEF HandleMessage

LEMMA NextGhostType == GhostTypeOK /\ [GhostNext]_ghostVars => GhostTypeOK'
<1> SUFFICES ASSUME ActorTypeOK, RankType, MPIType, [GhostNext]_ghostVars
             PROVE  ActorTypeOK' /\ RankType' /\ MPIType'
  BY TypeParts DEF GhostTypeOK, RankType, MPIType
<1>1. ASSUME NEW r \in Ranks, Advance(r)
      PROVE  ActorTypeOK' /\ RankType' /\ MPIType'
  <2>1. UNCHANGED <<actorVars, mpiVars>> /\ epoch[r] \in Nat /\ Len(SyncTimes) \in Nat
        /\ epoch[r] < Len(SyncTimes) /\ Own(r) \subseteq Clusters
    BY <1>1, SyncTimesAssumption, GhostAssumption
       DEF Advance, RankType, Own, Cells, GhostsOf
  <2>2. RankType'
    BY <1>1, <2>1 DEF Advance, RankType
  <2> QED
    BY <2>1, <2>2 DEF actorVars, mpiVars, ActorTypeOK, MPIType, Remote
<1>2. ASSUME NEW r \in Ranks, EnterBarrier(r) \/ LeaveBarrier(r) \/ Return(r)
      PROVE  ActorTypeOK' /\ RankType' /\ MPIType'
  <2>1. UNCHANGED <<actorVars, mpiVars, epoch>> /\ Cells(r) \subseteq Clusters
    BY <1>2 DEF EnterBarrier, LeaveBarrier, Return, Cells
  <2>2. RankType'
    BY <1>2, <2>1 DEF EnterBarrier, LeaveBarrier, Return, RankType
  <2> QED
    BY <2>1, <2>2 DEF actorVars, mpiVars, ActorTypeOK, MPIType, Remote
<1>3. ASSUME NEW r \in Ranks, NEW c \in Own(r), ResetNext(r, c)
      PROVE  ActorTypeOK' /\ RankType' /\ MPIType'
  <2>1. /\ phase[r] = "reset" /\ UNCHANGED <<phase, epoch>>
        /\ todo' = [todo EXCEPT ![r] = @ \ {c}] /\ c \in Clusters
        /\ SetSyncTimeAndReset(c, SyncTimes[epoch[r]], Waiting(c))
    BY <1>3, GhostAssumption DEF ResetNext, Own, Cells, GhostsOf
  <2>2. RankType'
    BY <2>1 DEF RankType
  <2>3. SyncTimes[epoch[r]] \in Time
    BY <2>1, SyncTimesAssumption DEF RankType, Time
  <2>4. ActorTypeOK'
    BY <2>1, <2>3, ResetType
  <2>5. CASE c \notin Ghosts
    BY <1>3, <2>2, <2>4, <2>5 DEF ResetNext, mpiVars, MPIType, Remote
  <2>6. CASE c \in Ghosts
    <3> DEFINE t == -1
    <3>1. t \in Time
      BY DEF Time
    <3>2. PostRequests(c, Waiting(c), FALSE) /\ lastSendTime' = [lastSendTime EXCEPT ![c] = t]
      BY <1>3, <2>6 DEF ResetNext
    <3> HIDE DEF t
    <3>3. MPIType'
      BY <2>6, <3>1, <3>2, PostRequestsType
    <3> QED
      BY <2>2, <2>4, <3>3
  <2> QED
    BY <2>5, <2>6
<1>4. ASSUME NEW c \in Clusters \ Ghosts, CellStep(c)
      PROVE  ActorTypeOK' /\ RankType' /\ MPIType'
  <2>1. RankType' /\ ActorTypeOK'
    BY <1>4, ActIsOwn DEF CellStep, Runs, rankVars, RestartNext, RankType
  <2> QED
    BY <1>4, <2>1 DEF CellStep, mpiVars, MPIType, Remote
<1>5. ASSUME NEW g \in Ghosts, GhostAct(g)
      PROVE  ActorTypeOK' /\ RankType' /\ MPIType'
  <2>1. PICK seen \in SUBSET Waiting(g), starts \in BOOLEAN :
            Act(g, seen) /\ HandleMessage(g, seen, starts)
    BY <1>5, GhostActs DEF GhostStep
  <2>2. ActorTypeOK' /\ MPIType'
    BY <2>1, ActIsOwn, HandleMessageType, CopyCluster
  <2>3. RankType'
    BY <1>5, GhostActs DEF GhostStep, rankVars, RankType
  <2> QED
    BY <2>2, <2>3
<1>6. CASE MPIStep
  <2>1. UNCHANGED <<actorVars, rankVars>>
    BY <1>6 DEF MPIStep, ghostVars, ReadCopyLayer, FillGhostLayer
  <2> QED
    BY <1>6, <2>1, MPIStepType DEF actorVars, rankVars, ActorTypeOK, RankType
<1> QED
  BY <1>1, <1>2, <1>3, <1>4, <1>5, <1>6, StepCases

\* The messages and clocks of every rank.
RankInv == GhostTypeOK /\ ClockInv /\ LinkInv

LEMMA NextRankInv ==
    ASSUME ExactArithmetic, SameUnitStep, RankInv, [GhostNext]_ghostVars
    PROVE  RankInv'
<1>1. GhostTypeOK' /\ GhostTypeOK /\ ClockInv /\ LinkInv
  BY NextGhostType DEF RankInv
<1>2. ASSUME NEW r \in Ranks, Advance(r)
      PROVE  ClockInv' /\ LinkInv'
  <2>1. /\ phase[r] = "idle" /\ phase'[r] = "reset" /\ epoch'[r] = epoch[r] + 1
        /\ todo'[r] = Own(r) /\ UNCHANGED actorVars
        /\ \A s \in Ranks \ {r} : phase'[s] = phase[s] /\ epoch'[s] = epoch[s] /\ todo'[s] = todo[s]
    BY <1>1, <1>2 DEF Advance, GhostTypeOK
  <2>2. ASSUME NEW c \in Clusters
        PROVE  ClockOf(c)'
    <3>1. RankOf[c] \in Ranks /\ ClockOf(c) /\ (RankOf[c] = r => c \in Own(r))
      BY <1>1, GhostAssumption DEF ClockInv, Own, Cells, GhostsOf
    <3> QED
      BY <2>1, <3>1 DEF ClockOf, ToReset, Rested, Working, AwaitsRestart, actorVars
  <2>3. ASSUME NEW l \in Links
        PROVE  LinkOf(l)'
    <3>1. /\ RankOf[l[1]] \in Ranks /\ LinkOf(l)
          /\ RankOf[l[1]] = r => l[1] \in Own(r)
      BY <1>1, LinkRank, LinkPair DEF LinkInv, Own, Cells, GhostsOf
    <3> QED
      BY <2>1, <3>1 DEF LinkOf, ToReset, actorVars
  <2> QED
    BY <2>2, <2>3 DEF ClockInv, LinkInv
<1>3. ASSUME NEW r \in Ranks, EnterBarrier(r) \/ LeaveBarrier(r)
      PROVE  ClockInv'
  <2>1. /\ UNCHANGED <<actorVars, epoch>>
        /\ \/ phase[r] = "reset" /\ todo[r] = {} /\ phase'[r] = "barrier"
           \/ phase[r] = "barrier" /\ phase'[r] = "restart" /\ todo'[r] = Cells(r)
        /\ \A s \in Ranks \ {r} : phase'[s] = phase[s] /\ todo'[s] = todo[s]
    BY <1>1, <1>3 DEF EnterBarrier, LeaveBarrier, GhostTypeOK
  <2>2. ASSUME NEW c \in Clusters
        PROVE  ClockOf(c)'
    <3>1. RankOf[c] \in Ranks /\ ClockOf(c) /\ (RankOf[c] = r => c \in Ghosts \/ c \in Cells(r))
      BY <1>1, GhostAssumption DEF ClockInv, Cells
    <3>2. CASE RankOf[c] = r
      <4>1. Working(c)
        BY <2>1, <3>1, <3>2 DEF ClockOf, ToReset
      <4>2. AwaitsRestart(c)'
        BY <2>1, <3>1, <3>2 DEF AwaitsRestart
      <4> QED
        BY <2>1, <3>2, <4>1, <4>2 DEF ClockOf, ToReset, Working, actorVars
    <3>3. CASE RankOf[c] # r
      BY <2>1, <3>1, <3>3 DEF ClockOf, ToReset, Rested, Working, AwaitsRestart, actorVars
    <3> QED
      BY <3>2, <3>3
  <2> QED
    BY <2>2 DEF ClockInv
<1>4. ASSUME NEW r \in Ranks, LeaveBarrier(r)
      PROVE  LinkInv'
  <2>1. /\ UNCHANGED <<actorVars, epoch>> /\ phase[r] = "barrier" /\ phase'[r] = "restart"
        /\ \A s \in Ranks \ {r} : phase'[s] = phase[s] /\ todo'[s] = todo[s]
    BY <1>1, <1>4 DEF LeaveBarrier, GhostTypeOK
  <2>2. ASSUME NEW l \in Links
        PROVE  LinkOf(l)'
    <3>1. RankOf[l[1]] \in Ranks /\ LinkOf(l)
      BY <1>1, LinkRank DEF LinkInv
    <3> QED
      BY <2>1, <3>1 DEF LinkOf, ToReset, actorVars
  <2> QED
    BY <2>2 DEF LinkInv
<1>5. ASSUME NEW c \in Clusters, Runs(c), \E seen \in SUBSET Waiting(c) : Act(c, seen)
      PROVE  ClockInv' /\ LinkInv'
  BY <1>1, <1>5, ActClockInv, ActLinkInv
<1>6. CASE MPIStep
  <2>1. UNCHANGED <<actorVars, rankVars>>
    BY <1>6 DEF MPIStep, ghostVars, ReadCopyLayer, FillGhostLayer
  <2>2. UNCHANGED <<phase, epoch, todo, state, syncTime, ct, nct, inbox>>
    BY <2>1 DEF actorVars, rankVars
  <2>3. ClockInv'
    BY <1>1, <2>2 DEF ClockInv, ClockOf, ToReset, Rested, Working, AwaitsRestart
  <2>4. LinkInv'
    BY <1>1, <2>2 DEF LinkInv, LinkOf, ToReset
  <2> QED
    BY <1>1, <2>3, <2>4 DEF RankInv
<1> QED
  BY <1>1, <1>2, <1>3, <1>4, <1>5, <1>6, StepCases, BarrierLinkInv, ReturnKeeps, ResetClockInv,
     ResetLinkInv, CopyCluster, GhostActs DEF RankInv, CellStep, GhostStep

LEMMA InitRankInv == GhostInit => RankInv
<1> SUFFICES ASSUME GhostInit PROVE RankInv
  OBVIOUS
<1>1. ActorTypeOK
  BY RateAssumption DEF GhostInit, ActorInit, ActorTypeOK, ActorState, ClusterTimes, Time
<1>2. RankType
  BY SyncTimesAssumption DEF GhostInit, RankType
<1>3. MPIType
  BY DEF GhostInit, MPIType, CopyLayers, Time
<1>4. ClockInv
  BY RateAssumption, GhostAssumption
     DEF GhostInit, ActorInit, ClockInv, ClockOf, Rested, StandsAt, MaySync, PhaseStart
<1>5. LinkInv
  BY LinkRank DEF GhostInit, ActorInit, LinkInv, LinkOf, Settled, PhaseStart
<1> QED
  BY <1>1, <1>2, <1>3, <1>4, <1>5, TypeParts DEF RankInv

----------------------------------------------------------------------------
(* The requests of a ghost cluster.  A prediction of the copy cluster that   *)
(* it has not read is the last one it can send without a correction of its  *)
(* own, a correction it has not read the last one it can receive without a  *)
(* prediction: so it never has to send or receive twice.                    *)

Told(q) == {q[i] : i \in 1..Len(q)}

\* A message h the ghost cluster g, at the counters t, has not read of its copy
\* cluster k.
InTurn(e, g, k, t, h) ==
    IF h.kind = "prediction"
    THEN /\ h.stepsSinceSync - Rate[k] < t.stepsSinceLastSync + Rate[g]
         /\ \/ h.stepsSinceSync >= t.stepsSinceLastSync + Rate[g]
            \/ h.stepsSinceSync >= EndOf(e, g)
    ELSE /\ \/ t.predictionsSinceLastSync >= h.stepsSinceSync
            \/ t.predictionsSinceLastSync >= EndOf(e, g)
         /\ \/ h.stepsSinceSync >= t.predictionsSinceLastSync
            \/ h.stepsSinceSync >= EndOf(e, g)

\* The counters t of g, the counters u of k, and what g knows of k.
Abreast(e, g, k, t, u, m, q) ==
    /\ \A h \in Told(q) : InTurn(e, g, k, t, h)
    /\ \/ t.stepsSinceLastSync <= m.predictionsSinceLastSync
       \/ m.predictionsSinceLastSync >= EndOf(e, g)
    /\ \/ t.predictionsSinceLastSync = 0
       \/ t.predictionsSinceLastSync - Rate[g] < u.stepsSinceLastSync + Rate[k]

\* The pending requests of g belong to its next correction and its next prediction.
Posted(e, g, s, t, m, snd, rcv, last) ==
    /\ snd # {} \/ last >= t.correctionTime =>
           \/ m.predictionsSinceLastSync >= t.stepsSinceLastSync + Rate[g]
           \/ m.predictionsSinceLastSync >= EndOf(e, g)
    /\ snd # {} => t.stepsSinceLastSync < EndOf(e, g)
    /\ rcv # {} => /\ m.stepsSinceLastSync >= t.predictionsSinceLastSync
                   /\ t.predictionsSinceLastSync < EndOf(e, g)
    /\ s = "Synced" => snd = {} /\ rcv = {}

\* What the clock of a ghost cluster, at the state s and the counters t, and its
\* link say.
GhostFacts(e, g, k, s, t, u, m, q) ==
    /\ EndOf(e, g) \in Nat \ {0} /\ Rate[g] \in Nat \ {0} /\ Rate[k] \in Nat \ {0}
    /\ t.stepsUntilSync = EndOf(e, g) /\ m.stepsUntilSync = EndOf(e, g)
    /\ t.stepsSinceLastSync \in Int /\ Multiple(t.stepsSinceLastSync, Rate[g])
    /\ t.predictionsSinceLastSync =
           t.stepsSinceLastSync + IF s = "Predicted" THEN Rate[g] ELSE 0
    /\ Multiple(t.predictionsSinceLastSync, Rate[g])
    /\ t.correctionTime \in Int /\ t.predictionTime \in Int
    /\ s = "Predicted" => t.stepsSinceLastSync < EndOf(e, g)
    /\ t.stepsSinceLastSync >= EndOf(e, g) => m.predictionsSinceLastSync >= EndOf(e, g)
    /\ u.predictionsSinceLastSync \in Int /\ u.stepsSinceLastSync \in Int
    /\ m.predictionsSinceLastSync \in 0..u.predictionsSinceLastSync
    /\ \/ m.predictionsSinceLastSync < EndOf(e, g)
       \/ m.predictionsSinceLastSync = u.predictionsSinceLastSync
    /\ Multiple(m.predictionsSinceLastSync, Rate[k])
    /\ m.stepsSinceLastSync \in Nat /\ m.stepsSinceLastSync <= u.stepsSinceLastSync
    /\ Multiple(m.stepsSinceLastSync, Rate[k])
    /\ \A h \in Told(q) :
           /\ h.stepsSinceSync \in Int /\ Multiple(h.stepsSinceSync, Rate[k])
           /\ h.stepsSinceSync <= u.predictionsSinceLastSync
           /\ h.kind = "prediction" => h.stepsSinceSync > m.predictionsSinceLastSync
           /\ h.kind # "prediction" => h.stepsSinceSync > m.stepsSinceLastSync

LEMMA GhostLink ==
    ASSUME ExactArithmetic, SameUnitStep, NEW e \in 1..Len(SyncTimes), NEW g \in Clusters,
           NEW k \in Clusters, NEW s, NEW t \in ClusterTimes, NEW u \in ClusterTimes,
           NEW m \in ClusterTimes, NEW q \in Seq(Message),
           ClockAt(e, g, s, t), LinkAt(e, <<g, k>>, t, u, m, q)
    PROVE  GhostFacts(e, g, k, s, t, u, m, q)
<1>1. /\ EndOf(e, g) \in Nat \ {0} /\ EndOf(e, k) = EndOf(e, g)
      /\ Rate[g] \in Nat \ {0} /\ Rate[k] \in Nat \ {0}
  BY EndOfFacts, SameEnd, RateAssumption
<1>2. /\ t.stepsSinceLastSync \in Int /\ t.correctionTime \in Int /\ t.predictionTime \in Int
      /\ u.predictionsSinceLastSync \in Int /\ u.stepsSinceLastSync \in Int
      /\ m.predictionsSinceLastSync \in Int /\ m.stepsSinceLastSync \in Int
  BY DEF ClusterTimes, Time
<1>3. /\ Running(e, k, u.predictionsSinceLastSync, u.stepsSinceLastSync, m, q)
      /\ t.stepsSinceLastSync >= EndOf(e, g) => m.predictionsSinceLastSync >= EndOf(e, g)
  BY <1>1 DEF LinkAt
<1>4. /\ t.stepsUntilSync = EndOf(e, g)
      /\ t.predictionsSinceLastSync =
             t.stepsSinceLastSync + IF s = "Predicted" THEN Rate[g] ELSE 0
      /\ Multiple(t.stepsSinceLastSync, Rate[g]) /\ Multiple(t.predictionsSinceLastSync, Rate[g])
      /\ s = "Predicted" => t.stepsSinceLastSync < EndOf(e, g)
  BY DEF ClockAt, OnGrid
<1>5. /\ m.stepsUntilSync = EndOf(e, g)
      /\ m.predictionsSinceLastSync \in 0..u.predictionsSinceLastSync
      /\ \/ m.predictionsSinceLastSync < EndOf(e, g)
         \/ m.predictionsSinceLastSync = u.predictionsSinceLastSync
      /\ m.stepsSinceLastSync >= 0 /\ m.stepsSinceLastSync <= u.stepsSinceLastSync
      /\ Multiple(m.predictionsSinceLastSync, Rate[k])
      /\ Multiple(m.stepsSinceLastSync, Rate[k])
  BY <1>1, <1>2, <1>3 DEF Running, MirrorOf, Reported, OnGrid
<1>6. ASSUME NEW h \in Told(q)
      PROVE  /\ h.stepsSinceSync \in Int /\ Multiple(h.stepsSinceSync, Rate[k])
             /\ h.stepsSinceSync <= u.predictionsSinceLastSync
             /\ h.kind = "prediction" => h.stepsSinceSync > m.predictionsSinceLastSync
             /\ h.kind # "prediction" => h.stepsSinceSync > m.stepsSinceLastSync
  <2>1. h \in Message
    BY DEF Told
  <2>2. MessageOf(e, k, u.predictionsSinceLastSync, u.stepsSinceLastSync, m, h)
    BY <1>3 DEF Told, Running, QueueOf
  <2>3. h.stepsSinceSync \in Int
    BY <2>1 DEF Message
  <2>4. /\ Reported(e, k, u.predictionsSinceLastSync, h.stepsSinceSync, h.time)
        /\ Turn(h) > 2 * m.predictionsSinceLastSync
        /\ Turn(h) > 2 * m.stepsSinceLastSync + 1
    BY <2>2 DEF MessageOf
  <2>5. h.stepsSinceSync <= u.predictionsSinceLastSync /\ Multiple(h.stepsSinceSync, Rate[k])
    BY <1>2, <2>4 DEF Reported, OnGrid
  <2>6. /\ h.kind = "prediction" => h.stepsSinceSync > m.predictionsSinceLastSync
        /\ h.kind # "prediction" => h.stepsSinceSync > m.stepsSinceLastSync
    BY <1>2, <2>3, <2>4 DEF Turn
  <2> QED
    BY <2>3, <2>5, <2>6
<1> QED
  BY <1>1, <1>2, <1>3, <1>4, <1>5, <1>6 DEF GhostFacts

\* What a ghost cluster that reads learns.
LEMMA GhostReads ==
    ASSUME ActorTypeOK, NEW g \in Ghosts, NEW seen \in SUBSET Waiting(g), NEW x, NEW to,
           ProcessAndSend(g, seen, x, to), NEW l \in Links, l = <<g, CopyOf(g)>>
    PROVE  /\ Told(inbox'[l]) \subseteq Told(inbox[l])
           /\ Popped(g, seen, "prediction") =>
                  \E h \in Told(inbox[l]) : /\ h.kind = "prediction"
                                            /\ nct'[l].predictionsSinceLastSync = h.stepsSinceSync
           /\ ~Popped(g, seen, "prediction") =>
                  nct'[l].predictionsSinceLastSync = nct[l].predictionsSinceLastSync
           /\ Popped(g, seen, "correction") =>
                  \E h \in Told(inbox[l]) : /\ h.kind # "prediction"
                                            /\ nct'[l].stepsSinceLastSync = h.stepsSinceSync
           /\ ~Popped(g, seen, "correction") =>
                  nct'[l].stepsSinceLastSync = nct[l].stepsSinceLastSync
<1>1. l[1] = g /\ l[2] = CopyOf(g) /\ nct[l] \in ClusterTimes /\ inbox[l] \in Seq(Message)
  BY LinkTypes
<1>2. CASE l[2] \notin seen
  <2>1. seen = {}
    BY <1>1, <1>2, CopyCluster DEF Waiting
  <2> QED
    BY <1>1, <1>2, <2>1, LinksAfter DEF Popped
<1>3. CASE l[2] \in seen
  <2> DEFINE q == inbox[l]
             h == Head(q)
  <2>1. /\ q # <<>> /\ inbox'[l] = Tail(q) /\ nct'[l] = AfterMessage(nct[l], h)
    <3>1. g \in Clusters /\ <<g, CopyOf(g)>> \in Links /\ CopyOf(g) \in Neighbors(g)
      BY CopyCluster
    <3>2. nct'[l] = Mirror(g, seen)[l[2]] /\ inbox'[l] = Tail(q)
      BY <1>1, <1>3, <3>1 DEF ProcessAndSend
    <3>3. Mirror(g, seen)[l[2]] = AfterMessage(nct[l], h)
      BY <1>1, <1>3, <3>1 DEF Mirror
    <3>4. q # <<>>
      BY <1>1, <1>3 DEF Waiting
    <3> QED
      BY <3>2, <3>3, <3>4
  <2>2. h \in Message /\ h \in Told(q) /\ Told(Tail(q)) \subseteq Told(q)
    <3>1. /\ h \in Message /\ h = q[1] /\ Len(q) \in Nat \ {0}
          /\ Len(Tail(q)) = Len(q) - 1 /\ \A i \in 1..Len(Tail(q)) : Tail(q)[i] = q[i + 1]
      BY <1>1, <2>1, HeadTailProperties
    <3> HIDE DEF q, h
    <3>2. 1 \in 1..Len(q) /\ \A i \in 1..Len(Tail(q)) : i + 1 \in 1..Len(q)
      BY <3>1
    <3> QED
      BY <3>1, <3>2 DEF Told
  <2>3. \A kind : Popped(g, seen, kind) <=> h.kind = kind
    BY <1>1, <1>3 DEF Popped
  <2>4. /\ h.kind = "prediction" \/ h.kind = "correction"
        /\ h.kind = "prediction" =>
               /\ AfterMessage(nct[l], h).predictionsSinceLastSync = h.stepsSinceSync
               /\ AfterMessage(nct[l], h).stepsSinceLastSync = nct[l].stepsSinceLastSync
        /\ h.kind # "prediction" =>
               /\ AfterMessage(nct[l], h).stepsSinceLastSync = h.stepsSinceSync
               /\ AfterMessage(nct[l], h).predictionsSinceLastSync = nct[l].predictionsSinceLastSync
    <3> HIDE DEF h
    <3> QED
      BY <1>1, <2>2 DEF AfterMessage, ClusterTimes, Message
  <2> HIDE DEF h, q
  <2>5. Told(inbox'[l]) \subseteq Told(inbox[l])
    BY <2>1, <2>2 DEF q
  <2>6. h \in Told(inbox[l])
    BY <2>2 DEF q
  <2>7. Popped(g, seen, "prediction") <=> h.kind = "prediction"
    BY <2>3
  <2>8. Popped(g, seen, "correction") <=> h.kind # "prediction"
    BY <2>3, <2>4
  <2>9. CASE h.kind = "prediction"
    BY <2>1, <2>4, <2>5, <2>6, <2>7, <2>8, <2>9
  <2>10. CASE h.kind # "prediction"
    BY <2>1, <2>4, <2>5, <2>6, <2>7, <2>8, <2>10
  <2> QED
    BY <2>9, <2>10
<1> QED
  BY <1>2, <1>3

ReqOf(g) ==
    LET k == CopyOf(g)
        l == <<g, k>>
        e == epoch[RankOf[g]]
    IN  /\ lastSendTime[g] <= ct[g].correctionTime
        /\ IF phase[RankOf[g]] = "idle" \/ ToReset(g)
           THEN receiving[g] = {} /\ sending[g] = {}
           ELSE /\ Abreast(e, g, k, ct[g], ct[k], nct[l], inbox[l])
                /\ Posted(e, g, state[g], ct[g], nct[l], sending[g], receiving[g], lastSendTime[g])

ReqInv == \A g \in Ghosts : ReqOf(g)

\* What a ghost cluster does in a phase, and what of the guards matters here.
ActsOn(g, seen, starts) ==
    \/ Poll(g, seen) /\ (state[g] = "Synced" => ct[g].stepsSinceLastSync # 0) /\ ~starts
    \/ RestartAfterSync(g, seen) /\ starts
    \/ Predict(g, seen) /\ receiving'[g] = {} /\ ~starts
    \/ Correct(g, seen) /\ sending'[g] = {} /\ ~starts
    \/ Sync(g, seen) /\ receiving'[g] = {} /\ sending'[g] = {} /\ ~starts

LEMMA GhostActsOn ==
    ASSUME NEW g \in Ghosts, GhostAct(g)
    PROVE  \E seen \in SUBSET Waiting(g), starts \in BOOLEAN :
               ActsOn(g, seen, starts) /\ HandleMessage(g, seen, starts)
<1>1. CASE GhostPoll(g)
  <2>1. PICK seen \in Seen(g) :
            Poll(g, seen) /\ HandleMessage(g, seen, FALSE) /\ NoLegalAction(g, seen)
    BY <1>1 DEF GhostPoll
  <2>2. state[g] = "Synced" => ct[g].stepsSinceLastSync # 0
    BY <2>1 DEF NoLegalAction
  <2> QED
    BY <2>1, <2>2, SeenIsWaiting DEF ActsOn
<1>2. CASE GhostRestart(g)
  BY <1>2, SeenIsWaiting DEF GhostRestart, ActsOn
<1>3. CASE GhostPredict(g)
  BY <1>3, SeenIsWaiting DEF GhostPredict, GhostMayPredict, ActsOn
<1>4. CASE GhostCorrect(g)
  BY <1>4, SeenIsWaiting DEF GhostCorrect, GhostMayCorrect, ActsOn
<1>5. CASE GhostSync(g)
  BY <1>5, SeenIsWaiting DEF GhostSync, ActsOn
<1> QED
  BY <1>1, <1>2, <1>3, <1>4, <1>5 DEF GhostAct

\* The counters of a ghost cluster that acts.
LEMMA GhostCounters ==
    ASSUME ActorTypeOK, NEW g \in Ghosts, NEW seen \in SUBSET Waiting(g), NEW starts,
           ActsOn(g, seen, starts)
    PROVE  /\ Act(g, seen)
           /\ \E x, to : ProcessAndSend(g, seen, x, to)
           /\ \/ /\ ct'[g] = ct[g]
                 /\ \/ state'[g] = state[g] /\ ~starts
                       /\ (state[g] = "Synced" => ct[g].stepsSinceLastSync # 0)
                    \/ /\ state[g] = "Synced" /\ ct[g].stepsSinceLastSync = 0 /\ starts
                       /\ state'[g] = "Corrected"
                    \/ state'[g] = "Synced" /\ receiving'[g] = {} /\ sending'[g] = {} /\ ~starts
              \/ /\ Predict(g, seen) /\ receiving'[g] = {} /\ ~starts
                 /\ state[g] = "Corrected" /\ state'[g] = "Predicted"
                 /\ ct'[g].stepsSinceLastSync = ct[g].stepsSinceLastSync
                 /\ ct'[g].predictionsSinceLastSync = ct[g].predictionsSinceLastSync + Rate[g]
                 /\ ct'[g].correctionTime = ct[g].correctionTime
              \/ /\ Correct(g, seen) /\ sending'[g] = {} /\ ~starts
                 /\ state[g] = "Predicted" /\ state'[g] = "Corrected"
                 /\ ct'[g].stepsSinceLastSync = ct[g].stepsSinceLastSync + Rate[g]
                 /\ ct'[g].predictionsSinceLastSync = ct[g].predictionsSinceLastSync
<1>1. g \in Clusters /\ ct[g] \in ClusterTimes
  BY CopyCluster DEF ActorTypeOK
<1>2. CASE Poll(g, seen) /\ (state[g] = "Synced" => ct[g].stepsSinceLastSync # 0) /\ ~starts
  BY <1>2 DEF Poll, Act
<1>3. CASE RestartAfterSync(g, seen) /\ starts
  BY <1>1, <1>3 DEF RestartAfterSync, Act, ActorTypeOK
<1>4. CASE Predict(g, seen) /\ receiving'[g] = {} /\ ~starts
  <2> DEFINE new == [ct[g] EXCEPT !.predictionsSinceLastSync = @ + Rate[g],
                                  !.predictionTime = Plus(@, TimeStepSize(g))]
  <2>1. state[g] = "Corrected" /\ state'[g] = "Predicted" /\ ct'[g] = new
    BY <1>1, <1>4 DEF Predict, ActorTypeOK
  <2>2. /\ new.stepsSinceLastSync = ct[g].stepsSinceLastSync
        /\ new.predictionsSinceLastSync = ct[g].predictionsSinceLastSync + Rate[g]
        /\ new.correctionTime = ct[g].correctionTime
    BY <1>1 DEF ClusterTimes
  <2> HIDE DEF new
  <2>3. \E x, to : ProcessAndSend(g, seen, x, to)
    BY <1>4, Zenon DEF Predict
  <2> QED
    BY <1>4, <2>1, <2>2, <2>3 DEF Act
<1>5. CASE Correct(g, seen) /\ sending'[g] = {} /\ ~starts
  <2> DEFINE new == [ct[g] EXCEPT !.correctionTime = Plus(@, TimeStepSize(g)),
                                  !.stepsSinceLastSync = @ + Rate[g],
                                  !.stepsSinceStart = @ + Rate[g]]
  <2>1. state[g] = "Predicted" /\ state'[g] = "Corrected" /\ ct'[g] = new
    BY <1>1, <1>5 DEF Correct, ActorTypeOK
  <2>2. /\ new.stepsSinceLastSync = ct[g].stepsSinceLastSync + Rate[g]
        /\ new.predictionsSinceLastSync = ct[g].predictionsSinceLastSync
    BY <1>1 DEF ClusterTimes
  <2> HIDE DEF new
  <2>3. \E x, to : ProcessAndSend(g, seen, x, to)
    BY <1>5, Zenon DEF Correct
  <2> QED
    BY <1>5, <2>1, <2>2, <2>3 DEF Act
<1>6. CASE Sync(g, seen) /\ receiving'[g] = {} /\ sending'[g] = {} /\ ~starts
  BY <1>1, <1>6 DEF Sync, Act, ActorTypeOK
<1> QED
  BY <1>2, <1>3, <1>4, <1>5, <1>6 DEF ActsOn

\* A running ghost cluster.
LEMMA RunningGhost ==
    ASSUME RankInv, NEW g \in Ghosts, NEW e, e = epoch[RankOf[g]],
           phase[RankOf[g]] \in {"barrier", "restart", "loop"}
    PROVE  /\ e \in 1..Len(SyncTimes) /\ Working(g) /\ Working(CopyOf(g))
           /\ ClockAt(e, g, state[g], ct[g])
           /\ ClockAt(e, CopyOf(g), state[CopyOf(g)], ct[CopyOf(g)])
           /\ LinkAt(e, <<g, CopyOf(g)>>, ct[g], ct[CopyOf(g)], nct[<<g, CopyOf(g)>>],
                     inbox[<<g, CopyOf(g)>>])
           /\ LinkAt(e, <<CopyOf(g), g>>, ct[CopyOf(g)], ct[g], nct[<<CopyOf(g), g>>],
                     inbox[<<CopyOf(g), g>>])
<1>1. /\ g \in Clusters /\ CopyOf(g) \in Clusters /\ RankOf[CopyOf(g)] = RankOf[g]
      /\ <<g, CopyOf(g)>> \in Links /\ <<CopyOf(g), g>> \in Links /\ RankOf[g] \in Ranks
  BY CopyCluster, GhostAssumption
<1>2. e \in 1..Len(SyncTimes)
  BY <1>1, RankInAPhase DEF RankInv
<1>3. Working(g) /\ Working(CopyOf(g))
  BY <1>1 DEF RankInv, ClockInv, ClockOf, ToReset
<1>4. ASSUME NEW l \in Links, l[1] = g \/ l[1] = CopyOf(g)
      PROVE  LinkAt(e, l, ct[l[1]], ct[l[2]], nct[l], inbox[l])
  BY <1>1, <1>4 DEF RankInv, LinkInv, LinkOf, ToReset
<1>5. /\ LinkAt(e, <<g, CopyOf(g)>>, ct[g], ct[CopyOf(g)], nct[<<g, CopyOf(g)>>],
                inbox[<<g, CopyOf(g)>>])
      /\ LinkAt(e, <<CopyOf(g), g>>, ct[CopyOf(g)], ct[g], nct[<<CopyOf(g), g>>],
                inbox[<<CopyOf(g), g>>])
  BY <1>1, <1>4
<1> QED
  BY <1>1, <1>2, <1>3, <1>5 DEF Working

\* The guards of a ghost cluster, in what it knows after the step.
LEMMA GhostGuards ==
    ASSUME ActorTypeOK, ActorTypeOK', NEW g \in Ghosts, NEW seen \in SUBSET Waiting(g),
           NEW l \in Links, l = <<g, CopyOf(g)>>
    PROVE  /\ Predict(g, seen) =>
                  /\ ct[g].predictionsSinceLastSync < nct'[l].stepsSinceLastSync + Rate[CopyOf(g)]
                  /\ ct[g].predictionsSinceLastSync < nct'[l].stepsUntilSync
           /\ Correct(g, seen) =>
                  \/ nct'[l].predictionsSinceLastSync >= nct'[l].stepsUntilSync
                  \/ nct'[l].predictionsSinceLastSync >= ct[g].predictionsSinceLastSync
<1> DEFINE k == CopyOf(g)
           M == Mirror(g, seen)
           p == ct[g].predictionsSinceLastSync
<1>1. /\ g \in Clusters /\ k \in Clusters /\ Neighbors(g) = {k} /\ l[1] = g /\ l[2] = k
      /\ p \in Int /\ Rate[k] \in Int
  <2>1. /\ g \in Clusters /\ k \in Clusters /\ Neighbors(g) = {k}
        /\ l[1] = g /\ l[2] = k
    BY CopyCluster
  <2>2. ct[g] \in ClusterTimes /\ Rate[k] \in Nat \ {0}
    BY <2>1, RateAssumption DEF ActorTypeOK
  <2> QED
    BY <2>1, <2>2 DEF ClusterTimes
<1>2. DOMAIN M = {k}
  BY <1>1 DEF Mirror
<1>3. nct'[l] \in ClusterTimes
  BY DEF ActorTypeOK
<1>4. /\ nct'[l].stepsSinceLastSync \in Int /\ nct'[l].stepsUntilSync \in Int
      /\ nct'[l].predictionsSinceLastSync \in Int
  BY <1>3 DEF ClusterTimes
<1>5. ASSUME Predict(g, seen)
      PROVE  p < nct'[l].stepsSinceLastSync + Rate[k] /\ p < nct'[l].stepsUntilSync
  <2>1. \E x, to : ProcessAndSend(g, seen, x, to)
    BY <1>5, Zenon DEF Predict
  <2>2. nct'[l] = M[k]
    BY <1>1, <2>1, LinksAfter
  <2>3. p < NextCorrectionSteps(Rate[k], nct'[l])
    BY <1>2, <1>5, <2>2 DEF Predict, MayPredict
  <2> HIDE DEF p, k
  <2> QED
    BY <1>1, <1>4, <2>3 DEF NextCorrectionSteps, Smaller
<1>6. ASSUME Correct(g, seen)
      PROVE  nct'[l].predictionsSinceLastSync >= nct'[l].stepsUntilSync
             \/ nct'[l].predictionsSinceLastSync >= p
  <2>1. \E x, to : ProcessAndSend(g, seen, x, to)
    BY <1>6, Zenon DEF Correct
  <2>2. nct'[l] = M[k]
    BY <1>1, <2>1, LinksAfter
  <2>3. nct'[l].stepsUntilSync <= nct'[l].predictionsSinceLastSync
        \/ p <= nct'[l].predictionsSinceLastSync
    BY <1>2, <1>6, <2>2 DEF Correct, MayCorrect
  <2> HIDE DEF p
  <2> QED
    BY <1>1, <1>4, <2>3
<1> QED
  BY <1>5, <1>6

\* A ghost cluster that acts, from the counters t to t2, with what it knows of
\* its copy cluster after its call, m2 and q2.
ActsTo(e, g, k, s, t, m2, s2, t2) ==
    \/ t2 = t
    \/ /\ s = "Corrected" /\ s2 = "Predicted"
       /\ t2.stepsSinceLastSync = t.stepsSinceLastSync
       /\ t2.predictionsSinceLastSync = t.predictionsSinceLastSync + Rate[g]
       /\ t.predictionsSinceLastSync < m2.stepsSinceLastSync + Rate[k]
       /\ t.predictionsSinceLastSync < EndOf(e, g)
    \/ /\ s = "Predicted" /\ s2 = "Corrected"
       /\ t2.stepsSinceLastSync = t.stepsSinceLastSync + Rate[g]
       /\ t2.predictionsSinceLastSync = t.predictionsSinceLastSync
       /\ \/ m2.predictionsSinceLastSync >= EndOf(e, g)
          \/ m2.predictionsSinceLastSync >= t.predictionsSinceLastSync

LEMMA StayAbreast ==
    ASSUME NEW e, NEW g, NEW k, NEW s, NEW t, NEW u, NEW m, NEW q, NEW s2, NEW t2, NEW m2, NEW q2,
           GhostFacts(e, g, k, s, t, u, m, q), GhostFacts(e, g, k, s2, t2, u, m2, q2),
           Abreast(e, g, k, t, u, m, q), Told(q2) \subseteq Told(q),
           m2.predictionsSinceLastSync >= m.predictionsSinceLastSync,
           ActsTo(e, g, k, s, t, m2, s2, t2)
    PROVE  Abreast(e, g, k, t2, u, m2, q2)
<1>1. /\ EndOf(e, g) \in Nat \ {0} /\ Rate[g] \in Nat \ {0} /\ Rate[k] \in Nat \ {0}
      /\ t.stepsSinceLastSync \in Int /\ u.stepsSinceLastSync \in Int
      /\ t.predictionsSinceLastSync =
             t.stepsSinceLastSync + IF s = "Predicted" THEN Rate[g] ELSE 0
      /\ m.predictionsSinceLastSync \in Int /\ m2.predictionsSinceLastSync \in Int
      /\ m2.stepsSinceLastSync \in Nat /\ m2.stepsSinceLastSync <= u.stepsSinceLastSync
      /\ u.predictionsSinceLastSync \in Int
      /\ \/ m2.predictionsSinceLastSync < EndOf(e, g)
         \/ m2.predictionsSinceLastSync = u.predictionsSinceLastSync
  BY DEF GhostFacts
<1>2. ASSUME NEW h \in Told(q2)
      PROVE  /\ InTurn(e, g, k, t, h) /\ h.stepsSinceSync \in Int
             /\ h.stepsSinceSync <= u.predictionsSinceLastSync
             /\ h.kind = "prediction" =>
                    h.stepsSinceSync >= m2.predictionsSinceLastSync + Rate[k]
             /\ h.kind # "prediction" => h.stepsSinceSync >= m2.stepsSinceLastSync + Rate[k]
  <2>1. /\ InTurn(e, g, k, t, h) /\ h.stepsSinceSync \in Int
        /\ h.stepsSinceSync <= u.predictionsSinceLastSync
        /\ Multiple(h.stepsSinceSync, Rate[k])
        /\ h.kind = "prediction" => h.stepsSinceSync > m2.predictionsSinceLastSync
        /\ h.kind # "prediction" => h.stepsSinceSync > m2.stepsSinceLastSync
        /\ Multiple(m2.predictionsSinceLastSync, Rate[k])
        /\ Multiple(m2.stepsSinceLastSync, Rate[k])
    BY <1>2 DEF GhostFacts, Abreast
  <2>2. ASSUME NEW v \in Int, Multiple(v, Rate[k]), h.stepsSinceSync > v
        PROVE  h.stepsSinceSync >= v + Rate[k]
    <3>1. h.stepsSinceSync < v + Rate[k] => h.stepsSinceSync <= v
      BY <1>1, <2>1, <2>2, NoMultipleBetween
    <3> QED
      BY <1>1, <2>1, <2>2, <3>1
  <2> QED
    BY <1>1, <2>1, <2>2
<1>3. \/ t.stepsSinceLastSync <= m2.predictionsSinceLastSync
      \/ m2.predictionsSinceLastSync >= EndOf(e, g)
  BY <1>1 DEF Abreast
<1>4. CASE t2 = t
  BY <1>2, <1>3, <1>4 DEF Abreast
<1>5. CASE /\ s = "Corrected" /\ s2 = "Predicted"
           /\ t2.stepsSinceLastSync = t.stepsSinceLastSync
           /\ t2.predictionsSinceLastSync = t.predictionsSinceLastSync + Rate[g]
           /\ t.predictionsSinceLastSync < m2.stepsSinceLastSync + Rate[k]
           /\ t.predictionsSinceLastSync < EndOf(e, g)
  <2>1. ASSUME NEW h \in Told(q2)
        PROVE  InTurn(e, g, k, t2, h)
    BY <1>1, <1>2, <1>5, <2>1 DEF InTurn
  <2>2. t2.predictionsSinceLastSync - Rate[g] < u.stepsSinceLastSync + Rate[k]
    BY <1>1, <1>5
  <2> QED
    BY <1>3, <1>5, <2>1, <2>2 DEF Abreast
<1>6. CASE /\ s = "Predicted" /\ s2 = "Corrected"
           /\ t2.stepsSinceLastSync = t.stepsSinceLastSync + Rate[g]
           /\ t2.predictionsSinceLastSync = t.predictionsSinceLastSync
           /\ \/ m2.predictionsSinceLastSync >= EndOf(e, g)
              \/ m2.predictionsSinceLastSync >= t.predictionsSinceLastSync
  <2>1. ASSUME NEW h \in Told(q2)
        PROVE  InTurn(e, g, k, t2, h)
    BY <1>1, <1>2, <1>6, <2>1 DEF InTurn
  <2> QED
    BY <1>1, <1>6, <2>1 DEF Abreast
<1> QED
  BY <1>4, <1>5, <1>6 DEF ActsTo

\* What is popped of the copy cluster: snd, a prediction, rcv, a correction it
\* does not ignore; and what becomes of the requests.
LEMMA StayPosted ==
    ASSUME NEW e, NEW g, NEW k, NEW s, NEW t, NEW u, NEW m, NEW q, NEW s2, NEW t2, NEW m2, NEW q2,
           NEW snd, NEW rcv, NEW last \in Int, NEW snd2, NEW rcv2, NEW last2,
           NEW send \in BOOLEAN,
           GhostFacts(e, g, k, s, t, u, m, q), GhostFacts(e, g, k, s2, t2, u, m2, q2),
           Abreast(e, g, k, t, u, m, q), Posted(e, g, s, t, m, snd, rcv, last),
           last <= t.correctionTime,
           ActsTo(e, g, k, s, t, m2, s2, t2),
           t2 = t => \/ s2 = s /\ (s2 = "Synced" => t.stepsSinceLastSync >= EndOf(e, g))
                     \/ s2 = "Corrected" /\ t.stepsSinceLastSync = 0
                     \/ s2 = "Synced" /\ snd2 = {} /\ rcv2 = {},
           s = "Corrected" /\ s2 = "Predicted" => rcv2 = {} /\ t2.correctionTime = t.correctionTime,
           s = "Predicted" /\ s2 = "Corrected" => snd2 = {} /\ t.correctionTime < t2.correctionTime,
           IF send THEN /\ last2 = t.correctionTime
                        /\ \E h \in Told(q) : /\ h.kind = "prediction"
                                              /\ m2.predictionsSinceLastSync = h.stepsSinceSync
           ELSE /\ snd2 = snd /\ last2 = last
                /\ m2.predictionsSinceLastSync = m.predictionsSinceLastSync,
           m2.stepsSinceLastSync >= m.stepsSinceLastSync,
           \/ rcv2 = rcv
           \/ s2 = "Corrected" /\ t2.predictionsSinceLastSync = 0
           \/ /\ t.predictionsSinceLastSync < EndOf(e, g)
              /\ \E h \in Told(q) : /\ h.kind # "prediction"
                                    /\ m2.stepsSinceLastSync = h.stepsSinceSync
    PROVE  Posted(e, g, s2, t2, m2, snd2, rcv2, last2) /\ last2 <= t2.correctionTime
<1>1. /\ EndOf(e, g) \in Nat \ {0} /\ Rate[g] \in Nat \ {0} /\ Rate[k] \in Nat \ {0}
      /\ t.stepsSinceLastSync \in Int /\ t2.stepsSinceLastSync \in Int
      /\ t.correctionTime \in Int /\ t2.correctionTime \in Int
      /\ t.predictionsSinceLastSync =
             t.stepsSinceLastSync + IF s = "Predicted" THEN Rate[g] ELSE 0
      /\ s = "Predicted" => t.stepsSinceLastSync < EndOf(e, g)
      /\ m.predictionsSinceLastSync \in Int /\ m2.predictionsSinceLastSync \in Int
      /\ m.stepsSinceLastSync \in Nat /\ m2.stepsSinceLastSync \in Nat
  BY DEF GhostFacts
<1>2. ASSUME send
      PROVE  /\ t.stepsSinceLastSync < EndOf(e, g)
             /\ \/ m2.predictionsSinceLastSync >= t.stepsSinceLastSync + Rate[g]
                \/ m2.predictionsSinceLastSync >= EndOf(e, g)
  <2>1. PICK h \in Told(q) : /\ h.kind = "prediction"
                             /\ m2.predictionsSinceLastSync = h.stepsSinceSync
    BY <1>2
  <2>2. InTurn(e, g, k, t, h)
    BY <2>1 DEF Abreast
  <2>3. /\ h.stepsSinceSync \in Int /\ h.stepsSinceSync <= u.predictionsSinceLastSync
        /\ h.stepsSinceSync > m.predictionsSinceLastSync
        /\ u.predictionsSinceLastSync \in Int
        /\ \/ m.predictionsSinceLastSync < EndOf(e, g)
           \/ m.predictionsSinceLastSync = u.predictionsSinceLastSync
        /\ t.stepsSinceLastSync >= EndOf(e, g) => m.predictionsSinceLastSync >= EndOf(e, g)
    BY <2>1 DEF GhostFacts
  <2> QED
    BY <1>1, <2>1, <2>2, <2>3 DEF InTurn
<1>3. snd2 # {} \/ last2 >= t2.correctionTime =>
          /\ t2.stepsSinceLastSync = t.stepsSinceLastSync
          /\ \/ m2.predictionsSinceLastSync >= t2.stepsSinceLastSync + Rate[g]
             \/ m2.predictionsSinceLastSync >= EndOf(e, g)
  BY <1>1, <1>2 DEF ActsTo, Posted
<1>4. snd2 # {} => t2.stepsSinceLastSync < EndOf(e, g)
  BY <1>2, <1>3 DEF Posted
<1>5. last2 <= t2.correctionTime
  BY <1>1 DEF ActsTo
<1>6. rcv2 # {} => t2.predictionsSinceLastSync = t.predictionsSinceLastSync
  BY DEF ActsTo
<1>7. rcv2 # {} => /\ m2.stepsSinceLastSync >= t2.predictionsSinceLastSync
                   /\ t2.predictionsSinceLastSync < EndOf(e, g)
  <2>1. CASE rcv2 = rcv
    BY <1>1, <1>6, <2>1 DEF Posted
  <2>2. CASE t2.predictionsSinceLastSync = 0
    BY <1>1, <2>2
  <2>3. CASE /\ t.predictionsSinceLastSync < EndOf(e, g)
             /\ \E h \in Told(q) : /\ h.kind # "prediction"
                                   /\ m2.stepsSinceLastSync = h.stepsSinceSync
    <3>1. PICK h \in Told(q) : h.kind # "prediction" /\ m2.stepsSinceLastSync = h.stepsSinceSync
      BY <2>3
    <3>2. InTurn(e, g, k, t, h)
      BY DEF Abreast
    <3> QED
      BY <1>1, <1>6, <2>3, <3>1, <3>2 DEF InTurn
  <2> QED
    BY <2>1, <2>2, <2>3
<1>8. s2 = "Synced" => snd2 = {} /\ rcv2 = {}
  <2> SUFFICES ASSUME s2 = "Synced" PROVE snd2 = {} /\ rcv2 = {}
    OBVIOUS
  <2>1. t2 = t
    BY DEF ActsTo
  <2>2. CASE s = "Synced" /\ t.stepsSinceLastSync >= EndOf(e, g)
    <3>1. ~send /\ rcv2 = rcv
      BY <1>1, <1>2, <2>1, <2>2
    <3> QED
      BY <2>2, <3>1 DEF Posted
  <2> QED
    BY <2>1, <2>2
<1> QED
  BY <1>3, <1>4, <1>5, <1>7, <1>8 DEF Posted

\* A step of a ghost cluster keeps its requests apart.
LEMMA GhostRequests ==
    ASSUME ExactArithmetic, SameUnitStep, RankInv, RankInv', NEW g \in Ghosts, ReqOf(g),
           GhostAct(g)
    PROVE  ReqOf(g)'
<1> DEFINE k == CopyOf(g)
           l == <<g, k>>
           e == epoch[RankOf[g]]
           end == EndOf(e, g)
           t == ct[g]
           t2 == ct'[g]
           m == nct[l]
           m2 == nct'[l]
           q == inbox[l]
           q2 == inbox'[l]
<1>1. /\ phase[RankOf[g]] \in {"barrier", "restart", "loop"} /\ UNCHANGED rankVars
      /\ g \in Clusters /\ k \in Clusters /\ k # g /\ l \in Links
      /\ ActorTypeOK /\ ActorTypeOK' /\ GhostTypeOK /\ GhostTypeOK'
  <2>1. GhostStep(g)
    BY GhostActs
  <2> QED
    BY <2>1, CopyCluster DEF GhostStep, Runs, RankInv, GhostTypeOK
<1>2. UNCHANGED <<phase, epoch, todo>>
  BY <1>1 DEF rankVars
<1>3. PICK seen \in SUBSET Waiting(g), starts \in BOOLEAN :
          ActsOn(g, seen, starts) /\ HandleMessage(g, seen, starts)
  BY GhostActsOn
<1>4. Act(g, seen) /\ \E x, to : ProcessAndSend(g, seen, x, to)
  BY <1>1, <1>3, GhostCounters
<1>5. ct'[k] = ct[k]
  BY <1>1, <1>4, ActIsOwn
<1>6. /\ Told(q2) \subseteq Told(q)
      /\ Popped(g, seen, "prediction") =>
             \E h \in Told(q) : /\ h.kind = "prediction"
                                /\ m2.predictionsSinceLastSync = h.stepsSinceSync
      /\ ~Popped(g, seen, "prediction") =>
             m2.predictionsSinceLastSync = m.predictionsSinceLastSync
      /\ Popped(g, seen, "correction") =>
             \E h \in Told(q) : /\ h.kind # "prediction"
                                /\ m2.stepsSinceLastSync = h.stepsSinceSync
      /\ ~Popped(g, seen, "correction") => m2.stepsSinceLastSync = m.stepsSinceLastSync
  BY <1>1, <1>4, GhostReads
<1>7. /\ t \in ClusterTimes /\ ct[k] \in ClusterTimes /\ m \in ClusterTimes /\ q \in Seq(Message)
      /\ t2 \in ClusterTimes /\ m2 \in ClusterTimes /\ q2 \in Seq(Message)
  BY <1>1 DEF ActorTypeOK
<1>8. /\ e \in 1..Len(SyncTimes) /\ Working(g) /\ ClockAt(e, g, state[g], t)
      /\ LinkAt(e, l, t, ct[k], m, q)
  BY <1>1, RunningGhost
<1>9. ClockAt(e, g, state'[g], t2) /\ LinkAt(e, l, t2, ct[k], m2, q2)
  <2>1. Working(g)'
    BY <1>1, <1>2 DEF RankInv, ClockInv, ClockOf, ToReset
  <2>2. LinkAt(e, l, ct'[g], ct'[k], nct'[l], inbox'[l])
    BY <1>1, <1>2 DEF RankInv, LinkInv, LinkOf, ToReset
  <2> QED
    BY <1>2, <1>5, <2>1, <2>2 DEF Working
<1>10. /\ lastSendTime[g] <= t.correctionTime
       /\ Abreast(e, g, k, t, ct[k], m, q)
       /\ Posted(e, g, state[g], t, m, sending[g], receiving[g], lastSendTime[g])
  BY <1>1 DEF ReqOf, ToReset
<1>11. \/ /\ t2 = t
          /\ \/ state'[g] = state[g] /\ ~starts /\ (state[g] = "Synced" => t.stepsSinceLastSync # 0)
             \/ state[g] = "Synced" /\ t.stepsSinceLastSync = 0 /\ state'[g] = "Corrected"
             \/ state'[g] = "Synced" /\ receiving'[g] = {} /\ sending'[g] = {} /\ ~starts
       \/ /\ Predict(g, seen) /\ receiving'[g] = {} /\ ~starts
          /\ state[g] = "Corrected" /\ state'[g] = "Predicted"
          /\ t2.stepsSinceLastSync = t.stepsSinceLastSync
          /\ t2.predictionsSinceLastSync = t.predictionsSinceLastSync + Rate[g]
          /\ t2.correctionTime = t.correctionTime
       \/ /\ Correct(g, seen) /\ sending'[g] = {} /\ ~starts
          /\ state[g] = "Predicted" /\ state'[g] = "Corrected"
          /\ t2.stepsSinceLastSync = t.stepsSinceLastSync + Rate[g]
          /\ t2.predictionsSinceLastSync = t.predictionsSinceLastSync
  <2>1. ActorTypeOK /\ ActsOn(g, seen, starts)
    BY <1>1, <1>3
  <2> HIDE DEF t, t2
  <2> QED
    BY <2>1, GhostCounters, SMTT(30) DEF t, t2
<1>12. /\ Predict(g, seen) =>
              /\ t.predictionsSinceLastSync < m2.stepsSinceLastSync + Rate[k]
              /\ t.predictionsSinceLastSync < m2.stepsUntilSync
       /\ Correct(g, seen) =>
              \/ m2.predictionsSinceLastSync >= m2.stepsUntilSync
              \/ m2.predictionsSinceLastSync >= t.predictionsSinceLastSync
  BY <1>1, GhostGuards
<1>13. lastSendTime'[g] = IF Popped(g, seen, "prediction") THEN t.correctionTime ELSE lastSendTime[g]
  BY <1>1, <1>3 DEF HandleMessage, GhostTypeOK
<1>14. /\ sending'[g] = IF Popped(g, seen, "prediction") THEN Remote(g) ELSE sending[g]
       /\ receiving'[g] = IF starts \/ (Popped(g, seen, "correction") /\ ~IgnoreMessage(g))
                          THEN Remote(g) ELSE receiving[g]
  <2> DEFINE R == Remote(g)
  <2>1. /\ sending' = IF Popped(g, seen, "prediction") THEN [sending EXCEPT ![g] = R] ELSE sending
        /\ receiving' = IF starts \/ (Popped(g, seen, "correction") /\ ~IgnoreMessage(g))
                        THEN [receiving EXCEPT ![g] = R] ELSE receiving
    BY <1>3 DEF HandleMessage, PostRequests
  <2>2. DOMAIN sending = Ghosts /\ DOMAIN receiving = Ghosts
    BY <1>1 DEF GhostTypeOK
  <2> HIDE DEF R
  <2>3. /\ sending'[g] = IF Popped(g, seen, "prediction") THEN R ELSE sending[g]
        /\ receiving'[g] = IF starts \/ (Popped(g, seen, "correction") /\ ~IgnoreMessage(g))
                           THEN R ELSE receiving[g]
    BY <2>1, <2>2
  <2> QED
    BY <2>3 DEF R
<1>15. /\ GhostFacts(e, g, k, state[g], t, ct[k], m, q)
       /\ GhostFacts(e, g, k, state'[g], t2, ct[k], m2, q2)
  BY <1>1, <1>7, <1>8, <1>9, GhostLink
<1>16. /\ m2.predictionsSinceLastSync >= m.predictionsSinceLastSync
       /\ m2.stepsSinceLastSync >= m.stepsSinceLastSync
       /\ t.stepsUntilSync = end /\ m2.stepsUntilSync = end
       /\ end \in Nat \ {0} /\ t.stepsSinceLastSync \in Int /\ t.predictionsSinceLastSync \in Int
       /\ t.predictionsSinceLastSync =
              t.stepsSinceLastSync + IF state[g] = "Predicted" THEN Rate[g] ELSE 0
       /\ Rate[g] \in Nat \ {0}
  <2>1. /\ m.predictionsSinceLastSync \in Int /\ m.stepsSinceLastSync \in Int
        /\ \A h \in Told(q) :
               /\ h.stepsSinceSync \in Int
               /\ h.kind = "prediction" => h.stepsSinceSync > m.predictionsSinceLastSync
               /\ h.kind # "prediction" => h.stepsSinceSync > m.stepsSinceLastSync
    BY <1>15 DEF GhostFacts
  <2>2. m2.predictionsSinceLastSync >= m.predictionsSinceLastSync
    BY <1>6, <2>1
  <2>3. m2.stepsSinceLastSync >= m.stepsSinceLastSync
    BY <1>6, <2>1
  <2>4. /\ t.stepsUntilSync = end /\ m2.stepsUntilSync = end
        /\ end \in Nat \ {0} /\ t.stepsSinceLastSync \in Int
        /\ t.predictionsSinceLastSync =
              t.stepsSinceLastSync + IF state[g] = "Predicted" THEN Rate[g] ELSE 0
        /\ Rate[g] \in Nat \ {0}
    BY <1>15 DEF GhostFacts
  <2> QED
    BY <2>2, <2>3, <2>4
<1>17. ActsTo(e, g, k, state[g], t, m2, state'[g], t2)
  BY <1>11, <1>12, <1>16 DEF ActsTo
<1>18. Abreast(e, g, k, t2, ct[k], m2, q2)
  BY <1>6, <1>10, <1>15, <1>16, <1>17, StayAbreast
<1>19. state[g] = "Predicted" /\ state'[g] = "Corrected" => t.correctionTime < t2.correctionTime
  <2> SUFFICES ASSUME state[g] = "Predicted", state'[g] = "Corrected"
               PROVE  t.correctionTime < t2.correctionTime
    OBVIOUS
  <2>1. /\ t2.stepsSinceLastSync = t.stepsSinceLastSync + Rate[g]
        /\ t.stepsSinceLastSync < end
    BY <1>11, <1>15 DEF GhostFacts
  <2>2. /\ OnGrid(e, g, t.correctionTime, t.stepsSinceLastSync)
        /\ OnGrid(e, g, t2.correctionTime, t2.stepsSinceLastSync)
        /\ t.correctionTime \in Int /\ t2.correctionTime \in Int
    BY <1>8, <1>9, <1>15 DEF ClockAt, GhostFacts
  <2>3. t2.stepsSinceLastSync \in Int /\ t.stepsSinceLastSync < t2.stepsSinceLastSync
    BY <1>16, <2>1
  <2> QED
    BY <1>1, <1>8, <1>16, <2>1, <2>2, <2>3, GridTimes
<1>20. Popped(g, seen, "correction") /\ ~IgnoreMessage(g) =>
           t.predictionsSinceLastSync < end
  BY <1>11, <1>16 DEF IgnoreMessage, NextCorrectionSteps, Smaller
<1>21. /\ state[g] = "Synced" /\ t.stepsSinceLastSync # 0 => t.stepsSinceLastSync >= end
       /\ starts => /\ state'[g] = "Corrected" /\ t2.predictionsSinceLastSync = 0
  BY <1>8, <1>11, <1>16 DEF Working, MaySync
<1> HIDE DEF k, l, e, end, t, t2, m, m2, q, q2
<1>22. /\ Posted(e, g, state'[g], t2, m2, sending'[g], receiving'[g], lastSendTime'[g])
       /\ lastSendTime'[g] <= t2.correctionTime
  <2> DEFINE send == Popped(g, seen, "prediction")
             s == state[g]
             s2 == state'[g]
             snd == sending[g]
             snd2 == sending'[g]
             rcv == receiving[g]
             rcv2 == receiving'[g]
             last == lastSendTime[g]
             last2 == lastSendTime'[g]
  <2>1. last \in Int /\ send \in BOOLEAN /\ last <= t.correctionTime
    BY <1>1, <1>10 DEF GhostTypeOK, Popped, Time
  <2>2. t2 = t => \/ s2 = s /\ (s2 = "Synced" => t.stepsSinceLastSync >= end)
                  \/ s2 = "Corrected" /\ t.stepsSinceLastSync = 0
                  \/ s2 = "Synced" /\ snd2 = {} /\ rcv2 = {}
    BY <1>11, <1>16, <1>21
  <2>3. /\ s = "Corrected" /\ s2 = "Predicted" =>
               rcv2 = {} /\ t2.correctionTime = t.correctionTime
        /\ s = "Predicted" /\ s2 = "Corrected" =>
               snd2 = {} /\ t.correctionTime < t2.correctionTime
    BY <1>11, <1>19
  <2>4. IF send THEN /\ last2 = t.correctionTime
                     /\ \E h \in Told(q) : /\ h.kind = "prediction"
                                           /\ m2.predictionsSinceLastSync = h.stepsSinceSync
        ELSE /\ snd2 = snd /\ last2 = last
             /\ m2.predictionsSinceLastSync = m.predictionsSinceLastSync
    BY <1>6, <1>13, <1>14
  <2>5. \/ rcv2 = rcv
        \/ s2 = "Corrected" /\ t2.predictionsSinceLastSync = 0
        \/ /\ t.predictionsSinceLastSync < end
           /\ \E h \in Told(q) : /\ h.kind # "prediction"
                                 /\ m2.stepsSinceLastSync = h.stepsSinceSync
    <3>1. CASE starts
      BY <1>21, <3>1
    <3>2. CASE Popped(g, seen, "correction") /\ ~IgnoreMessage(g)
      BY <1>6, <1>20, <3>2
    <3>3. CASE ~starts /\ ~(Popped(g, seen, "correction") /\ ~IgnoreMessage(g))
      BY <1>14, <3>3, Zenon
    <3> QED
      BY <3>1, <3>2, <3>3
  <2>6. /\ Abreast(e, g, k, t, ct[k], m, q) /\ Posted(e, g, s, t, m, snd, rcv, last)
        /\ ActsTo(e, g, k, s, t, m2, s2, t2)
        /\ GhostFacts(e, g, k, s, t, ct[k], m, q) /\ GhostFacts(e, g, k, s2, t2, ct[k], m2, q2)
        /\ m2.stepsSinceLastSync >= m.stepsSinceLastSync
    BY <1>10, <1>15, <1>16, <1>17
  <2> HIDE DEF send, s, s2, snd, snd2, rcv, rcv2, last, last2
  <2>7. Posted(e, g, s2, t2, m2, snd2, rcv2, last2) /\ last2 <= t2.correctionTime
    BY <2>1, <2>2, <2>3, <2>4, <2>5, <2>6, StayPosted DEF end
  <2> QED
    BY <2>7 DEF s2, snd2, rcv2, last2
<1> QED
  BY <1>1, <1>2, <1>5, <1>18, <1>22 DEF ReqOf, ToReset, k, l, e, t2, m2, q2

LEMMA ToldOneMore ==
    ASSUME NEW q \in Seq(Message), NEW x \in Message
    PROVE  Told(Append(q, x)) \subseteq Told(q) \cup {x}
<1>1. /\ Len(Append(q, x)) = Len(q) + 1 /\ Len(q) \in Nat
      /\ \A i \in 1..Len(q) : Append(q, x)[i] = q[i]
      /\ Append(q, x)[Len(q) + 1] = x
  BY AddLast
<1>2. \A i \in 1..Len(Append(q, x)) : i \in 1..Len(q) \/ i = Len(q) + 1
  BY <1>1
<1> QED
  BY <1>1, <1>2 DEF Told

\* A message x of cluster k to n, at the counters t before and with what k knows
\* of n in m after its step.
Sends(k, n, s, t, m, x) ==
    \/ /\ s = "Corrected" /\ ~MaySync(t)
       /\ x.kind = "prediction"
       /\ x.stepsSinceSync = t.predictionsSinceLastSync + Rate[k]
       /\ t.predictionsSinceLastSync < m.stepsSinceLastSync + Rate[n]
       /\ \/ x.stepsSinceSync >= t.stepsUntilSync
          \/ x.stepsSinceSync >= m.stepsSinceLastSync + Rate[n]
          \/ x.stepsSinceSync >= m.stepsUntilSync
    \/ /\ s = "Predicted"
       /\ x.kind = "correction"
       /\ x.stepsSinceSync = t.stepsSinceLastSync + Rate[k]
       /\ \/ m.stepsUntilSync <= m.predictionsSinceLastSync
          \/ t.predictionsSinceLastSync <= m.predictionsSinceLastSync
       /\ \/ t.predictionsSinceLastSync >= t.stepsUntilSync
          \/ x.stepsSinceSync >= m.predictionsSinceLastSync

\* A cluster that acts sends nothing, or what its guards allow.
LEMMA ActSends ==
    ASSUME ActorTypeOK, ActorTypeOK', NEW k \in Clusters, NEW seen \in SUBSET Waiting(k),
           Act(k, seen), NEW n \in Neighbors(k), NEW l \in Links, l = <<n, k>>,
           NEW j \in Links, j = <<k, n>>, n # k
    PROVE  /\ nct'[l] = nct[l]
           /\ \/ inbox'[l] = inbox[l]
              \/ \E x \in Message : /\ inbox'[l] = Append(inbox[l], x)
                                    /\ Sends(k, n, state[k], ct[k], nct'[j], x)
           /\ ct'[k].stepsSinceLastSync >= ct[k].stepsSinceLastSync
<1> DEFINE M == Mirror(k, seen)
           t == ct[k]
           m == nct'[j]
<1>1. /\ l[1] = n /\ l[2] = k /\ j[1] = k /\ j[2] = n /\ t \in ClusterTimes /\ m \in ClusterTimes
      /\ n \in Clusters /\ Rate[k] \in Nat \ {0} /\ Rate[n] \in Nat \ {0}
      /\ DOMAIN M = Neighbors(k)
  BY RateAssumption DEF ActorTypeOK, Neighbors, Mirror
<1>2. /\ t.stepsSinceLastSync \in Int /\ t.predictionsSinceLastSync \in Int
      /\ t.stepsUntilSync \in Int
      /\ m.stepsSinceLastSync \in Int /\ m.predictionsSinceLastSync \in Int
      /\ m.stepsUntilSync \in Int
  BY <1>1 DEF ClusterTimes
<1>3. CASE Poll(k, seen) \/ RestartAfterSync(k, seen) \/ Sync(k, seen)
  <2>1. ProcessAndSend(k, seen, <<>>, {}) /\ ct' = ct
    BY <1>3 DEF Poll, RestartAfterSync, Sync
  <2>2. nct'[l] = nct[l] /\ inbox'[l] = inbox[l]
    BY <1>1, <2>1, LinksAfter
  <2> QED
    BY <1>2, <2>1, <2>2
<1>4. CASE Predict(k, seen)
  <2> DEFINE new == [t EXCEPT !.predictionsSinceLastSync = @ + Rate[k],
                              !.predictionTime = Plus(@, TimeStepSize(k))]
             x == [kind |-> "prediction", time |-> new.predictionTime,
                   stepsSinceSync |-> new.predictionsSinceLastSync]
             to == {i \in Neighbors(k) : TellPrediction(new, M, i)}
  <2>1. /\ state[k] = "Corrected" /\ ~MaySync(t) /\ MayPredict(t, M)
        /\ ct' = [ct EXCEPT ![k] = new] /\ ProcessAndSend(k, seen, x, to)
    BY <1>4 DEF Predict
  <2>2. ct'[k] = new /\ new \in ClusterTimes
    BY <2>1 DEF ActorTypeOK
  <2>3. /\ new.predictionsSinceLastSync = t.predictionsSinceLastSync + Rate[k]
        /\ new.stepsSinceLastSync = t.stepsSinceLastSync
        /\ new.stepsUntilSync = t.stepsUntilSync
    BY <1>1 DEF ClusterTimes
  <2>4. /\ x \in Message /\ x.kind = "prediction"
        /\ x.stepsSinceSync = t.predictionsSinceLastSync + Rate[k]
    BY <2>2, <2>3 DEF ClusterTimes, Message
  <2>5. M[n] = m
    BY <1>1, <2>1, LinksAfter
  <2>6. t.predictionsSinceLastSync < NextCorrectionSteps(Rate[n], m)
    BY <1>1, <2>1, <2>5 DEF MayPredict
  <2>7. n \in to => \/ new.stepsUntilSync <= new.predictionsSinceLastSync
                    \/ new.predictionsSinceLastSync >= NextCorrectionSteps(Rate[n], m)
    BY <2>5 DEF TellPrediction, JustBeforeSync
  <2> HIDE DEF new, x, to, M, t, m
  <2>8. nct'[l] = nct[l] /\ (n \in to => inbox'[l] = Append(inbox[l], x))
        /\ (n \notin to => inbox'[l] = inbox[l])
    BY <1>1, <2>1, LinksAfter
  <2>9. n \in to => Sends(k, n, state[k], t, m, x)
    <3>1. t.predictionsSinceLastSync < m.stepsSinceLastSync + Rate[n]
      BY <1>1, <1>2, <2>6 DEF NextCorrectionSteps, Smaller
    <3> QED
      BY <1>1, <1>2, <2>1, <2>3, <2>4, <2>7, <3>1 DEF NextCorrectionSteps, Smaller, Sends
  <2>10. ct'[k].stepsSinceLastSync >= t.stepsSinceLastSync
    BY <1>2, <2>2, <2>3
  <2> QED
    BY <2>4, <2>8, <2>9, <2>10 DEF t, m
<1>5. CASE Correct(k, seen)
  <2> DEFINE new == [t EXCEPT !.correctionTime = Plus(@, TimeStepSize(k)),
                              !.stepsSinceLastSync = @ + Rate[k],
                              !.stepsSinceStart = @ + Rate[k]]
             x == [kind |-> "correction", time |-> new.correctionTime,
                   stepsSinceSync |-> new.stepsSinceLastSync]
             to == {i \in Neighbors(k) : TellCorrection(new, M, i)}
  <2>1. /\ state[k] = "Predicted" /\ MayCorrect(t, M)
        /\ ct' = [ct EXCEPT ![k] = new] /\ ProcessAndSend(k, seen, x, to)
    BY <1>5 DEF Correct
  <2>2. ct'[k] = new /\ new \in ClusterTimes
    BY <2>1 DEF ActorTypeOK
  <2>3. /\ new.predictionsSinceLastSync = t.predictionsSinceLastSync
        /\ new.stepsSinceLastSync = t.stepsSinceLastSync + Rate[k]
        /\ new.stepsUntilSync = t.stepsUntilSync
    BY <1>1 DEF ClusterTimes
  <2>4. /\ x \in Message /\ x.kind = "correction"
        /\ x.stepsSinceSync = t.stepsSinceLastSync + Rate[k]
    BY <2>2, <2>3 DEF ClusterTimes, Message
  <2>5. M[n] = m
    BY <1>1, <2>1, LinksAfter
  <2>6. \/ m.stepsUntilSync <= m.predictionsSinceLastSync
        \/ t.predictionsSinceLastSync <= m.predictionsSinceLastSync
    BY <1>1, <2>1, <2>5 DEF MayCorrect
  <2>7. n \in to => \/ new.stepsUntilSync <= new.predictionsSinceLastSync
                    \/ new.stepsSinceLastSync >= m.predictionsSinceLastSync
    BY <2>5 DEF TellCorrection, JustBeforeSync
  <2> HIDE DEF new, x, to, M, t, m
  <2>8. nct'[l] = nct[l] /\ (n \in to => inbox'[l] = Append(inbox[l], x))
        /\ (n \notin to => inbox'[l] = inbox[l])
    BY <1>1, <2>1, LinksAfter
  <2>9. n \in to => Sends(k, n, state[k], t, m, x)
    BY <1>2, <2>1, <2>3, <2>4, <2>6, <2>7 DEF Sends
  <2>10. ct'[k].stepsSinceLastSync >= t.stepsSinceLastSync
    BY <1>1, <1>2, <2>2, <2>3
  <2> QED
    BY <2>4, <2>8, <2>9, <2>10 DEF t, m
<1> QED
  BY <1>3, <1>4, <1>5 DEF Act

\* What a copy cluster sends its ghost cluster is in turn.
LEMMA NewsInTurn ==
    ASSUME NEW e, NEW g, NEW k, NEW s, NEW t, NEW u, NEW m, NEW q,
           GhostFacts(e, g, k, s, t, u, m, q), Abreast(e, g, k, t, u, m, q),
           NEW s1, NEW m1, NEW q1, GhostFacts(e, k, g, s1, u, t, m1, q1),
           NEW s2, NEW u2, NEW m2, NEW q2, GhostFacts(e, k, g, s2, u2, t, m2, q2),
           EndOf(e, k) = EndOf(e, g), NEW x \in Message, Sends(k, g, s1, u, m2, x)
    PROVE  InTurn(e, g, k, t, x)
<1>1. /\ EndOf(e, g) \in Nat \ {0} /\ Rate[g] \in Nat \ {0} /\ Rate[k] \in Nat \ {0}
      /\ t.stepsSinceLastSync \in Int /\ u.stepsSinceLastSync \in Int
      /\ Multiple(t.stepsSinceLastSync, Rate[g])
      /\ t.predictionsSinceLastSync \in Int /\ Multiple(t.predictionsSinceLastSync, Rate[g])
      /\ m.predictionsSinceLastSync \in 0..u.predictionsSinceLastSync
  BY DEF GhostFacts
<1>2. /\ u.stepsUntilSync = EndOf(e, g)
      /\ u.predictionsSinceLastSync = u.stepsSinceLastSync + IF s1 = "Predicted" THEN Rate[k] ELSE 0
  BY DEF GhostFacts
<1>3. /\ m2.stepsUntilSync = EndOf(e, g)
      /\ m2.stepsSinceLastSync \in Nat /\ m2.stepsSinceLastSync <= t.stepsSinceLastSync
      /\ Multiple(m2.stepsSinceLastSync, Rate[g])
      /\ m2.predictionsSinceLastSync \in 0..t.predictionsSinceLastSync
      /\ Multiple(m2.predictionsSinceLastSync, Rate[g])
  BY DEF GhostFacts
<1>4. /\ \/ t.stepsSinceLastSync <= m.predictionsSinceLastSync
         \/ m.predictionsSinceLastSync >= EndOf(e, g)
      /\ \/ t.predictionsSinceLastSync = 0
         \/ t.predictionsSinceLastSync - Rate[g] < u.stepsSinceLastSync + Rate[k]
  BY DEF Abreast
<1>5. CASE /\ s1 = "Corrected" /\ ~MaySync(u)
           /\ x.kind = "prediction"
           /\ x.stepsSinceSync = u.predictionsSinceLastSync + Rate[k]
           /\ u.predictionsSinceLastSync < m2.stepsSinceLastSync + Rate[g]
           /\ \/ x.stepsSinceSync >= u.stepsUntilSync
              \/ x.stepsSinceSync >= m2.stepsSinceLastSync + Rate[g]
              \/ x.stepsSinceSync >= m2.stepsUntilSync
  <2>1. u.predictionsSinceLastSync < EndOf(e, g)
    BY <1>1, <1>2, <1>5 DEF MaySync
  <2>2. t.stepsSinceLastSync <= u.predictionsSinceLastSync
    BY <1>1, <1>2, <1>4, <2>1
  <2>3. t.stepsSinceLastSync < m2.stepsSinceLastSync + Rate[g]
    BY <1>1, <1>2, <1>3, <1>5, <2>2
  <2>4. t.stepsSinceLastSync <= m2.stepsSinceLastSync
    BY <1>1, <1>3, <2>3, NoMultipleBetween
  <2>5. t.stepsSinceLastSync = m2.stepsSinceLastSync
    BY <1>1, <1>3, <2>4
  <2> QED
    BY <1>1, <1>2, <1>3, <1>5, <2>5 DEF InTurn
<1>6. CASE /\ s1 = "Predicted"
           /\ x.kind = "correction"
           /\ x.stepsSinceSync = u.stepsSinceLastSync + Rate[k]
           /\ \/ m2.stepsUntilSync <= m2.predictionsSinceLastSync
              \/ u.predictionsSinceLastSync <= m2.predictionsSinceLastSync
           /\ \/ u.predictionsSinceLastSync >= u.stepsUntilSync
              \/ x.stepsSinceSync >= m2.predictionsSinceLastSync
  <2>1. x.stepsSinceSync = u.predictionsSinceLastSync /\ x.stepsSinceSync \in Int
    BY <1>1, <1>2, <1>6
  <2>2. \/ t.predictionsSinceLastSync >= x.stepsSinceSync
        \/ t.predictionsSinceLastSync >= EndOf(e, g)
    BY <1>1, <1>3, <1>6, <2>1
  <2>3. CASE x.stepsSinceSync >= EndOf(e, g)
    BY <1>6, <2>2, <2>3 DEF InTurn
  <2>4. CASE x.stepsSinceSync < EndOf(e, g)
    <3>1. x.stepsSinceSync = m2.predictionsSinceLastSync
      BY <1>1, <1>2, <1>3, <1>6, <2>1, <2>4
    <3>2. t.predictionsSinceLastSync < x.stepsSinceSync + Rate[g]
      BY <1>1, <1>4, <1>6, <2>1, <1>3, <3>1
    <3>3. t.predictionsSinceLastSync <= x.stepsSinceSync
      BY <1>1, <1>3, <3>1, <3>2, NoMultipleBetween
    <3> QED
      BY <1>6, <2>2, <3>3 DEF InTurn
  <2> QED
    BY <1>1, <2>1, <2>3, <2>4
<1> QED
  BY <1>5, <1>6 DEF Sends

\* A step of the copy cluster keeps the requests of its ghost cluster apart.
LEMMA CopyRequests ==
    ASSUME ExactArithmetic, SameUnitStep, RankInv, RankInv', NEW g \in Ghosts, ReqOf(g),
           CellStep(CopyOf(g))
    PROVE  ReqOf(g)'
<1> DEFINE k == CopyOf(g)
           l == <<g, k>>
           j == <<k, g>>
           r == RankOf[g]
           e == epoch[r]
           t == ct[g]
           u == ct[k]
           u2 == ct'[k]
           m == nct[l]
           q == inbox[l]
           q2 == inbox'[l]
<1>1. /\ g \in Clusters /\ k \in Clusters \ Ghosts /\ k # g /\ l \in Links /\ j \in Links
      /\ g \in Neighbors(k) /\ RankOf[k] = r /\ r \in Ranks
      /\ ActorTypeOK /\ ActorTypeOK' /\ GhostTypeOK /\ GhostTypeOK'
  BY CopyCluster, GhostAssumption DEF RankInv, GhostTypeOK, Neighbors
<1>2. PICK seen \in SUBSET Waiting(k) : Act(k, seen)
  BY DEF CellStep
<1>3. /\ phase[r] \in {"barrier", "restart", "loop"} /\ phase'[r] \in {"barrier", "restart", "loop"}
      /\ epoch' = epoch /\ UNCHANGED mpiVars
  BY <1>1 DEF CellStep, Runs, RestartNext, rankVars, GhostTypeOK
<1>4. state'[g] = state[g] /\ ct'[g] = t
  BY <1>1, <1>2, ActIsOwn
<1>5. /\ nct'[l] = m
      /\ \/ q2 = q
         \/ \E x \in Message : q2 = Append(q, x) /\ Sends(k, g, state[k], u, nct'[j], x)
      /\ u2.stepsSinceLastSync >= u.stepsSinceLastSync
  BY <1>1, <1>2, ActSends
<1>6. /\ e \in 1..Len(SyncTimes) /\ ClockAt(e, g, state[g], t) /\ ClockAt(e, k, state[k], u)
      /\ LinkAt(e, l, t, u, m, q) /\ LinkAt(e, j, u, t, nct[j], inbox[j])
  BY <1>1, <1>3, RunningGhost
<1>7. ClockAt(e, k, state'[k], u2) /\ LinkAt(e, j, u2, t, nct'[j], inbox'[j])
  <2>1. Working(k)'
    BY <1>1, <1>3 DEF RankInv, ClockInv, ClockOf, ToReset
  <2>2. LinkAt(e, j, ct'[k], ct'[g], nct'[j], inbox'[j])
    BY <1>1, <1>3 DEF RankInv, LinkInv, LinkOf, ToReset
  <2> QED
    BY <1>1, <1>3, <1>4, <2>1, <2>2 DEF Working
<1>8. /\ t \in ClusterTimes /\ u \in ClusterTimes /\ u2 \in ClusterTimes
      /\ m \in ClusterTimes /\ nct[j] \in ClusterTimes /\ nct'[j] \in ClusterTimes
      /\ q \in Seq(Message) /\ inbox[j] \in Seq(Message) /\ inbox'[j] \in Seq(Message)
  BY <1>1 DEF ActorTypeOK
<1>9. /\ GhostFacts(e, g, k, state[g], t, u, m, q)
      /\ GhostFacts(e, k, g, state[k], u, t, nct[j], inbox[j])
      /\ GhostFacts(e, k, g, state'[k], u2, t, nct'[j], inbox'[j])
      /\ EndOf(e, k) = EndOf(e, g)
  BY <1>1, <1>6, <1>7, <1>8, GhostLink, SameEnd
<1>10. /\ lastSendTime[g] <= t.correctionTime
       /\ Abreast(e, g, k, t, u, m, q)
       /\ Posted(e, g, state[g], t, m, sending[g], receiving[g], lastSendTime[g])
  BY <1>1, <1>3 DEF ReqOf, ToReset
<1> HIDE DEF k, l, j, e, t, u, u2, m, q, q2
<1>11. ASSUME NEW h \in Told(q2)
       PROVE  InTurn(e, g, k, t, h)
  <2>1. CASE q2 = q
    BY <1>10, <1>11, <2>1 DEF Abreast
  <2>2. ASSUME NEW x \in Message, q2 = Append(q, x), Sends(k, g, state[k], u, nct'[j], x)
        PROVE  InTurn(e, g, k, t, h)
    <3>1. InTurn(e, g, k, t, x)
      BY <1>9, <1>10, <2>2, NewsInTurn
    <3>2. h = x \/ h \in Told(q)
      BY <1>8, <1>11, <2>2, ToldOneMore
    <3> QED
      BY <1>10, <3>1, <3>2 DEF Abreast
  <2> QED
    BY <1>5, <2>1, <2>2
<1>12. Abreast(e, g, k, t, u2, m, q2)
  <2>1. /\ u.stepsSinceLastSync \in Int /\ u2.stepsSinceLastSync \in Int
        /\ t.predictionsSinceLastSync \in Int /\ Rate[g] \in Nat \ {0} /\ Rate[k] \in Nat \ {0}
    BY <1>9 DEF GhostFacts
  <2>2. \/ t.predictionsSinceLastSync = 0
        \/ t.predictionsSinceLastSync - Rate[g] < u2.stepsSinceLastSync + Rate[k]
    BY <1>5, <1>10, <2>1 DEF Abreast
  <2> QED
    BY <1>10, <1>11, <2>2 DEF Abreast
<1> QED
  BY <1>1, <1>3, <1>4, <1>5, <1>10, <1>12 DEF ReqOf, ToReset, mpiVars, k, l, e, t, u2, m, q2

\* The requests stay apart when nothing of them changes, and when some complete.
LEMMA SameRequests ==
    ASSUME NEW g \in Ghosts, ReqOf(g),
           state'[g] = state[g], ct'[g] = ct[g], ct'[CopyOf(g)] = ct[CopyOf(g)],
           nct'[<<g, CopyOf(g)>>] = nct[<<g, CopyOf(g)>>],
           inbox'[<<g, CopyOf(g)>>] = inbox[<<g, CopyOf(g)>>],
           epoch'[RankOf[g]] = epoch[RankOf[g]],
           phase[RankOf[g]] = "idle" \/ ToReset(g)
               <=> phase'[RankOf[g]] = "idle" \/ ToReset(g)',
           receiving'[g] \subseteq receiving[g], sending'[g] \subseteq sending[g],
           lastSendTime'[g] = lastSendTime[g]
    PROVE  ReqOf(g)'
<1>1. CASE phase[RankOf[g]] = "idle" \/ ToReset(g)
  BY <1>1 DEF ReqOf
<1>2. CASE ~(phase[RankOf[g]] = "idle" \/ ToReset(g))
  BY <1>2 DEF ReqOf, Posted
<1> QED
  BY <1>1, <1>2

\* Clusters that are not connected to it do not matter to a ghost cluster.
LEMMA FarRequests ==
    ASSUME GhostTypeOK, NEW g \in Ghosts, ReqOf(g), NEW c \in Clusters, c # g, c # CopyOf(g),
           CellStep(c) \/ GhostStep(c)
    PROVE  ReqOf(g)'
<1> DEFINE l == <<g, CopyOf(g)>>
           r == RankOf[g]
<1>1. /\ g \in Clusters /\ CopyOf(g) \in Clusters /\ l \in Links /\ l[1] = g /\ l[2] = CopyOf(g)
      /\ r \in Ranks /\ RankOf[c] \in Ranks /\ ActorTypeOK
  BY CopyCluster, GhostAssumption DEF GhostTypeOK
<1>2. PICK seen \in SUBSET Waiting(c) : Act(c, seen)
  BY DEF CellStep, GhostStep
<1>3. /\ state'[g] = state[g] /\ ct'[g] = ct[g] /\ ct'[CopyOf(g)] = ct[CopyOf(g)]
      /\ nct'[l] = nct[l] /\ inbox'[l] = inbox[l]
  BY <1>1, <1>2, ActIsOwn, ActFarLinks
<1>4. /\ Runs(c) /\ epoch' = epoch
  BY DEF CellStep, GhostStep, Runs
<1>5. /\ \A s \in Ranks \ {RankOf[c]} : phase'[s] = phase[s] /\ todo'[s] = todo[s]
      /\ phase[RankOf[c]] \in {"barrier", "restart", "loop"}
      /\ phase'[RankOf[c]] \in {"barrier", "restart", "loop"}
  BY <1>1, <1>4 DEF Runs, RestartNext, rankVars, GhostTypeOK
<1>6. /\ phase[r] = "idle" <=> phase'[r] = "idle"
      /\ ToReset(g) <=> ToReset(g)'
  BY <1>1, <1>5 DEF ToReset
<1>7. /\ receiving'[g] = receiving[g] /\ sending'[g] = sending[g]
      /\ lastSendTime'[g] = lastSendTime[g]
  <2>1. CASE CellStep(c)
    BY <2>1 DEF CellStep, mpiVars
  <2>2. CASE GhostStep(c)
    <3>1. PICK s \in SUBSET Waiting(c), starts \in BOOLEAN : HandleMessage(c, s, starts)
      BY <2>2 DEF GhostStep
    <3>2. /\ \/ lastSendTime' = lastSendTime
             \/ lastSendTime' = [lastSendTime EXCEPT ![c] = ct[c].correctionTime]
          /\ \/ receiving' = receiving \/ receiving' = [receiving EXCEPT ![c] = Remote(c)]
          /\ \/ sending' = sending \/ sending' = [sending EXCEPT ![c] = Remote(c)]
      BY <3>1 DEF HandleMessage, PostRequests
    <3> DEFINE R == Remote(c)
    <3>3. /\ receiving' = receiving \/ receiving' = [receiving EXCEPT ![c] = R]
          /\ sending' = sending \/ sending' = [sending EXCEPT ![c] = R]
      BY <3>2
    <3> HIDE DEF R
    <3> QED
      BY <3>2, <3>3 DEF GhostTypeOK
  <2> QED
    BY <2>1, <2>2
<1> QED
  BY <1>3, <1>4, <1>6, <1>7, SameRequests

\* A reset leaves no request and none is posted by it.
LEMMA ResetRequests ==
    ASSUME ExactArithmetic, SameUnitStep, RankInv, RankInv', NEW g \in Ghosts, ReqOf(g),
           NEW r \in Ranks, NEW c \in Own(r), ResetNext(r, c)
    PROVE  ReqOf(g)'
<1> DEFINE k == CopyOf(g)
           l == <<g, k>>
           e == epoch[r]
<1>1. /\ g \in Clusters /\ k \in Clusters \ Ghosts /\ l \in Links /\ l[1] = g /\ l[2] = k
      /\ RankOf[g] \in Ranks /\ RankOf[k] = RankOf[g] /\ k # g
      /\ c \in Clusters /\ RankOf[c] = r
      /\ ActorTypeOK /\ ActorTypeOK' /\ GhostTypeOK /\ GhostTypeOK'
  <2>1. c \in Clusters /\ RankOf[c] = r
    BY GhostAssumption DEF Own, Cells, GhostsOf
  <2>2. ActorTypeOK /\ ActorTypeOK' /\ GhostTypeOK /\ GhostTypeOK'
    BY DEF RankInv, GhostTypeOK
  <2>3. /\ g \in Clusters /\ k \in Clusters \ Ghosts /\ l \in Links /\ l[1] = g /\ l[2] = k
        /\ RankOf[k] = RankOf[g] /\ k # g
    BY CopyCluster
  <2>4. RankOf[g] \in Ranks
    BY <2>3, GhostAssumption
  <2> QED
    BY <2>1, <2>2, <2>3, <2>4
<1>2. /\ phase[r] = "reset" /\ c \in todo[r] /\ UNCHANGED <<phase, epoch, state>>
      /\ SetSyncTimeAndReset(c, SyncTimes[e], Waiting(c))
      /\ todo' = [todo EXCEPT ![r] = @ \ {c}]
  BY DEF ResetNext, MayBeNext, SetSyncTimeAndReset
<1>3. todo'[r] = todo[r] \ {c} /\ \A s \in Ranks \ {r} : todo'[s] = todo[s]
  BY <1>1, <1>2 DEF GhostTypeOK
<1>4. /\ \A i \in Clusters \ {c} : ct'[i] = ct[i]
      /\ c # g => nct'[l] = nct[l] /\ inbox'[l] = inbox[l]
  BY <1>1, <1>2 DEF SetSyncTimeAndReset, ActorTypeOK
<1>5. e \in 1..Len(SyncTimes)
  BY <1>1, <1>2, RankInAPhase
<1>6. CASE c # g
  <2>1. /\ receiving'[g] = receiving[g] /\ sending'[g] = sending[g]
        /\ lastSendTime'[g] = lastSendTime[g]
    <3>1. CASE c \notin Ghosts
      BY <3>1 DEF ResetNext, mpiVars
    <3>2. CASE c \in Ghosts
      <4> DEFINE R == Remote(c)
                 v == -1
      <4>1. /\ lastSendTime' = [lastSendTime EXCEPT ![c] = v]
            /\ receiving' = receiving \/ receiving' = [receiving EXCEPT ![c] = R]
            /\ sending' = sending \/ sending' = [sending EXCEPT ![c] = R]
        BY <3>2 DEF ResetNext, PostRequests
      <4> HIDE DEF R, v
      <4> QED
        BY <1>1, <1>6, <4>1 DEF GhostTypeOK
    <3> QED
      BY <3>1, <3>2
  <2>2. ToReset(g) <=> ToReset(g)'
    BY <1>1, <1>2, <1>3, <1>6 DEF ToReset
  <2>3. CASE c # k
    <3>1. state'[g] = state[g] /\ ct'[g] = ct[g] /\ ct'[k] = ct[k]
      BY <1>1, <1>2, <1>4, <1>6, <2>3
    <3> QED
      BY <1>2, <1>4, <1>6, <2>1, <2>2, <3>1, SameRequests
  <2>4. CASE c = k /\ ToReset(g)
    BY <1>1, <1>2, <1>4, <1>6, <2>1, <2>2, <2>4 DEF ReqOf
  <2>5. CASE c = k /\ ~ToReset(g)
    <3>1. RankOf[g] = r /\ ct'[g] = ct[g]
      BY <1>1, <1>4, <1>6, <2>5
    <3>2. ct[g].predictionsSinceLastSync = 0
      <4>1. Working(g)
        BY <1>1, <1>2, <2>5, <3>1 DEF RankInv, ClockInv, ClockOf
      <4> QED
        BY <1>2, <3>1, <4>1 DEF Working, ClockAt
    <3> QED
      BY <1>2, <1>4, <1>6, <2>1, <2>2, <2>5, <3>1, <3>2 DEF ReqOf, Abreast
  <2> QED
    BY <2>3, <2>4, <2>5
<1>7. CASE c = g
  <2>1. RankOf[g] = r /\ ToReset(g)
    BY <1>1, <1>2, <1>7 DEF ToReset
  <2>2. Rested(g, e) /\ Settled(nct[l], inbox[l], PhaseStart(e))
    BY <1>1, <1>2, <2>1 DEF RankInv, ClockInv, ClockOf, LinkInv, LinkOf
  <2>3. receiving[g] = {} /\ sending[g] = {}
    BY <2>1 DEF ReqOf
  <2>4. /\ ~Popped(g, Waiting(g), "prediction")
        /\ IgnoreMessage(g)
    <3>1. Waiting(g) # {} => inbox[l] # <<>>
      BY CopyCluster DEF Waiting
    <3>2. inbox[l] # <<>> => Head(inbox[l]).kind = "correction"
      BY <2>2 DEF Settled
    <3>3. IgnoreMessage(g)
      BY <2>2 DEF Rested, MaySync, IgnoreMessage
    <3> QED
      BY <3>1, <3>2, <3>3 DEF Popped
  <2>5. receiving'[g] = {} /\ sending'[g] = {} /\ lastSendTime'[g] = -1
    <3> DEFINE v == -1
    <3>1. receiving' = receiving /\ sending' = sending /\ lastSendTime' = [lastSendTime EXCEPT ![g] = v]
      BY <1>7, <2>4 DEF ResetNext, PostRequests
    <3> HIDE DEF v
    <3>2. lastSendTime'[g] = v
      BY <1>1, <3>1 DEF GhostTypeOK
    <3> QED
      BY <2>3, <3>1, <3>2 DEF v
  <2>6. /\ StandsAt(ct'[g], PhaseStart(e))
        /\ ct'[g].stepsSinceLastSync = 0 /\ ct'[g].predictionsSinceLastSync = 0
    <3>1. ct'[g] = Cleared(ct[g], StepsUntil(g, ct[g].correctionTime, SyncTimes[e]))
      BY <1>1, <1>2, <1>7 DEF SetSyncTimeAndReset, ActorTypeOK
    <3>2. ct[g] \in ClusterTimes
      BY <1>1 DEF ActorTypeOK
    <3> HIDE DEF e
    <3> QED
      BY <2>2, <3>1, <3>2 DEF Rested, StandsAt, Cleared, ClusterTimes
  <2>7. Fresh(e, k, nct'[l], inbox'[l])
    BY <1>1, <1>2, <1>7, <2>2, ResetLink DEF Rested
  <2>8. PhaseStart(e) \in Nat
    <3>1. Len(SyncTimes) \in Nat
      BY SyncTimesAssumption
    <3> QED
      BY <1>5, <3>1, SyncTimesAssumption, RateAssumption DEF PhaseStart
  <2>9. ~(phase'[r] = "idle" \/ ToReset(g)') /\ epoch'[r] = e
    BY <1>2, <1>3, <1>7, <2>1 DEF ToReset
  <2>10. Abreast(e, g, k, ct'[g], ct'[k], nct'[l], inbox'[l])
    <3>1. Told(inbox'[l]) = {}
      BY <2>7 DEF Told, Fresh
    <3> QED
      BY <2>6, <2>7, <3>1 DEF Abreast, Fresh
  <2>11. Posted(e, g, state'[g], ct'[g], nct'[l], sending'[g], receiving'[g], lastSendTime'[g])
    BY <2>5, <2>6, <2>8 DEF Posted, StandsAt
  <2>12. lastSendTime'[g] <= ct'[g].correctionTime
    BY <2>5, <2>6, <2>8 DEF StandsAt
  <2> QED
    BY <2>1, <2>9, <2>10, <2>11, <2>12 DEF ReqOf
<1> QED
  BY <1>6, <1>7

\* The steps of the phases of a rank.
LEMMA PhaseRequests ==
    ASSUME GhostTypeOK, NEW g \in Ghosts, ReqOf(g), NEW r \in Ranks,
           Advance(r) \/ EnterBarrier(r) \/ LeaveBarrier(r) \/ Return(r)
    PROVE  ReqOf(g)'
<1>1. /\ g \in Own(RankOf[g]) /\ RankOf[g] \in Ranks
  BY CopyCluster, GhostAssumption DEF Own, GhostsOf
<1>2. /\ UNCHANGED <<actorVars, mpiVars>>
      /\ \A s \in Ranks \ {r} : phase'[s] = phase[s] /\ epoch'[s] = epoch[s] /\ todo'[s] = todo[s]
  BY DEF Advance, EnterBarrier, LeaveBarrier, Return, GhostTypeOK
<1>3. UNCHANGED <<state, ct, nct, inbox, receiving, sending, lastSendTime>>
  BY <1>2 DEF actorVars, mpiVars
<1>4. CASE RankOf[g] # r
  BY <1>1, <1>2, <1>3, <1>4, SameRequests DEF ToReset
<1>5. CASE RankOf[g] = r /\ Advance(r)
  <2>1. phase[r] = "idle" /\ phase'[r] = "reset" /\ todo'[r] = Own(r)
    BY <1>5 DEF Advance, GhostTypeOK
  <2> QED
    BY <1>1, <1>3, <1>5, <2>1 DEF ReqOf, ToReset
<1>6. CASE RankOf[g] = r /\ (EnterBarrier(r) \/ LeaveBarrier(r))
  <2>1. /\ epoch' = epoch /\ phase[r] # "idle" /\ phase'[r] # "idle" /\ phase'[r] # "reset"
        /\ phase[r] = "reset" => todo[r] = {}
    BY <1>6 DEF EnterBarrier, LeaveBarrier, GhostTypeOK
  <2> QED
    BY <1>3, <1>6, <2>1, SameRequests DEF ToReset
<1>7. CASE RankOf[g] = r /\ Return(r)
  <2>1. state[g] = "Synced" /\ phase[r] = "loop" /\ phase'[r] = "idle"
    BY <1>1, <1>7 DEF Return, GhostTypeOK
  <2>2. receiving[g] = {} /\ sending[g] = {} /\ lastSendTime[g] <= ct[g].correctionTime
    BY <1>7, <2>1 DEF ReqOf, ToReset, Posted
  <2> QED
    BY <1>3, <1>7, <2>1, <2>2 DEF ReqOf
<1> QED
  BY <1>4, <1>5, <1>6, <1>7

\* MPI only completes requests.
LEMMA MPIRequests ==
    ASSUME GhostTypeOK, NEW g \in Ghosts, ReqOf(g), MPIStep
    PROVE  ReqOf(g)'
<1>1. UNCHANGED <<state, ct, nct, inbox, phase, epoch, todo, lastSendTime>>
  BY DEF MPIStep, ghostVars, actorVars, rankVars, mpiVars, ReadCopyLayer, FillGhostLayer
<1>2. receiving'[g] \subseteq receiving[g] /\ sending'[g] \subseteq sending[g]
  <2>1. CASE UNCHANGED ghostVars
    BY <2>1 DEF ghostVars, mpiVars
  <2>2. ASSUME NEW p \in Regions, ReadCopyLayer(p[1], p[2])
        PROVE  receiving'[g] \subseteq receiving[g] /\ sending'[g] \subseteq sending[g]
    <3>1. receiving' = receiving /\ sending' = [sending EXCEPT ![p[1]] = @ \ {p[2]}]
      BY <2>2 DEF ReadCopyLayer
    <3> QED
      BY <3>1 DEF GhostTypeOK
  <2>3. ASSUME NEW p \in Regions, FillGhostLayer(p[1], p[2])
        PROVE  receiving'[g] \subseteq receiving[g] /\ sending'[g] \subseteq sending[g]
    <3>1. sending' = sending /\ receiving' = [receiving EXCEPT ![p[2]] = @ \ {p[1]}]
      BY <2>3 DEF FillGhostLayer
    <3> QED
      BY <3>1 DEF GhostTypeOK
  <2> QED
    BY <2>1, <2>2, <2>3 DEF MPIStep
<1> QED
  BY <1>1, <1>2, SameRequests DEF ToReset

LEMMA NextReqInv ==
    ASSUME ExactArithmetic, SameUnitStep, RankInv, RankInv', ReqInv, [GhostNext]_ghostVars
    PROVE  ReqInv'
<1> SUFFICES ASSUME NEW g \in Ghosts PROVE ReqOf(g)'
  BY DEF ReqInv
<1>1. ReqOf(g) /\ GhostTypeOK
  BY DEF ReqInv, RankInv
<1>2. CASE \E r \in Ranks : Advance(r) \/ EnterBarrier(r) \/ LeaveBarrier(r) \/ Return(r)
  BY <1>1, <1>2, PhaseRequests
<1>3. CASE \E r \in Ranks : \E c \in Own(r) : ResetNext(r, c)
  BY <1>1, <1>3, ResetRequests
<1>4. ASSUME NEW c \in Clusters \ Ghosts, CellStep(c)
      PROVE  ReqOf(g)'
  <2>1. CASE c = CopyOf(g)
    BY <1>1, <1>4, <2>1, CopyRequests
  <2>2. CASE c # CopyOf(g)
    BY <1>1, <1>4, <2>2, FarRequests
  <2> QED
    BY <2>1, <2>2
<1>5. ASSUME NEW h \in Ghosts, GhostAct(h)
      PROVE  ReqOf(g)'
  <2>1. CASE h = g
    BY <1>1, <1>5, <2>1, GhostRequests
  <2>2. CASE h # g
    BY <1>1, <1>5, <2>2, FarRequests, GhostActs, CopyCluster
  <2> QED
    BY <2>1, <2>2
<1>6. CASE MPIStep
  BY <1>1, <1>6, MPIRequests
<1> QED
  BY <1>2, <1>3, <1>4, <1>5, <1>6, StepCases

LEMMA InitReqInv == GhostInit => ReqInv
<1> SUFFICES ASSUME GhostInit, NEW g \in Ghosts PROVE ReqOf(g)
  BY DEF ReqInv
<1>1. g \in Clusters /\ RankOf[g] \in Ranks
  BY CopyCluster, GhostAssumption
<1>2. StartTime \in Nat
  BY RateAssumption
<1>3. lastSendTime[g] <= ct[g].correctionTime
  BY <1>1, <1>2 DEF GhostInit, ActorInit
<1> QED
  BY <1>1, <1>3 DEF GhostInit, ReqOf

\* The clocks, messages and requests of all ranks.
LEMMA GhostInvariant ==
    ASSUME ExactArithmetic, SameUnitStep
    PROVE  GhostSpec => [](RankInv /\ ReqInv)
<1>1. GhostInit => RankInv /\ ReqInv
  BY InitRankInv, InitReqInv
<1>2. RankInv /\ ReqInv /\ [GhostNext]_ghostVars => (RankInv /\ ReqInv)'
  BY NextRankInv, NextReqInv
<1> QED
  BY <1>1, <1>2, PTL DEF GhostSpec

----------------------------------------------------------------------------
(* What the requests promise *)

\* The same step stands at the same time.
LEMMA SameGridTime ==
    ASSUME NEW e \in 1..Len(SyncTimes), NEW c \in Clusters, NEW n, NEW a \in Int, NEW b \in Int,
           OnGrid(e, c, a, n), OnGrid(e, c, b, n)
    PROVE  a = b
<1> DEFINE s == PhaseStart(e)
<1>1. Rate[c] * (a - s) = Rate[c] * (b - s)
  BY Zenon DEF OnGrid, AtStep
<1>2. Rate[c] \in Nat \ {0} /\ s \in Int
  BY PhaseTimes, RateAssumption
<1> HIDE DEF s
<1>3. a - s \in Int /\ b - s \in Int
  BY <1>2
<1>4. a - s = b - s
  BY <1>1, <1>2, <1>3, Cancel
<1> QED
  BY <1>2, <1>4

\* A cluster does not predict behind its corrections.
LEMMA PredictionIsAhead ==
    ASSUME ExactArithmetic, NEW e \in 1..Len(SyncTimes), NEW c \in Clusters, NEW s,
           NEW t \in ClusterTimes, ClockAt(e, c, s, t)
    PROVE  t.correctionTime <= t.predictionTime
<1>1. /\ t.correctionTime \in Int /\ t.predictionTime \in Int
      /\ t.stepsSinceLastSync \in Int /\ t.predictionsSinceLastSync \in Int
      /\ Rate[c] \in Nat \ {0}
  BY RateAssumption DEF ClusterTimes, Time
<1>2. /\ OnGrid(e, c, t.correctionTime, t.stepsSinceLastSync)
      /\ OnGrid(e, c, t.predictionTime, t.predictionsSinceLastSync)
      /\ t.stepsUntilSync = EndOf(e, c)
      /\ t.predictionsSinceLastSync = t.stepsSinceLastSync + IF s = "Predicted" THEN Rate[c] ELSE 0
      /\ s = "Predicted" => t.stepsSinceLastSync < t.stepsUntilSync
  BY DEF ClockAt
<1>3. CASE s = "Predicted"
  <2>1. t.stepsSinceLastSync < t.predictionsSinceLastSync /\ t.stepsSinceLastSync < EndOf(e, c)
    BY <1>1, <1>2, <1>3
  <2>2. t.correctionTime < t.predictionTime
    BY <1>1, <1>2, <2>1, GridTimes
  <2> QED
    BY <1>1, <2>2
<1>4. CASE s # "Predicted"
  <2>1. t.predictionsSinceLastSync = t.stepsSinceLastSync
    BY <1>1, <1>2, <1>4
  <2> QED
    BY <1>1, <1>2, <2>1, SameGridTime
<1> QED
  BY <1>3, <1>4

\* The message a ghost cluster pops next.
LEMMA PoppedIsTold ==
    ASSUME ActorTypeOK, NEW g \in Ghosts, NEW kind, Popped(g, Waiting(g), kind)
    PROVE  /\ inbox[<<g, CopyOf(g)>>] # <<>>
           /\ Head(inbox[<<g, CopyOf(g)>>]) \in Told(inbox[<<g, CopyOf(g)>>])
           /\ Head(inbox[<<g, CopyOf(g)>>]).kind = kind
<1> DEFINE q == inbox[<<g, CopyOf(g)>>]
<1>1. Neighbors(g) = {CopyOf(g)} /\ q \in Seq(Message)
  BY CopyCluster DEF ActorTypeOK
<1>2. q # <<>> /\ Head(q).kind = kind
  BY <1>1 DEF Popped, Waiting
<1>3. 1 \in 1..Len(q) /\ Head(q) = q[1]
  BY <1>1, <1>2
<1> QED
  BY <1>2, <1>3 DEF Told

\* The messages and requests of a ghost cluster are each other's: from one state.
LEMMA RequestsAreApart ==
    ASSUME ExactArithmetic, SameUnitStep, RankInv, ReqInv, NEW g \in Ghosts
    PROVE  /\ Popped(g, Waiting(g), "prediction") =>
                  sending[g] = {} /\ ct[g].correctionTime > lastSendTime[g]
           /\ Popped(g, Waiting(g), "correction") =>
                  receiving[g] = {} /\ ct[g].predictionTime >= lastSendTime[g]
           /\ state[g] = "Synced" => receiving[g] = {}
           /\ state[g] # "Predicted" /\ MaySync(ct[g]) =>
                  receiving[g] = {} /\ sending[g] = {} /\ ~Popped(g, Waiting(g), "prediction")
<1> DEFINE k == CopyOf(g)
           l == <<g, k>>
           r == RankOf[g]
           e == epoch[r]
           t == ct[g]
           u == ct[k]
           m == nct[l]
           q == inbox[l]
           h == Head(q)
<1>1. /\ g \in Clusters /\ k \in Clusters /\ l \in Links /\ l[1] = g /\ l[2] = k
      /\ r \in Ranks /\ RankOf[k] = r /\ ActorTypeOK /\ GhostTypeOK /\ ReqOf(g)
      /\ ClockOf(g) /\ LinkOf(l)
  BY CopyCluster, GhostAssumption DEF RankInv, GhostTypeOK, ReqInv, ClockInv, LinkInv
<1>2. /\ t \in ClusterTimes /\ u \in ClusterTimes /\ m \in ClusterTimes /\ q \in Seq(Message)
      /\ t.correctionTime \in Int /\ t.predictionTime \in Int /\ lastSendTime[g] \in Int
  BY <1>1 DEF ActorTypeOK, ClusterTimes, GhostTypeOK, Time
<1>3. \A kind : Popped(g, Waiting(g), kind) => q # <<>> /\ h \in Told(q) /\ h.kind = kind
  BY <1>1, PoppedIsTold
<1>4. lastSendTime[g] <= t.correctionTime
  BY <1>1 DEF ReqOf
<1>5. CASE phase[r] = "idle" \/ ToReset(g)
  <2>1. receiving[g] = {} /\ sending[g] = {}
    BY <1>1, <1>5 DEF ReqOf
  <2>2. t.correctionTime = t.predictionTime
    BY <1>1, <1>5 DEF ClockOf, Rested, StandsAt
  <2>3. q # <<>> => h.kind = "correction"
    BY <1>1, <1>5 DEF LinkOf, Settled
  <2> QED
    BY <1>2, <1>3, <1>4, <2>1, <2>2, <2>3
<1>6. CASE phase[r] = "reset" /\ ~ToReset(g)
  <2>1. q = <<>>
    BY <1>1, <1>6 DEF LinkOf, Fresh
  <2>2. state[g] = "Synced" /\ Working(g)
    BY <1>1, <1>6 DEF ClockOf, Working
  <2>3. receiving[g] = {} /\ sending[g] = {}
    BY <1>1, <1>6, <2>2 DEF ReqOf, Posted
  <2> QED
    BY <1>3, <2>1, <2>3
<1>7. CASE phase[r] \notin {"idle", "reset"}
  <2>1. phase[r] \in {"barrier", "restart", "loop"}
    BY <1>1, <1>7 DEF GhostTypeOK
  <2>2. /\ e \in 1..Len(SyncTimes) /\ ClockAt(e, g, state[g], t) /\ LinkAt(e, l, t, u, m, q)
    BY <1>1, <2>1, RunningGhost
  <2>3. /\ GhostFacts(e, g, k, state[g], t, u, m, q) /\ t.correctionTime <= t.predictionTime
    BY <1>1, <1>2, <2>2, GhostLink, PredictionIsAhead
  <2>4. /\ Abreast(e, g, k, t, u, m, q)
        /\ Posted(e, g, state[g], t, m, sending[g], receiving[g], lastSendTime[g])
    BY <1>1, <2>1 DEF ReqOf, ToReset
  <2> HIDE DEF k, l, e, t, u, m, q, h
  <2>5. /\ EndOf(e, g) \in Nat \ {0} /\ Rate[g] \in Nat \ {0} /\ Rate[k] \in Nat \ {0}
        /\ t.stepsUntilSync = EndOf(e, g)
        /\ t.stepsSinceLastSync \in Int /\ t.predictionsSinceLastSync \in Int
        /\ state[g] # "Predicted" => t.predictionsSinceLastSync = t.stepsSinceLastSync
        /\ t.stepsSinceLastSync >= EndOf(e, g) => m.predictionsSinceLastSync >= EndOf(e, g)
        /\ u.predictionsSinceLastSync \in Int
        /\ m.predictionsSinceLastSync \in Int /\ Multiple(m.predictionsSinceLastSync, Rate[k])
        /\ \/ m.predictionsSinceLastSync < EndOf(e, g)
           \/ m.predictionsSinceLastSync = u.predictionsSinceLastSync
        /\ m.stepsSinceLastSync \in Nat
    BY <2>3 DEF GhostFacts
  <2>6. h \in Told(q) => /\ InTurn(e, g, k, t, h)
                         /\ h.stepsSinceSync \in Int /\ Multiple(h.stepsSinceSync, Rate[k])
                         /\ h.stepsSinceSync <= u.predictionsSinceLastSync
                         /\ h.kind = "prediction" => h.stepsSinceSync > m.predictionsSinceLastSync
                         /\ h.kind # "prediction" => h.stepsSinceSync > m.stepsSinceLastSync
    BY <2>3, <2>4 DEF GhostFacts, Abreast
  <2>7. ASSUME h \in Told(q), h.kind = "prediction"
        PROVE  /\ m.predictionsSinceLastSync < t.stepsSinceLastSync + Rate[g]
               /\ m.predictionsSinceLastSync < EndOf(e, g)
    <3>1. h.stepsSinceSync - Rate[k] < t.stepsSinceLastSync + Rate[g]
      BY <2>6, <2>7 DEF InTurn
    <3>2. h.stepsSinceSync >= m.predictionsSinceLastSync + Rate[k]
      <4> DEFINE v == h.stepsSinceSync
                 w == m.predictionsSinceLastSync
      <4>1. Multiple(v, Rate[k]) /\ Multiple(w, Rate[k]) /\ v \in Int /\ w \in Int /\ v > w
        BY <2>5, <2>6, <2>7
      <4> HIDE DEF v, w
      <4>2. v < w + Rate[k] => v <= w
        BY <2>5, <4>1, NoMultipleBetween
      <4>3. v >= w + Rate[k]
        BY <2>5, <4>1, <4>2
      <4> QED
        BY <4>3 DEF v, w
    <3> QED
      BY <2>5, <2>6, <2>7, <3>1, <3>2
  <2>8. ASSUME h \in Told(q), h.kind = "correction", receiving[g] # {}
        PROVE  FALSE
    BY <2>4, <2>5, <2>6, <2>8 DEF InTurn, Posted
  <2>9. ASSUME h \in Told(q), h.kind = "prediction"
        PROVE  /\ sending[g] = {} /\ t.correctionTime > lastSendTime[g]
               /\ t.stepsSinceLastSync < EndOf(e, g)
    BY <1>2, <2>4, <2>5, <2>7, <2>9 DEF Posted
  <2>10. state[g] # "Predicted" /\ MaySync(t) => receiving[g] = {} /\ sending[g] = {}
    BY <2>4, <2>5 DEF Posted, MaySync
  <2>11. MaySync(t) => ~(t.stepsSinceLastSync < EndOf(e, g))
    BY <2>5 DEF MaySync
  <2> QED
    BY <1>2, <1>3, <1>4, <2>3, <2>4, <2>8, <2>9, <2>10, <2>11 DEF Posted, t
<1> QED
  BY <1>5, <1>6, <1>7

\* No ghost cluster posts a request while the last one of its kind is pending,
\* and the sends advance in time.
THEOREM NoRequestOverlaps ==
    ASSUME ExactArithmetic, SameUnitStep
    PROVE  GhostSpec => []RequestsDoNotOverlap
<1>1. RankInv /\ ReqInv => RequestsDoNotOverlap
  BY RequestsAreApart DEF RequestsDoNotOverlap, RankInv
<1> QED
  BY <1>1, GhostInvariant, PTL

\* A cluster that becomes predicted has predicted.
LEMMA OnlyPredictions ==
    ASSUME GhostTypeOK, [GhostNext]_ghostVars, NEW k \in Clusters \ Ghosts,
           state[k] = "Corrected", state'[k] = "Predicted"
    PROVE  CellStep(k) /\ \E seen \in SUBSET Waiting(k) : Predict(k, seen)
<1>1. ActorTypeOK
  BY DEF GhostTypeOK
<1>2. ASSUME state' = state
      PROVE  FALSE
  BY <1>2
<1>3. CASE \E r \in Ranks : Advance(r) \/ EnterBarrier(r) \/ LeaveBarrier(r) \/ Return(r)
  BY <1>2, <1>3 DEF Advance, EnterBarrier, LeaveBarrier, Return, actorVars
<1>4. CASE \E r \in Ranks : \E c \in Own(r) : ResetNext(r, c)
  BY <1>2, <1>4 DEF ResetNext, SetSyncTimeAndReset
<1>5. CASE MPIStep
  BY <1>2, <1>5 DEF MPIStep, ghostVars, actorVars, ReadCopyLayer, FillGhostLayer
<1>6. ASSUME NEW c \in Clusters, NEW seen \in SUBSET Waiting(c), Act(c, seen)
      PROVE  c = k /\ Predict(k, seen)
  <2>1. c = k
    BY <1>1, <1>6, ActIsOwn
  <2>2. ~(Poll(k, seen) \/ RestartAfterSync(k, seen) \/ Correct(k, seen) \/ Sync(k, seen))
    BY <1>1 DEF Poll, RestartAfterSync, Correct, Sync, ActorTypeOK
  <2> QED
    BY <1>6, <2>1, <2>2 DEF Act
<1>7. ASSUME NEW c \in Clusters \ Ghosts, CellStep(c)
      PROVE  CellStep(k) /\ \E seen \in SUBSET Waiting(k) : Predict(k, seen)
  BY <1>6, <1>7 DEF CellStep
<1>8. ASSUME NEW g \in Ghosts, GhostAct(g)
      PROVE  FALSE
  BY <1>6, <1>8, GhostActs, CopyCluster DEF GhostStep
<1> QED
  BY <1>3, <1>4, <1>5, <1>7, <1>8, <1>2, StepCases

\* A copy cluster predicts anew only when its ghost cluster has sent the last
\* prediction: MPI never reads a copy layer that is being written.
THEOREM NoCopyLayerIsOverwritten ==
    ASSUME ExactArithmetic, SameUnitStep
    PROVE  GhostSpec => NoSendOverwritten
<1>1. ASSUME RankInv, ReqInv, [GhostNext]_ghostVars, NEW g \in Ghosts,
             state[CopyOf(g)] = "Corrected", state'[CopyOf(g)] = "Predicted"
      PROVE  sending[g] = {}
  <2> DEFINE k == CopyOf(g)
             l == <<g, k>>
             e == epoch[RankOf[g]]
             t == ct[g]
             u == ct[k]
             m == nct[l]
  <2>1. /\ g \in Clusters /\ k \in Clusters \ Ghosts /\ l \in Links /\ <<k, g>> \in Links
        /\ RankOf[k] = RankOf[g] /\ ActorTypeOK /\ GhostTypeOK /\ ReqOf(g)
    BY <1>1, CopyCluster DEF RankInv, GhostTypeOK, ReqInv
  <2>2. CellStep(k) /\ \E seen \in SUBSET Waiting(k) : Predict(k, seen)
    BY <1>1, <2>1, OnlyPredictions
  <2>3. phase[RankOf[g]] \in {"barrier", "restart", "loop"}
    BY <2>1, <2>2 DEF CellStep, Runs
  <2>4. /\ e \in 1..Len(SyncTimes)
        /\ ClockAt(e, g, state[g], t) /\ LinkAt(e, l, t, u, m, inbox[l])
        /\ ClockAt(e, k, state[k], u) /\ LinkAt(e, <<k, g>>, u, t, nct[<<k, g>>], inbox[<<k, g>>])
    BY <1>1, <2>3, RunningGhost
  <2>5. GhostFacts(e, g, k, state[g], t, u, m, inbox[l])
    BY <2>1, <2>4, GhostLink DEF ActorTypeOK
  <2>6. Posted(e, g, state[g], t, m, sending[g], receiving[g], lastSendTime[g])
    BY <2>1, <2>3 DEF ReqOf, ToReset
  <2>7. u.predictionsSinceLastSync < t.stepsSinceLastSync + Rate[g]
    BY <2>1, <2>2, <2>4, PredictIsAllowed
  <2>8. u.predictionsSinceLastSync < EndOf(e, g)
    <3>1. ~MaySync(u) /\ EndOf(e, k) = EndOf(e, g)
      BY <2>1, <2>2, <2>4, SameEnd DEF Predict
    <3>2. /\ u.stepsUntilSync = EndOf(e, g) /\ u.stepsSinceLastSync \in Int
          /\ u.predictionsSinceLastSync = u.stepsSinceLastSync + 0
      BY <1>1, <2>4, <2>5, <3>1 DEF ClockAt, GhostFacts
    <3>3. EndOf(e, g) \in Nat \ {0}
      BY <2>5 DEF GhostFacts
    <3> QED
      BY <3>1, <3>2, <3>3 DEF MaySync
  <2>9. /\ m.predictionsSinceLastSync \in Int /\ u.predictionsSinceLastSync \in Int
        /\ m.predictionsSinceLastSync <= u.predictionsSinceLastSync
        /\ EndOf(e, g) \in Nat /\ t.stepsSinceLastSync \in Int /\ Rate[g] \in Nat
    BY <2>5 DEF GhostFacts
  <2> HIDE DEF e, t, u, m
  <2> QED
    BY <2>6, <2>7, <2>8, <2>9 DEF Posted
<1>2. RankInv /\ ReqInv /\ [GhostNext]_ghostVars =>
          \A g \in Ghosts : state[CopyOf(g)] = "Corrected" /\ state'[CopyOf(g)] = "Predicted" =>
              sending[g] = {}
  BY <1>1
<1>3. GhostSpec => [][\A g \in Ghosts : state[CopyOf(g)] = "Corrected" /\ state'[CopyOf(g)] = "Predicted" =>
           sending[g] = {}]_ghostVars
  BY <1>2, GhostInvariant, PTL DEF GhostSpec
<1> QED
  BY <1>3 DEF NoSendOverwritten

----------------------------------------------------------------------------
(* The ranks implement local time stepping. *)

\* The counters of a rank whose phase has ended.
DoneInv ==
    \A c \in Clusters :
        LET r == RankOf[c]
        IN  phase[r] = "idle" =>
                ct[c].stepsSinceLastSync >= IF epoch[r] = 0 THEN 0 ELSE EndOf(epoch[r], c)

LEMMA NextDoneInv ==
    ASSUME ExactArithmetic, SameUnitStep, RankInv, DoneInv, [GhostNext]_ghostVars
    PROVE  DoneInv'
<1>1. GhostTypeOK /\ ActorTypeOK /\ ClockInv /\ LinkInv
  BY DEF RankInv, GhostTypeOK
<1>2. ASSUME NEW r \in Ranks, Advance(r) \/ EnterBarrier(r) \/ LeaveBarrier(r)
      PROVE  DoneInv'
  <2>1. /\ UNCHANGED actorVars /\ phase'[r] # "idle"
        /\ \A s \in Ranks \ {r} : phase'[s] = phase[s] /\ epoch'[s] = epoch[s]
    BY <1>1, <1>2 DEF Advance, EnterBarrier, LeaveBarrier, GhostTypeOK
  <2> QED
    BY <2>1, GhostAssumption DEF DoneInv, actorVars
<1>3. ASSUME NEW r \in Ranks, Return(r)
      PROVE  DoneInv'
  <2>1. /\ phase[r] = "loop" /\ UNCHANGED <<actorVars, epoch, todo>>
        /\ \A s \in Ranks \ {r} : phase'[s] = phase[s]
    BY <1>1, <1>3 DEF Return, GhostTypeOK
  <2>2. epoch[r] # 0
    BY <1>1, <2>1, RankInAPhase
  <2>3. ASSUME NEW c \in Clusters, phase'[RankOf[c]] = "idle"
        PROVE  ct[c].stepsSinceLastSync
                   >= IF epoch[RankOf[c]] = 0 THEN 0 ELSE EndOf(epoch[RankOf[c]], c)
    <3>1. CASE RankOf[c] = r
      BY <1>1, <1>3, <2>2, <3>1, AllStepsAreMade
    <3>2. CASE RankOf[c] # r
      BY <2>1, <2>3, <3>2, GhostAssumption DEF DoneInv
    <3> QED
      BY <3>1, <3>2
  <2> QED
    BY <2>1, <2>3 DEF DoneInv, actorVars
<1>4. ASSUME NEW r \in Ranks, NEW c \in Own(r), ResetNext(r, c)
      PROVE  DoneInv'
  <2>1. /\ c \in Clusters /\ RankOf[c] = r /\ phase[r] = "reset" /\ UNCHANGED <<phase, epoch>>
    BY <1>4, GhostAssumption DEF Own, Cells, GhostsOf, ResetNext
  <2>2. \A k \in Clusters \ {c} : ct'[k] = ct[k]
    BY <1>1, <1>4, <2>1 DEF ResetNext, SetSyncTimeAndReset, ActorTypeOK
  <2> QED
    BY <2>1, <2>2 DEF DoneInv
<1>5. ASSUME NEW c \in Clusters, Runs(c), NEW seen \in SUBSET Waiting(c), Act(c, seen)
      PROVE  DoneInv'
  <2>1. \A k \in Clusters \ {c} : ct'[k] = ct[k]
    BY <1>1, <1>5, ActIsOwn
  <2>2. /\ epoch' = epoch /\ phase'[RankOf[c]] # "idle"
        /\ \A s \in Ranks \ {RankOf[c]} : phase'[s] = phase[s]
    BY <1>1, <1>5, GhostAssumption DEF Runs, RestartNext, rankVars, GhostTypeOK
  <2> QED
    BY <2>1, <2>2, GhostAssumption DEF DoneInv
<1>6. CASE MPIStep
  <2>1. UNCHANGED <<actorVars, rankVars>>
    BY <1>6 DEF MPIStep, ghostVars, ReadCopyLayer, FillGhostLayer
  <2> QED
    BY <2>1 DEF actorVars, rankVars, DoneInv
<1> QED
  BY <1>2, <1>3, <1>4, <1>5, <1>6, StepCases, CopyCluster, GhostActs DEF CellStep, GhostStep

\* The counters on which a rank implements the abstract scheme.
LEMMA DoneInvariant ==
    ASSUME ExactArithmetic, SameUnitStep
    PROVE  GhostSpec => [](RankInv /\ DoneInv)
<1>1. GhostInit => RankInv /\ DoneInv
  <2> SUFFICES ASSUME GhostInit, NEW c \in Clusters
               PROVE  ct[c].stepsSinceLastSync = 0 /\ epoch[RankOf[c]] = 0
    BY InitRankInv DEF DoneInv
  <2> QED
    BY GhostAssumption DEF GhostInit, ActorInit
<1>2. RankInv /\ DoneInv /\ [GhostNext]_ghostVars => (RankInv /\ DoneInv)'
  BY NextRankInv, NextDoneInv
<1> QED
  BY <1>1, <1>2, PTL DEF GhostSpec

\* All clusters make the steps the abstract scheme has for the phase.
LEMMA StepCountIsEnd ==
    ASSUME ExactArithmetic, SameUnitStep, NEW e \in 1..Len(SyncTimes), NEW c \in Clusters
    PROVE  StepCounts[e] = EndOf(e, c)
<1> DEFINE d == CHOOSE x \in Clusters : TRUE
<1>1. d \in Clusters
  BY SyncTimesAssumption
<1>2. SyncTimes[e] \in Int /\ PhaseStart(e) \in Int
  BY PhaseTimes
<1>3. Minus(SyncTimes[e], PhaseStart(e)) = SyncTimes[e] - PhaseStart(e)
  BY <1>2, ExactOperations
<1>4. StepCounts[e] = CeilDiv(Rate[d] * (SyncTimes[e] - PhaseStart(e)), MaxTimeStepSize[d])
  BY DEF StepCounts
<1> HIDE DEF d
<1>5. StepCounts[e] = EndOf(e, d)
  BY <1>3, <1>4 DEF EndOf, StepsUntil
<1> QED
  BY <1>1, <1>5, SameEnd

LEMMA UntilOfPhase ==
    ASSUME ExactArithmetic, SameUnitStep, GhostTypeOK, NEW r \in Ranks, epoch[r] # 0,
           NEW c \in Clusters
    PROVE  LTS(r)!Until = EndOf(epoch[r], c)
<1>1. epoch[r] \in 1..Len(SyncTimes)
  BY SyncTimesAssumption DEF GhostTypeOK
<1> QED
  BY <1>1, StepCountIsEnd DEF LTS!Until


\* The counters of the clusters of a rank in the abstract scheme.
Predicted(r) == [c \in Own(r) |-> Count(r, c, ct[c].predictionsSinceLastSync)]

Corrected(r) == [c \in Own(r) |-> Count(r, c, ct[c].stepsSinceLastSync)]

\* The clusters of a rank, and their links.
LEMMA OwnClusters ==
    ASSUME NEW r \in Ranks, NEW c \in Own(r)
    PROVE  /\ c \in Clusters /\ RankOf[c] = r
           /\ \A n \in LTS(r)!Near(c) : n \in Clusters /\ <<c, n>> \in Links /\ RankOf[n] = r
BY GhostAssumption DEF Own, Cells, GhostsOf, LTS!Near

\* advanceInTime begins a phase: all steps of the last one are made.
LEMMA AdvanceSimulates ==
    ASSUME ExactArithmetic, SameUnitStep, RankInv, DoneInv, NEW r \in Ranks, Advance(r)
    PROVE  LTS(r)!BeginPhase
<1>1. /\ phase[r] = "idle" /\ epoch[r] < Len(SyncTimes) /\ epoch'[r] = epoch[r] + 1
      /\ phase'[r] = "reset" /\ todo'[r] = Own(r) /\ GhostTypeOK
  BY DEF Advance, RankInv, GhostTypeOK
<1>2. Len(StepCounts) = Len(SyncTimes)
  BY SyncTimesAssumption DEF StepCounts
<1>3. ASSUME NEW c \in Own(r)
      PROVE  LTS(r)!Done(c)
  <2>1. c \in Clusters /\ RankOf[c] = r
    BY OwnClusters
  <2>2. ct[c].stepsSinceLastSync >= LTS(r)!Until
    <3>1. CASE epoch[r] = 0
      BY <1>1, <2>1, <3>1 DEF DoneInv, LTS!Until
    <3>2. CASE epoch[r] # 0
      BY <1>1, <2>1, <3>2, UntilOfPhase DEF DoneInv
    <3> QED
      BY <3>1, <3>2
  <2> QED
    BY <1>1, <2>2 DEF LTS!Done, Count
<1>4. Predicted(r)' = [c \in Own(r) |-> 0] /\ Corrected(r)' = [c \in Own(r) |-> 0]
  BY <1>1 DEF Predicted, Corrected, Count
<1> QED
  BY <1>1, <1>2, <1>3, <1>4 DEF LTS!BeginPhase, Predicted, Corrected

\* A rank none of whose counters move does not step.
LEMMA QuietRank ==
    ASSUME NEW r \in Ranks, epoch'[r] = epoch[r],
           \A c \in Own(r) : /\ Count(r, c, ct[c].predictionsSinceLastSync)'
                                    = Count(r, c, ct[c].predictionsSinceLastSync)
                             /\ Count(r, c, ct[c].stepsSinceLastSync)'
                                    = Count(r, c, ct[c].stepsSinceLastSync)
    PROVE  UNCHANGED LTS(r)!ltsVars
<1>1. Predicted(r)' = Predicted(r) /\ Corrected(r)' = Corrected(r)
  BY DEF Predicted, Corrected
<1> QED
  BY <1>1 DEF LTS!ltsVars, Predicted, Corrected

\* The steps of other ranks do not move them.
LEMMA FarRank ==
    ASSUME NEW r \in Ranks, UNCHANGED <<phase[r], epoch[r], todo[r]>>,
           \A c \in Own(r) : ct'[c] = ct[c]
    PROVE  UNCHANGED LTS(r)!ltsVars
BY QuietRank DEF Count

\* Outside of the reset the abstract counters are those of the clusters.
Acts(r) ==
    phase[r] \notin {"idle", "reset"} /\ phase'[r] # "reset" /\ epoch[r] # 0 /\ epoch'[r] = epoch[r]

\* A cluster that predicts by what it believes may do so by what is true.
LEMMA PredictSimulates ==
    ASSUME ExactArithmetic, SameUnitStep, RankInv, NEW r \in Ranks, NEW c \in Own(r), Acts(r),
           NEW seen \in SUBSET Waiting(c), Working(c), Predict(c, seen)
    PROVE  LTS(r)!PredictStep(c)
<1> DEFINE new == [ct[c] EXCEPT !.predictionsSinceLastSync = @ + Rate[c],
                                !.predictionTime = Plus(@, TimeStepSize(c))]
<1>1. state[c] = "Corrected" /\ ~MaySync(ct[c]) /\ ct' = [ct EXCEPT ![c] = new]
  BY DEF Predict
<1>2. /\ ActorTypeOK /\ GhostTypeOK /\ ct \in [Clusters -> ClusterTimes]
      /\ c \in Clusters /\ RankOf[c] = r
  BY OwnClusters DEF RankInv, GhostTypeOK, ActorTypeOK
<1>3. /\ ct'[c] = new /\ \A k \in Clusters \ {c} : ct'[k] = ct[k]
      /\ new.predictionsSinceLastSync = ct[c].predictionsSinceLastSync + Rate[c]
      /\ new.stepsSinceLastSync = ct[c].stepsSinceLastSync
  BY <1>1, <1>2 DEF ClusterTimes
<1>4. /\ ct[c].stepsUntilSync = LTS(r)!Until
      /\ ct[c].predictionsSinceLastSync = ct[c].stepsSinceLastSync
      /\ ~(ct[c].stepsSinceLastSync >= ct[c].stepsUntilSync)
  <2>1. LTS(r)!Until = EndOf(epoch[r], c)
    BY <1>2, UntilOfPhase DEF Acts
  <2>2. ct[c].stepsSinceLastSync \in Int /\ ct[c].stepsUntilSync \in Int
    BY <1>2 DEF ClusterTimes
  <2> QED
    BY <1>1, <1>2, <2>1, <2>2 DEF Working, ClockAt, MaySync
<1> HIDE DEF new
<1>5. \A k \in Own(r) : /\ Predicted(r)[k] = ct[k].predictionsSinceLastSync
                        /\ Corrected(r)[k] = ct[k].stepsSinceLastSync
                        /\ Predicted(r)'[k] = ct'[k].predictionsSinceLastSync
                        /\ Corrected(r)'[k] = ct'[k].stepsSinceLastSync
  BY DEF Acts, Predicted, Corrected, Count
<1>6. ASSUME NEW n \in LTS(r)!Near(c)
      PROVE  Predicted(r)[c] < Corrected(r)[n] + Rate[n]
  <2>1. n \in Clusters /\ <<c, n>> \in Links /\ RankOf[n] = r /\ n \in Own(r)
    BY OwnClusters DEF LTS!Near
  <2>2. LinkAt(epoch[r], <<c, n>>, ct[c], ct[n], nct[<<c, n>>], inbox[<<c, n>>])
    BY <1>2, <2>1 DEF RankInv, LinkInv, LinkOf, ToReset, Acts
  <2> QED
    BY <1>2, <1>5, <2>1, <2>2, PredictIsAllowed
<1>7. LTS(r)!MayPredictNow(c)
  BY <1>6 DEF LTS!MayPredictNow, Predicted, Corrected
<1>8. Corrected(r)' = Corrected(r)
  <2>1. \A k \in Own(r) : ct'[k].stepsSinceLastSync = ct[k].stepsSinceLastSync
    BY <1>2, <1>3, OwnClusters
  <2> QED
    BY <2>1 DEF Corrected, Count, Acts
<1>9. Predicted(r)' = [Predicted(r) EXCEPT ![c] = @ + Rate[c]]
  <2>1. \A k \in Own(r) \ {c} : ct'[k].predictionsSinceLastSync = ct[k].predictionsSinceLastSync
    BY <1>2, <1>3, OwnClusters
  <2> QED
    BY <1>3, <2>1 DEF Predicted, Count, Acts
<1>10. ~LTS(r)!Done(c) /\ Predicted(r)[c] = Corrected(r)[c]
  BY <1>4, <1>5 DEF LTS!Done, Corrected
<1> QED
  BY <1>7, <1>8, <1>9, <1>10 DEF LTS!PredictStep, Predicted, Corrected, Acts

\* A cluster that corrects by what it believes may do so by what is true.
LEMMA CorrectSimulates ==
    ASSUME ExactArithmetic, SameUnitStep, RankInv, NEW r \in Ranks, NEW c \in Own(r), Acts(r),
           NEW seen \in SUBSET Waiting(c), Working(c), Correct(c, seen)
    PROVE  LTS(r)!CorrectStep(c)
<1> DEFINE new == [ct[c] EXCEPT !.correctionTime = Plus(@, TimeStepSize(c)),
                                !.stepsSinceLastSync = @ + Rate[c],
                                !.stepsSinceStart = @ + Rate[c]]
<1>1. state[c] = "Predicted" /\ ct' = [ct EXCEPT ![c] = new]
  BY DEF Correct
<1>2. /\ ActorTypeOK /\ GhostTypeOK /\ ct \in [Clusters -> ClusterTimes]
      /\ c \in Clusters /\ RankOf[c] = r
  BY OwnClusters DEF RankInv, GhostTypeOK, ActorTypeOK
<1>3. /\ ct'[c] = new /\ \A k \in Clusters \ {c} : ct'[k] = ct[k]
      /\ new.predictionsSinceLastSync = ct[c].predictionsSinceLastSync
      /\ new.stepsSinceLastSync = ct[c].stepsSinceLastSync + Rate[c]
  BY <1>1, <1>2 DEF ClusterTimes
<1>4. ct[c].predictionsSinceLastSync # ct[c].stepsSinceLastSync
  <2>1. ct[c].stepsSinceLastSync \in Int /\ Rate[c] \in Nat \ {0}
    BY <1>2, RateAssumption DEF ClusterTimes
  <2> QED
    BY <1>1, <2>1 DEF Working, ClockAt
<1> HIDE DEF new
<1>5. \A k \in Own(r) : /\ Predicted(r)[k] = ct[k].predictionsSinceLastSync
                        /\ Corrected(r)[k] = ct[k].stepsSinceLastSync
                        /\ Predicted(r)'[k] = ct'[k].predictionsSinceLastSync
                        /\ Corrected(r)'[k] = ct'[k].stepsSinceLastSync
  BY DEF Acts, Predicted, Corrected, Count
<1>6. ASSUME NEW n \in LTS(r)!Near(c)
      PROVE  \/ Predicted(r)[n] >= LTS(r)!Until
             \/ Predicted(r)[c] <= Predicted(r)[n]
  <2>1. n \in Clusters /\ <<c, n>> \in Links /\ RankOf[n] = r /\ n \in Own(r)
    BY OwnClusters DEF LTS!Near
  <2>2. LinkAt(epoch[r], <<c, n>>, ct[c], ct[n], nct[<<c, n>>], inbox[<<c, n>>])
    BY <1>2, <2>1 DEF RankInv, LinkInv, LinkOf, ToReset, Acts
  <2>3. LTS(r)!Until = EndOf(epoch[r], n)
    BY <1>2, <2>1, UntilOfPhase DEF Acts
  <2> QED
    BY <1>2, <1>5, <2>1, <2>2, <2>3, CorrectIsAllowed
<1>7. LTS(r)!MayCorrectNow(c)
  BY <1>6 DEF LTS!MayCorrectNow, Predicted, Corrected
<1>8. Predicted(r)' = Predicted(r)
  <2>1. \A k \in Own(r) : ct'[k].predictionsSinceLastSync = ct[k].predictionsSinceLastSync
    BY <1>2, <1>3, OwnClusters
  <2> QED
    BY <2>1 DEF Predicted, Count, Acts
<1>9. Corrected(r)' = [Corrected(r) EXCEPT ![c] = @ + Rate[c]]
  <2>1. \A k \in Own(r) \ {c} : ct'[k].stepsSinceLastSync = ct[k].stepsSinceLastSync
    BY <1>2, <1>3, OwnClusters
  <2> QED
    BY <1>3, <2>1 DEF Corrected, Count, Acts
<1>10. Predicted(r)[c] # Corrected(r)[c]
  BY <1>4, <1>5
<1> QED
  BY <1>7, <1>8, <1>9, <1>10 DEF LTS!CorrectStep, Predicted, Corrected, Acts

\* A step of a cluster is one of its rank, and of no other.
LEMMA ActSimulates ==
    ASSUME ExactArithmetic, SameUnitStep, RankInv, NEW c \in Clusters, Runs(c),
           NEW seen \in SUBSET Waiting(c), Act(c, seen), NEW r \in Ranks
    PROVE  [LTS(r)!LTSNext]_(LTS(r)!ltsVars)
<1>1. GhostTypeOK /\ ActorTypeOK /\ RankOf[c] \in Ranks
  BY GhostAssumption DEF RankInv, GhostTypeOK
<1>2. \A k \in Clusters \ {c} : ct'[k] = ct[k]
  BY <1>1, ActIsOwn
<1>3. CASE RankOf[c] = r
  <2>1. Acts(r)
    <3>1. epoch[r] # 0 /\ phase[r] \notin {"idle", "reset"} /\ epoch'[r] = epoch[r]
      BY <1>1, <1>3, RankInAPhase DEF Runs
    <3>2. phase'[r] # "reset"
      BY <1>1, <1>3 DEF Runs, RestartNext, rankVars, GhostTypeOK
    <3> QED
      BY <3>1, <3>2 DEF Acts
  <2>2. c \in Own(r) /\ Working(c)
    BY <1>3, <2>1 DEF Own, Cells, GhostsOf, RankInv, ClockInv, ClockOf, ToReset, Acts
  <2>3. CASE ct' = ct
    BY <2>1, <2>3, QuietRank DEF Count, Acts
  <2>4. CASE Predict(c, seen)
    BY <2>1, <2>2, <2>4, PredictSimulates DEF LTS!LTSNext
  <2>5. CASE Correct(c, seen)
    BY <2>1, <2>2, <2>5, CorrectSimulates DEF LTS!LTSNext
  <2> QED
    BY <2>3, <2>4, <2>5 DEF Act, Poll, RestartAfterSync, Sync
<1>4. CASE RankOf[c] # r
  <2>1. \A k \in Own(r) : ct'[k] = ct[k]
    BY <1>2, <1>4, OwnClusters
  <2>2. UNCHANGED <<phase[r], epoch[r], todo[r]>>
    BY <1>1, <1>4 DEF Runs, RestartNext, rankVars, GhostTypeOK
  <2> QED
    BY <2>1, <2>2, FarRank
<1> QED
  BY <1>3, <1>4

\* A reset clears counters that count as cleared already.
LEMMA ResetSimulates ==
    ASSUME RankInv, NEW r \in Ranks, NEW s \in Ranks, NEW c \in Own(s), ResetNext(s, c)
    PROVE  UNCHANGED LTS(r)!ltsVars
<1>1. c \in Clusters /\ RankOf[c] = s /\ GhostTypeOK /\ ct \in [Clusters -> ClusterTimes]
  BY OwnClusters DEF RankInv, GhostTypeOK, ActorTypeOK
<1>2. /\ phase[s] = "reset" /\ c \in todo[s] /\ UNCHANGED <<phase, epoch>>
      /\ todo'[s] = todo[s] \ {c} /\ \A q \in Ranks \ {s} : todo'[q] = todo[q]
      /\ \A k \in Clusters \ {c} : ct'[k] = ct[k]
  BY <1>1 DEF ResetNext, MayBeNext, SetSyncTimeAndReset, GhostTypeOK
<1>3. ct'[c].predictionsSinceLastSync = 0 /\ ct'[c].stepsSinceLastSync = 0
  <2>1. PICK u : ct' = [ct EXCEPT ![c] = Cleared(@, u)]
    BY Zenon DEF ResetNext, SetSyncTimeAndReset
  <2> QED
    BY <1>1, <2>1 DEF Cleared, ClusterTimes
<1>4. CASE r = s
  <2>1. ASSUME NEW k \in Own(r)
        PROVE  /\ Count(r, k, ct[k].predictionsSinceLastSync)'
                      = Count(r, k, ct[k].predictionsSinceLastSync)
               /\ Count(r, k, ct[k].stepsSinceLastSync)' = Count(r, k, ct[k].stepsSinceLastSync)
    <3>1. CASE k = c
      BY <1>2, <1>3, <1>4, <3>1 DEF Count
    <3>2. CASE k # c
      BY <1>2, <1>4, <3>2, OwnClusters DEF Count
    <3> QED
      BY <3>1, <3>2
  <2> QED
    BY <1>2, <2>1, QuietRank
<1>5. CASE r # s
  BY <1>1, <1>2, <1>5, FarRank, OwnClusters
<1> QED
  BY <1>4, <1>5

\* Entering and leaving the barrier and returning moves no counter.
LEMMA PhaseSimulates ==
    ASSUME RankInv, NEW r \in Ranks, NEW s \in Ranks,
           EnterBarrier(s) \/ LeaveBarrier(s) \/ Return(s)
    PROVE  UNCHANGED LTS(r)!ltsVars
<1>1. UNCHANGED <<actorVars, epoch>> /\ GhostTypeOK
  BY DEF EnterBarrier, LeaveBarrier, Return, RankInv
<1>2. \A q \in Ranks \ {s} : phase'[q] = phase[q] /\ todo'[q] = todo[q]
  BY <1>1 DEF EnterBarrier, LeaveBarrier, Return, GhostTypeOK
<1>3. phase'[s] # "reset" /\ (phase[s] = "reset" => todo[s] = {})
  BY <1>1 DEF EnterBarrier, LeaveBarrier, Return, GhostTypeOK
<1> QED
  BY <1>1, <1>2, <1>3, QuietRank DEF Count, actorVars

\* Every step is, for each rank, a step on the counters of its clusters, or none.
LEMMA NextSimulates ==
    ASSUME ExactArithmetic, SameUnitStep, RankInv, DoneInv, [GhostNext]_ghostVars, NEW r \in Ranks
    PROVE  [LTS(r)!LTSNext]_(LTS(r)!ltsVars)
<1>1. ASSUME NEW s \in Ranks, Advance(s)
      PROVE  [LTS(r)!LTSNext]_(LTS(r)!ltsVars)
  <2>1. CASE s = r
    BY <1>1, <2>1, AdvanceSimulates DEF LTS!LTSNext
  <2>2. CASE s # r
    <3>1. UNCHANGED actorVars /\ UNCHANGED <<phase[r], epoch[r], todo[r]>>
      BY <1>1, <2>2 DEF Advance, RankInv, GhostTypeOK
    <3> QED
      BY <3>1, FarRank DEF actorVars
  <2> QED
    BY <2>1, <2>2
<1>2. ASSUME NEW s \in Ranks, EnterBarrier(s) \/ LeaveBarrier(s) \/ Return(s)
      PROVE  [LTS(r)!LTSNext]_(LTS(r)!ltsVars)
  BY <1>2, PhaseSimulates
<1>3. ASSUME NEW s \in Ranks, NEW c \in Own(s), ResetNext(s, c)
      PROVE  [LTS(r)!LTSNext]_(LTS(r)!ltsVars)
  BY <1>3, ResetSimulates
<1>4. ASSUME NEW c \in Clusters, CellStep(c) \/ GhostStep(c)
      PROVE  [LTS(r)!LTSNext]_(LTS(r)!ltsVars)
  <2>1. PICK seen \in SUBSET Waiting(c) : Act(c, seen) /\ Runs(c)
    BY <1>4 DEF CellStep, GhostStep
  <2> QED
    BY <2>1, ActSimulates
<1>5. CASE MPIStep
  <2>1. UNCHANGED <<actorVars, rankVars>>
    BY <1>5 DEF MPIStep, ghostVars, ReadCopyLayer, FillGhostLayer
  <2> QED
    BY <2>1, FarRank DEF actorVars, rankVars
<1> QED
  BY <1>1, <1>2, <1>3, <1>4, <1>5, StepCases, GhostActs, CopyCluster

\* On every rank the cell clusters and the ghost clusters, whose steps MPI and a
\* second thread delay and whose messages a call may miss, step as if they read
\* each other's counters (AbstractGhostTimeCluster.cpp:44-74,
\* AbstractTimeCluster.cpp:64-107): for all ranks, clusters, links, rates and
\* synchronization times.
THEOREM RanksFollowLocalTimeStepping ==
    ASSUME ExactArithmetic, SameUnitStep
    PROVE  GhostSpec => RanksImplementLocalTimeStepping
<1>1. GhostInit => \A r \in Ranks : LTS(r)!LTSInit
  BY OwnClusters DEF GhostInit, ActorInit, LTS!LTSInit, Count
<1>2. RankInv /\ DoneInv /\ [GhostNext]_ghostVars =>
          [\A r \in Ranks : [LTS(r)!LTSNext]_(LTS(r)!ltsVars)]_ghostVars
  BY NextSimulates
<1> QED
  BY <1>1, <1>2, DoneInvariant, PTL DEF GhostSpec, RanksImplementLocalTimeStepping

----------------------------------------------------------------------------
(* The two ends of a region.  What has been sent and not received is a       *)
(* chain of copy layers, from the last that arrived to the last that MPI has *)
(* read, each as far after the one before as the larger of the two rates.    *)

\* Of the rates of the two ends of a region one divides the other: the ids of
\* the two clusters differ by at most one, and rates are products along one list.
RegionRates ==
    \A p \in Regions : Multiple(Rate[p[1]], Rate[p[2]]) \/ Multiple(Rate[p[2]], Rate[p[1]])

\* Ranks are never more than the barrier apart.
EpochInv ==
    \A r, s \in Ranks :
        epoch[s] <= epoch[r] \/ (epoch[s] = epoch[r] + 1 /\ phase[s] \in {"reset", "barrier"})

\* The phase a rank works on, or on next.
Now(r) == IF phase[r] = "idle" THEN epoch[r] + 1 ELSE epoch[r]

\* Whether c has counters of the present phase.
Started(c) == phase[RankOf[c]] # "idle" /\ ~ToReset(c)

\* The steps g has offered to send in this phase, and those h has received from g.
Offered(g) == IF Started(g) THEN nct[<<g, CopyOf(g)>>].predictionsSinceLastSync ELSE 0

Arrived(h, g) ==
    IF region[<<h, g>>].round = Now(RankOf[h]) THEN region[<<h, g>>].steps ELSE 0

\* The larger of the rates of the two ends of a region.
Larger(g, h) == IF Rate[g] < Rate[h] THEN Rate[h] ELSE Rate[g]

\* After step v of a phase that ends at E, step w of those of the rate u is sent next.
Follows(E, L, u, v, w) ==
    /\ v < E /\ Multiple(v, L)
    /\ v < w /\ w <= v + L /\ (w = v + L \/ w >= E)
    /\ Multiple(w, u)

\* The copy layers q lead from step v to step y, in phase e.
Chain(e, E, L, u, v, q, y) ==
    /\ q = <<>> => y = v
    /\ q # <<>> => Follows(E, L, u, v, q[1].steps) /\ q[Len(q)].steps = y /\ y > v
    /\ \A i \in 1..Len(q) : q[i].round = e /\ q[i].steps <= y
    /\ \A i \in 1..Len(q) : i + 1 \in 1..Len(q) => Follows(E, L, u, q[i].steps, q[i + 1].steps)

\* Of a sender in phase a and a receiver in phase b: the receiver has v, q is
\* on its way, and the sender has offered o, which is pending or not.
Paired(a, b, g, h, v, q, pending, o) ==
    \/ /\ a = b
       /\ Multiple(o, Larger(g, h)) \/ o >= EndOf(b, h)
       /\ \E y \in Int : /\ Chain(b, EndOf(b, h), Larger(g, h), Rate[h], v, q, y)
                         /\ IF h \in pending THEN Follows(EndOf(b, h), Larger(g, h), Rate[h], y, o) ELSE y = o
    \/ /\ b = a + 1 /\ a \in 1..Len(SyncTimes)
       /\ q = <<>> /\ v = 0 /\ h \notin pending /\ o >= EndOf(a, g)
    \/ /\ a = b + 1 /\ b \in 1..Len(SyncTimes)
       /\ h \notin pending /\ o = 0
       /\ \E y \in Int : y >= EndOf(b, h) /\ Chain(b, EndOf(b, h), Larger(g, h), Rate[h], v, q, y)

ChainOf(g, h) ==
    Paired(Now(RankOf[g]), Now(RankOf[h]), g, h, Arrived(h, g), channel[<<g, h>>],
           sending[g], Offered(g))

\* What h, at the state s and the counters t, knows to have received of g, with
\* what it knows of its copy cluster in m: v has arrived, and more is expected or not.
Received(e, g, h, s, t, m, v, expected) ==
    /\ v \in Nat /\ Multiple(v, Rate[h]) /\ (Multiple(v, Larger(g, h)) \/ v >= EndOf(e, h))
    /\ v - Larger(g, h) <= m.stepsSinceLastSync
    /\ \A x \in Int : Multiple(x, Larger(g, h)) /\ x < v => x <= m.stepsSinceLastSync
    /\ s = "Synced" /\ t.stepsSinceLastSync = 0 => v = 0
    /\ IF g \in expected THEN v = t.predictionsSinceLastSync
       ELSE /\ t.predictionsSinceLastSync <= v
            /\ t.predictionsSinceLastSync = v /\ v < EndOf(e, h) =>
                   (s = "Synced" /\ v = 0) \/ m.stepsSinceLastSync < v

ReceivedOf(g, h) ==
    LET e == epoch[RankOf[h]]
    IN  IF Started(h)
        THEN /\ region[<<h, g>>].round <= e
             /\ Received(e, g, h, state[h], ct[h], nct[<<h, CopyOf(h)>>], Arrived(h, g), receiving[h])
        ELSE region[<<h, g>>].round < Now(RankOf[h])

\* A ghost cluster and its copy cluster do not run away from each other.
CopyOfGhost(g) ==
    LET k == CopyOf(g)
        r == RankOf[g]
    IN  phase[r] \in {"barrier", "restart", "loop"} =>
            /\ phase[r] = "barrier" => ct[k].predictionsSinceLastSync = 0
            /\ \/ ct[k].predictionsSinceLastSync = 0
               \/ ct[k].predictionsSinceLastSync - Rate[k] < ct[g].stepsSinceLastSync + Rate[g]
            /\ \/ ct[k].stepsSinceLastSync <= ct[g].predictionsSinceLastSync
               \/ ct[g].predictionsSinceLastSync >= EndOf(epoch[r], g)

PairInv ==
    /\ EpochInv
    /\ \A g \in Ghosts : CopyOfGhost(g)
    /\ \A p \in Regions : ChainOf(p[1], p[2]) /\ ReceivedOf(p[1], p[2])

\* A chain that starts at the end, or comes back to its start, is empty.
LEMMA ChainIsEmpty ==
    ASSUME NEW e, NEW E \in Int, NEW L, NEW u, NEW v \in Int, NEW q, NEW y \in Int,
           Chain(e, E, L, u, v, q, y), v >= E \/ y <= v
    PROVE  q = <<>> /\ y = v
BY DEF Chain, Follows

\* What a channel holds.
LEMMA CopyLayersOf ==
    ASSUME NEW q \in Seq(CopyLayers), NEW i \in 1..Len(q)
    PROVE  q[i] \in CopyLayers /\ q[i].steps \in Int
<1>1. q[i] \in CopyLayers
  OBVIOUS
<1> QED
  BY <1>1 DEF CopyLayers

\* Receiving takes the first copy layer of a chain.
LEMMA ChainTail ==
    ASSUME NEW e, NEW E \in Int, NEW L \in Int, NEW u, NEW v \in Int, NEW q \in Seq(CopyLayers),
           NEW y \in Int, Chain(e, E, L, u, v, q, y), q # <<>>
    PROVE  /\ Head(q).round = e /\ Head(q).steps \in Int
           /\ Follows(E, L, u, v, Head(q).steps)
           /\ Chain(e, E, L, u, Head(q).steps, Tail(q), y)
<1> DEFINE n == Len(q)
           T == Tail(q)
<1>1. /\ Head(q) = q[1] /\ n \in Nat \ {0} /\ T \in Seq(CopyLayers) /\ Len(T) = n - 1
      /\ \A i \in 1..Len(T) : T[i] = q[i + 1]
  BY HeadTailProperties
<1>2. /\ \A i \in 1..n : q[i] \in CopyLayers /\ q[i].steps \in Int
  BY CopyLayersOf
<1>3. /\ Follows(E, L, u, v, q[1].steps) /\ q[n].steps = y
      /\ \A i \in 1..n : q[i].round = e /\ q[i].steps <= y
      /\ \A i \in 1..n : i + 1 \in 1..n => Follows(E, L, u, q[i].steps, q[i + 1].steps)
  BY DEF Chain
<1> HIDE DEF n, T
<1>4. T = <<>> => y = q[1].steps
  BY <1>1, <1>3
<1>5. ASSUME T # <<>>
      PROVE  Follows(E, L, u, q[1].steps, T[1].steps) /\ T[Len(T)].steps = y /\ y > q[1].steps
  <2>1. Len(T) >= 1 /\ n >= 2
    BY <1>1, <1>5
  <2>2. 1 \in 1..n /\ 2 \in 1..n /\ 1 \in 1..Len(T) /\ Len(T) \in 1..Len(T)
    BY <1>1, <2>1
  <2>3. T[1] = q[2] /\ T[Len(T)] = q[n]
    BY <1>1, <2>1, <2>2
  <2>4. Follows(E, L, u, q[1].steps, q[2].steps) /\ q[2].steps <= y
    BY <1>3, <2>2
  <2>5. q[1].steps < q[2].steps
    BY <2>4 DEF Follows
  <2> QED
    BY <1>2, <1>3, <2>2, <2>3, <2>4, <2>5
<1>6. ASSUME NEW i \in 1..Len(T)
      PROVE  /\ T[i].round = e /\ T[i].steps <= y
             /\ i + 1 \in 1..Len(T) => Follows(E, L, u, T[i].steps, T[i + 1].steps)
  <2>1. i + 1 \in 1..n /\ T[i] = q[i + 1]
    BY <1>1
  <2>2. ASSUME i + 1 \in 1..Len(T)
        PROVE  Follows(E, L, u, T[i].steps, T[i + 1].steps)
    <3>1. (i + 1) + 1 \in 1..n /\ T[i + 1] = q[(i + 1) + 1]
      BY <1>1, <2>2
    <3> QED
      BY <1>3, <2>1, <3>1
  <2> QED
    BY <1>3, <2>1, <2>2
<1>7. q[1].round = e /\ q[1].steps \in Int
  BY <1>1, <1>2, <1>3
<1> QED
  BY <1>1, <1>3, <1>4, <1>5, <1>6, <1>7 DEF Chain, T

\* Sending adds the last.
LEMMA ChainAppend ==
    ASSUME NEW e, NEW E \in Int, NEW L \in Int, NEW u, NEW v \in Int, NEW q \in Seq(CopyLayers),
           NEW y \in Int, Chain(e, E, L, u, v, q, y), NEW x \in CopyLayers,
           x.round = e, Follows(E, L, u, y, x.steps)
    PROVE  Chain(e, E, L, u, v, Append(q, x), x.steps)
<1> DEFINE n == Len(q)
           A == Append(q, x)
<1>1. /\ n \in Nat /\ A \in Seq(CopyLayers) /\ Len(A) = n + 1
      /\ \A i \in 1..n : A[i] = q[i]
      /\ A[n + 1] = x
  OBVIOUS
<1>2. x.steps \in Int /\ y < x.steps /\ \A i \in 1..n : q[i].steps \in Int
  BY CopyLayersOf DEF Follows, CopyLayers
<1>3. /\ q = <<>> => y = v
      /\ q # <<>> => Follows(E, L, u, v, q[1].steps) /\ q[n].steps = y /\ y > v
      /\ \A i \in 1..n : q[i].round = e /\ q[i].steps <= y
      /\ \A i \in 1..n : i + 1 \in 1..n => Follows(E, L, u, q[i].steps, q[i + 1].steps)
  BY DEF Chain
<1>4. n = 0 <=> q = <<>>
  OBVIOUS
<1> HIDE DEF n, A
<1>5. A # <<>> /\ A[Len(A)] = x
  BY <1>1
<1>6. Follows(E, L, u, v, A[1].steps) /\ x.steps > v
  <2>1. CASE n = 0
    BY <1>1, <1>2, <1>3, <1>4, <2>1
  <2>2. CASE n # 0
    BY <1>1, <1>2, <1>3, <1>4, <2>2
  <2> QED
    BY <2>1, <2>2
<1>7. ASSUME NEW i \in 1..Len(A)
      PROVE  /\ A[i].round = e /\ A[i].steps <= x.steps
             /\ i + 1 \in 1..Len(A) => Follows(E, L, u, A[i].steps, A[i + 1].steps)
  <2>1. CASE i = n + 1
    BY <1>1, <1>2, <2>1
  <2>2. CASE i # n + 1
    <3>1. i \in 1..n /\ A[i] = q[i] /\ n # 0
      BY <1>1, <2>2
    <3>2. A[i].round = e /\ A[i].steps <= x.steps
      BY <1>2, <1>3, <3>1
    <3>3. CASE i = n
      <4>1. A[i + 1] = x /\ A[i].steps = y
        BY <1>1, <1>3, <1>4, <3>1, <3>3
      <4> QED
        BY <3>2, <4>1
    <3>4. CASE i # n
      <4>1. i + 1 \in 1..n
        BY <1>1, <3>1, <3>4
      <4> QED
        BY <1>1, <1>3, <3>1, <3>2, <4>1
    <3> QED
      BY <3>3, <3>4
  <2> QED
    BY <2>1, <2>2
<1> QED
  BY <1>5, <1>6, <1>7 DEF Chain, A

----------------------------------------------------------------------------

\* The ghost clusters of a region.
LEMMA RegionFacts ==
    ASSUME RegionRates, NEW p \in Regions
    PROVE  /\ p[1] \in Ghosts /\ p[2] \in Ghosts /\ p[1] # p[2] /\ p = <<p[1], p[2]>>
           /\ <<p[1], p[2]>> \in Regions /\ <<p[2], p[1]>> \in Regions
           /\ RankOf[p[1]] \in Ranks /\ RankOf[p[2]] \in Ranks /\ RankOf[p[1]] # RankOf[p[2]]
           /\ p[2] \in Remote(p[1]) /\ p[1] \in Remote(p[2])
           /\ Rate[p[1]] = Rate[CopyOf(p[2])] /\ Rate[p[2]] = Rate[CopyOf(p[1])]
           /\ Rate[p[1]] \in Nat \ {0} /\ Rate[p[2]] \in Nat \ {0}
           /\ Multiple(Rate[p[1]], Rate[p[2]]) \/ Multiple(Rate[p[2]], Rate[p[1]])
<1> DEFINE g == p[1]
           h == p[2]
<1>1. p = <<g, h>> /\ g \in Ghosts /\ h \in Ghosts /\ <<h, g>> \in Regions
  BY RegionPair
<1>2. RankOf[g] # RankOf[h]
  BY GhostAssumption
<1>3. g \in Clusters /\ h \in Clusters /\ CopyOf(h) \in Neighbors(h) /\ CopyOf(g) \in Neighbors(g)
  BY <1>1, CopyCluster
<1>4. Rate[g] = Rate[CopyOf(h)]
  BY <1>3, GhostAssumption
<1>5. Rate[h] = Rate[CopyOf(g)]
  <2> DEFINE r == <<h, g>>
  <2>1. r \in Regions /\ r[1] = h /\ r[2] = g
    BY <1>1
  <2> HIDE DEF r
  <2>2. \A k \in Neighbors(r[2]) : Rate[r[1]] = Rate[k]
    BY <2>1, GhostAssumption
  <2> QED
    BY <1>3, <2>1, <2>2
<1>6. Rate[g] \in Nat \ {0} /\ Rate[h] \in Nat \ {0} /\ RankOf[g] \in Ranks /\ RankOf[h] \in Ranks
  BY <1>3, RateAssumption, GhostAssumption
<1>7. h \in Remote(g) /\ g \in Remote(h)
  BY <1>1 DEF Remote
<1>8. Multiple(Rate[g], Rate[h]) \/ Multiple(Rate[h], Rate[g])
  BY DEF RegionRates
<1> HIDE DEF g, h
<1>9. g # h
  BY <1>2
<1> QED
  BY <1>1, <1>2, <1>4, <1>5, <1>6, <1>7, <1>8, <1>9 DEF g, h

\* The larger of the two rates is a multiple of both.
LEMMA LargerRate ==
    ASSUME NEW g, NEW h, Rate[g] \in Nat \ {0}, Rate[h] \in Nat \ {0},
           Multiple(Rate[g], Rate[h]) \/ Multiple(Rate[h], Rate[g])
    PROVE  /\ Larger(g, h) \in Nat \ {0}
           /\ Larger(g, h) = Rate[g] \/ Larger(g, h) = Rate[h]
           /\ Larger(g, h) >= Rate[g] /\ Larger(g, h) >= Rate[h]
           /\ \A x \in Int : Multiple(x, Larger(g, h)) => Multiple(x, Rate[g]) /\ Multiple(x, Rate[h])
<1> DEFINE L == Larger(g, h)
<1>1. /\ L \in Nat \ {0} /\ (L = Rate[g] \/ L = Rate[h])
      /\ L >= Rate[g] /\ L >= Rate[h]
  BY DEF Larger
<1>2. ASSUME NEW a \in Nat \ {0}, NEW b \in Nat \ {0}, Multiple(a, b), a < b
      PROVE  FALSE
  <2>1. PICK i \in Int : a = i * b
    BY <1>2 DEF Multiple
  <2>2. CASE i <= 0
    BY <1>2, <2>1, <2>2
  <2>3. CASE i >= 1
    <3>1. (i - 1) * b >= 0
      BY <2>3
    <3>2. (i - 1) * b = i * b - b
      OBVIOUS
    <3> QED
      BY <1>2, <2>1, <3>1, <3>2
  <2> QED
    BY <2>2, <2>3
<1>3. Multiple(L, Rate[g]) /\ Multiple(L, Rate[h])
  <2>1. \A r \in Nat \ {0} : Multiple(r, r)
    BY DEF Multiple
  <2>2. CASE Multiple(Rate[g], Rate[h])
    <3>1. ~(Rate[g] < Rate[h])
      BY <1>2, <2>2
    <3> QED
      BY <2>1, <2>2, <3>1 DEF Larger
  <2>3. CASE Multiple(Rate[h], Rate[g])
    <3>1. ~(Rate[h] < Rate[g])
      BY <1>2, <2>3
    <3> QED
      BY <2>1, <2>3, <3>1 DEF Larger
  <2> QED
    BY <2>2, <2>3
<1> HIDE DEF L
<1>4. ASSUME NEW x \in Int, Multiple(x, L), NEW r \in Nat \ {0}, Multiple(L, r)
      PROVE  Multiple(x, r)
  <2>1. PICK i \in Int : x = i * L
    BY <1>4 DEF Multiple
  <2>2. PICK j \in Int : L = j * r
    BY <1>4 DEF Multiple
  <2>3. i * (j * r) = (i * j) * r /\ i * j \in Int
    OBVIOUS
  <2> QED
    BY <2>1, <2>2, <2>3 DEF Multiple
<1> QED
  BY <1>1, <1>3, <1>4 DEF L

\* Two multiples of a rate are equal or a rate apart.
LEMMA RateApart ==
    ASSUME NEW r \in Nat \ {0}, NEW v \in Int, NEW w \in Int, Multiple(v, r), Multiple(w, r), v > w
    PROVE  v >= w + r
<1>1. v < w + r => v <= w
  BY NoMultipleBetween
<1> QED
  BY <1>1

----------------------------------------------------------------------------
(* The ranks *)

\* The barrier keeps the ranks together.
LEMMA NextEpochInv ==
    ASSUME GhostTypeOK, EpochInv, [GhostNext]_ghostVars
    PROVE  EpochInv'
<1>1. /\ \A r \in Ranks : epoch[r] \in Nat
      /\ phase \in [Ranks -> {"idle", "reset", "barrier", "restart", "loop"}]
      /\ epoch \in [Ranks -> 0..Len(SyncTimes)]
  BY SyncTimesAssumption DEF GhostTypeOK
<1>2. ASSUME NEW r \in Ranks, Advance(r)
      PROVE  EpochInv'
  <2>1. /\ phase[r] = "idle" /\ phase'[r] = "reset" /\ epoch'[r] = epoch[r] + 1
        /\ \A s \in Ranks \ {r} : phase'[s] = phase[s] /\ epoch'[s] = epoch[s]
    BY <1>1, <1>2 DEF Advance
  <2> QED
    BY <1>1, <2>1 DEF EpochInv
<1>3. ASSUME NEW r \in Ranks, EnterBarrier(r)
      PROVE  EpochInv'
  <2>1. /\ phase'[r] = "barrier" /\ epoch' = epoch
        /\ \A s \in Ranks \ {r} : phase'[s] = phase[s] /\ phase[r] = "reset"
    BY <1>1, <1>3 DEF EnterBarrier
  <2> QED
    BY <1>1, <1>3, <2>1 DEF EpochInv, EnterBarrier
<1>4. ASSUME NEW r \in Ranks, LeaveBarrier(r)
      PROVE  EpochInv'
  <2>1. /\ epoch' = epoch /\ \A s \in Ranks : epoch[r] <= epoch[s]
        /\ \A s \in Ranks \ {r} : phase'[s] = phase[s]
    BY <1>1, <1>4 DEF LeaveBarrier
  <2> QED
    BY <1>1, <2>1 DEF EpochInv
<1>5. ASSUME NEW r \in Ranks, phase[r] \in {"restart", "loop"}, epoch' = epoch,
             \A s \in Ranks \ {r} : phase'[s] = phase[s]
      PROVE  EpochInv'
  BY <1>1, <1>5 DEF EpochInv
<1>6. ASSUME UNCHANGED <<phase, epoch>>
      PROVE  EpochInv'
  BY <1>6 DEF EpochInv
<1>7. ASSUME NEW r \in Ranks, Return(r)
      PROVE  EpochInv'
  <2>1. phase[r] = "loop" /\ epoch' = epoch /\ \A s \in Ranks \ {r} : phase'[s] = phase[s]
    BY <1>1, <1>7 DEF Return
  <2> QED
    BY <1>5, <2>1
<1>8. ASSUME NEW c \in Clusters, Runs(c)
      PROVE  EpochInv'
  <2>1. RankOf[c] \in Ranks
    BY GhostAssumption
  <2>2. CASE UNCHANGED rankVars
    BY <1>6, <2>2 DEF rankVars
  <2>3. CASE RestartNext(RankOf[c], c)
    <3>1. /\ phase[RankOf[c]] = "restart" /\ epoch' = epoch
          /\ \A s \in Ranks \ {RankOf[c]} : phase'[s] = phase[s]
      BY <1>1, <2>3 DEF RestartNext
    <3> QED
      BY <1>5, <2>1, <3>1
  <2> QED
    BY <1>8, <2>2, <2>3 DEF Runs
<1>9. CASE MPIStep
  <2>1. UNCHANGED <<phase, epoch>>
    BY <1>9 DEF MPIStep, ghostVars, rankVars, ReadCopyLayer, FillGhostLayer
  <2> QED
    BY <1>6, <2>1
<1>10. ASSUME NEW r \in Ranks, NEW c \in Own(r), ResetNext(r, c)
       PROVE  EpochInv'
  BY <1>6, <1>10 DEF ResetNext
<1> QED
  BY <1>2, <1>3, <1>4, <1>7, <1>8, <1>9, <1>10, StepCases, GhostActs, CopyCluster
     DEF CellStep, GhostStep

\* A cluster and a ghost cluster that do not go back stay together.
LEMMA SameCopy ==
    ASSUME ExactArithmetic, ActorTypeOK, ActorTypeOK', NEW g \in Ghosts, CopyOfGhost(g), ct'[CopyOf(g)] = ct[CopyOf(g)],
           ct'[g].stepsSinceLastSync >= ct[g].stepsSinceLastSync,
           ct'[g].predictionsSinceLastSync >= ct[g].predictionsSinceLastSync,
           epoch'[RankOf[g]] = epoch[RankOf[g]],
           phase'[RankOf[g]] \in {"barrier", "restart", "loop"} =>
               /\ phase[RankOf[g]] \in {"barrier", "restart", "loop"}
               /\ phase'[RankOf[g]] = "barrier" => phase[RankOf[g]] = "barrier"
               /\ epoch[RankOf[g]] \in 1..Len(SyncTimes)
    PROVE  CopyOfGhost(g)'
<1> DEFINE k == CopyOf(g)
           e == epoch[RankOf[g]]
<1>1. SUFFICES ASSUME phase'[RankOf[g]] \in {"barrier", "restart", "loop"}
               PROVE  CopyOfGhost(g)'
  BY DEF CopyOfGhost
<1>2. /\ g \in Clusters /\ k \in Clusters /\ ct[g] \in ClusterTimes /\ ct'[g] \in ClusterTimes
      /\ ct[k] \in ClusterTimes /\ Rate[g] \in Nat \ {0} /\ Rate[k] \in Nat \ {0}
  BY CopyCluster, RateAssumption DEF ActorTypeOK
<1>3. EndOf(e, g) \in Nat
  BY <1>1, <1>2, EndOfFacts
<1>4. /\ ct[g].stepsSinceLastSync \in Int /\ ct'[g].stepsSinceLastSync \in Int
      /\ ct[g].predictionsSinceLastSync \in Int /\ ct'[g].predictionsSinceLastSync \in Int
      /\ ct[k].stepsSinceLastSync \in Int /\ ct[k].predictionsSinceLastSync \in Int
  BY <1>2 DEF ClusterTimes
<1> HIDE DEF k
<1> DEFINE p == ct[k].predictionsSinceLastSync
           s == ct[k].stepsSinceLastSync
           t == ct[g]
           t2 == ct'[g]
<1>5. /\ phase'[RankOf[g]] = "barrier" => p = 0
      /\ p = 0 \/ p - Rate[k] < t.stepsSinceLastSync + Rate[g]
      /\ s <= t.predictionsSinceLastSync \/ t.predictionsSinceLastSync >= EndOf(e, g)
  BY <1>1 DEF CopyOfGhost, k
<1>6. p \in Int /\ s \in Int /\ Rate[g] \in Int /\ Rate[k] \in Int /\ EndOf(e, g) \in Int
  BY <1>2, <1>3, <1>4
<1>7. /\ t.stepsSinceLastSync \in Int /\ t2.stepsSinceLastSync \in Int
      /\ t.predictionsSinceLastSync \in Int /\ t2.predictionsSinceLastSync \in Int
      /\ t2.stepsSinceLastSync >= t.stepsSinceLastSync
      /\ t2.predictionsSinceLastSync >= t.predictionsSinceLastSync
  BY <1>4
<1> HIDE DEF p, s, t, t2
<1>8. /\ p = 0 \/ p - Rate[k] < t2.stepsSinceLastSync + Rate[g]
      /\ s <= t2.predictionsSinceLastSync \/ t2.predictionsSinceLastSync >= EndOf(e, g)
  BY <1>5, <1>6, <1>7
<1> QED
  BY <1>1, <1>5, <1>8 DEF CopyOfGhost, k, p, s, t, t2

\* A step of a copy cluster.
LEMMA CopyKeepsUp ==
    ASSUME ExactArithmetic, SameUnitStep, RankInv, NEW g \in Ghosts, CopyOfGhost(g), CellStep(CopyOf(g))
    PROVE  CopyOfGhost(g)'
<1> DEFINE k == CopyOf(g)
           e == epoch[RankOf[g]]
           t == ct[g]
           u == ct[k]
           u2 == ct'[k]
<1>1. /\ g \in Clusters /\ k \in Clusters /\ k # g /\ <<k, g>> \in Links /\ RankOf[k] = RankOf[g]
      /\ RankOf[g] \in Ranks /\ ActorTypeOK /\ GhostTypeOK
  <2>1. ActorTypeOK /\ GhostTypeOK
    BY DEF RankInv, GhostTypeOK
  <2>2. /\ g \in Clusters /\ k \in Clusters /\ k # g /\ <<k, g>> \in Links
        /\ RankOf[k] = RankOf[g]
    BY CopyCluster
  <2> QED
    BY <2>1, <2>2, GhostAssumption
<1>2. PICK seen \in SUBSET Waiting(k) : Act(k, seen)
  BY DEF CellStep
<1>3. /\ phase[RankOf[g]] \in {"restart", "loop"} /\ phase'[RankOf[g]] \in {"restart", "loop"}
      /\ epoch' = epoch
  BY <1>1 DEF CellStep, Runs, RestartNext, rankVars, GhostTypeOK
<1>4. /\ ClockAt(e, k, state[k], u)
      /\ LinkAt(e, <<k, g>>, u, t, nct[<<k, g>>], inbox[<<k, g>>])
      /\ e \in 1..Len(SyncTimes)
  BY <1>1, <1>3, RunningGhost
<1>5. ActorTypeOK' /\ ct'[g] = t
  BY <1>1, <1>2, ActIsOwn
<1>6. /\ t.stepsSinceLastSync \in Int /\ t.predictionsSinceLastSync \in Int
      /\ u.stepsSinceLastSync \in Int /\ u.predictionsSinceLastSync \in Int
      /\ u \in ClusterTimes /\ Rate[g] \in Nat \ {0} /\ Rate[k] \in Nat \ {0}
      /\ EndOf(e, g) \in Nat
  BY <1>1, <1>4, RateAssumption, EndOfFacts DEF ActorTypeOK, ClusterTimes
<1>7. /\ \/ u.predictionsSinceLastSync = 0
         \/ u.predictionsSinceLastSync - Rate[k] < t.stepsSinceLastSync + Rate[g]
      /\ \/ u.stepsSinceLastSync <= t.predictionsSinceLastSync
         \/ t.predictionsSinceLastSync >= EndOf(e, g)
  BY <1>3 DEF CopyOfGhost
<1>8. /\ \/ u2.predictionsSinceLastSync = 0
         \/ u2.predictionsSinceLastSync - Rate[k] < t.stepsSinceLastSync + Rate[g]
      /\ \/ u2.stepsSinceLastSync <= t.predictionsSinceLastSync
         \/ t.predictionsSinceLastSync >= EndOf(e, g)
  <2>1. CASE ct' = ct
    BY <1>7, <2>1
  <2>2. CASE Predict(k, seen)
    <3> DEFINE new == [u EXCEPT !.predictionsSinceLastSync = @ + Rate[k],
                                !.predictionTime = Plus(@, TimeStepSize(k))]
    <3>1. u2 = new
      BY <1>1, <2>2 DEF Predict, ActorTypeOK
    <3>2. /\ new.predictionsSinceLastSync = u.predictionsSinceLastSync + Rate[k]
          /\ new.stepsSinceLastSync = u.stepsSinceLastSync
      BY <1>6 DEF ClusterTimes
    <3>3. u.predictionsSinceLastSync < t.stepsSinceLastSync + Rate[g]
      BY <1>1, <1>4, <2>2, PredictIsAllowed
    <3> HIDE DEF new, u, t, k, u2
    <3> QED
      BY <1>6, <1>7, <3>1, <3>2, <3>3
  <2>3. CASE Correct(k, seen)
    <3> DEFINE new == [u EXCEPT !.correctionTime = Plus(@, TimeStepSize(k)),
                                !.stepsSinceLastSync = @ + Rate[k],
                                !.stepsSinceStart = @ + Rate[k]]
    <3>1. u2 = new
      BY <1>1, <2>3 DEF Correct, ActorTypeOK
    <3>2. /\ new.stepsSinceLastSync = u.stepsSinceLastSync + Rate[k]
          /\ new.predictionsSinceLastSync = u.predictionsSinceLastSync
      BY <1>6 DEF ClusterTimes
    <3>3. /\ t.predictionsSinceLastSync >= EndOf(e, g)
             \/ u.predictionsSinceLastSync <= t.predictionsSinceLastSync
          /\ u.predictionsSinceLastSync = u.stepsSinceLastSync + Rate[k]
      BY <1>1, <1>4, <2>3, CorrectIsAllowed DEF Correct, ClockAt
    <3> HIDE DEF new, u, t, k, u2
    <3> QED
      BY <1>6, <1>7, <3>1, <3>2, <3>3
  <2> QED
    BY <1>2, <2>1, <2>2, <2>3 DEF Act, Poll, RestartAfterSync, Sync
<1> QED
  BY <1>3, <1>5, <1>8 DEF CopyOfGhost

\* No step takes a ghost cluster away from its copy cluster.
LEMMA NextCopyOfGhost ==
    ASSUME ExactArithmetic, SameUnitStep, RankInv, RankInv', NEW g \in Ghosts, CopyOfGhost(g),
           [GhostNext]_ghostVars
    PROVE  CopyOfGhost(g)'
<1> DEFINE k == CopyOf(g)
           r == RankOf[g]
<1>1. /\ g \in Clusters /\ k \in Clusters \ Ghosts /\ k # g /\ RankOf[k] = r /\ r \in Ranks
      /\ ActorTypeOK /\ ActorTypeOK' /\ GhostTypeOK /\ GhostTypeOK'
      /\ Rate[g] \in Nat \ {0}
  <2>1. ActorTypeOK /\ ActorTypeOK' /\ GhostTypeOK /\ GhostTypeOK'
    BY DEF RankInv, GhostTypeOK
  <2>2. g \in Clusters /\ k \in Clusters \ Ghosts /\ k # g /\ RankOf[k] = r
    BY CopyCluster
  <2> QED
    BY <2>1, <2>2, GhostAssumption, RateAssumption
<1>2. phase[r] \in {"barrier", "restart", "loop"} => epoch[r] \in 1..Len(SyncTimes)
  BY <1>1, RankInAPhase
<1>3. /\ ct[g].stepsSinceLastSync \in Int /\ ct[g].predictionsSinceLastSync \in Int
  BY <1>1 DEF ActorTypeOK, ClusterTimes
<1>4. ASSUME UNCHANGED <<phase[r], epoch[r], ct[g], ct[k]>>
      PROVE  CopyOfGhost(g)'
  BY <1>1, <1>2, <1>3, <1>4, SameCopy
<1>5. ASSUME NEW s \in Ranks, Advance(s) \/ EnterBarrier(s) \/ LeaveBarrier(s) \/ Return(s)
      PROVE  CopyOfGhost(g)'
  <2>1. /\ UNCHANGED ct
        /\ \A q \in Ranks \ {s} : phase'[q] = phase[q] /\ epoch'[q] = epoch[q]
    BY <1>1, <1>5 DEF Advance, EnterBarrier, LeaveBarrier, Return, actorVars, GhostTypeOK
  <2>2. CASE r # s
    BY <1>1, <1>4, <2>1, <2>2
  <2>3. CASE r = s /\ (Advance(s) \/ Return(s))
    BY <1>1, <2>3 DEF Advance, Return, CopyOfGhost, GhostTypeOK
  <2>4. CASE r = s /\ EnterBarrier(s)
    <3>1. phase[r] = "reset" /\ todo[r] = {} /\ epoch' = epoch
      BY <2>4 DEF EnterBarrier
    <3>2. Working(g) /\ Working(k)
      BY <1>1, <3>1 DEF RankInv, ClockInv, ClockOf, ToReset
    <3>3. /\ ct[g].predictionsSinceLastSync = 0
          /\ ct[k].predictionsSinceLastSync = 0 /\ ct[k].stepsSinceLastSync = 0
      BY <1>1, <3>1, <3>2 DEF Working, ClockAt
    <3> QED
      BY <2>1, <3>3 DEF CopyOfGhost
  <2>5. CASE r = s /\ LeaveBarrier(s)
    <3>1. phase[r] = "barrier" /\ phase'[r] = "restart" /\ epoch' = epoch
      BY <1>1, <2>5 DEF LeaveBarrier, GhostTypeOK
    <3> QED
      BY <1>1, <1>2, <1>3, <2>1, <3>1, SameCopy
  <2> QED
    BY <1>5, <2>2, <2>3, <2>4, <2>5
<1>6. ASSUME NEW s \in Ranks, NEW c \in Own(s), ResetNext(s, c)
      PROVE  CopyOfGhost(g)'
  <2>1. /\ phase[s] = "reset" /\ UNCHANGED <<phase, epoch>> /\ c \in Clusters /\ RankOf[c] = s
        /\ \A i \in Clusters \ {c} : ct'[i] = ct[i]
    BY <1>1, <1>6, OwnClusters DEF ResetNext, SetSyncTimeAndReset, ActorTypeOK
  <2>2. CASE r = s
    BY <2>1, <2>2 DEF CopyOfGhost
  <2>3. CASE r # s
    BY <1>1, <1>4, <2>1, <2>3
  <2> QED
    BY <2>2, <2>3
<1>7. ASSUME NEW c \in Clusters, c # g, NEW seen \in SUBSET Waiting(c), Act(c, seen), Runs(c), c # k
      PROVE  CopyOfGhost(g)'
  <2>1. ct'[g] = ct[g] /\ ct'[k] = ct[k]
    BY <1>1, <1>7, ActIsOwn
  <2>2. /\ epoch' = epoch
        /\ \/ phase'[r] = phase[r]
           \/ phase[r] = "restart" /\ phase'[r] = "loop"
    BY <1>1, <1>7, GhostAssumption DEF Runs, rankVars, RestartNext, GhostTypeOK
  <2> QED
    BY <1>1, <1>2, <1>3, <2>1, <2>2, SameCopy
<1>8. ASSUME GhostAct(g)
      PROVE  CopyOfGhost(g)'
  <2>1. PICK seen \in SUBSET Waiting(g), starts \in BOOLEAN : ActsOn(g, seen, starts)
    BY <1>8, GhostActsOn
  <2>2. Act(g, seen)
    BY <1>1, <2>1, GhostCounters
  <2>3. ct'[k] = ct[k] /\ UNCHANGED <<phase, epoch>>
    BY <1>1, <1>8, <2>2, ActIsOwn, GhostActs DEF GhostStep, rankVars
  <2>4. /\ ct'[g].stepsSinceLastSync >= ct[g].stepsSinceLastSync
        /\ ct'[g].predictionsSinceLastSync >= ct[g].predictionsSinceLastSync
    <3>1. \/ ct'[g] = ct[g]
          \/ /\ ct'[g].stepsSinceLastSync = ct[g].stepsSinceLastSync
             /\ ct'[g].predictionsSinceLastSync = ct[g].predictionsSinceLastSync + Rate[g]
          \/ /\ ct'[g].stepsSinceLastSync = ct[g].stepsSinceLastSync + Rate[g]
             /\ ct'[g].predictionsSinceLastSync = ct[g].predictionsSinceLastSync
      BY <1>1, <2>1, GhostCounters
    <3> QED
      BY <1>1, <1>3, <3>1
  <2> QED
    BY <1>1, <1>2, <2>3, <2>4, SameCopy
<1>9. CASE MPIStep
  <2>1. UNCHANGED <<actorVars, rankVars>>
    BY <1>9 DEF MPIStep, ghostVars, ReadCopyLayer, FillGhostLayer
  <2> QED
    BY <1>4, <2>1 DEF actorVars, rankVars
<1>10. ASSUME NEW c \in Clusters \ Ghosts, CellStep(c)
       PROVE  CopyOfGhost(g)'
  <2>1. CASE c = k
    BY <1>10, <2>1, CopyKeepsUp
  <2>2. CASE c # k
    BY <1>7, <1>10, <2>2 DEF CellStep
  <2> QED
    BY <2>1, <2>2
<1>11. ASSUME NEW c \in Ghosts, GhostAct(c)
       PROVE  CopyOfGhost(g)'
  <2>1. CASE c = g
    BY <1>8, <1>11, <2>1
  <2>2. CASE c # g
    BY <1>1, <1>7, <1>11, <2>2, GhostActs, CopyCluster DEF GhostStep
  <2> QED
    BY <2>1, <2>2
<1> QED
  BY <1>5, <1>6, <1>9, <1>10, <1>11, StepCases
----------------------------------------------------------------------------
(* The copy layers on their way *)

\* The phases of two ranks, one of which is ahead.
LEMMA NowFacts ==
    ASSUME GhostTypeOK, EpochInv, NEW r \in Ranks, NEW s \in Ranks
    PROVE  /\ Now(r) \in Nat /\ epoch[r] \in Nat
           /\ phase[r] # "idle" => epoch[r] \in 1..Len(SyncTimes)
           /\ Now(s) = Now(r) + 1 =>
                  /\ phase[s] \in {"idle", "reset", "barrier"} /\ phase[r] # "idle"
                  /\ Now(r) \in 1..Len(SyncTimes)
<1>1. /\ epoch[r] \in 0..Len(SyncTimes) /\ epoch[s] \in 0..Len(SyncTimes) /\ Len(SyncTimes) \in Nat
      /\ phase[r] # "idle" => epoch[r] # 0
      /\ phase[s] \in {"idle", "reset", "barrier", "restart", "loop"}
  BY SyncTimesAssumption DEF GhostTypeOK
<1>2. epoch[s] <= epoch[r] \/ (epoch[s] = epoch[r] + 1 /\ phase[s] \in {"reset", "barrier"})
  BY DEF EpochInv
<1> QED
  BY <1>1, <1>2 DEF Now

\* Nothing happens to what is sent if neither end of the region changes.
LEMMA SameChain ==
    ASSUME NEW g, NEW h, ChainOf(g, h),
           Now(RankOf[g])' = Now(RankOf[g]), Now(RankOf[h])' = Now(RankOf[h]),
           Arrived(h, g)' = Arrived(h, g), channel'[<<g, h>>] = channel[<<g, h>>],
           h \in sending'[g] <=> h \in sending[g], Offered(g)' = Offered(g)
    PROVE  ChainOf(g, h)'
<1> DEFINE a == Now(RankOf[g])
           b == Now(RankOf[h])
           v == Arrived(h, g)
           q == channel[<<g, h>>]
           o == Offered(g)
<1>1. Paired(a, b, g, h, v, q, sending[g], o)
  BY DEF ChainOf
<1> HIDE DEF a, b, v, q, o
<1>2. Paired(a, b, g, h, v, q, sending'[g], o)
  BY <1>1 DEF Paired
<1> QED
  BY <1>2 DEF ChainOf, a, b, v, q, o

\* Nothing happens to what is received if the receiver does not change.
LEMMA SameReceived ==
    ASSUME NEW g, NEW h, ReceivedOf(g, h),
           epoch'[RankOf[h]] = epoch[RankOf[h]], Started(h)' = Started(h),
           Now(RankOf[h])' = Now(RankOf[h]), region'[<<h, g>>] = region[<<h, g>>],
           state'[h] = state[h], ct'[h] = ct[h],
           nct'[<<h, CopyOf(h)>>] = nct[<<h, CopyOf(h)>>], receiving'[h] = receiving[h]
    PROVE  ReceivedOf(g, h)'
<1>1. Arrived(h, g)' = Arrived(h, g)
  BY DEF Arrived
<1> QED
  BY <1>1 DEF ReceivedOf

\* What is to be sent of the copy cluster is known when it is sent, or no news.
LEMMA OfferFollows ==
    ASSUME NEW e, NEW g, NEW h, NEW k, NEW s, NEW t, NEW u, NEW m, NEW q,
           GhostFacts(e, g, k, s, t, u, m, q), Abreast(e, g, k, t, u, m, q),
           Rate[h] = Rate[k], Multiple(Rate[g], Rate[h]) \/ Multiple(Rate[h], Rate[g]),
           NEW x \in Told(q), x.kind = "prediction",
           NEW o \in Int, o = m.predictionsSinceLastSync,
           NEW p \in Int, p = x.stepsSinceSync
    PROVE  /\ 0 <= o /\ o < EndOf(e, g) /\ p > 0 /\ p <= u.predictionsSinceLastSync
           /\ Multiple(o, Larger(g, h)) \/ o >= EndOf(e, g) =>
                  /\ Follows(EndOf(e, g), Larger(g, h), Rate[h], o, p)
                  /\ Multiple(p, Larger(g, h)) \/ p >= EndOf(e, g)
<1> DEFINE E == EndOf(e, g)
           L == Larger(g, h)
           n == t.stepsSinceLastSync
           a == Rate[g]
           b == Rate[h]
<1>1. /\ E \in Nat \ {0} /\ a \in Nat \ {0} /\ b \in Nat \ {0} /\ n \in Int /\ Multiple(n, a)
      /\ u.predictionsSinceLastSync \in Int
      /\ o \in 0..u.predictionsSinceLastSync /\ (o < E \/ o = u.predictionsSinceLastSync)
      /\ Multiple(o, b) /\ Multiple(p, b) /\ p <= u.predictionsSinceLastSync /\ p > o
  BY DEF GhostFacts
<1>2. p - b < n + a /\ (p >= n + a \/ p >= E)
  BY DEF Abreast, InTurn
<1>3. n <= o \/ o >= E
  BY DEF Abreast
<1>4. /\ L \in Nat \ {0} /\ (L = a \/ L = b)
      /\ L >= a /\ L >= b
      /\ \A i \in Int : Multiple(i, L) => Multiple(i, a) /\ Multiple(i, b)
  BY <1>1, LargerRate
<1> HIDE DEF E, L, n, a, b
<1>5. o < E /\ n <= o /\ o >= 0 /\ p > 0
  BY <1>1, <1>3
<1>6. p >= o + b
  BY <1>1, RateApart
<1>7. ASSUME Multiple(o, L)
      PROVE  Follows(E, L, b, o, p) /\ (Multiple(p, L) \/ p >= E)
  <2>1. CASE L = b
    <3>1. p < (o + b) + b
      BY <1>1, <1>2, <1>4, <1>5, <2>1
    <3>2. Multiple(o + b, b)
      BY <1>1, NextMultiple
    <3>3. p <= o + b
      BY <1>1, <3>1, <3>2, NoMultipleBetween
    <3> QED
      BY <1>1, <1>5, <1>6, <1>7, <2>1, <3>3 DEF Follows
  <2>2. CASE L = a
    <3>1. o < n + a
      BY <1>1, <1>2, <1>6
    <3>2. o <= n
      BY <1>1, <1>7, <2>2, <3>1, NoMultipleBetween
    <3>3. o = n /\ p < (n + a) + b
      BY <1>1, <1>2, <1>5, <3>2
    <3>4. Multiple(n + a, a)
      BY <1>1, NextMultiple
    <3>5. Multiple(n + a, b)
      BY <1>1, <1>4, <2>2, <3>4
    <3>6. p <= n + a
      BY <1>1, <3>3, <3>5, NoMultipleBetween
    <3>7. p = n + a \/ p >= E
      BY <1>1, <1>2, <3>6
    <3> QED
      BY <1>1, <1>5, <1>7, <2>2, <3>3, <3>4, <3>6, <3>7 DEF Follows
  <2> QED
    BY <1>4, <2>1, <2>2
<1> QED
  BY <1>1, <1>5, <1>7 DEF E, L, b

\* What is known of a ghost cluster that runs and of its copy cluster.
LEMMA RunningFacts ==
    ASSUME ExactArithmetic, SameUnitStep, RankInv, ReqInv, NEW g \in Ghosts, NEW k, k = CopyOf(g),
           NEW e, e = epoch[RankOf[g]], phase[RankOf[g]] \in {"barrier", "restart", "loop"}
    PROVE  /\ e \in 1..Len(SyncTimes)
           /\ GhostFacts(e, g, k, state[g], ct[g], ct[k], nct[<<g, k>>], inbox[<<g, k>>])
           /\ Abreast(e, g, k, ct[g], ct[k], nct[<<g, k>>], inbox[<<g, k>>])
           /\ Posted(e, g, state[g], ct[g], nct[<<g, k>>], sending[g], receiving[g], lastSendTime[g])
           /\ Multiple(ct[k].predictionsSinceLastSync, Rate[k])
           /\ state[k] = "Predicted" =>
                  ct[k].predictionsSinceLastSync = ct[k].stepsSinceLastSync + Rate[k]
<1>1. /\ g \in Clusters /\ k \in Clusters /\ <<g, k>> \in Links /\ ActorTypeOK
  BY CopyCluster DEF RankInv, GhostTypeOK
<1>2. /\ e \in 1..Len(SyncTimes)
      /\ ClockAt(e, g, state[g], ct[g]) /\ ClockAt(e, k, state[k], ct[k])
      /\ LinkAt(e, <<g, k>>, ct[g], ct[k], nct[<<g, k>>], inbox[<<g, k>>])
  BY RunningGhost
<1>3. GhostFacts(e, g, k, state[g], ct[g], ct[k], nct[<<g, k>>], inbox[<<g, k>>])
  BY <1>1, <1>2, GhostLink DEF ActorTypeOK
<1>4. /\ Abreast(e, g, k, ct[g], ct[k], nct[<<g, k>>], inbox[<<g, k>>])
      /\ Posted(e, g, state[g], ct[g], nct[<<g, k>>], sending[g], receiving[g], lastSendTime[g])
  BY DEF ReqInv, ReqOf, ToReset
<1> QED
  BY <1>2, <1>3, <1>4 DEF ClockAt, OnGrid

\* The two ends of a region, and what holds of them.
LEMMA PairParts ==
    ASSUME RegionRates, RankInv, PairInv, NEW g, NEW h, <<g, h>> \in Regions
    PROVE  /\ g \in Ghosts /\ h \in Ghosts /\ g \in Clusters /\ h \in Clusters /\ g # h
           /\ RankOf[g] \in Ranks /\ RankOf[h] \in Ranks /\ RankOf[g] # RankOf[h]
           /\ h \in Remote(g) /\ g \in Remote(h) /\ <<h, g>> \in Regions
           /\ Rate[h] = Rate[CopyOf(g)] /\ Rate[g] = Rate[CopyOf(h)]
           /\ Rate[g] \in Nat \ {0} /\ Rate[h] \in Nat \ {0}
           /\ Multiple(Rate[g], Rate[h]) \/ Multiple(Rate[h], Rate[g])
           /\ GhostTypeOK /\ ActorTypeOK /\ EpochInv
           /\ ChainOf(g, h) /\ ReceivedOf(g, h) /\ CopyOfGhost(g) /\ CopyOfGhost(h)
           /\ Arrived(h, g) \in Int /\ channel[<<g, h>>] \in Seq(CopyLayers)
<1> DEFINE w == <<g, h>>
<1>1. w \in Regions /\ w[1] = g /\ w[2] = h
  OBVIOUS
<1> HIDE DEF w
<1>2. /\ g \in Ghosts /\ h \in Ghosts /\ g # h
      /\ RankOf[g] \in Ranks /\ RankOf[h] \in Ranks /\ RankOf[g] # RankOf[h]
      /\ h \in Remote(g) /\ g \in Remote(h) /\ <<h, g>> \in Regions
      /\ Rate[h] = Rate[CopyOf(g)] /\ Rate[g] = Rate[CopyOf(h)]
      /\ Rate[g] \in Nat \ {0} /\ Rate[h] \in Nat \ {0}
      /\ Multiple(Rate[g], Rate[h]) \/ Multiple(Rate[h], Rate[g])
  BY <1>1, RegionFacts
<1>3. GhostTypeOK /\ ActorTypeOK /\ EpochInv
  BY DEF RankInv, GhostTypeOK, PairInv
<1>4. ChainOf(g, h) /\ ReceivedOf(g, h) /\ CopyOfGhost(g) /\ CopyOfGhost(h)
  BY <1>1, <1>2 DEF PairInv
<1>5. g \in Clusters /\ h \in Clusters
  BY <1>2, CopyCluster
<1>6. region[<<h, g>>].steps \in Int /\ channel[<<g, h>>] \in Seq(CopyLayers)
  BY <1>2, <1>3 DEF GhostTypeOK, CopyLayers
<1>7. Arrived(h, g) \in Int
  BY <1>6 DEF Arrived
<1> QED
  BY <1>2, <1>3, <1>4, <1>5, <1>6, <1>7

\* Requests are pending only of ghost clusters that run.
LEMMA RequestsRun ==
    ASSUME RankInv, ReqInv, NEW g \in Ghosts, sending[g] # {} \/ receiving[g] # {}
    PROVE  /\ phase[RankOf[g]] \in {"barrier", "restart", "loop"}
           /\ Now(RankOf[g]) = epoch[RankOf[g]] /\ Started(g)
<1>1. ReqOf(g) /\ ClockOf(g) /\ GhostTypeOK /\ RankOf[g] \in Ranks
  BY CopyCluster, GhostAssumption DEF ReqInv, RankInv, ClockInv
<1>2. phase[RankOf[g]] # "idle" /\ ~ToReset(g)
  BY <1>1 DEF ReqOf
<1>3. phase[RankOf[g]] # "reset"
  BY <1>1, <1>2 DEF ReqOf, ClockOf, Working, Posted
<1> QED
  BY <1>1, <1>2, <1>3 DEF GhostTypeOK, Now, Started

\* A ghost cluster that pops a prediction sends the next copy layer.
LEMMA GhostActChain ==
    ASSUME ExactArithmetic, SameUnitStep, RegionRates, RankInv, RankInv', ReqInv, PairInv,
           NEW g, NEW h, <<g, h>> \in Regions, GhostAct(g)
    PROVE  ChainOf(g, h)'
<1> DEFINE k == CopyOf(g)
           l == <<g, k>>
           r == RankOf[g]
           s == RankOf[h]
           e == epoch[r]
           o == nct[l].predictionsSinceLastSync
           p == nct'[l].predictionsSinceLastSync
<1>1. /\ g \in Ghosts /\ h \in Ghosts /\ r \in Ranks /\ s \in Ranks /\ r # s /\ h \in Remote(g)
      /\ Rate[h] = Rate[k] /\ (Multiple(Rate[g], Rate[h]) \/ Multiple(Rate[h], Rate[g]))
      /\ g \in Clusters /\ h \in Clusters /\ l \in Links
  BY PairParts, CopyCluster
<1>2. /\ GhostTypeOK /\ ActorTypeOK /\ ActorTypeOK' /\ EpochInv /\ ChainOf(g, h) /\ CopyOfGhost(g)
  BY PairParts DEF RankInv, GhostTypeOK
<1>3. phase[r] \in {"barrier", "restart", "loop"} /\ UNCHANGED <<phase, epoch, todo>>
  BY <1>1, GhostActs DEF GhostStep, Runs, rankVars
<1>4. PICK seen \in SUBSET Waiting(g), starts \in BOOLEAN :
          ActsOn(g, seen, starts) /\ HandleMessage(g, seen, starts)
  BY <1>1, GhostActsOn
<1>5. /\ Popped(g, seen, "prediction") =>
             \E x \in Told(inbox[l]) : x.kind = "prediction" /\ p = x.stepsSinceSync
      /\ ~Popped(g, seen, "prediction") => p = o
  BY <1>1, <1>2, <1>4, GhostCounters, GhostReads
<1>6. /\ e \in 1..Len(SyncTimes)
      /\ GhostFacts(e, g, k, state[g], ct[g], ct[k], nct[l], inbox[l])
      /\ Abreast(e, g, k, ct[g], ct[k], nct[l], inbox[l])
  BY <1>1, <1>3, RunningFacts
<1>7. /\ Offered(g) = o /\ Offered(g)' = p /\ Now(r) = e
      /\ Now(r)' = Now(r) /\ Now(s)' = Now(s)
  BY <1>3 DEF Offered, Started, ToReset, Now
<1>8. /\ UNCHANGED <<channel, region>> /\ Arrived(h, g)' = Arrived(h, g)
      /\ sending'[g] = IF Popped(g, seen, "prediction") THEN Remote(g) ELSE sending[g]
  <2>1. UNCHANGED <<channel, region>> /\ Arrived(h, g)' = Arrived(h, g)
    BY <1>4, <1>7 DEF HandleMessage, PostRequests, Arrived
  <2>2. /\ Popped(g, seen, "prediction") => sending' = [sending EXCEPT ![g] = Remote(g)]
        /\ ~Popped(g, seen, "prediction") => sending' = sending
    BY <1>4 DEF HandleMessage, PostRequests
  <2>3. g \in DOMAIN sending
    BY <1>1, <1>2 DEF GhostTypeOK
  <2> QED
    BY <2>1, <2>2, <2>3
<1>9. CASE ~Popped(g, seen, "prediction")
  BY <1>2, <1>5, <1>7, <1>8, <1>9, SameChain
<1>10. CASE Popped(g, seen, "prediction")
  <2>1. PICK x \in Told(inbox[l]) : x.kind = "prediction" /\ p = x.stepsSinceSync
    BY <1>5, <1>10
  <2>2. o \in Int /\ p \in Int /\ ct[k].predictionsSinceLastSync \in Int
    BY <1>6, <2>1 DEF GhostFacts
  <2>3. /\ 0 <= o /\ o < EndOf(e, g) /\ p > 0 /\ p <= ct[k].predictionsSinceLastSync
        /\ Multiple(o, Larger(g, h)) \/ o >= EndOf(e, g) =>
               /\ Follows(EndOf(e, g), Larger(g, h), Rate[h], o, p)
               /\ Multiple(p, Larger(g, h)) \/ p >= EndOf(e, g)
    <3> DEFINE m == nct[l]
               q == inbox[l]
               t == ct[g]
               u == ct[k]
               z == state[g]
               E == EndOf(e, g)
    <3>1. o = m.predictionsSinceLastSync /\ x \in Told(q) /\ p = x.stepsSinceSync
      BY <2>1
    <3>2. GhostFacts(e, g, k, z, t, u, m, q) /\ Abreast(e, g, k, t, u, m, q)
      BY <1>6
    <3>3. x.kind = "prediction" /\ o \in Int /\ p \in Int
      BY <2>1, <2>2
    <3> HIDE DEF m, q, t, u, z, o, p, e, k, l
    <3>4. /\ 0 <= o /\ o < E /\ p > 0 /\ p <= u.predictionsSinceLastSync
          /\ Multiple(o, Larger(g, h)) \/ o >= E =>
                 /\ Follows(E, Larger(g, h), Rate[h], o, p)
                 /\ Multiple(p, Larger(g, h)) \/ p >= E
      BY <1>1, <3>1, <3>2, <3>3, OfferFollows
    <3> QED
      BY <3>4 DEF u, k
  <2>4. sending[g] = {}
    <3>1. Popped(g, Waiting(g), "prediction")
      BY <1>4, <1>10 DEF Popped
    <3> QED
      BY <1>1, <3>1, RequestsAreApart
  <2>5. sending'[g] = Remote(g)
    BY <1>8, <1>10
  <2> DEFINE b == Now(s)
             v == Arrived(h, g)
             c == channel[<<g, h>>]
             E == EndOf(e, g)
  <2>6. Paired(e, b, g, h, v, c, sending[g], o)
    BY <1>2, <1>7 DEF ChainOf
  <2>7. E \in Nat /\ EndOf(e, h) = E
    BY <1>1, <1>6, EndOfFacts, SameEnd
  <2> HIDE DEF b, v, c, E, o, p, e
  <2>8. Paired(e, b, g, h, v, c, sending'[g], p)
    <3>1. CASE e = b
      <4>1. PICK y \in Int : Chain(b, E, Larger(g, h), Rate[h], v, c, y) /\ y = o
        BY <2>4, <2>6, <2>7, <3>1 DEF Paired
      <4>2. Multiple(o, Larger(g, h)) \/ o >= E
        BY <2>6, <2>7, <3>1 DEF Paired
      <4>3. /\ Follows(E, Larger(g, h), Rate[h], y, p)
            /\ Multiple(p, Larger(g, h)) \/ p >= E
        BY <2>3, <4>1, <4>2 DEF E
      <4> QED
        BY <1>1, <2>5, <2>7, <3>1, <4>1, <4>3 DEF Paired
    <3>2. CASE b = e + 1
      BY <2>2, <2>3, <2>6, <3>2, <1>6, <2>7 DEF Paired, E
    <3>3. CASE e = b + 1
      <4>1. phase[r] = "barrier"
        BY <1>1, <1>2, <1>3, <1>7, <3>3, NowFacts DEF b
      <4>2. ct[k].predictionsSinceLastSync = 0
        BY <1>2, <4>1 DEF CopyOfGhost
      <4> QED
        BY <2>2, <2>3, <4>2
    <3> QED
      BY <2>6, <3>1, <3>2, <3>3 DEF Paired
  <2> QED
    BY <1>7, <1>8, <2>8 DEF ChainOf, b, v, c, e, p
<1> QED
  BY <1>9, <1>10

\* The library reads a copy layer: it is the one that was to be sent.
LEMMA ReadChain ==
    ASSUME ExactArithmetic, SameUnitStep, RegionRates, RankInv, ReqInv, PairInv,
           NEW g, NEW h, <<g, h>> \in Regions, ReadCopyLayer(g, h)
    PROVE  ChainOf(g, h)'
<1> DEFINE k == CopyOf(g)
           l == <<g, k>>
           r == RankOf[g]
           e == epoch[r]
           o == nct[l].predictionsSinceLastSync
           x == CopyLayer(g)
           b == Now(RankOf[h])
           v == Arrived(h, g)
           c == channel[<<g, h>>]
           L == Larger(g, h)
           E == EndOf(b, h)
<1>1. /\ h \in sending[g] /\ sending' = [sending EXCEPT ![g] = @ \ {h}]
      /\ channel' = [channel EXCEPT ![<<g, h>>] = Append(@, x)]
      /\ UNCHANGED <<state, ct, nct, phase, epoch, todo, region>>
  BY DEF ReadCopyLayer, actorVars, rankVars
<1>2. /\ g \in Ghosts /\ <<g, h>> \in Regions /\ r \in Ranks /\ RankOf[h] \in Ranks
      /\ h \in Clusters /\ g \in Clusters /\ GhostTypeOK /\ ChainOf(g, h) /\ CopyOfGhost(g)
      /\ v \in Int /\ c \in Seq(CopyLayers) /\ Rate[h] = Rate[k]
      /\ Rate[h] \in Nat \ {0} /\ Rate[g] \in Nat \ {0}
  BY PairParts
<1>3. /\ phase[r] \in {"barrier", "restart", "loop"} /\ Now(r) = e /\ Offered(g) = o
  BY <1>1, <1>2, RequestsRun DEF Offered
<1>4. /\ e \in 1..Len(SyncTimes)
      /\ GhostFacts(e, g, k, state[g], ct[g], ct[k], nct[l], inbox[l])
      /\ Posted(e, g, state[g], ct[g], nct[l], sending[g], receiving[g], lastSendTime[g])
      /\ Multiple(ct[k].predictionsSinceLastSync, Rate[k])
  BY <1>2, <1>3, RunningFacts
<1>5. x.steps = o /\ x.round = e /\ x \in CopyLayers
  <2> DEFINE p == ct[k].predictionsSinceLastSync
             n == ct[g].stepsSinceLastSync
  <2>1. /\ p \in Int /\ o \in 0..p /\ (o < EndOf(e, g) \/ o = p) /\ Multiple(o, Rate[k])
        /\ Multiple(p, Rate[k]) /\ n \in Int /\ EndOf(e, g) \in Nat
    BY <1>4 DEF GhostFacts
  <2>2. o >= n + Rate[g] \/ o >= EndOf(e, g)
    BY <1>1, <1>4 DEF Posted
  <2>3. p = 0 \/ p - Rate[k] < n + Rate[g]
    BY <1>2, <1>3 DEF CopyOfGhost
  <2>4. x.steps = p /\ x.round = e /\ e \in Nat
    BY <1>4 DEF CopyLayer
  <2> HIDE DEF p, n, o, k, e
  <2>5. CASE o >= n + Rate[g] /\ p # 0
    <3>1. p < o + Rate[k]
      BY <1>2, <2>1, <2>3, <2>5
    <3>2. p <= o
      BY <1>2, <2>1, <3>1, NoMultipleBetween
    <3> QED
      BY <2>1, <2>4, <3>2 DEF CopyLayer, CopyLayers
  <2>6. CASE o >= EndOf(e, g) \/ p = 0
    BY <2>1, <2>4, <2>6 DEF CopyLayer, CopyLayers
  <2> QED
    BY <2>2, <2>5, <2>6
<1>6. Paired(e, b, g, h, v, c, sending[g], o)
  BY <1>2, <1>3 DEF ChainOf
<1>7. /\ e = b /\ (Multiple(o, L) \/ o >= E)
      /\ \E y \in Int : Chain(b, E, L, Rate[h], v, c, y) /\ Follows(E, L, Rate[h], y, o)
  BY <1>1, <1>6 DEF Paired
<1>8. e = b /\ E \in Nat /\ L \in Int
  <2>1. e = b
    BY <1>1, <1>6 DEF Paired
  <2>2. EndOf(e, h) \in Nat
    BY <1>2, <1>4, EndOfFacts
  <2> QED
    BY <1>2, <2>1, <2>2 DEF Larger
<1>9. Chain(b, E, L, Rate[h], v, Append(c, x), o)
  <2>1. PICK y \in Int : Chain(b, E, L, Rate[h], v, c, y) /\ Follows(E, L, Rate[h], y, o)
    BY <1>7
  <2> HIDE DEF x, b, E, L, v, c, o, e
  <2> QED
    BY <1>2, <1>5, <1>8, <2>1, ChainAppend
<1>10. o \in Int
  BY <1>4 DEF GhostFacts
<1>11. /\ h \notin sending'[g] /\ channel'[<<g, h>>] = Append(c, x)
       /\ Now(r)' = e /\ Now(RankOf[h])' = b /\ Arrived(h, g)' = v /\ Offered(g)' = o
  BY <1>1, <1>2, <1>3 DEF GhostTypeOK, Now, Arrived, Offered, Started, ToReset
<1>12. Paired(e, b, g, h, v, Append(c, x), sending'[g], o)
  <2> HIDE DEF x, b, v, c, o, e
  <2> QED
    BY <1>7, <1>8, <1>9, <1>10, <1>11 DEF Paired
<1> QED
  BY <1>11, <1>12 DEF ChainOf

\* A receive takes the copy layer that follows what has arrived.
LEMMA FillChain ==
    ASSUME ExactArithmetic, SameUnitStep, RegionRates, RankInv, ReqInv, PairInv,
           NEW g, NEW h, <<g, h>> \in Regions, FillGhostLayer(g, h)
    PROVE  ChainOf(g, h)' /\ ReceivedOf(g, h)'
<1> DEFINE k == CopyOf(h)
           l == <<h, k>>
           r == RankOf[g]
           e == epoch[RankOf[h]]
           v == Arrived(h, g)
           c == channel[<<g, h>>]
           w == Head(c).steps
           o == Offered(g)
           L == Larger(g, h)
           E == EndOf(e, h)
           m == nct[l]
           t == ct[h]
<1>1. /\ g \in receiving[h] /\ c # <<>>
      /\ receiving' = [receiving EXCEPT ![h] = @ \ {g}]
      /\ region' = [region EXCEPT ![<<h, g>>] = Head(c)]
      /\ channel' = [channel EXCEPT ![<<g, h>>] = Tail(@)]
      /\ UNCHANGED <<state, ct, nct, phase, epoch, todo, sending>>
  BY DEF FillGhostLayer, actorVars, rankVars
<1>2. /\ h \in Ghosts /\ <<g, h>> \in Regions /\ <<h, g>> \in Regions
      /\ h \in Clusters /\ GhostTypeOK /\ ChainOf(g, h) /\ ReceivedOf(g, h)
      /\ v \in Int /\ c \in Seq(CopyLayers)
      /\ Rate[h] \in Nat \ {0} /\ Rate[g] \in Nat \ {0} /\ L \in Nat \ {0}
  BY PairParts DEF Larger
<1>3. phase[RankOf[h]] \in {"barrier", "restart", "loop"} /\ Now(RankOf[h]) = e /\ Started(h)
  BY <1>1, <1>2, RequestsRun
<1>4. /\ e \in 1..Len(SyncTimes)
      /\ GhostFacts(e, h, k, state[h], t, ct[k], m, inbox[l])
      /\ Posted(e, h, state[h], t, m, sending[h], receiving[h], lastSendTime[h])
  BY <1>2, <1>3, RunningFacts
<1>5. Paired(Now(r), e, g, h, v, c, sending[g], o) /\ E \in Nat
  BY <1>2, <1>3, <1>4, EndOfFacts DEF ChainOf
<1>6. PICK y \in Int : Chain(e, E, L, Rate[h], v, c, y) /\
          \/ /\ Now(r) = e /\ (Multiple(o, L) \/ o >= E)
             /\ IF h \in sending[g] THEN Follows(E, L, Rate[h], y, o) ELSE y = o
          \/ Now(r) = e + 1 /\ h \notin sending[g] /\ o = 0 /\ y >= E
  BY <1>1, <1>5 DEF Paired
<1>7. /\ Head(c).round = e /\ w \in Int /\ Follows(E, L, Rate[h], v, w)
      /\ Chain(e, E, L, Rate[h], w, Tail(c), y)
  <2> HIDE DEF c, E, L, v, e, o
  <2> QED
    BY <1>1, <1>2, <1>5, <1>6, ChainTail
<1>8. /\ channel'[<<g, h>>] = Tail(c) /\ region'[<<h, g>>] = Head(c)
      /\ receiving'[h] = receiving[h] \ {g}
      /\ Now(r)' = Now(r) /\ Now(RankOf[h])' = e /\ Offered(g)' = o /\ Started(h)'
  BY <1>1, <1>2, <1>3 DEF GhostTypeOK, Now, Offered, Started, ToReset
<1>9. Arrived(h, g)' = w
  BY <1>7, <1>8 DEF Arrived
<1>10. ChainOf(g, h)'
  <2> HIDE DEF c, v, e, o, w
  <2>1. Paired(Now(r), e, g, h, w, Tail(c), sending[g], o)
    BY <1>4, <1>6, <1>7 DEF Paired, E, L
  <2> QED
    BY <1>1, <1>8, <1>9, <2>1 DEF ChainOf
<1>11. /\ Received(e, g, h, state[h], t, m, v, receiving[h])
  BY <1>2, <1>3 DEF ReceivedOf
<1>12. /\ m.stepsSinceLastSync >= v /\ m.stepsSinceLastSync \in Int
       /\ t.predictionsSinceLastSync = v /\ v \in Nat /\ state[h] # "Synced"
  BY <1>1, <1>4, <1>11 DEF Received, Posted, GhostFacts
<1>13. Received(e, g, h, state[h], t, m, w, receiving[h] \ {g})
  <2> HIDE DEF v, w, t, m, e, L
  <2>1. /\ v < w /\ w <= v + L /\ (w = v + L \/ w >= E) /\ Multiple(w, Rate[h])
        /\ Multiple(v, L)
    BY <1>7 DEF Follows
  <2>2. w \in Nat /\ w - L <= m.stepsSinceLastSync
    BY <1>2, <1>7, <1>12, <2>1
  <2>3. Multiple(w, L) \/ w >= E
    BY <1>2, <2>1, NextMultiple
  <2>4. ASSUME NEW x \in Int, Multiple(x, L), x < w
        PROVE  x <= m.stepsSinceLastSync
    <3>1. x < v + L
      BY <1>2, <1>7, <2>1, <2>4
    <3>2. x <= v
      BY <1>2, <2>1, <2>4, <3>1, NoMultipleBetween
    <3> QED
      BY <1>12, <3>2
  <2> QED
    BY <1>7, <1>12, <2>1, <2>2, <2>3, <2>4 DEF Received, L, E
<1>14. ReceivedOf(g, h)'
  <2>1. /\ region'[<<h, g>>].round = e /\ epoch'[RankOf[h]] = e /\ e \in Int
        /\ state'[h] = state[h] /\ ct'[h] = t /\ nct'[l] = m
        /\ Arrived(h, g)' = w /\ receiving'[h] = receiving[h] \ {g} /\ Started(h)'
    BY <1>1, <1>4, <1>7, <1>8, <1>9
  <2> HIDE DEF e, w, m, t
  <2> QED
    BY <1>13, <2>1 DEF ReceivedOf
<1> QED
  BY <1>10, <1>14

\* A rank returns: what it has sent has been read, and nothing is on its way to it.
LEMMA ReturnChain ==
    ASSUME ExactArithmetic, SameUnitStep, RegionRates, RankInv, ReqInv, PairInv,
           NEW s \in Ranks, Return(s), NEW g, NEW h, <<g, h>> \in Regions
    PROVE  ChainOf(g, h)' /\ ReceivedOf(g, h)'
<1> DEFINE a == Now(RankOf[g])
           b == Now(RankOf[h])
           v == Arrived(h, g)
           c == channel[<<g, h>>]
           o == Offered(g)
           L == Larger(g, h)
           e == epoch[s]
           E == EndOf(e, h)
<1>1. /\ phase[s] = "loop" /\ phase'[s] = "idle"
      /\ \A r \in Ranks \ {s} : phase'[r] = phase[r]
      /\ UNCHANGED <<state, ct, nct, epoch, todo, receiving, sending, channel, region>>
      /\ \A k \in Own(s) : state[k] = "Synced"
  BY DEF Return, RankInv, GhostTypeOK, actorVars, mpiVars
<1>2. /\ g \in Ghosts /\ h \in Ghosts /\ g \in Clusters /\ h \in Clusters
      /\ RankOf[g] \in Ranks /\ RankOf[h] \in Ranks /\ RankOf[g] # RankOf[h]
      /\ GhostTypeOK /\ EpochInv /\ ChainOf(g, h) /\ ReceivedOf(g, h)
      /\ v \in Int /\ Rate[h] \in Nat \ {0} /\ Rate[g] \in Nat \ {0} /\ L \in Int
  <2>1. /\ g \in Ghosts /\ h \in Ghosts /\ g \in Clusters /\ h \in Clusters
        /\ RankOf[g] \in Ranks /\ RankOf[h] \in Ranks /\ RankOf[g] # RankOf[h]
        /\ v \in Int /\ Rate[h] \in Nat \ {0} /\ Rate[g] \in Nat \ {0}
    BY PairParts
  <2>2. GhostTypeOK /\ EpochInv /\ ChainOf(g, h) /\ ReceivedOf(g, h)
    BY PairParts
  <2>3. L \in Int
    BY <2>1 DEF Larger
  <2> QED
    BY <2>1, <2>2, <2>3
<1>3. e \in 1..Len(SyncTimes) /\ e \in Int /\ E \in Nat /\ EndOf(e, g) = E
  BY <1>1, <1>2, RankInAPhase, EndOfFacts, SameEnd
<1>4. Paired(a, b, g, h, v, c, sending[g], o)
  BY <1>2 DEF ChainOf
<1>5. a \in Nat /\ b \in Nat
  BY <1>2, NowFacts
<1>7. CASE RankOf[g] = s
  <2> DEFINE k == CopyOf(g)
             l == <<g, k>>
  <2>1. a = e /\ Offered(g) = nct[l].predictionsSinceLastSync /\ state[g] = "Synced"
    BY <1>1, <1>2, <1>7 DEF Now, Offered, Started, ToReset, Own, GhostsOf
  <2>2. /\ GhostFacts(e, g, k, state[g], ct[g], ct[k], nct[l], inbox[l])
        /\ Posted(e, g, state[g], ct[g], nct[l], sending[g], receiving[g], lastSendTime[g])
    BY <1>1, <1>2, <1>7, RunningFacts
  <2>3. sending[g] = {}
    BY <2>1, <2>2 DEF Posted
  <2>4. o >= E /\ o \in Int
    <3>1. ct[g].stepsSinceLastSync >= E
      BY <1>2, <1>3, <1>7, AllStepsAreMade DEF RankInv
    <3> QED
      BY <1>3, <2>1, <2>2, <3>1 DEF GhostFacts
  <2>5. /\ Now(RankOf[g])' = e + 1 /\ Now(RankOf[h])' = b /\ Arrived(h, g)' = v
        /\ Offered(g)' = 0 /\ Started(h)' = Started(h)
    BY <1>1, <1>2, <1>7 DEF Now, Arrived, Offered, Started, ToReset
  <2>6. Paired(e + 1, b, g, h, v, c, sending[g], 0)
    <3>1. CASE a = b
      <4>1. PICK y \in Int : Chain(b, EndOf(b, h), L, Rate[h], v, c, y) /\ y = o
        BY <1>4, <2>3, <3>1, <1>5 DEF Paired
      <4>2. y >= EndOf(b, h) /\ b \in 1..Len(SyncTimes)
        BY <1>3, <2>1, <2>4, <3>1, <4>1
      <4> HIDE DEF e, b, c, v, o, L
      <4> QED
        BY <1>3, <1>5, <2>1, <2>3, <3>1, <4>1, <4>2 DEF Paired, L
    <3>2. CASE b = a + 1
      <4>1. c = <<>> /\ v = 0
        BY <1>4, <1>5, <3>2 DEF Paired
      <4>2. Multiple(0, L)
        BY <1>2, ZeroIsMultiple
      <4>3. Chain(b, EndOf(b, h), L, Rate[h], v, c, 0)
        BY <4>1 DEF Chain
      <4> HIDE DEF e, b, c, v, o, L, a
      <4> QED
        BY <1>3, <1>5, <2>1, <2>3, <3>2, <4>1, <4>2, <4>3 DEF Paired, L
    <3>3. CASE a = b + 1
      BY <1>1, <1>2, <1>7, <3>3, NowFacts
    <3> QED
      BY <1>4, <3>1, <3>2, <3>3 DEF Paired
  <2>7. ChainOf(g, h)'
    BY <1>1, <2>5, <2>6 DEF ChainOf
  <2>8. ReceivedOf(g, h)'
    BY <1>1, <1>2, <2>5, SameReceived
  <2> QED
    BY <2>7, <2>8
<1>8. CASE RankOf[h] = s
  <2> DEFINE k == CopyOf(h)
             l == <<h, k>>
             w == region[<<h, g>>].steps
  <2>1. b = e /\ Started(h) /\ state[h] = "Synced"
    BY <1>1, <1>2, <1>8 DEF Now, Started, ToReset, Own, GhostsOf
  <2>2. Posted(e, h, state[h], ct[h], nct[l], sending[h], receiving[h], lastSendTime[h])
    BY <1>1, <1>2, <1>8, RunningFacts
  <2>3. receiving[h] = {}
    BY <2>1, <2>2 DEF Posted
  <2>4. region[<<h, g>>].round <= e /\ Received(e, g, h, state[h], ct[h], nct[l], v, receiving[h])
    BY <1>2, <1>8, <2>1 DEF ReceivedOf
  <2>5. v >= E
    <3>1. ct[h].stepsSinceLastSync >= E
          /\ ct[h].predictionsSinceLastSync = ct[h].stepsSinceLastSync
      BY <1>2, <1>3, <1>8, AllStepsAreMade DEF RankInv
    <3>2. ct[h].predictionsSinceLastSync \in Int /\ ct[h].predictionsSinceLastSync <= v
      BY <1>2, <2>3, <2>4 DEF Received, ActorTypeOK, ClusterTimes, GhostTypeOK
    <3> QED
      BY <1>2, <1>3, <3>1, <3>2
  <2>6. region[<<h, g>>].round \in Nat
    BY <1>2, PairParts DEF GhostTypeOK, CopyLayers
  <2>7. /\ Now(RankOf[g])' = a /\ Now(RankOf[h])' = e + 1 /\ Arrived(h, g)' = 0
        /\ Offered(g)' = o /\ ~Started(h)'
    BY <1>1, <1>2, <1>3, <1>8, <2>4, <2>6 DEF Now, Arrived, Offered, Started, ToReset
  <2>8. Paired(a, e + 1, g, h, 0, c, sending[g], o)
    <3>1. CASE a = b
      <4>1. PICK y \in Int : /\ Chain(b, EndOf(b, h), L, Rate[h], v, c, y)
                             /\ IF h \in sending[g] THEN Follows(EndOf(b, h), L, Rate[h], y, o)
                                ELSE y = o
        BY <1>4, <3>1, <1>5 DEF Paired
      <4>2. c = <<>> /\ y = v
        BY <1>2, <1>3, <2>1, <2>5, <4>1, ChainIsEmpty
      <4>3. ~Follows(EndOf(b, h), L, Rate[h], y, o)
        BY <1>2, <1>3, <2>1, <2>5, <4>2 DEF Follows
      <4>4. h \notin sending[g] /\ o >= E
        BY <2>5, <4>1, <4>2, <4>3
      <4> HIDE DEF e, b, c, v, o, a
      <4> QED
        BY <1>3, <1>5, <2>1, <3>1, <4>2, <4>4 DEF Paired
    <3>2. CASE b = a + 1
      BY <1>1, <1>2, <1>8, <3>2, NowFacts
    <3>3. CASE a = b + 1
      <4>1. PICK y \in Int : Chain(b, EndOf(b, h), L, Rate[h], v, c, y)
        BY <1>4, <1>5, <3>3 DEF Paired
      <4>2. h \notin sending[g] /\ o = 0
        BY <1>4, <1>5, <3>3 DEF Paired
      <4>3. c = <<>>
        BY <1>2, <1>3, <2>1, <2>5, <4>1, ChainIsEmpty
      <4>4. Multiple(0, L)
        BY <1>2, ZeroIsMultiple
      <4>5. Chain(e + 1, EndOf(e + 1, h), L, Rate[h], 0, c, 0)
        BY <4>3 DEF Chain
      <4> HIDE DEF e, b, c, v, o, L, a
      <4> QED
        BY <1>3, <1>5, <2>1, <3>3, <4>2, <4>3, <4>4, <4>5 DEF Paired, L
    <3> QED
      BY <1>4, <3>1, <3>2, <3>3 DEF Paired
  <2>9. ChainOf(g, h)'
    BY <1>1, <2>7, <2>8 DEF ChainOf
  <2>10. ReceivedOf(g, h)'
    BY <1>1, <1>3, <2>4, <2>6, <2>7 DEF ReceivedOf
  <2> QED
    BY <2>9, <2>10
<1>9. CASE RankOf[g] # s /\ RankOf[h] # s
  <2>1. /\ Now(RankOf[g])' = a /\ Now(RankOf[h])' = b /\ Arrived(h, g)' = v
        /\ Offered(g)' = o /\ Started(h)' = Started(h)
    BY <1>1, <1>2, <1>9 DEF Now, Arrived, Offered, Started, ToReset
  <2>2. ChainOf(g, h)'
    BY <1>1, <1>2, <2>1, SameChain
  <2>3. ReceivedOf(g, h)'
    BY <1>1, <1>2, <2>1, SameReceived
  <2> QED
    BY <2>2, <2>3
<1> QED
  BY <1>7, <1>8, <1>9

----------------------------------------------------------------------------
(* What a ghost cluster knows of what it has received *)

\* It expects the next copy layer exactly if it has predicted up to the last,
\* and knows that its copy cluster has made use of that.
LEMMA StayReceived ==
    ASSUME NEW e, NEW g, NEW h, NEW k, NEW s, NEW t, NEW u, NEW m, NEW q, NEW v \in Int, NEW rcv,
           NEW s2, NEW t2, NEW m2, NEW rcv2, NEW posted \in BOOLEAN, NEW starts \in BOOLEAN,
           GhostFacts(e, h, k, s, t, u, m, q), Abreast(e, h, k, t, u, m, q),
           u.stepsSinceLastSync <= t.predictionsSinceLastSync
               \/ t.predictionsSinceLastSync >= EndOf(e, h),
           Rate[g] = Rate[k], Multiple(Rate[g], Rate[h]) \/ Multiple(Rate[h], Rate[g]),
           Received(e, g, h, s, t, m, v, rcv),
           m2.stepsSinceLastSync \in Int, m2.stepsSinceLastSync >= m.stepsSinceLastSync,
           posted => /\ rcv = {} /\ g \in rcv2 /\ t.predictionsSinceLastSync < EndOf(e, h)
                     /\ \E x \in Told(q) : /\ x.kind # "prediction"
                                           /\ m2.stepsSinceLastSync = x.stepsSinceSync,
           ~posted /\ ~starts =>
               /\ rcv2 = rcv
               /\ m2.stepsSinceLastSync = m.stepsSinceLastSync
                      \/ t.predictionsSinceLastSync >= EndOf(e, h),
           starts => s = "Synced" /\ t2 = t /\ t.stepsSinceLastSync = 0 /\ g \in rcv2,
           s2 = "Synced" /\ t2.stepsSinceLastSync = 0 => s = "Synced" /\ t.stepsSinceLastSync = 0,
           \/ starts
           \/ t2 = t /\ (s = "Synced" /\ t.stepsSinceLastSync = 0 => s2 = "Synced")
           \/ /\ s = "Corrected" /\ rcv2 = {} /\ s2 = "Predicted"
              /\ t2.predictionsSinceLastSync = t.predictionsSinceLastSync + Rate[h]
              /\ t.predictionsSinceLastSync < m2.stepsSinceLastSync + Rate[k]
              /\ t.predictionsSinceLastSync < EndOf(e, h)
           \/ s = "Predicted" /\ t2.predictionsSinceLastSync = t.predictionsSinceLastSync
    PROVE  Received(e, g, h, s2, t2, m2, v, rcv2)
<1> DEFINE E == EndOf(e, h)
           L == Larger(g, h)
           a == Rate[g]
           b == Rate[h]
           p == t.predictionsSinceLastSync
           p2 == t2.predictionsSinceLastSync
           n == m.stepsSinceLastSync
           n2 == m2.stepsSinceLastSync
<1>1. /\ E \in Nat \ {0} /\ a \in Nat \ {0} /\ b \in Nat \ {0} /\ p \in Int
      /\ t.stepsSinceLastSync \in Int
      /\ p = t.stepsSinceLastSync + IF s = "Predicted" THEN b ELSE 0
      /\ Multiple(p, b) /\ n \in Nat /\ n <= u.stepsSinceLastSync /\ Multiple(n, a)
      /\ u.stepsSinceLastSync \in Int
  BY DEF GhostFacts
<1>2. /\ L \in Nat \ {0} /\ (L = a \/ L = b)
      /\ \A i \in Int : Multiple(i, L) => Multiple(i, a) /\ Multiple(i, b)
  BY <1>1, LargerRate
<1>3. /\ v \in Nat /\ Multiple(v, b) /\ (Multiple(v, L) \/ v >= E)
      /\ v - L <= n
      /\ \A x \in Int : Multiple(x, L) /\ x < v => x <= n
      /\ s = "Synced" /\ t.stepsSinceLastSync = 0 => v = 0
      /\ g \in rcv => v = p
      /\ g \notin rcv => /\ p <= v
                         /\ p = v /\ v < E => (s = "Synced" /\ v = 0) \/ n < v
  BY DEF Received
<1>4. n2 \in Int /\ n2 >= n
  OBVIOUS
<1>5. u.stepsSinceLastSync <= p \/ p >= E
  OBVIOUS
<1>6. ASSUME posted
      PROVE  p = v
  <2>1. PICK x \in Told(q) : x.kind # "prediction" /\ n2 = x.stepsSinceSync
    BY <1>6
  <2>2. n2 > n /\ Multiple(n2, a) /\ InTurn(e, h, k, t, x)
    BY <2>1 DEF GhostFacts, Abreast
  <2>3. p < E /\ rcv = {}
    BY <1>6
  <2> HIDE DEF E, L, a, b, p, n, n2
  <2>4. p = n2
    BY <1>1, <1>4, <2>1, <2>2, <2>3 DEF InTurn, E, p
  <2>5. Multiple(p, L)
    BY <1>2, <1>1, <2>2, <2>4
  <2> QED
    BY <1>1, <1>3, <1>4, <2>2, <2>3, <2>4, <2>5
<1>7. posted \/ starts => g \in rcv2
  OBVIOUS
<1>8. ~posted /\ ~starts => rcv2 = rcv /\ (n2 = n \/ p >= E)
  OBVIOUS
<1>9. starts => s = "Synced" /\ p2 = p /\ t.stepsSinceLastSync = 0
  OBVIOUS
<1>10. s2 = "Synced" /\ t2.stepsSinceLastSync = 0 => v = 0
  BY <1>3
<1>11. \/ starts
       \/ p2 = p /\ (s = "Synced" /\ t.stepsSinceLastSync = 0 => s2 = "Synced")
       \/ /\ s = "Corrected" /\ rcv2 = {} /\ s2 = "Predicted"
          /\ p2 = p + b /\ p < n2 + a /\ p < E
       \/ s = "Predicted" /\ p2 = p
  OBVIOUS
<1> HIDE DEF E, L, a, b, p, n, n2, p2
<1>12. v - L <= n2 /\ \A x \in Int : Multiple(x, L) /\ x < v => x <= n2
  BY <1>1, <1>2, <1>3, <1>4
<1>13. IF g \in rcv2 THEN v = p2
       ELSE /\ p2 <= v
            /\ p2 = v /\ v < E => (s2 = "Synced" /\ v = 0) \/ n2 < v
  <2>1. CASE starts
    BY <1>1, <1>3, <1>7, <1>9, <2>1
  <2>2. CASE ~starts /\ posted
    BY <1>6, <1>7, <1>11, <2>2
  <2>3. CASE ~starts /\ ~posted /\ p2 = p
    <3>1. CASE g \in rcv
      BY <1>3, <1>8, <2>3, <3>1
    <3>2. CASE g \notin rcv
      <4>1. p2 <= v /\ g \notin rcv2
        BY <1>3, <1>8, <2>3, <3>2
      <4>2. ASSUME p2 = v, v < E
            PROVE  (s2 = "Synced" /\ v = 0) \/ n2 < v
        <5>1. n2 = n /\ ((s = "Synced" /\ v = 0) \/ n < v)
          BY <1>1, <1>3, <1>8, <2>3, <3>2, <4>2
        <5>2. s = "Synced" /\ v = 0 => s2 = "Synced"
          BY <1>1, <1>11, <2>3, <4>2
        <5> QED
          BY <5>1, <5>2
      <4> QED
        BY <4>1, <4>2
    <3> QED
      BY <3>1, <3>2
  <2>4. CASE ~starts /\ ~posted /\ p2 # p
    <3>1. s = "Corrected" /\ rcv2 = {} /\ p2 = p + b /\ p < n2 + a /\ p < E
      BY <1>11, <2>4
    <3>2. n2 = n /\ g \notin rcv /\ g \notin rcv2 /\ p <= v
      BY <1>1, <1>3, <1>8, <2>4, <3>1
    <3>3. p # v
      <4> SUFFICES ASSUME p = v PROVE FALSE
        OBVIOUS
      <4>1. n < v /\ Multiple(v, L)
        BY <1>1, <1>3, <3>1, <3>2
      <4>2. Multiple(v, a) /\ v < n + a
        BY <1>2, <1>3, <3>1, <3>2, <4>1
      <4>3. v <= n
        BY <1>1, <4>2, NoMultipleBetween
      <4> QED
        BY <1>1, <1>3, <4>1, <4>3
    <3>4. p2 <= v
      BY <1>1, <1>3, <3>1, <3>2, <3>3, RateApart
    <3>5. n2 < p2
      BY <1>1, <1>5, <3>1, <3>2
    <3> QED
      BY <1>1, <3>1, <3>2, <3>4, <3>5
  <2> QED
    BY <2>1, <2>2, <2>3, <2>4
<1> QED
  BY <1>3, <1>10, <1>12, <1>13 DEF Received, E, L, b, p2, n2

\* So it is after a step of the receiver.
LEMMA GhostActReceived ==
    ASSUME ExactArithmetic, SameUnitStep, RegionRates, RankInv, RankInv', ReqInv, PairInv,
           NEW g, NEW h, <<g, h>> \in Regions, GhostAct(h)
    PROVE  ReceivedOf(g, h)'
<1> DEFINE k == CopyOf(h)
           l == <<h, k>>
           e == epoch[RankOf[h]]
           E == EndOf(e, h)
           v == Arrived(h, g)
           s == state[h]
           s2 == state'[h]
           t == ct[h]
           t2 == ct'[h]
           u == ct[k]
           m == nct[l]
           m2 == nct'[l]
           q == inbox[l]
           rcv == receiving[h]
           rcv2 == receiving'[h]
<1>1. /\ h \in Ghosts /\ h \in Clusters /\ RankOf[h] \in Ranks /\ g \in Remote(h) /\ l \in Links
      /\ Rate[g] = Rate[k] /\ (Multiple(Rate[g], Rate[h]) \/ Multiple(Rate[h], Rate[g]))
      /\ v \in Int
  BY PairParts, CopyCluster
<1>2. /\ GhostTypeOK /\ ActorTypeOK /\ ActorTypeOK' /\ ReceivedOf(g, h) /\ CopyOfGhost(h)
  BY PairParts DEF RankInv, GhostTypeOK
<1>3. phase[RankOf[h]] \in {"barrier", "restart", "loop"} /\ UNCHANGED <<phase, epoch, todo>>
  BY <1>1, GhostActs DEF GhostStep, Runs, rankVars
<1>4. PICK seen \in SUBSET Waiting(h), starts \in BOOLEAN :
          ActsOn(h, seen, starts) /\ HandleMessage(h, seen, starts)
  BY <1>1, GhostActsOn
<1> DEFINE posted == Popped(h, seen, "correction") /\ ~IgnoreMessage(h)
<1>5. /\ Popped(h, seen, "correction") =>
             \E x \in Told(q) : x.kind # "prediction" /\ m2.stepsSinceLastSync = x.stepsSinceSync
      /\ ~Popped(h, seen, "correction") => m2.stepsSinceLastSync = m.stepsSinceLastSync
  BY <1>1, <1>2, <1>4, GhostCounters, GhostReads
<1>6. /\ e \in 1..Len(SyncTimes)
      /\ GhostFacts(e, h, k, s, t, u, m, q) /\ Abreast(e, h, k, t, u, m, q)
  BY <1>1, <1>3, RunningFacts
<1>7. /\ rcv2 = IF starts \/ posted THEN Remote(h) ELSE rcv
      /\ UNCHANGED region
  <2>1. /\ starts \/ posted => receiving' = [receiving EXCEPT ![h] = Remote(h)]
        /\ ~(starts \/ posted) => receiving' = receiving
        /\ UNCHANGED region
    BY <1>4 DEF HandleMessage, PostRequests
  <2>2. h \in DOMAIN receiving
    BY <1>1, <1>2 DEF GhostTypeOK
  <2> HIDE DEF posted
  <2> QED
    BY <2>1, <2>2
<1>8. Popped(h, seen, "correction") => rcv = {}
  <2>1. Popped(h, seen, "correction") => Popped(h, Waiting(h), "correction")
    BY <1>4 DEF Popped
  <2> QED
    BY <1>1, <2>1, RequestsAreApart
<1>9. /\ E \in Nat \ {0} /\ t.stepsUntilSync = E /\ t.stepsSinceLastSync \in Int
      /\ t.predictionsSinceLastSync = t.stepsSinceLastSync + IF s = "Predicted" THEN Rate[h] ELSE 0
      /\ Rate[h] \in Nat \ {0} /\ m.stepsSinceLastSync \in Nat /\ m2.stepsSinceLastSync \in Int
      /\ m2.stepsUntilSync \in Int
  <2>1. /\ E \in Nat \ {0} /\ t.stepsUntilSync = E /\ t.stepsSinceLastSync \in Int
        /\ t.predictionsSinceLastSync = t.stepsSinceLastSync + IF s = "Predicted" THEN Rate[h] ELSE 0
        /\ Rate[h] \in Nat \ {0} /\ m.stepsSinceLastSync \in Nat
    BY <1>6 DEF GhostFacts
  <2>2. m2 \in ClusterTimes
    BY <1>1, <1>2 DEF ActorTypeOK
  <2> QED
    BY <2>1, <2>2 DEF ClusterTimes
<1>10. m2.stepsSinceLastSync >= m.stepsSinceLastSync
  <2>1. \A x \in Told(q) : x.kind # "prediction" =>
            x.stepsSinceSync \in Int /\ x.stepsSinceSync > m.stepsSinceLastSync
    BY <1>6 DEF GhostFacts
  <2> QED
    BY <1>5, <1>9, <2>1
<1>11. IF IgnoreMessage(h) THEN t.predictionsSinceLastSync >= E ELSE t.predictionsSinceLastSync < E
       \/ s # "Predicted"
  BY <1>9 DEF IgnoreMessage, NextCorrectionSteps, Smaller
<1>12. IF IgnoreMessage(h) THEN t.predictionsSinceLastSync >= E ELSE t.predictionsSinceLastSync < E
  BY <1>9, <1>11 DEF IgnoreMessage
<1>13. Act(h, seen) /\ Predict(h, seen) =>
           /\ t.predictionsSinceLastSync < m2.stepsSinceLastSync + Rate[k]
           /\ t.predictionsSinceLastSync < m2.stepsUntilSync
  BY <1>1, <1>2, <1>4, GhostGuards
<1>14. Act(h, seen)
  BY <1>1, <1>2, <1>4, GhostCounters
<1>15. s2 = "Synced" => (s = "Synced" /\ t2 = t) \/ MaySync(t2)
  <2>1. Working(h)
    BY <1>1, <1>3, RunningGhost
  <2> QED
    BY <1>1, <1>2, <1>6, <1>14, <2>1, ActClock DEF Working
<1>16. t2.stepsUntilSync = E /\ t2.stepsSinceLastSync \in Int
  <2>1. ClockAt(e, h, s2, t2)
    <3>1. Working(h)
      BY <1>1, <1>3, RunningGhost
    <3> QED
      BY <1>1, <1>2, <1>6, <1>14, <3>1, ActClock DEF Working
  <2>2. t2 \in ClusterTimes
    BY <1>1, <1>2 DEF ActorTypeOK
  <2> QED
    BY <2>1, <2>2 DEF ClockAt, ClusterTimes
<1>17. s2 = "Synced" /\ t2.stepsSinceLastSync = 0 => s = "Synced" /\ t.stepsSinceLastSync = 0
  BY <1>9, <1>15, <1>16 DEF MaySync
<1>18. \/ starts /\ s = "Synced" /\ t2 = t /\ t.stepsSinceLastSync = 0
       \/ /\ ~starts /\ t2 = t
          /\ s = "Synced" /\ t.stepsSinceLastSync = 0 => s2 = "Synced"
       \/ /\ ~starts /\ s = "Corrected" /\ rcv2 = {} /\ s2 = "Predicted" /\ Predict(h, seen)
          /\ t2.predictionsSinceLastSync = t.predictionsSinceLastSync + Rate[h]
       \/ ~starts /\ s = "Predicted" /\ t2.predictionsSinceLastSync = t.predictionsSinceLastSync
  <2>1. ActorTypeOK /\ ActsOn(h, seen, starts)
    BY <1>2, <1>4
  <2> HIDE DEF t, t2, s, s2, rcv2
  <2> QED
    BY <1>1, <2>1, GhostCounters, SMTT(30) DEF t, t2, s, s2, rcv2
<1>19. s = "Corrected" /\ Predict(h, seen) => ~MaySync(t)
  BY DEF Predict
<1>20. u.stepsSinceLastSync <= t.predictionsSinceLastSync \/ t.predictionsSinceLastSync >= E
  BY <1>2, <1>3 DEF CopyOfGhost
<1>21. /\ region[<<h, g>>].round <= e /\ Received(e, g, h, s, t, m, v, rcv)
  BY <1>2, <1>3 DEF ReceivedOf, Started, ToReset
<1>22. Received(e, g, h, s2, t2, m2, v, rcv2)
  <2>1. posted \in BOOLEAN
    BY DEF Popped, IgnoreMessage
  <2>2. posted => /\ rcv = {} /\ g \in rcv2 /\ t.predictionsSinceLastSync < E
                  /\ \E x \in Told(q) : /\ x.kind # "prediction"
                                        /\ m2.stepsSinceLastSync = x.stepsSinceSync
    BY <1>1, <1>5, <1>7, <1>8, <1>12
  <2>3. ~posted /\ ~starts =>
            /\ rcv2 = rcv
            /\ m2.stepsSinceLastSync = m.stepsSinceLastSync \/ t.predictionsSinceLastSync >= E
    BY <1>5, <1>7, <1>12
  <2>4. starts => s = "Synced" /\ t2 = t /\ t.stepsSinceLastSync = 0 /\ g \in rcv2
    BY <1>1, <1>7, <1>18
  <2>5. \/ starts
        \/ t2 = t /\ (s = "Synced" /\ t.stepsSinceLastSync = 0 => s2 = "Synced")
        \/ /\ s = "Corrected" /\ rcv2 = {} /\ s2 = "Predicted"
           /\ t2.predictionsSinceLastSync = t.predictionsSinceLastSync + Rate[h]
           /\ t.predictionsSinceLastSync < m2.stepsSinceLastSync + Rate[k]
           /\ t.predictionsSinceLastSync < E
        \/ s = "Predicted" /\ t2.predictionsSinceLastSync = t.predictionsSinceLastSync
    BY <1>9, <1>13, <1>14, <1>18, <1>19 DEF MaySync
  <2> HIDE DEF posted, v, s, s2, t, t2, u, m, m2, q, rcv, rcv2, k, l, e
  <2> QED
    BY <1>1, <1>6, <1>9, <1>10, <1>17, <1>20, <1>21, <2>1, <2>2, <2>3, <2>4, <2>5, StayReceived DEF E
<1>23. /\ epoch'[RankOf[h]] = e /\ Started(h)' /\ Arrived(h, g)' = v
       /\ region'[<<h, g>>] = region[<<h, g>>]
  BY <1>3, <1>7 DEF Started, ToReset, Arrived, Now
<1> QED
  BY <1>21, <1>22, <1>23 DEF ReceivedOf

----------------------------------------------------------------------------
(* The other steps *)

\* The links of a cluster are read by its own steps only.
LEMMA ActReads ==
    ASSUME NEW c, NEW seen, Act(c, seen), NEW l \in Links, l[1] # c
    PROVE  nct'[l] = nct[l]
<1>1. PICK m, to : ProcessAndSend(c, seen, m, to)
  BY Zenon DEF Act, Poll, RestartAfterSync, Sync, Predict, Correct
<1> QED
  BY <1>1, LinksAfter

\* A step of another cluster leaves the ends of a region as they are.
LEMMA ActElsewhere ==
    ASSUME RegionRates, RankInv, PairInv, NEW g, NEW h, <<g, h>> \in Regions,
           NEW c \in Clusters, NEW seen \in SUBSET Waiting(c), Act(c, seen), Runs(c),
           UNCHANGED <<channel, region>>
    PROVE  /\ c # g /\ sending'[g] = sending[g] => ChainOf(g, h)'
           /\ c # h /\ receiving'[h] = receiving[h] => ReceivedOf(g, h)'
<1>1. /\ g \in Ghosts /\ h \in Ghosts /\ g \in Clusters /\ h \in Clusters
      /\ RankOf[g] \in Ranks /\ RankOf[h] \in Ranks
      /\ GhostTypeOK /\ ActorTypeOK /\ ChainOf(g, h) /\ ReceivedOf(g, h)
  BY PairParts
<1>2. /\ epoch' = epoch
      /\ \A r \in Ranks : \/ phase'[r] = phase[r] /\ todo'[r] = todo[r]
                          \/ /\ phase[r] \in {"restart", "loop"}
                             /\ phase'[r] \in {"restart", "loop"}
  BY <1>1, GhostAssumption DEF Runs, rankVars, RestartNext, GhostTypeOK
<1>3. \A r \in Ranks : Now(r)' = Now(r)
  BY <1>2 DEF Now
<1>4. ASSUME NEW i \in Ghosts
      PROVE  /\ Started(i)' = Started(i) /\ <<i, CopyOf(i)>> \in Links
             /\ c # i => /\ nct'[<<i, CopyOf(i)>>] = nct[<<i, CopyOf(i)>>]
                         /\ state'[i] = state[i] /\ ct'[i] = ct[i]
  <2>1. i \in Clusters /\ <<i, CopyOf(i)>> \in Links /\ RankOf[i] \in Ranks
    BY CopyCluster, GhostAssumption
  <2>2. Started(i)' = Started(i)
    BY <1>2, <2>1 DEF Started, ToReset
  <2>3. c # i => nct'[<<i, CopyOf(i)>>] = nct[<<i, CopyOf(i)>>]
    BY <2>1, ActReads
  <2>4. c # i => state'[i] = state[i] /\ ct'[i] = ct[i]
    BY <1>1, <2>1, ActIsOwn
  <2> QED
    BY <2>1, <2>2, <2>3, <2>4
<1>5. Arrived(h, g)' = Arrived(h, g)
  BY <1>1, <1>3 DEF Arrived
<1>6. ASSUME c # g, sending'[g] = sending[g]
      PROVE  ChainOf(g, h)'
  <2>1. Offered(g)' = Offered(g)
    BY <1>1, <1>4, <1>6 DEF Offered
  <2> QED
    BY <1>1, <1>3, <1>5, <1>6, <2>1, SameChain
<1>7. ASSUME c # h, receiving'[h] = receiving[h]
      PROVE  ReceivedOf(g, h)'
  BY <1>1, <1>2, <1>3, <1>4, <1>7, SameReceived
<1> QED
  BY <1>6, <1>7

\* A rank that enters or leaves a phase; a rank that is to be reset offers nothing.
LEMMA PhaseChain ==
    ASSUME RegionRates, RankInv, PairInv, NEW g, NEW h, <<g, h>> \in Regions,
           NEW s \in Ranks, Advance(s) \/ EnterBarrier(s) \/ LeaveBarrier(s)
    PROVE  ChainOf(g, h)' /\ ReceivedOf(g, h)'
<1>1. /\ g \in Ghosts /\ h \in Ghosts /\ g \in Clusters /\ h \in Clusters
      /\ RankOf[g] \in Ranks /\ RankOf[h] \in Ranks
      /\ GhostTypeOK /\ ActorTypeOK /\ ChainOf(g, h) /\ ReceivedOf(g, h)
  BY PairParts
<1>2. /\ UNCHANGED <<state, ct, nct, receiving, sending, channel, region>>
      /\ \A r \in Ranks \ {s} : phase'[r] = phase[r] /\ epoch'[r] = epoch[r] /\ todo'[r] = todo[r]
      /\ \/ phase[s] = "idle" /\ phase'[s] = "reset" /\ epoch'[s] = epoch[s] + 1
              /\ todo'[s] = Own(s)
         \/ phase[s] = "reset" /\ todo[s] = {} /\ phase'[s] = "barrier" /\ epoch'[s] = epoch[s]
         \/ phase[s] = "barrier" /\ phase'[s] = "restart" /\ epoch'[s] = epoch[s]
  BY <1>1 DEF Advance, EnterBarrier, LeaveBarrier, GhostTypeOK, actorVars, mpiVars
<1>3. \A r \in Ranks : Now(r)' = Now(r)
  BY <1>2 DEF Now
<1>4. ASSUME NEW i \in Ghosts
      PROVE  Started(i)' = Started(i) /\ RankOf[i] \in Ranks
  <2>1. i \in Clusters /\ RankOf[i] \in Ranks /\ i \in Own(RankOf[i])
    BY CopyCluster, GhostAssumption DEF Own, GhostsOf
  <2> QED
    BY <1>2, <2>1 DEF Started, ToReset
<1>5. Arrived(h, g)' = Arrived(h, g) /\ Offered(g)' = Offered(g)
  BY <1>1, <1>2, <1>3, <1>4 DEF Arrived, Offered
<1>6. ChainOf(g, h)'
  BY <1>1, <1>2, <1>3, <1>5, SameChain
<1>7. ReceivedOf(g, h)'
  <2>1. Started(h) => epoch'[RankOf[h]] = epoch[RankOf[h]]
    BY <1>1, <1>2 DEF Started
  <2> QED
    BY <1>1, <1>2, <1>3, <1>4, <1>5, <2>1 DEF ReceivedOf
<1> QED
  BY <1>6, <1>7

\* A ghost cluster that is reset has offered nothing, and received nothing.
LEMMA ResetChain ==
    ASSUME RegionRates, RankInv, RankInv', ReqInv, ReqInv', PairInv,
           NEW g, NEW h, <<g, h>> \in Regions, NEW s \in Ranks, NEW c \in Own(s), ResetNext(s, c)
    PROVE  ChainOf(g, h)' /\ ReceivedOf(g, h)'
<1>1. /\ g \in Ghosts /\ h \in Ghosts /\ g \in Clusters /\ h \in Clusters /\ g # h
      /\ RankOf[g] \in Ranks /\ RankOf[h] \in Ranks
      /\ GhostTypeOK /\ ActorTypeOK /\ ChainOf(g, h) /\ ReceivedOf(g, h)
  BY PairParts
<1>2. Rate[g] \in Nat \ {0} /\ Rate[h] \in Nat \ {0} /\ Larger(g, h) \in Nat
  BY PairParts DEF Larger
<1>3. /\ phase[s] = "reset" /\ c \in todo[s] /\ UNCHANGED <<phase, epoch, state>>
      /\ SetSyncTimeAndReset(c, SyncTimes[epoch[s]], Waiting(c))
      /\ todo' = [todo EXCEPT ![s] = @ \ {c}]
      /\ c \in Clusters /\ RankOf[c] = s /\ UNCHANGED <<channel, region>>
  BY OwnClusters DEF ResetNext, MayBeNext, SetSyncTimeAndReset, PostRequests, mpiVars
<1>4. /\ \A i \in Clusters \ {c} : ct'[i] = ct[i]
      /\ \A l \in Links : l[1] # c => nct'[l] = nct[l]
  BY <1>1, <1>3 DEF SetSyncTimeAndReset, ActorTypeOK
<1>5. \A i \in Ghosts \ {c} : sending'[i] = sending[i] /\ receiving'[i] = receiving[i]
  BY <1>1 DEF ResetNext, PostRequests, mpiVars, GhostTypeOK
<1>6. \A r \in Ranks : Now(r)' = Now(r)
  BY <1>3 DEF Now
<1>7. Arrived(h, g)' = Arrived(h, g)
  BY <1>1, <1>3, <1>6 DEF Arrived
<1>8. ASSUME NEW i \in Ghosts, i # c
      PROVE  /\ Started(i)' = Started(i) /\ ct'[i] = ct[i]
             /\ nct'[<<i, CopyOf(i)>>] = nct[<<i, CopyOf(i)>>]
  <2>1. i \in Clusters /\ <<i, CopyOf(i)>> \in Links /\ RankOf[i] \in Ranks
    BY CopyCluster, GhostAssumption
  <2>2. i \in todo'[RankOf[i]] <=> i \in todo[RankOf[i]]
    BY <1>1, <1>3, <1>8, <2>1 DEF GhostTypeOK
  <2> QED
    BY <1>3, <1>4, <1>8, <2>1, <2>2 DEF Started, ToReset
<1>9. ASSUME c \in Ghosts
      PROVE  /\ ~Started(c) /\ Started(c)' /\ sending[c] = {} /\ sending'[c] = {} /\ receiving'[c] = {}
             /\ state'[c] = "Synced" /\ ct'[c].stepsSinceLastSync = 0
             /\ ct'[c].predictionsSinceLastSync = 0
             /\ nct'[<<c, CopyOf(c)>>].predictionsSinceLastSync = 0
             /\ nct'[<<c, CopyOf(c)>>].stepsSinceLastSync = 0
  <2> DEFINE l == <<c, CopyOf(c)>>
  <2>1. l \in Links /\ l[1] = c
    BY <1>9, CopyCluster
  <2>2. ToReset(c) /\ ~ToReset(c)' /\ phase'[RankOf[c]] = "reset"
    BY <1>1, <1>3 DEF ToReset, GhostTypeOK
  <2>3. ClockOf(c)' /\ LinkOf(l)' /\ ReqOf(c) /\ ReqOf(c)'
    BY <1>3, <1>9, <2>1 DEF RankInv, ClockInv, LinkInv, ReqInv
  <2>4. Working(c)'
    BY <2>2, <2>3 DEF ClockOf
  <2>5. state'[c] = "Synced" /\ ct'[c].stepsSinceLastSync = 0
        /\ ct'[c].predictionsSinceLastSync = 0
    BY <2>2, <2>4 DEF Working, ClockAt
  <2>6. /\ nct'[l].predictionsSinceLastSync = 0 /\ nct'[l].stepsSinceLastSync = 0
    BY <2>1, <2>2, <2>3 DEF LinkOf, Fresh
  <2>7. sending[c] = {}
    BY <2>2, <2>3 DEF ReqOf
  <2>8. sending'[c] = {} /\ receiving'[c] = {}
    BY <2>2, <2>3, <2>5 DEF ReqOf, Posted
  <2>9. ~Started(c) /\ Started(c)'
    BY <2>2 DEF Started
  <2> QED
    BY <2>5, <2>6, <2>7, <2>8, <2>9
<1>10. ChainOf(g, h)'
  <2>1. CASE c = g
    <3>1. Offered(g) = 0 /\ Offered(g)' = 0
      BY <1>1, <1>9, <2>1 DEF Offered
    <3> QED
      BY <1>1, <1>3, <1>6, <1>7, <1>9, <2>1, <3>1, SameChain
  <2>2. CASE c # g
    <3>1. Offered(g)' = Offered(g)
      BY <1>1, <1>8, <2>2 DEF Offered
    <3> QED
      BY <1>1, <1>3, <1>5, <1>6, <1>7, <2>2, <3>1, SameChain
  <2> QED
    BY <2>1, <2>2
<1>11. ReceivedOf(g, h)'
  <2>1. CASE c = h
    <3> DEFINE e == epoch[RankOf[h]]
    <3>1. /\ region[<<h, g>>].round < Now(RankOf[h]) /\ Now(RankOf[h]) = e
          /\ region[<<h, g>>].round \in Nat /\ e \in Nat
      <4>1. region[<<h, g>>].round < Now(RankOf[h])
        BY <1>1, <1>9, <2>1 DEF ReceivedOf
      <4>2. Now(RankOf[h]) = e
        BY <1>3, <2>1 DEF Now
      <4>3. <<h, g>> \in Regions
        BY PairParts
      <4>4. region[<<h, g>>].round \in Nat
        BY <1>1, <4>3 DEF GhostTypeOK, CopyLayers
      <4>5. e \in Nat
        BY <1>1, NowFacts, PairParts
      <4> QED
        BY <4>1, <4>2, <4>4, <4>5
    <3>2. Arrived(h, g) = 0
      BY <3>1 DEF Arrived
    <3>3. Multiple(0, Rate[h]) /\ Multiple(0, Larger(g, h))
      BY <1>2, ZeroIsMultiple
    <3>4. Received(e, g, h, state'[h], ct'[h], nct'[<<h, CopyOf(h)>>], 0, receiving'[h])
      <4> DEFINE z == state'[h]
                 t == ct'[h]
                 m == nct'[<<h, CopyOf(h)>>]
                 x == receiving'[h]
      <4>1. /\ z = "Synced" /\ t.stepsSinceLastSync = 0 /\ t.predictionsSinceLastSync = 0
            /\ m.stepsSinceLastSync = 0 /\ x = {}
        BY <1>1, <1>9, <2>1
      <4> HIDE DEF z, t, m, x, e
      <4>2. Received(e, g, h, z, t, m, 0, x)
        BY <1>2, <3>3, <4>1 DEF Received
      <4> QED
        BY <4>2 DEF z, t, m, x
    <3>5. epoch' = epoch /\ region' = region /\ Started(h)'
      BY <1>1, <1>3, <1>9, <2>1
    <3> QED
      BY <1>7, <3>1, <3>2, <3>4, <3>5 DEF ReceivedOf
  <2>2. CASE c # h
    BY <1>1, <1>3, <1>5, <1>6, <1>8, <2>2, SameReceived
  <2> QED
    BY <2>1, <2>2
<1> QED
  BY <1>10, <1>11

\* MPI changes one region at a time.
LEMMA MPIElsewhere ==
    ASSUME RegionRates, RankInv, PairInv, NEW g, NEW h, <<g, h>> \in Regions,
           NEW x, NEW y, <<x, y>> \in Regions, ReadCopyLayer(x, y) \/ FillGhostLayer(x, y)
    PROVE  /\ <<x, y>> # <<g, h>> => ChainOf(g, h)' /\ ReceivedOf(g, h)'
           /\ ReadCopyLayer(x, y) => ReceivedOf(g, h)'
<1>1. /\ g \in Ghosts /\ h \in Ghosts /\ <<h, g>> \in Regions
      /\ GhostTypeOK /\ ChainOf(g, h) /\ ReceivedOf(g, h)
  BY PairParts
<1>2. UNCHANGED <<state, ct, nct, phase, epoch, todo>>
  BY DEF ReadCopyLayer, FillGhostLayer, actorVars, rankVars
<1>3. \A i : /\ Now(RankOf[i])' = Now(RankOf[i])
             /\ Offered(i)' = Offered(i) /\ Started(i)' = Started(i)
  BY <1>2 DEF Now, Offered, Started, ToReset
<1>4. x \in Ghosts /\ y \in Ghosts /\ <<y, x>> \in Regions
  BY PairParts
<1>5. ReadCopyLayer(x, y) => UNCHANGED <<receiving, region>>
  BY DEF ReadCopyLayer
<1>6. ASSUME <<x, y>> # <<g, h>>
      PROVE  /\ channel'[<<g, h>>] = channel[<<g, h>>]
             /\ region'[<<h, g>>] = region[<<h, g>>]
             /\ h \in sending'[g] <=> h \in sending[g]
  <2>1. <<y, x>> # <<h, g>>
    BY <1>6
  <2>2. channel'[<<g, h>>] = channel[<<g, h>>]
    BY <1>1, <1>6 DEF ReadCopyLayer, FillGhostLayer, GhostTypeOK
  <2>3. region'[<<h, g>>] = region[<<h, g>>]
    BY <1>1, <2>1 DEF ReadCopyLayer, FillGhostLayer, GhostTypeOK
  <2>4. h \in sending'[g] <=> h \in sending[g]
    BY <1>1, <1>6 DEF ReadCopyLayer, FillGhostLayer, GhostTypeOK
  <2> QED
    BY <2>2, <2>3, <2>4
<1>7. ASSUME region'[<<h, g>>] = region[<<h, g>>]
      PROVE  Arrived(h, g)' = Arrived(h, g)
  BY <1>3, <1>7 DEF Arrived
<1>8. ASSUME <<x, y>> # <<g, h>>
      PROVE  ChainOf(g, h)'
  BY <1>1, <1>3, <1>6, <1>7, <1>8, SameChain
<1>9. ASSUME region'[<<h, g>>] = region[<<h, g>>], receiving'[h] = receiving[h]
      PROVE  ReceivedOf(g, h)'
  BY <1>1, <1>2, <1>3, <1>9, SameReceived
<1>10. ASSUME <<x, y>> # <<g, h>>
       PROVE  ReceivedOf(g, h)'
  <2>1. CASE ReadCopyLayer(x, y)
    BY <1>5, <1>9, <2>1
  <2>2. CASE FillGhostLayer(x, y) /\ y # h
    BY <1>1, <1>6, <1>9, <1>10, <2>2 DEF FillGhostLayer, GhostTypeOK
  <2>3. CASE FillGhostLayer(x, y) /\ y = h
    <3>1. x # g /\ receiving'[h] = receiving[h] \ {x}
      BY <1>1, <1>10, <2>3 DEF FillGhostLayer, GhostTypeOK
    <3>2. g \in receiving'[h] <=> g \in receiving[h]
      BY <3>1
    <3>3. region'[<<h, g>>] = region[<<h, g>>] /\ Arrived(h, g)' = Arrived(h, g)
      BY <1>6, <1>7, <1>10
    <3> DEFINE e == epoch[RankOf[h]]
               t == ct[h]
               m == nct[<<h, CopyOf(h)>>]
               z == state[h]
    <3>4. CASE Started(h)
      <4>1. region[<<h, g>>].round <= e /\ Received(e, g, h, z, t, m, Arrived(h, g), receiving[h])
        BY <1>1, <3>4 DEF ReceivedOf
      <4>2. Received(e, g, h, z, t, m, Arrived(h, g), receiving'[h])
        <5> HIDE DEF e, t, m, z
        <5> QED
          BY <3>2, <4>1 DEF Received
      <4> QED
        BY <1>2, <1>3, <3>3, <3>4, <4>1, <4>2 DEF ReceivedOf
    <3>5. CASE ~Started(h)
      BY <1>1, <1>2, <1>3, <3>3, <3>5 DEF ReceivedOf
    <3> QED
      BY <3>4, <3>5
  <2> QED
    BY <2>1, <2>2, <2>3
<1>11. ASSUME ReadCopyLayer(x, y)
       PROVE  ReceivedOf(g, h)'
  BY <1>5, <1>9, <1>11
<1> QED
  BY <1>8, <1>10, <1>11

\* Every step keeps what holds of a region.
LEMMA NextPairInv ==
    ASSUME ExactArithmetic, SameUnitStep, RegionRates, RankInv, RankInv', ReqInv, ReqInv', PairInv,
           [GhostNext]_ghostVars
    PROVE  PairInv'
<1>1. EpochInv'
  BY NextEpochInv DEF RankInv, PairInv
<1>2. \A g \in Ghosts : CopyOfGhost(g)'
  BY NextCopyOfGhost DEF PairInv
<1>3. ASSUME NEW g, NEW h, <<g, h>> \in Regions
      PROVE  ChainOf(g, h)' /\ ReceivedOf(g, h)'
  <2>1. g \in Ghosts /\ h \in Ghosts /\ ChainOf(g, h) /\ ReceivedOf(g, h) /\ GhostTypeOK
    BY <1>3, PairParts
  <2>2. CASE \E r \in Ranks : Advance(r) \/ EnterBarrier(r) \/ LeaveBarrier(r) \/ Return(r)
    BY <1>3, <2>2, PhaseChain, ReturnChain
  <2>3. CASE \E r \in Ranks : \E c \in Own(r) : ResetNext(r, c)
    BY <1>3, <2>3, ResetChain
  <2>4. ASSUME NEW c \in Clusters \ Ghosts, CellStep(c)
        PROVE  ChainOf(g, h)' /\ ReceivedOf(g, h)'
    <3>1. PICK seen \in SUBSET Waiting(c) : Act(c, seen)
      BY <2>4 DEF CellStep
    <3>2. c # g /\ c # h /\ UNCHANGED <<channel, region, sending, receiving>> /\ Runs(c)
      BY <2>1, <2>4 DEF CellStep, mpiVars
    <3> QED
      BY <1>3, <2>4, <3>1, <3>2, ActElsewhere
  <2>5. ASSUME NEW c \in Ghosts, GhostAct(c)
        PROVE  ChainOf(g, h)' /\ ReceivedOf(g, h)'
    <3>1. PICK seen \in SUBSET Waiting(c), starts \in BOOLEAN :
              Act(c, seen) /\ HandleMessage(c, seen, starts)
      BY <2>5, GhostActs DEF GhostStep
    <3>2. /\ c \in Clusters /\ Runs(c) /\ UNCHANGED <<channel, region>>
          /\ \A i \in Ghosts \ {c} : sending'[i] = sending[i] /\ receiving'[i] = receiving[i]
      BY <2>1, <2>5, <3>1, GhostActs, CopyCluster
         DEF GhostStep, HandleMessage, PostRequests, GhostTypeOK
    <3>3. c # g => ChainOf(g, h)'
      BY <1>3, <2>1, <3>1, <3>2, ActElsewhere
    <3>4. c # h => ReceivedOf(g, h)'
      BY <1>3, <2>1, <3>1, <3>2, ActElsewhere
    <3>5. c = g => ChainOf(g, h)'
      BY <1>3, <2>5, GhostActChain
    <3>6. c = h => ReceivedOf(g, h)'
      BY <1>3, <2>5, GhostActReceived
    <3> QED
      BY <3>3, <3>4, <3>5, <3>6
  <2>6. CASE UNCHANGED ghostVars
    <3>1. UNCHANGED <<state, ct, nct, phase, epoch, todo, receiving, sending, channel, region>>
      BY <2>6 DEF ghostVars, actorVars, rankVars, mpiVars
    <3>2. \A i : /\ Now(RankOf[i])' = Now(RankOf[i])
                 /\ Offered(i)' = Offered(i) /\ Started(i)' = Started(i)
      BY <3>1 DEF Now, Offered, Started, ToReset
    <3>3. Arrived(h, g)' = Arrived(h, g)
      BY <3>1, <3>2 DEF Arrived
    <3> QED
      BY <2>1, <3>1, <3>2, <3>3, SameChain, SameReceived
  <2>7. ASSUME NEW p \in Regions, ReadCopyLayer(p[1], p[2]) \/ FillGhostLayer(p[1], p[2])
        PROVE  ChainOf(g, h)' /\ ReceivedOf(g, h)'
    <3>1. PICK x, y : p = <<x, y>> /\ x = p[1] /\ y = p[2]
      BY <2>7, RegionFacts
    <3>2. <<x, y>> \in Regions /\ (ReadCopyLayer(x, y) \/ FillGhostLayer(x, y))
      BY <2>7, <3>1
    <3>3. CASE <<x, y>> # <<g, h>>
      BY <1>3, <3>2, <3>3, MPIElsewhere
    <3>4. CASE <<x, y>> = <<g, h>> /\ ReadCopyLayer(x, y)
      <4>1. ReadCopyLayer(g, h)
        BY <3>4
      <4> QED
        BY <1>3, <4>1, ReadChain, MPIElsewhere
    <3>5. CASE <<x, y>> = <<g, h>> /\ FillGhostLayer(x, y)
      <4>1. FillGhostLayer(g, h)
        BY <3>5
      <4> QED
        BY <1>3, <4>1, FillChain
    <3> QED
      BY <3>2, <3>3, <3>4, <3>5
  <2> QED
    BY <2>2, <2>3, <2>4, <2>5, <2>6, <2>7, StepCases DEF MPIStep
<1>4. \A p \in Regions : p = <<p[1], p[2]>>
  BY RegionFacts
<1>5. \A p \in Regions : ChainOf(p[1], p[2])' /\ ReceivedOf(p[1], p[2])'
  BY <1>3, <1>4
<1> QED
  BY <1>1, <1>2, <1>5 DEF PairInv

\* Before the first phase nothing has been sent.
LEMMA InitPairInv == RegionRates /\ GhostInit => PairInv
<1> SUFFICES ASSUME RegionRates, GhostInit PROVE PairInv
  OBVIOUS
<1>1. \A r \in Ranks : phase[r] = "idle" /\ epoch[r] = 0 /\ Now(r) = 1
  BY DEF GhostInit, Now
<1>2. EpochInv
  BY <1>1 DEF EpochInv
<1>3. \A g \in Ghosts : RankOf[g] \in Ranks
  BY CopyCluster, GhostAssumption
<1>4. \A g \in Ghosts : CopyOfGhost(g)
  BY <1>1, <1>3 DEF CopyOfGhost
<1>5. ASSUME NEW g, NEW h, <<g, h>> \in Regions
      PROVE  ChainOf(g, h) /\ ReceivedOf(g, h)
  <2> DEFINE w == <<g, h>>
  <2>1. w \in Regions /\ w[1] = g /\ w[2] = h
    BY <1>5
  <2> HIDE DEF w
  <2>2. /\ g \in Ghosts /\ h \in Ghosts /\ <<h, g>> \in Regions
        /\ Rate[g] \in Nat \ {0} /\ Rate[h] \in Nat \ {0}
    BY <2>1, RegionFacts
  <2>3. /\ ~Started(g) /\ ~Started(h) /\ Offered(g) = 0
        /\ Now(RankOf[g]) = 1 /\ Now(RankOf[h]) = 1
    BY <1>1, <1>3, <2>2 DEF Started, Offered
  <2>4. region[<<h, g>>].round = 0 /\ channel[<<g, h>>] = <<>> /\ sending[g] = {}
    BY <1>5, <2>2 DEF GhostInit
  <2>5. Arrived(h, g) = 0
    BY <2>3, <2>4 DEF Arrived
  <2>6. Multiple(0, Larger(g, h))
    BY <2>2, ZeroIsMultiple DEF Larger
  <2>7. Chain(1, EndOf(1, h), Larger(g, h), Rate[h], 0, <<>>, 0)
    BY DEF Chain
  <2>8. Paired(1, 1, g, h, 0, <<>>, {}, 0)
    BY <2>6, <2>7 DEF Paired
  <2>9. ChainOf(g, h)
    BY <2>3, <2>4, <2>5, <2>8 DEF ChainOf
  <2> QED
    BY <2>3, <2>4, <2>9 DEF ReceivedOf
<1>6. \A p \in Regions : p = <<p[1], p[2]>>
  BY RegionFacts
<1>7. \A p \in Regions : ChainOf(p[1], p[2]) /\ ReceivedOf(p[1], p[2])
  BY <1>5, <1>6
<1> QED
  BY <1>2, <1>4, <1>7 DEF PairInv

\* The ends of the regions, whatever MPI does when.
LEMMA PairInvariant ==
    ASSUME ExactArithmetic, SameUnitStep, RegionRates
    PROVE  GhostSpec => [](RankInv /\ ReqInv /\ PairInv)
<1>1. GhostInit => RankInv /\ ReqInv /\ PairInv
  BY InitRankInv, InitReqInv, InitPairInv
<1>2. RankInv /\ ReqInv /\ PairInv /\ [GhostNext]_ghostVars => (RankInv /\ ReqInv /\ PairInv)'
  BY NextRankInv, NextReqInv, NextPairInv
<1> QED
  BY <1>1, <1>2, PTL DEF GhostSpec

----------------------------------------------------------------------------
(* What the regions promise *)

\* A rank that has returned has received what was sent to it, and nobody has
\* sent it anything of the next phase.
LEMMA NothingOnItsWay ==
    ASSUME ExactArithmetic, SameUnitStep, RegionRates, RankInv, ReqInv, PairInv,
           NEW g, NEW h, <<g, h>> \in Regions, phase[RankOf[h]] = "idle"
    PROVE  channel[<<g, h>>] = <<>>
<1> DEFINE r == RankOf[g]
           s == RankOf[h]
           k == CopyOf(g)
           l == <<g, k>>
           q == channel[<<g, h>>]
<1>1. /\ g \in Ghosts /\ h \in Ghosts /\ g \in Clusters /\ r \in Ranks /\ s \in Ranks
      /\ GhostTypeOK /\ EpochInv /\ ChainOf(g, h) /\ ReceivedOf(g, h) /\ CopyOfGhost(g)
      /\ <<h, g>> \in Regions
  BY PairParts
<1>2. Arrived(h, g) = 0
  <2>1. region[<<h, g>>].round < Now(s)
    BY <1>1 DEF ReceivedOf, Started
  <2>2. region[<<h, g>>].round \in Nat
    BY <1>1 DEF GhostTypeOK, CopyLayers
  <2> QED
    BY <2>1, <2>2 DEF Arrived
<1>3. /\ Now(r) \in Nat /\ Now(s) \in Nat /\ epoch[r] \in Nat /\ epoch[s] \in Nat
      /\ Now(s) = epoch[s] + 1
      /\ Now(r) = Now(s) + 1 => phase[s] # "idle"
  BY <1>1, NowFacts DEF Now
<1>4. Paired(Now(r), Now(s), g, h, 0, q, sending[g], Offered(g))
  BY <1>1, <1>2 DEF ChainOf
<1>5. CASE Now(s) = Now(r) + 1
  BY <1>3, <1>4, <1>5 DEF Paired
<1>6. CASE Now(r) = Now(s)
  <2>1. PICK y \in Int :
            /\ Chain(Now(s), EndOf(Now(s), h), Larger(g, h), Rate[h], 0, q, y)
            /\ IF h \in sending[g]
               THEN Follows(EndOf(Now(s), h), Larger(g, h), Rate[h], y, Offered(g))
               ELSE y = Offered(g)
    BY <1>3, <1>4, <1>6 DEF Paired
  <2>2. Offered(g) = 0
    <3>1. CASE phase[r] = "idle" \/ ToReset(g)
      BY <3>1 DEF Offered, Started
    <3>2. CASE phase[r] # "idle" /\ ~ToReset(g)
      <4>1. epoch[r] = epoch[s] + 1
        BY <1>3, <1>6, <3>2 DEF Now
      <4>2. phase[r] \in {"reset", "barrier"}
        BY <1>1, <1>3, <4>1 DEF EpochInv
      <4>3. CASE phase[r] = "reset"
        <5>1. l \in Links /\ l[1] = g
          BY <1>1, CopyCluster
        <5>2. nct[l].predictionsSinceLastSync = 0
          BY <3>2, <4>3, <5>1 DEF RankInv, LinkInv, LinkOf, Fresh
        <5> QED
          BY <5>2 DEF Offered
      <4>4. CASE phase[r] = "barrier"
        <5>1. ct[k].predictionsSinceLastSync = 0
          BY <1>1, <4>4 DEF CopyOfGhost
        <5>2. nct[l].predictionsSinceLastSync \in 0..ct[k].predictionsSinceLastSync
          BY <1>1, <4>4, RunningFacts DEF GhostFacts
        <5>3. nct[l].predictionsSinceLastSync = 0
          BY <5>1, <5>2
        <5> QED
          BY <5>3 DEF Offered
      <4> QED
        BY <4>2, <4>3, <4>4
    <3> QED
      BY <3>1, <3>2
  <2>3. ~(y > 0)
    BY <2>1, <2>2 DEF Follows
  <2> QED
    BY <2>1, <2>3 DEF Chain
<1> QED
  BY <1>3, <1>4, <1>5, <1>6 DEF Paired

\* No request is left hanging: a rank that has returned waits for nothing, all
\* that was sent to it has arrived, and a ghost cluster that has made all its
\* steps waits for nothing before (AbstractGhostTimeCluster.cpp:93-95).
THEOREM NoRequestIsLeftHanging ==
    ASSUME ExactArithmetic, SameUnitStep, RegionRates
    PROVE  GhostSpec => []NoHangingRequest
<1>1. ASSUME RankInv, ReqInv, PairInv
      PROVE  NoHangingRequest
  <2>1. ASSUME NEW r \in Ranks, phase[r] = "idle", NEW g \in GhostsOf(r)
        PROVE  /\ receiving[g] = {} /\ sending[g] = {}
               /\ \A h \in Remote(g) : channel[<<h, g>>] = <<>>
    <3>1. g \in Ghosts /\ RankOf[g] = r
      BY DEF GhostsOf
    <3>2. receiving[g] = {} /\ sending[g] = {}
      BY <1>1, <2>1, <3>1 DEF ReqInv, ReqOf
    <3>3. ASSUME NEW h \in Remote(g)
          PROVE  channel[<<h, g>>] = <<>>
      <4>1. <<g, h>> \in Regions
        BY DEF Remote
      <4>2. <<h, g>> \in Regions
        BY <1>1, <4>1, PairParts
      <4> QED
        BY <1>1, <2>1, <3>1, <4>2, NothingOnItsWay
    <3> QED
      BY <3>2, <3>3
  <2> QED
    BY <1>1, <2>1, RequestsAreApart DEF NoHangingRequest
<1> QED
  BY <1>1, PairInvariant, PTL

\* A cluster that was predicted and becomes corrected has corrected.
LEMMA OnlyCorrections ==
    ASSUME GhostTypeOK, [GhostNext]_ghostVars, NEW k \in Clusters \ Ghosts,
           state[k] = "Predicted", state'[k] = "Corrected"
    PROVE  CellStep(k) /\ \E seen \in SUBSET Waiting(k) : Correct(k, seen)
<1>1. ActorTypeOK
  BY DEF GhostTypeOK
<1>2. ASSUME state' = state
      PROVE  FALSE
  BY <1>2
<1>3. CASE \E r \in Ranks : Advance(r) \/ EnterBarrier(r) \/ LeaveBarrier(r) \/ Return(r)
  BY <1>2, <1>3 DEF Advance, EnterBarrier, LeaveBarrier, Return, actorVars
<1>4. CASE \E r \in Ranks : \E c \in Own(r) : ResetNext(r, c)
  BY <1>2, <1>4 DEF ResetNext, SetSyncTimeAndReset
<1>5. CASE MPIStep
  BY <1>2, <1>5 DEF MPIStep, ghostVars, actorVars, ReadCopyLayer, FillGhostLayer
<1>6. ASSUME NEW c \in Clusters, NEW seen \in SUBSET Waiting(c), Act(c, seen)
      PROVE  c = k /\ Correct(k, seen)
  <2>1. c = k
    BY <1>1, <1>6, ActIsOwn
  <2>2. ~(Poll(k, seen) \/ RestartAfterSync(k, seen) \/ Predict(k, seen) \/ Sync(k, seen))
    BY <1>1 DEF Poll, RestartAfterSync, Predict, Sync, ActorTypeOK
  <2> QED
    BY <1>6, <2>1, <2>2 DEF Act
<1>7. ASSUME NEW c \in Clusters \ Ghosts, CellStep(c)
      PROVE  CellStep(k) /\ \E seen \in SUBSET Waiting(k) : Correct(k, seen)
  BY <1>6, <1>7 DEF CellStep
<1>8. ASSUME NEW g \in Ghosts, GhostAct(g)
      PROVE  FALSE
  BY <1>6, <1>8, GhostActs, CopyCluster DEF GhostStep
<1> QED
  BY <1>3, <1>4, <1>5, <1>7, <1>8, <1>2, StepCases

\* When the copy cluster of h corrects, the data of g has arrived, and is not
\* that of a later step.
LEMMA DataHasArrived ==
    ASSUME ExactArithmetic, SameUnitStep, RegionRates, RankInv, ReqInv, PairInv,
           NEW g, NEW h, <<g, h>> \in Regions, NEW k, k = CopyOf(h), state[k] = "Predicted",
           CellStep(k), NEW seen \in SUBSET Waiting(k), Correct(k, seen)
    PROVE  /\ g \notin receiving[h]
           /\ region[<<h, g>>].round = epoch[RankOf[k]]
           /\ region[<<h, g>>].steps >= NextCorrectionSteps(Rate[k], ct[k])
           /\ region[<<h, g>>].steps - Larger(g, h) <= ct[k].stepsSinceLastSync
<1> DEFINE e == epoch[RankOf[h]]
           E == EndOf(e, h)
           v == Arrived(h, g)
           t == ct[h]
           u == ct[k]
           m == nct[<<h, k>>]
           L == Larger(g, h)
<1>1. /\ h \in Ghosts /\ h \in Clusters /\ k \in Clusters /\ <<k, h>> \in Links
      /\ RankOf[k] = RankOf[h] /\ RankOf[h] \in Ranks /\ ActorTypeOK
      /\ ReceivedOf(g, h) /\ L \in Nat
  <2>1. /\ h \in Ghosts /\ h \in Clusters /\ ActorTypeOK /\ ReceivedOf(g, h)
        /\ RankOf[h] \in Ranks /\ Rate[g] \in Nat \ {0} /\ Rate[h] \in Nat \ {0}
    BY PairParts
  <2>2. k \in Clusters /\ <<k, h>> \in Links /\ RankOf[k] = RankOf[h]
    BY <2>1, CopyCluster
  <2> QED
    BY <2>1, <2>2 DEF Larger
<1>2. phase[RankOf[h]] \in {"barrier", "restart", "loop"}
  BY <1>1 DEF CellStep, Runs
<1>3. /\ e \in 1..Len(SyncTimes)
      /\ GhostFacts(e, h, k, state[h], t, u, m, inbox[<<h, k>>])
      /\ Posted(e, h, state[h], t, m, sending[h], receiving[h], lastSendTime[h])
      /\ u.predictionsSinceLastSync = u.stepsSinceLastSync + Rate[k]
  BY <1>1, <1>2, RunningFacts
<1>4. /\ ClockAt(e, k, state[k], u)
      /\ LinkAt(e, <<k, h>>, u, t, nct[<<k, h>>], inbox[<<k, h>>])
  BY <1>1, <1>2, RunningGhost
<1>5. t.predictionsSinceLastSync >= E \/ u.predictionsSinceLastSync <= t.predictionsSinceLastSync
  BY <1>1, <1>4, CorrectIsAllowed
<1>6. /\ E \in Nat \ {0} /\ Rate[k] \in Nat \ {0}
      /\ u.stepsSinceLastSync \in Int /\ u.predictionsSinceLastSync \in Int
      /\ t.predictionsSinceLastSync \in Int
      /\ m.stepsSinceLastSync \in Nat /\ m.stepsSinceLastSync <= u.stepsSinceLastSync
  BY <1>3 DEF GhostFacts
<1>7. u.stepsUntilSync = E
  BY <1>1, <1>3, <1>4, SameEnd DEF ClockAt
<1>8. /\ region[<<h, g>>].round <= e /\ Now(RankOf[h]) = e
      /\ Received(e, g, h, state[h], t, m, v, receiving[h])
  BY <1>1, <1>2 DEF ReceivedOf, Started, ToReset, Now
<1> HIDE DEF e, E, t, u, m, v, L
<1>9. g \notin receiving[h]
  BY <1>3, <1>5, <1>6 DEF Posted, E
<1>10. t.predictionsSinceLastSync <= v /\ v \in Nat /\ v - L <= m.stepsSinceLastSync
  BY <1>8, <1>9 DEF Received, L
<1>11. /\ v >= Smaller(u.stepsSinceLastSync + Rate[k], E) /\ v > 0
       /\ v - L <= u.stepsSinceLastSync
  BY <1>1, <1>3, <1>5, <1>6, <1>10 DEF Smaller
<1>12. region[<<h, g>>].round = e /\ region[<<h, g>>].steps = v
  BY <1>8, <1>11 DEF Arrived, v
<1> QED
  BY <1>1, <1>7, <1>9, <1>11, <1>12 DEF NextCorrectionSteps, e, u, L

\* The larger of two rates.
LEMMA MaxOfTwo ==
    ASSUME NEW a \in Nat, NEW b \in Nat
    PROVE  Max({a, b}) = IF a < b THEN b ELSE a
<1> DEFINE x == IF a < b THEN b ELSE a
<1>1. x \in {a, b} /\ \A y \in {a, b} : x >= y
  OBVIOUS
<1>2. \A z \in {a, b} : (\A y \in {a, b} : z >= y) => z = x
  OBVIOUS
<1> QED
  BY <1>1, <1>2 DEF Max

\* A copy cluster corrects with the data of the step its remote neighbours have
\* predicted for it, in this phase, and while no receive writes into it.
THEOREM CorrectionsUseReceivedData ==
    ASSUME ExactArithmetic, SameUnitStep, RegionRates
    PROVE  GhostSpec => CorrectUsesReceivedData
<1> DEFINE A(p) ==
               LET k == CopyOf(p[1])
                   s == ct[k].stepsSinceLastSync
               IN  state[k] = "Predicted" /\ state'[k] = "Corrected" =>
                       /\ p[2] \notin receiving[p[1]]
                       /\ region[p].round = epoch[RankOf[k]]
                       /\ region[p].steps >= NextCorrectionSteps(Rate[k], ct[k])
                       /\ region[p].steps - Max({Rate[k], Rate[p[1]]}) <= s
<1>1. ASSUME RankInv, ReqInv, PairInv, [GhostNext]_ghostVars, NEW p \in Regions
      PROVE  A(p)
  <2> DEFINE h == p[1]
             g == p[2]
             k == CopyOf(h)
  <2>1. /\ p = <<h, g>> /\ <<g, h>> \in Regions /\ h \in Ghosts /\ GhostTypeOK
        /\ Rate[h] \in Nat \ {0} /\ Rate[g] \in Nat \ {0} /\ Rate[g] = Rate[k]
    BY <1>1, RegionFacts DEF RankInv
  <2>2. k \in Clusters \ Ghosts
    BY <2>1, CopyCluster
  <2>3. SUFFICES ASSUME state[k] = "Predicted", state'[k] = "Corrected"
                 PROVE  /\ g \notin receiving[h]
                        /\ region[p].round = epoch[RankOf[k]]
                        /\ region[p].steps >= NextCorrectionSteps(Rate[k], ct[k])
                        /\ region[p].steps - Max({Rate[k], Rate[h]}) <= ct[k].stepsSinceLastSync
    OBVIOUS
  <2>4. CellStep(k) /\ \E seen \in SUBSET Waiting(k) : Correct(k, seen)
    BY <1>1, <2>1, <2>2, <2>3, OnlyCorrections
  <2>5. Max({Rate[k], Rate[h]}) = Larger(g, h)
    BY <2>1, MaxOfTwo DEF Larger
  <2> HIDE DEF g, h
  <2>6. /\ g \notin receiving[h]
        /\ region[<<h, g>>].round = epoch[RankOf[k]]
        /\ region[<<h, g>>].steps >= NextCorrectionSteps(Rate[k], ct[k])
        /\ region[<<h, g>>].steps - Larger(g, h) <= ct[k].stepsSinceLastSync
    BY <1>1, <2>1, <2>3, <2>4, DataHasArrived
  <2> QED
    BY <2>1, <2>5, <2>6
<1>2. RankInv /\ ReqInv /\ PairInv /\ [GhostNext]_ghostVars => \A p \in Regions : A(p)
  BY <1>1
<1>3. GhostSpec => [][\A p \in Regions : A(p)]_ghostVars
  <2> HIDE DEF A
  <2> QED
    BY <1>2, PairInvariant, PTL DEF GhostSpec
<1> QED
  BY <1>3 DEF CorrectUsesReceivedData

=============================================================================
