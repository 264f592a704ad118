--------------------------- MODULE GhostClusters ---------------------------
(***************************************************************************)
(* Several ranks.  A copy cluster learns of its remote neighbours through   *)
(* ghost clusters: actors with the time step of the remote cluster that     *)
(* compute nothing.  A ghost cluster predicts when the remote data has      *)
(* arrived and corrects when its own copy layer has been sent; a prediction *)
(* of its copy cluster makes it send, a correction makes it receive anew.   *)
(*                                                                         *)
(* MPI: an Isend is pending until the library has read the copy layer,      *)
(* which it may do at once (eager) or only after the receive is posted; the *)
(* message then waits until an Irecv takes it.  MPI_Test reports whatever   *)
(* has completed by then.  A region is one pair of ghost clusters <<g, h>>  *)
(* of two ranks; a ghost cluster has one for every rank it meets.           *)
(* With Threaded, the ghost clusters act on the helper thread, from their   *)
(* reset on, and a message being pushed may not be seen yet.                *)
(***************************************************************************)
EXTENDS Phases, FiniteSetsExt

CONSTANTS
    Ranks, RankOf,     \* the ranks, and the rank of each cluster
    Ghosts,            \* the ghost clusters; the others are cell clusters
    Regions,           \* pairs of ghost clusters that exchange a region
    Threaded           \* whether a helper thread polls the ghost clusters

ASSUME GhostAssumption ==
    /\ Ghosts \subseteq Clusters
    /\ RankOf \in [Clusters -> Ranks]
    /\ \A l \in Links : RankOf[l[1]] = RankOf[l[2]]
    /\ \A g \in Ghosts : \E k \in Clusters \ Ghosts : Neighbors(g) = {k}
    /\ Regions \subseteq Ghosts \X Ghosts
    /\ \A p \in Regions : /\ <<p[2], p[1]>> \in Regions
                          /\ RankOf[p[1]] # RankOf[p[2]]
                          /\ \A k \in Neighbors(p[2]) : Rate[p[1]] = Rate[k]
    /\ Threaded \in BOOLEAN

VARIABLES
    phase, epoch, todo,    \* of each rank: where advanceInTime is
    receiving, sending,    \* of each ghost cluster: its pending requests
    lastSendTime,
    channel,               \* per region <<g, h>>: messages from g to h
    region                 \* per region <<g, h>>: what g has received from h

rankVars == <<phase, epoch, todo>>

mpiVars == <<receiving, sending, lastSendTime, channel, region>>

ghostVars == <<actorVars, rankVars, mpiVars>>

Cells(r) == {c \in Clusters \ Ghosts : RankOf[c] = r}

GhostsOf(r) == {g \in Ghosts : RankOf[g] = r}

Remote(g) == {h \in Ghosts : <<g, h>> \in Regions}

CopyOf(g) == CHOOSE k \in Neighbors(g) : TRUE

CopyLayers == [round : Nat, steps : Int]

\* The copy layer between two predictions: the phase and the step predicted.
CopyLayer(g) == [round |-> epoch[RankOf[g]], steps |-> ct[CopyOf(g)].predictionsSinceLastSync]

Own(r) == Cells(r) \cup GhostsOf(r)

\* The loops go through the vector clusters, then through ghostClusters, each of
\* them sorted by rate: whether c may be the next of those in S.
MayBeNext(c, S) ==
    /\ c \in S
    /\ \A d \in S : IF d \in Ghosts <=> c \in Ghosts THEN Rate[c] <= Rate[d] ELSE d \in Ghosts

GhostInit ==
    /\ ActorInit
    /\ phase = [r \in Ranks |-> "idle"]
    /\ epoch = [r \in Ranks |-> 0]
    /\ todo = [r \in Ranks |-> {}]
    /\ receiving = [g \in Ghosts |-> {}]
    /\ sending = [g \in Ghosts |-> {}]
    /\ lastSendTime = [g \in Ghosts |-> -1]
    /\ channel = [p \in Regions |-> <<>>]
    /\ region = [p \in Regions |-> [round |-> 0, steps |-> 0]]

----------------------------------------------------------------------------
(* MPI *)

\* The library reads the copy layer of a pending send of g to h.
ReadCopyLayer(g, h) ==
    /\ h \in sending[g]
    /\ sending' = [sending EXCEPT ![g] = @ \ {h}]
    /\ channel' = [channel EXCEPT ![<<g, h>>] = Append(@, CopyLayer(g))]
    /\ UNCHANGED <<actorVars, rankVars, receiving, lastSendTime, region>>

\* A posted receive of h takes the first message from g.
FillGhostLayer(g, h) ==
    /\ g \in receiving[h]
    /\ channel[<<g, h>>] # <<>>
    /\ receiving' = [receiving EXCEPT ![h] = @ \ {g}]
    /\ region' = [region EXCEPT ![<<h, g>>] = Head(channel[<<g, h>>])]
    /\ channel' = [channel EXCEPT ![<<g, h>>] = Tail(@)]
    /\ UNCHANGED <<actorVars, rankVars, sending, lastSendTime>>

\* What MPI guarantees to happen: a send whose receive is posted is read.
MatchedRead(g, h) == g \in receiving[h] /\ ReadCopyLayer(g, h)

----------------------------------------------------------------------------
(* The handlers of a ghost cluster *)

\* Mutant of IgnoreMessage: a receive is posted for every correction.
NeverIgnoreMessage(g) == FALSE

\* At a synchronization point no receive may be posted: start() will do so.
IgnoreMessage(g) ==
    (IF state[g] = "Predicted" THEN NextCorrectionSteps(Rate[g], ct[g])
     ELSE ct[g].stepsSinceLastSync) >= ct[g].stepsUntilSync

Popped(g, seen, kind) == seen # {} /\ Head(inbox[<<g, CopyOf(g)>>]).kind = kind

\* Popping a prediction sends the copy layer; popping a correction posts the
\* receives, as starting does.
PostRequests(g, seen, starts) ==
    LET posts == starts \/ (Popped(g, seen, "correction") /\ ~IgnoreMessage(g))
    IN  /\ sending' = IF Popped(g, seen, "prediction") THEN [sending EXCEPT ![g] = Remote(g)]
                      ELSE sending
        /\ receiving' = IF posts THEN [receiving EXCEPT ![g] = Remote(g)] ELSE receiving
        /\ UNCHANGED <<channel, region>>

HandleMessage(g, seen, starts) ==
    /\ PostRequests(g, seen, starts)
    /\ lastSendTime' = IF Popped(g, seen, "prediction")
                       THEN [lastSendTime EXCEPT ![g] = ct[g].correctionTime] ELSE lastSendTime

\* The messages a call of processMessages pops.
Seen(c) == IF Threaded THEN SUBSET Waiting(c) ELSE {Waiting(c)}

\* When the ghost clusters are polled: by advanceInTime, or by the thread.
Polled(g) == phase[RankOf[g]] \in IF Threaded THEN {"barrier", "restart", "loop"} ELSE {"loop"}

GhostRestart(g) ==
    /\ Polled(g)
    /\ \E seen \in Seen(g) : RestartAfterSync(g, seen) /\ HandleMessage(g, seen, TRUE)
    /\ UNCHANGED rankVars

\* Mutant of GhostMayPredict: the receives are not tested.
PredictBeforeReceived(g) == TRUE

GhostMayPredict(g) == receiving'[g] = {}

GhostPredict(g) ==
    /\ Polled(g)
    /\ \E seen \in Seen(g) : Predict(g, seen) /\ HandleMessage(g, seen, FALSE)
    /\ GhostMayPredict(g)
    /\ UNCHANGED rankVars

\* Mutant of GhostMayCorrect: the sends are not tested.
CorrectBeforeSent(g) == TRUE

GhostMayCorrect(g) == sending'[g] = {}

GhostCorrect(g) ==
    /\ Polled(g)
    /\ \E seen \in Seen(g) : Correct(g, seen) /\ HandleMessage(g, seen, FALSE)
    /\ GhostMayCorrect(g)
    /\ UNCHANGED rankVars

GhostSync(g) ==
    /\ Polled(g)
    /\ \E seen \in Seen(g) : Sync(g, seen) /\ HandleMessage(g, seen, FALSE)
    /\ receiving'[g] = {} /\ sending'[g] = {}
    /\ UNCHANGED rankVars

NoLegalAction(g, seen) ==
    LET m == Mirror(g, seen)
    IN  CASE state[g] = "Corrected" /\ MaySync(ct[g]) -> receiving'[g] # {} \/ sending'[g] # {}
          [] state[g] = "Corrected" /\ ~MaySync(ct[g]) -> ~(MayPredict(ct[g], m) /\ GhostMayPredict(g))
          [] state[g] = "Predicted" -> ~(MayCorrect(ct[g], m) /\ GhostMayCorrect(g))
          [] state[g] = "Synced" -> ct[g].stepsSinceLastSync # 0

\* act() with no legal action: only the messages are handled.
GhostPoll(g) ==
    /\ Polled(g)
    /\ \E seen \in Seen(g) :
           Poll(g, seen) /\ HandleMessage(g, seen, FALSE) /\ NoLegalAction(g, seen)
    /\ UNCHANGED rankVars

GhostAct(g) == GhostPoll(g) \/ GhostRestart(g) \/ GhostPredict(g) \/ GhostCorrect(g) \/ GhostSync(g)

----------------------------------------------------------------------------
(* advanceInTime of one rank *)

Advance(r) ==
    /\ phase[r] = "idle"
    /\ epoch[r] < Len(SyncTimes)
    /\ epoch' = [epoch EXCEPT ![r] = @ + 1]
    /\ phase' = [phase EXCEPT ![r] = "reset"]
    /\ todo' = [todo EXCEPT ![r] = Own(r)]
    /\ UNCHANGED <<actorVars, mpiVars>>

\* setSyncTime and reset: the cell clusters, then the ghost clusters.
ResetNext(r, c) ==
    /\ phase[r] = "reset"
    /\ MayBeNext(c, todo[r])
    /\ SetSyncTimeAndReset(c, SyncTimes[epoch[r]], Waiting(c))
    /\ IF c \in Ghosts
       THEN /\ PostRequests(c, Waiting(c), FALSE)
            /\ lastSendTime' = [lastSendTime EXCEPT ![c] = -1]
       ELSE UNCHANGED mpiVars
    /\ todo' = [todo EXCEPT ![r] = @ \ {c}]
    /\ UNCHANGED <<phase, epoch>>

EnterBarrier(r) ==
    /\ phase[r] = "reset"
    /\ todo[r] = {}
    /\ phase' = [phase EXCEPT ![r] = "barrier"]
    /\ UNCHANGED <<actorVars, epoch, todo, mpiVars>>

\* Every rank has come to this barrier; some may be past it already.
LeaveBarrier(r) ==
    /\ phase[r] = "barrier"
    /\ \A s \in Ranks :
           epoch[s] > epoch[r] \/ (epoch[s] = epoch[r] /\ phase[s] # "reset")
    /\ phase' = [phase EXCEPT ![r] = "restart"]
    /\ todo' = [todo EXCEPT ![r] = Cells(r)]
    /\ UNCHANGED <<actorVars, epoch, mpiVars>>

RestartNext(r, c) ==
    /\ phase[r] = "restart"
    /\ MayBeNext(c, todo[r])
    /\ \E seen \in Seen(c) : RestartAfterSync(c, seen)
    /\ todo' = [todo EXCEPT ![r] = @ \ {c}]
    /\ phase' = IF todo[r] = {c} THEN [phase EXCEPT ![r] = "loop"] ELSE phase
    /\ UNCHANGED <<epoch, mpiVars>>

CellAct(c) ==
    /\ phase[RankOf[c]] = "loop"
    /\ \E seen \in Seen(c) : Poll(c, seen) \/ Predict(c, seen) \/ Correct(c, seen) \/ Sync(c, seen)
    /\ UNCHANGED <<rankVars, mpiVars>>

\* The cell clusters are synced, and so are the ghost clusters: checkIfFinished.
Return(r) ==
    /\ phase[r] = "loop"
    /\ \A c \in Own(r) : state[c] = "Synced"
    /\ phase' = [phase EXCEPT ![r] = "idle"]
    /\ UNCHANGED <<actorVars, epoch, todo, mpiVars>>

AllOver ==
    /\ \A r \in Ranks : phase[r] = "idle" /\ epoch[r] = Len(SyncTimes)
    /\ UNCHANGED ghostVars

RankStep(r) ==
    \/ Advance(r) \/ EnterBarrier(r) \/ LeaveBarrier(r) \/ Return(r)
    \/ \E c \in Own(r) : ResetNext(r, c)
    \/ \E c \in Cells(r) : RestartNext(r, c) \/ CellAct(c)
    \/ \E g \in GhostsOf(r) : GhostAct(g)

GhostNext ==
    \/ AllOver
    \/ \E r \in Ranks : RankStep(r)
    \/ \E p \in Regions : ReadCopyLayer(p[1], p[2]) \/ FillGhostLayer(p[1], p[2])

GhostSpec == GhostInit /\ [][GhostNext]_ghostVars

\* A rank keeps polling; MPI reads a send whose receive is posted, and
\* delivers what it has read.  It need not read a send before.
GhostFairSpec ==
    /\ GhostSpec
    /\ \A r \in Ranks : WF_ghostVars(RankStep(r))
    /\ \A p \in Regions : /\ WF_ghostVars(MatchedRead(p[1], p[2]))
                          /\ WF_ghostVars(FillGhostLayer(p[1], p[2]))

----------------------------------------------------------------------------

\* Types of the ranks, the requests and the channels.
GhostTypeOK ==
    /\ ActorTypeOK
    /\ phase \in [Ranks -> {"idle", "reset", "barrier", "restart", "loop"}]
    /\ epoch \in [Ranks -> 0..Len(SyncTimes)]
    /\ \A r \in Ranks : phase[r] # "idle" => epoch[r] # 0
    /\ todo \in [Ranks -> SUBSET Clusters]
    /\ receiving \in [Ghosts -> SUBSET Ghosts] /\ sending \in [Ghosts -> SUBSET Ghosts]
    /\ \A g \in Ghosts : receiving[g] \cup sending[g] \subseteq Remote(g)
    /\ lastSendTime \in [Ghosts -> Time]
    /\ channel \in [Regions -> Seq(CopyLayers)] /\ region \in [Regions -> CopyLayers]

\* The assertions of the handlers (AbstractGhostTimeCluster.cpp:52, 78, 84 and
\* 117, DirectGhostTimeCluster.cpp:22 and 43): no region is sent or received
\* again before it has been, and the sends advance in time.  The types come first.
RequestsDoNotOverlap ==
    /\ GhostTypeOK
    /\ \A g \in Ghosts :
        /\ Popped(g, Waiting(g), "prediction") =>
               sending[g] = {} /\ ct[g].correctionTime > lastSendTime[g]
        /\ Popped(g, Waiting(g), "correction") =>
               receiving[g] = {} /\ ct[g].predictionTime >= lastSendTime[g]
        /\ state[g] = "Synced" => receiving[g] = {}

\* No request is left hanging at a synchronization point, in particular not
\* at the end of the simulation (AbstractGhostTimeCluster.cpp:93-95): when a
\* rank returns, its requests are complete and all it was sent has arrived.
\* Before that, a ghost cluster that has made all its steps waits for nothing, so
\* that the second branch of getNextLegalAction (AbstractTimeCluster.cpp:38-42)
\* never predicts past a synchronization that only MPI delays.
NoHangingRequest ==
    /\ \A r \in Ranks : phase[r] = "idle" =>
           \A g \in GhostsOf(r) : /\ receiving[g] = {} /\ sending[g] = {}
                                  /\ \A h \in Remote(g) : channel[<<h, g>>] = <<>>
    /\ \A g \in Ghosts : state[g] # "Predicted" /\ MaySync(ct[g]) =>
           receiving[g] = {} /\ sending[g] = {} /\ ~Popped(g, Waiting(g), "prediction")

\* A copy cluster corrects with the data of the step its remote neighbours
\* predicted for it, in this phase, and while no receive writes into it
\* (AbstractGhostTimeCluster.cpp:68-99, TimeManager.cpp:280-346).
CorrectUsesReceivedData ==
    [][\A p \in Regions :
           LET k == CopyOf(p[1])
               s == ct[k].stepsSinceLastSync
           IN  state[k] = "Predicted" /\ state'[k] = "Corrected" =>
                   /\ p[2] \notin receiving[p[1]]
                   /\ region[p].round = epoch[RankOf[k]]
                   /\ region[p].steps >= NextCorrectionSteps(Rate[k], ct[k])
                   /\ region[p].steps - Max({Rate[k], Rate[p[1]]}) <= s]_ghostVars

\* A copy layer is not predicted anew while MPI may still read it
\* (AbstractGhostTimeCluster.cpp:64-66).
NoSendOverwritten ==
    [][\A g \in Ghosts : state[CopyOf(g)] = "Corrected" /\ state'[CopyOf(g)] = "Predicted" =>
           sending[g] = {}]_ghostVars

\* advanceInTime returns on every rank, even when MPI reads no send before its
\* receive is posted (TimeManager.cpp:306-346).
EveryRankReturns == \A r \in Ranks : phase[r] # "idle" ~> phase[r] = "idle"

----------------------------------------------------------------------------

Count(r, c, n) == IF phase[r] = "reset" /\ c \in todo[r] THEN 0 ELSE n

LTS(r) == INSTANCE LocalTimeStepping WITH
    Clusters  <- Own(r),
    round     <- epoch[r],
    predicted <- [c \in Own(r) |-> Count(r, c, ct[c].predictionsSinceLastSync)],
    corrected <- [c \in Own(r) |-> Count(r, c, ct[c].stepsSinceLastSync)]

\* On every rank the cell clusters and the ghost clusters together follow
\* local time stepping: MPI only delays the steps of a ghost cluster.
RanksImplementLocalTimeStepping ==
    /\ \A r \in Ranks : LTS(r)!LTSInit
    /\ [][\A r \in Ranks : [LTS(r)!LTSNext]_(LTS(r)!ltsVars)]_ghostVars

=============================================================================
