------------------------ MODULE TimeCluster_proofs ------------------------
(***************************************************************************)
(* What the cell clusters do to the data they share, for all clusters,      *)
(* layers, rates and synchronization times, in exact arithmetic: which      *)
(* data a correction uses, how often friction is evaluated and at which     *)
(* times the receivers sample and the fault output is recorded.            *)
(***************************************************************************)
EXTENDS TimeCluster, TimeManager_proofs, FiniteSetTheorems

\* What is not read of a link in the loop.
RunningLink(l) ==
    Running(epoch, l[2], ct[l[2]].predictionsSinceLastSync, ct[l[2]].stepsSinceLastSync,
            nct[l], inbox[l])

\* Resetting c reads what is left of the last phase.
LEMMA LinkIsReset ==
    ASSUME MessageInv, NEW c \in Clusters, ResetCluster(c), NEW l \in Links, l[1] = c
    PROVE  Fresh(epoch, l[2], nct'[l], inbox'[l])
<1>1. /\ ActorTypeOK /\ phase = "reset" /\ c \in todo
      /\ SetSyncTimeAndReset(c, SyncTimes[epoch], Waiting(c))
  BY DEF MessageInv, TypeOK, ResetCluster, LoopStep
<1>2. StandsAt(ct[c], PhaseStart(epoch)) /\ Settled(nct[l], inbox[l], PhaseStart(epoch))
  BY <1>1 DEF MessageInv, ClockInv, ClockOf, LinkInv, LinkOf
<1> QED
  BY <1>1, <1>2, ResetLink

\* A cluster that reads reads the first message of every queue.
LEMMA HeadIsRead ==
    ASSUME NEW c \in Clusters, NEW m, NEW to, ProcessAndSend(c, Waiting(c), m, to),
           NEW l \in Links, l[1] = c, inbox[l] # <<>>
    PROVE  /\ nct'[l] = AfterMessage(nct[l], Head(inbox[l]))
           /\ inbox'[l] = Tail(inbox[l])
<1>1. l = <<c, l[2]>> /\ l[2] \in Neighbors(c)
  BY LinkPair
<1>2. l[2] \in Waiting(c)
  BY <1>1 DEF Waiting
<1> QED
  BY <1>2, LinksAfter

\* The data follows the clusters and does not lead them.
LEMMA ClustersDecide == ClusterSpec => Spec
<1>1. ClusterInit => Init
  BY DEF ClusterInit
<1>2. [ClusterNext]_clusterVars => [Next]_vars
  BY DEF ClusterNext, ClusterStep, clusterVars, Next, Step
<1> QED
  BY <1>1, <1>2, PTL DEF ClusterSpec, Spec

\* So every cell cluster keeps what is proved of the messages.
LEMMA ClustersInvariant ==
    ASSUME ExactArithmetic, SameUnitStep
    PROVE  ClusterSpec => [](MessageInv /\ Rules)
<1>1. MessageInv /\ Rules /\ [Next]_vars => Rules'
  BY NextRules
<1> QED
  BY <1>1, InitRules, MessagesInvariant, ClustersDecide, PTL DEF Spec

\* A step changes the state of the cluster it is a step of only.
LEMMA OneActs ==
    ASSUME TypeOK, NEW c \in Clusters, state'[c] # state[c], ClusterNext
    PROVE  ClusterStep(c)
<1>1. state \in [Clusters -> ActorState]
  BY DEF TypeOK, ActorTypeOK
<1>2. ~(AdvanceInTime \/ Finish \/ Over)
  BY DEF AdvanceInTime, Finish, Over, vars, actorVars
<1>3. PICK d \in Clusters : ClusterStep(d)
  BY <1>2 DEF ClusterNext
<1>4. ASSUME d # c
      PROVE  state'[c] = state[c]
  <2>1. CASE ResetCluster(d) \/ PollCluster(d)
    BY <2>1 DEF ResetCluster, SetSyncTimeAndReset, PollCluster, Poll
  <2>2. CASE PredictCluster(d)
    BY <1>1, <1>4, <2>2 DEF PredictCluster, Predict
  <2>3. CASE CorrectCluster(d)
    BY <1>1, <1>4, <2>3 DEF CorrectCluster, Correct
  <2>4. CASE RestartCluster(d) \/ SyncCluster(d)
    BY <1>1, <1>4, <2>4 DEF RestartCluster, RestartAfterSync, SyncCluster, Sync
  <2> QED
    BY <1>3, <2>1, <2>2, <2>3, <2>4 DEF ClusterStep
<1> QED
  BY <1>3, <1>4

\* A prediction comes with what predict() does to the data.
LEMMA PredictionActs ==
    ASSUME TypeOK, ClusterNext, NEW c \in Clusters, PredictCluster(c)
    PROVE  PredictData(c) /\ HandlePredictionMessages(c)
<1>1. state \in [Clusters -> ActorState]
  BY DEF TypeOK, ActorTypeOK
<1>2. state[c] = "Corrected" /\ state'[c] = "Predicted" /\ phase = "loop"
  BY <1>1 DEF PredictCluster, Predict
<1>3. ClusterStep(c)
  BY <1>2, OneActs
<1>4. ~ResetCluster(c) /\ ~CorrectCluster(c) /\ ~RestartCluster(c) /\ ~PollCluster(c)
  BY <1>2 DEF ResetCluster, CorrectCluster, Correct, RestartCluster, PollCluster, Poll
<1>5. ~SyncCluster(c)
  BY <1>1, <1>2 DEF SyncCluster, Sync
<1> QED
  BY <1>3, <1>4, <1>5 DEF ClusterStep

\* And a correction with what correct() does.
LEMMA CorrectionActs ==
    ASSUME TypeOK, ClusterNext, NEW c \in Clusters, CorrectCluster(c)
    PROVE  CorrectData(c) /\ HandlePredictionMessages(c)
<1>1. state \in [Clusters -> ActorState]
  BY DEF TypeOK, ActorTypeOK
<1>2. state[c] = "Predicted" /\ state'[c] = "Corrected" /\ phase = "loop"
  BY <1>1 DEF CorrectCluster, Correct
<1>3. ClusterStep(c)
  BY <1>2, OneActs
<1>4. ~ResetCluster(c) /\ ~PredictCluster(c) /\ ~RestartCluster(c) /\ ~PollCluster(c)
  BY <1>2 DEF ResetCluster, PredictCluster, Predict, RestartCluster, PollCluster, Poll
<1>5. ~SyncCluster(c)
  BY <1>1, <1>2 DEF SyncCluster, Sync
<1> QED
  BY <1>3, <1>4, <1>5 DEF ClusterStep

----------------------------------------------------------------------------
(* The receivers *)

\* The samples before the time t.
SamplesBefore(t) == {s \in StartTime..(t - 1) : (s - StartTime) % SamplingInterval = 0}

\* The receivers of c have been sampled up to its prediction, and the next sample
\* is the first that has not been taken.
ReceiversOf(c) ==
    /\ sampled[c] = SamplesBefore(ct[c].predictionTime)
    /\ receiverTime[c] \in Int /\ Multiple(receiverTime[c] - StartTime, SamplingInterval)
    /\ receiverTime[c] >= ct[c].predictionTime
    /\ receiverTime[c] = StartTime \/ receiverTime[c] - SamplingInterval < ct[c].predictionTime

ReceiverInv ==
    /\ sampled \in [Clusters -> SUBSET Int]
    /\ receiverTime \in [Clusters -> Int]
    /\ \A c \in Clusters : ct[c].predictionTime >= StartTime /\ ReceiversOf(c)

\* There are as many multiples of i from t to before e as fit, rounded up.
LEMMA CountSamples ==
    ASSUME NEW i \in Nat \ {0}, NEW t \in Int, NEW e \in Int, t <= e
    PROVE  /\ Cardinality({s \in t..(e - 1) : (s - t) % i = 0}) = (e - t + i - 1) \div i
           /\ t + i * ((e - t + i - 1) \div i) >= e
           /\ t + i * ((e - t + i - 1) \div i) - i < e
<1> DEFINE n == (e - t + i - 1) \div i
           S == {s \in t..(e - 1) : (s - t) % i = 0}
           f == [k \in 1..n |-> t + i * (k - 1)]
<1>1. n \in Nat /\ e - t <= i * n /\ i * n - i < e - t
  <2> DEFINE a == e - t + i - 1
             r == a % i
  <2>1. a \in Nat /\ a = i * n + r /\ r \in 0..(i - 1) /\ n \in Nat
    OBVIOUS
  <2> HIDE DEF n, r
  <2>2. i * n \in Int
    BY <2>1
  <2> QED
    BY <2>1, <2>2
<1> HIDE DEF n
<1>2. \A k \in 1..n : i * (k - 1) \in Nat /\ i * (k - 1) <= i * n - i /\ (i * (k - 1)) % i = 0
  <2> SUFFICES ASSUME NEW k \in 1..n
               PROVE  i * (k - 1) \in Nat /\ i * (k - 1) <= i * n - i /\ (i * (k - 1)) % i = 0
    OBVIOUS
  <2>1. k - 1 \in Nat /\ n - k \in Nat
    BY <1>1
  <2>2. i * (n - k) \in Nat /\ i * (k - 1) \in Nat
    BY <2>1
  <2>3. i * (n - k) = i * n - i * k /\ i * (k - 1) = i * k - i
    BY <1>1
  <2>4. (i * (k - 1)) % i = 0
    BY <2>1
  <2>5. i * n \in Int /\ i * k \in Int
    BY <1>1
  <2>6. i * (k - 1) <= i * n - i
    BY <2>2, <2>3, <2>5
  <2> QED
    BY <2>2, <2>4, <2>6
<1>3. \A k \in 1..n : f[k] \in S
  <2> SUFFICES ASSUME NEW k \in 1..n
               PROVE  f[k] \in S
    OBVIOUS
  <2> DEFINE x == i * (k - 1)
  <2>1. x \in Nat /\ x <= i * n - i /\ x % i = 0 /\ f[k] = t + x /\ i * n \in Int
    BY <1>1, <1>2
  <2> HIDE DEF x, f
  <2>2. (t + x) - t = x /\ t + x \in t..(e - 1)
    BY <1>1, <2>1
  <2> QED
    BY <2>1, <2>2
<1>4. \A k, j \in 1..n : f[k] = f[j] => k = j
  <2> SUFFICES ASSUME NEW k \in 1..n, NEW j \in 1..n, i * (k - 1) = i * (j - 1)
               PROVE  k = j
    OBVIOUS
  <2>1. k - 1 \in Int /\ j - 1 \in Int
    OBVIOUS
  <2> QED
    BY <2>1, Cancel
<1>5. ASSUME NEW s \in S
      PROVE  \E k \in 1..n : f[k] = s
  <2> DEFINE q == (s - t) \div i
  <2>1. s - t \in Nat /\ s - t < e - t /\ (s - t) % i = 0
    OBVIOUS
  <2>2. q \in Nat /\ s - t = i * q
    BY <2>1
  <2> HIDE DEF q
  <2>3. q < n
    <3> SUFFICES ASSUME q >= n PROVE FALSE
      BY <1>1, <2>2
    <3>1. i * (q - n) \in Nat /\ i * (q - n) = i * q - i * n
      BY <1>1, <2>2
    <3>2. i * n \in Int /\ i * q \in Int
      BY <1>1, <2>2
    <3> QED
      BY <1>1, <2>1, <2>2, <3>1, <3>2
  <2>4. q + 1 \in 1..n /\ f[q + 1] = t + i * q
    BY <1>1, <2>2, <2>3
  <2>5. t + i * q = s
    BY <2>1, <2>2
  <2> QED
    BY <2>4, <2>5
<1>6. f \in Bijection(1..n, S)
  <2>1. f \in [1..n -> S]
    BY <1>3
  <2> QED
    BY <1>4, <1>5, <2>1 DEF Bijection, Injection, Surjection, IsInjective
<1>7. Cardinality(S) = n
  BY <1>1, <1>6, FS_CountingElements DEF ExistsBijection
<1>8. t + i * n >= e /\ t + i * n - i < e
  <2>1. i * n \in Int
    BY <1>1
  <2> QED
    BY <1>1, <2>1
<1> QED
  BY <1>7, <1>8 DEF n

\* A remainder of zero is a multiple.
LEMMA MultipleMod == \A x \in Int, i \in Nat \ {0} : x % i = 0 <=> Multiple(x, i)
<1> SUFFICES ASSUME NEW x \in Int, NEW i \in Nat \ {0}
             PROVE  x % i = 0 <=> Multiple(x, i)
  OBVIOUS
<1>1. ASSUME x % i = 0
      PROVE  Multiple(x, i)
  <2>1. x \div i \in Int /\ x = i * (x \div i)
    BY <1>1
  <2> HIDE <1>1
  <2>2. \A k \in Int : i * k = k * i
    OBVIOUS
  <2> QED
    BY <2>1, <2>2 DEF Multiple
<1>2. ASSUME NEW k \in Int, x = k * i
      PROVE  x % i = 0
  BY <1>2
<1> QED
  BY <1>1, <1>2 DEF Multiple

\* Multiples of the same rate differ by a multiple.
LEMMA MultipleDifference ==
    ASSUME NEW i \in Int, NEW x, NEW y, Multiple(x, i), Multiple(y, i)
    PROVE  Multiple(x - y, i) /\ Multiple(x + y, i)
<1>1. PICK k \in Int : x = k * i
  BY DEF Multiple
<1>2. PICK j \in Int : y = j * i
  BY DEF Multiple
<1>3. x - y = (k - j) * i /\ x + y = (k + j) * i /\ k - j \in Int /\ k + j \in Int
  BY <1>1, <1>2
<1> QED
  BY <1>3 DEF Multiple

\* A step from p to e takes all samples between them, the next sample being r.
LEMMA SampleStep ==
    ASSUME NEW p \in Int, NEW e \in Int, NEW r \in Int, StartTime <= p, p <= e,
           Multiple(r - StartTime, SamplingInterval), r >= p,
           r = StartTime \/ r - SamplingInterval < p
    PROVE  LET due == SamplesUntil(r, e)
               n   == r + SamplingInterval * Cardinality(due)
           IN  /\ SamplesBefore(p) \cup due = SamplesBefore(e) /\ due \subseteq Int
               /\ n \in Int /\ Multiple(n - StartTime, SamplingInterval) /\ n >= e
               /\ n = StartTime \/ n - SamplingInterval < e
<1> DEFINE i == SamplingInterval
           due == SamplesUntil(r, e)
           n == r + i * Cardinality(due)
<1>1. i \in Nat \ {0} /\ StartTime \in Int
  BY LayerAssumption, RateAssumption
<1>2. due = {s \in r..(e - 1) : (s - r) % i = 0}
  BY DEF SamplesUntil
<1>3. \A s \in Int : (s - r) % i = 0 <=> (s - StartTime) % i = 0
  <2> SUFFICES ASSUME NEW s \in Int
               PROVE  (s - r) % i = 0 <=> (s - StartTime) % i = 0
    OBVIOUS
  <2>1. /\ s - r \in Int /\ s - StartTime \in Int
        /\ (s - r) + (r - StartTime) = s - StartTime
        /\ (s - StartTime) - (r - StartTime) = s - r
    BY <1>1
  <2> DEFINE x == s - r
             y == r - StartTime
             z == s - StartTime
  <2> HIDE DEF x, y, z
  <2>2. Multiple(x, i) => Multiple(x + y, i)
    BY <1>1, MultipleDifference DEF y
  <2>3. Multiple(z, i) => Multiple(z - y, i)
    BY <1>1, MultipleDifference DEF y
  <2>4. x + y = z /\ z - y = x /\ x \in Int /\ z \in Int
    BY <2>1 DEF x, y, z
  <2>5. x % i = 0 <=> z % i = 0
    BY <1>1, <2>2, <2>3, <2>4, MultipleMod
  <2> QED
    BY <2>5 DEF x, z
<1>4. r >= StartTime
  BY <1>1
<1>5. ASSUME NEW s \in Int, (s - StartTime) % i = 0, s >= p, s >= StartTime
      PROVE  s >= r
  <2>1. CASE r = StartTime
    BY <1>5, <2>1
  <2>2. CASE r - i < p
    <3>1. Multiple(s - StartTime, i)
      BY <1>1, <1>5, MultipleMod
    <3>2. r - StartTime < (s - StartTime) + i
      BY <1>1, <1>5, <2>2
    <3>3. r - StartTime <= s - StartTime
      BY <1>1, <3>1, <3>2, NoMultipleBetween
    <3> QED
      BY <1>1, <1>5, <3>3
  <2> QED
    BY <2>1, <2>2
<1>6. SamplesBefore(p) \cup due = SamplesBefore(e) /\ due \subseteq Int
  <2>1. ASSUME NEW s \in due
        PROVE  s \in SamplesBefore(e) /\ s \in Int
    <3>1. s \in Int /\ s >= r /\ s <= e - 1 /\ (s - r) % i = 0
      BY <1>1, <1>2, <2>1
    <3>2. (s - StartTime) % i = 0 /\ s >= StartTime
      BY <1>1, <1>3, <1>4, <3>1
    <3> QED
      BY <1>1, <3>1, <3>2 DEF SamplesBefore
  <2>2. ASSUME NEW s \in SamplesBefore(p)
        PROVE  s \in SamplesBefore(e)
    BY <1>1, <2>2 DEF SamplesBefore
  <2>3. ASSUME NEW s \in SamplesBefore(e), s \notin SamplesBefore(p)
        PROVE  s \in due
    <3>1. s \in Int /\ s >= StartTime /\ s <= e - 1 /\ (s - StartTime) % i = 0
      BY <1>1 DEF SamplesBefore
    <3>2. s >= p
      BY <1>1, <2>3, <3>1 DEF SamplesBefore
    <3> QED
      BY <1>2, <1>3, <1>5, <3>1, <3>2
  <2> QED
    BY <2>1, <2>2, <2>3
<1>7. CASE r >= e
  <2>1. due = {}
    BY <1>2, <1>7
  <2>2. Cardinality(due) = 0
    BY <2>1, FS_EmptySet
  <2>3. n = r
    BY <1>1, <2>2
  <2> QED
    BY <1>1, <1>6, <1>7, <2>3
<1>8. CASE r < e
  <2> DEFINE k == (e - r + i - 1) \div i
  <2>1. Cardinality(due) = k /\ r + i * k >= e /\ r + i * k - i < e
    BY <1>1, <1>2, <1>8, CountSamples
  <2>2. k \in Int
    BY <1>1
  <2> HIDE DEF k, due
  <2>3. n = r + i * k /\ i * k \in Int /\ i * k = k * i
    BY <1>1, <2>1, <2>2
  <2>4. Multiple(i * k, i)
    BY <2>2, <2>3 DEF Multiple
  <2>5. n - StartTime = (r - StartTime) + i * k
    BY <1>1, <2>3
  <2>6. Multiple(n - StartTime, i)
    BY <1>1, <2>4, <2>5, MultipleDifference
  <2> QED
    BY <1>1, <1>6, <2>1, <2>3, <2>6 DEF due
<1> QED
  BY <1>7, <1>8

\* A prediction takes a step from the prediction time, not past it.
LEMMA PredictionStep ==
    ASSUME ExactArithmetic, TypeOK, PhaseInv, ClockInv, NEW c \in Clusters, PredictCluster(c)
    PROVE  LET from == ct[c].correctionTime
               end  == Plus(from, TimeStepSize(c))
           IN  /\ from = ct[c].predictionTime /\ end = ct'[c].predictionTime
               /\ from \in Int /\ end \in Int /\ from <= end
               /\ \A k \in Clusters \ {c} : ct'[k] = ct[k]
<1> DEFINE from == ct[c].correctionTime
           end == Plus(from, TimeStepSize(c))
           n == ct[c].stepsSinceLastSync
           r == Rate[c]
           b == PhaseStart(epoch)
<1>1. /\ phase = "loop" /\ state[c] = "Corrected" /\ ~MaySync(ct[c])
      /\ ct' = [ct EXCEPT ![c] = [ct[c] EXCEPT !.predictionsSinceLastSync = @ + Rate[c],
                                               !.predictionTime = Plus(@, TimeStepSize(c))]]
  BY DEF PredictCluster, Predict
<1>2. InPhase(c) /\ syncTime[c] = SyncTimes[epoch]
  <2>1. epoch # 0
    BY <1>1, PhaseTimes, InAPhase
  <2> QED
    BY <1>1, <2>1 DEF ClockInv, ClockOf, PhaseInv, PhaseOf, LastSync
<1>3. ct[c] \in ClusterTimes /\ ct \in [Clusters -> ClusterTimes]
  BY DEF TypeOK, ActorTypeOK
<1>4. /\ n \in Int /\ from \in Int /\ ct[c].predictionTime \in Int
      /\ r \in Nat \ {0} /\ b \in Int /\ SyncTimes[epoch] \in Int /\ MaxTimeStepSize[c] \in Nat \ {0}
  BY <1>1, <1>3, PhaseTimes, InAPhase, RateAssumption DEF ClusterTimes, Time
<1>5. OnGrid(epoch, c, from, n) /\ OnGrid(epoch, c, ct[c].predictionTime, n) /\ n < EndOf(epoch, c)
  <2>1. ct[c].predictionsSinceLastSync = n
    BY <1>1, <1>2, <1>4 DEF InPhase, ClockAt
  <2>2. ct[c].stepsUntilSync = EndOf(epoch, c) /\ EndOf(epoch, c) \in Nat
    BY <1>1, <1>2, EndOfFacts, InAPhase DEF InPhase, ClockAt, EndOf
  <2> QED
    BY <1>1, <1>2, <1>4, <2>1, <2>2 DEF InPhase, ClockAt, MaySync
<1>6. from = ct[c].predictionTime
  <2>1. r * (from - b) = r * (ct[c].predictionTime - b)
    BY <1>5 DEF OnGrid, AtStep
  <2>2. r \in Nat \ {0} /\ from - b \in Int /\ ct[c].predictionTime - b \in Int
    BY <1>4
  <2> HIDE DEF r, b, from
  <2>3. from - b = ct[c].predictionTime - b
    BY <2>1, <2>2, Cancel
  <2> QED
    BY <1>4, <2>3
<1>7. from < SyncTimes[epoch]
  BY <1>1, <1>4, <1>5, GridTimes, InAPhase
<1>8. TimeStepSize(c) \in Nat /\ end = from + TimeStepSize(c)
  <2>1. Minus(syncTime[c], from) = SyncTimes[epoch] - from
    BY <1>2, <1>4, ExactOperations
  <2>2. TimeStepSize(c) \in Nat
    BY <1>4, <1>7, <2>1 DEF TimeStepSize, Smaller
  <2> HIDE DEF from
  <2>3. Plus(from, TimeStepSize(c)) = from + TimeStepSize(c)
    BY <1>4, <2>2, ExactOperations
  <2> QED
    BY <2>2, <2>3
<1>9. /\ ct'[c].predictionTime = Plus(ct[c].predictionTime, TimeStepSize(c))
      /\ \A k \in Clusters \ {c} : ct'[k] = ct[k]
  BY <1>1, <1>3 DEF ClusterTimes
<1> QED
  BY <1>4, <1>6, <1>8, <1>9

\* Nothing but a prediction moves a prediction time.
LEMMA PredictionTimeKept ==
    ASSUME TypeOK, NEW k \in Clusters, ClusterNext,
           \A c \in Clusters : ~PredictCluster(c)
    PROVE  ct'[k].predictionTime = ct[k].predictionTime
<1>1. ct \in [Clusters -> ClusterTimes]
  BY DEF TypeOK, ActorTypeOK
<1>2. CASE AdvanceInTime \/ Finish \/ Over
  BY <1>2 DEF AdvanceInTime, Finish, Over, vars, actorVars
<1>3. ASSUME NEW c \in Clusters, ResetCluster(c)
      PROVE  ct'[k].predictionTime = ct[k].predictionTime
  BY <1>1, <1>3 DEF ResetCluster, SetSyncTimeAndReset, Cleared, ClusterTimes
<1>4. ASSUME NEW c \in Clusters, CorrectCluster(c)
      PROVE  ct'[k].predictionTime = ct[k].predictionTime
  BY <1>1, <1>4 DEF CorrectCluster, Correct, ClusterTimes
<1>5. ASSUME NEW c \in Clusters, RestartCluster(c) \/ PollCluster(c) \/ SyncCluster(c)
      PROVE  ct'[k].predictionTime = ct[k].predictionTime
  BY <1>5 DEF RestartCluster, RestartAfterSync, PollCluster, Poll, SyncCluster, Sync
<1> QED
  BY <1>2, <1>3, <1>4, <1>5 DEF ClusterNext, ClusterStep

\* And nothing but a prediction samples.
LEMMA SamplesKept ==
    ASSUME ClusterNext, \A c \in Clusters : ~PredictCluster(c)
    PROVE  UNCHANGED receiverVars
BY DEF ClusterNext, ClusterStep, dataVars, ResetData, CorrectData, KeepData, receiverVars

\* The receivers keep up with the predictions of their cluster.
LEMMA NextReceivers ==
    ASSUME ExactArithmetic, TypeOK, PhaseInv, ClockInv, ReceiverInv, [ClusterNext]_clusterVars
    PROVE  ReceiverInv'
<1>1. CASE UNCHANGED clusterVars
  BY <1>1 DEF clusterVars, vars, actorVars, dataVars, receiverVars, ReceiverInv, ReceiversOf
<1>2. CASE ClusterNext /\ \A c \in Clusters : ~PredictCluster(c)
  BY <1>2, PredictionTimeKept, SamplesKept DEF receiverVars, ReceiverInv, ReceiversOf
<1>3. ASSUME NEW c \in Clusters, PredictCluster(c), ClusterNext
      PROVE  ReceiverInv'
  <2> DEFINE from == ct[c].correctionTime
             end == Plus(from, TimeStepSize(c))
             due == SamplesUntil(receiverTime[c], end)
             n == receiverTime[c] + SamplingInterval * Cardinality(due)
  <2>1. /\ from = ct[c].predictionTime /\ end = ct'[c].predictionTime
        /\ from \in Int /\ end \in Int /\ from <= end
        /\ \A k \in Clusters \ {c} : ct'[k] = ct[k]
    BY <1>3, PredictionStep
  <2>2. WriteReceivers(c, from, end)
    BY <1>3, PredictionActs DEF PredictData
  <2>3. /\ StartTime <= from /\ ReceiversOf(c) /\ receiverTime[c] \in Int
    BY <2>1 DEF ReceiverInv
  <2>4. /\ SamplesBefore(from) \cup due = SamplesBefore(end) /\ due \subseteq Int
        /\ n \in Int /\ Multiple(n - StartTime, SamplingInterval) /\ n >= end
        /\ n = StartTime \/ n - SamplingInterval < end
    <3> HIDE DEF from, end
    <3>1. /\ receiverTime[c] >= from /\ Multiple(receiverTime[c] - StartTime, SamplingInterval)
          /\ receiverTime[c] = StartTime \/ receiverTime[c] - SamplingInterval < from
      BY <2>1, <2>3 DEF ReceiversOf
    <3> QED
      BY <2>1, <2>3, <3>1, SampleStep
  <2>5. receiverTime[c] >= from /\ sampled[c] = SamplesBefore(from)
    BY <2>1, <2>3 DEF ReceiversOf
  <2>6. /\ receiverTime' = [receiverTime EXCEPT ![c] = n]
        /\ sampled' = [sampled EXCEPT ![c] = @ \cup due]
    BY <2>2, <2>5 DEF WriteReceivers
  <2> HIDE DEF from, end, due, n
  <2>7. /\ receiverTime' \in [Clusters -> Int] /\ sampled' \in [Clusters -> SUBSET Int]
        /\ receiverTime'[c] = n /\ sampled'[c] = SamplesBefore(end)
        /\ \A k \in Clusters \ {c} : receiverTime'[k] = receiverTime[k] /\ sampled'[k] = sampled[k]
    BY <2>4, <2>5, <2>6 DEF ReceiverInv
  <2>8. ASSUME NEW k \in Clusters
        PROVE  ct'[k].predictionTime >= StartTime /\ ReceiversOf(k)'
    <3>1. CASE k = c
      <4>1. StartTime \in Int
        BY RateAssumption
      <4> QED
        BY <2>1, <2>3, <2>4, <2>7, <3>1, <4>1 DEF ReceiversOf, SamplesBefore
    <3>2. CASE k # c
      BY <2>1, <2>7, <3>2 DEF ReceiverInv, ReceiversOf, SamplesBefore
    <3> QED
      BY <3>1, <3>2
  <2> QED
    BY <2>7, <2>8 DEF ReceiverInv
<1> QED
  BY <1>1, <1>2, <1>3

\* At a synchronization time the receivers of all clusters have been sampled at
\* the same times, all that lie before it (TimeCluster::writeReceivers,
\* ReceiverCluster::calcReceivers), for all rates, time steps and intervals.
THEOREM ReceiversSampleInStep ==
    ASSUME ExactArithmetic
    PROVE  ClusterSpec => []ReceiversAreInStep
<1>1. ClusterInit => ReceiverInv
  <2> SUFFICES ASSUME ClusterInit PROVE ReceiverInv
    OBVIOUS
  <2>1. /\ StartTime \in Int /\ SamplingInterval \in Int
        /\ \A c \in Clusters : ct[c].predictionTime = StartTime
        /\ receiverTime = [c \in Clusters |-> StartTime] /\ sampled = [c \in Clusters |-> {}]
    BY RateAssumption, LayerAssumption DEF ClusterInit, Init, ActorInit
  <2>2. SamplesBefore(StartTime) = {} /\ Multiple(StartTime - StartTime, SamplingInterval)
    <3>1. StartTime - StartTime = 0 /\ StartTime..(StartTime - 1) = {}
      BY <2>1
    <3> QED
      BY <2>1, <3>1, ZeroIsMultiple DEF SamplesBefore
  <2> QED
    BY <2>1, <2>2 DEF ReceiverInv, ReceiversOf
<1>2. TypeOK /\ PhaseInv /\ ClockInv /\ ReceiverInv /\ [ClusterNext]_clusterVars => ReceiverInv'
  BY NextReceivers
<1>3. TypeOK /\ ClockInv /\ ReceiverInv => ReceiversAreInStep
  <2> SUFFICES ASSUME TypeOK, ClockInv, ReceiverInv, phase = "idle", epoch > 0, NEW c \in Clusters
               PROVE  sampled[c] = SamplesBefore(SyncTimes[epoch])
    BY DEF ReceiversAreInStep, SamplesBefore
  <2>1. PhaseStart(epoch + 1) = SyncTimes[epoch]
    BY SyncTimesAssumption DEF TypeOK, PhaseStart
  <2> QED
    BY <2>1 DEF ClockInv, ClockOf, StandsAt, ReceiverInv, ReceiversOf
<1>4. ClusterSpec => [](TypeOK /\ PhaseInv /\ ClockInv)
  <2>1. Init => PhaseInv /\ ClockInv
    BY DEF Init, ActorInit, PhaseInv, PhaseOf, LastSync, ClockInv, ClockOf, StandsAt, PhaseStart
  <2>2. TypeOK /\ PhaseInv /\ ClockInv /\ [Next]_vars => ClockInv'
    BY NextClockInv
  <2> QED
    BY <2>1, <2>2, ClustersDecide, TypeCorrect, NextPhaseInv, PTL DEF Spec
<1> QED
  BY <1>1, <1>2, <1>3, <1>4, PTL DEF ClusterSpec

----------------------------------------------------------------------------
(* The rates of neighbours *)

Slower(c) == {n \in Neighbors(c) : Rate[n] > Rate[c]}

\* Rates are powers of one number and only clusters whose ids differ by at most
\* one are connected (ClusterLayout, TimeManager::addClusters): the rate of a
\* slower neighbour is a multiple, and slower neighbours have the same rate.
NeighborRates ==
    /\ \A l \in Links : Rate[l[1]] < Rate[l[2]] => Multiple(Rate[l[2]], Rate[l[1]])
    /\ \A c \in Clusters : \A m, n \in Slower(c) : Rate[m] = Rate[n]

\* A multiple of a multiple.
LEMMA MultipleOfMultiple ==
    ASSUME NEW r \in Int, NEW s, NEW v, Multiple(v, s), Multiple(s, r)
    PROVE  Multiple(v, r)
<1>1. PICK k \in Int : v = k * s
  BY DEF Multiple
<1>2. PICK j \in Int : s = j * r
  BY DEF Multiple
<1>3. v = (k * j) * r /\ k * j \in Int
  BY <1>1, <1>2
<1> QED
  BY <1>3 DEF Multiple

\* A rate is a multiple of that of a neighbour that is not slower.
LEMMA RateOfFaster ==
    ASSUME NeighborRates, NEW l \in Links, Rate[l[1]] <= Rate[l[2]]
    PROVE  Multiple(Rate[l[2]], Rate[l[1]])
<1>1. l[1] \in Clusters /\ l[2] \in Clusters
  BY LinkPair
<1>2. Rate[l[1]] \in Nat \ {0} /\ Rate[l[2]] \in Nat \ {0}
  BY <1>1, RateAssumption
<1>3. CASE Rate[l[1]] = Rate[l[2]]
  <2>1. Rate[l[2]] = 1 * Rate[l[1]]
    BY <1>2, <1>3
  <2> QED
    BY <2>1 DEF Multiple
<1> QED
  BY <1>2, <1>3 DEF NeighborRates

\* Clusters with the same unit step are at the same time after as many steps, and
\* at a later time after more.
LEMMA SameGrid ==
    ASSUME ExactArithmetic, SameUnitStep, TypeOK, phase # "idle",
           NEW c \in Clusters, NEW d \in Clusters, NEW t \in Int, NEW u \in Int,
           NEW v \in Int, NEW w \in Int, OnGrid(epoch, c, t, v), OnGrid(epoch, d, u, w)
    PROVE  v <= w => t <= u
<1> DEFINE r == Rate[c]
           k == Rate[d]
           m == MaxTimeStepSize[c]
           o == MaxTimeStepSize[d]
           b == PhaseStart(epoch)
           s == SyncTimes[epoch]
<1>1. /\ r \in Nat \ {0} /\ k \in Nat \ {0} /\ m \in Nat \ {0} /\ o \in Nat \ {0}
      /\ b \in Int /\ s \in Int /\ k * m = r * o
  BY PhaseTimes, InAPhase, RateAssumption DEF SameUnitStep
<1>2. r * (t - b) = Smaller(r * (s - b), v * m) /\ k * (u - b) = Smaller(k * (s - b), w * o)
  BY DEF OnGrid, AtStep
<1> SUFFICES ASSUME v <= w PROVE t <= u
  OBVIOUS
<1> HIDE DEF r, k, m, o, b, s
<1> DEFINE x == t - b
           y == u - b
           z == s - b
<1>3. x \in Int /\ y \in Int /\ z \in Int
  BY <1>1
<1>4. r * x = Smaller(r * z, v * m) /\ k * y = Smaller(k * z, w * o)
  BY <1>2
<1> HIDE DEF x, y, z
<1>5. k * (v * m) <= r * (w * o)
  <2>1. k * (v * m) = v * (k * m) /\ r * (w * o) = w * (r * o)
    BY <1>1
  <2>2. r * o \in Nat
    BY <1>1
  <2>3. w * (r * o) - v * (r * o) = (w - v) * (r * o) /\ w - v \in Nat
    BY <2>2
  <2>4. (w - v) * (r * o) \in Nat /\ w * (r * o) \in Int /\ v * (r * o) \in Int
    BY <2>2, <2>3
  <2> QED
    BY <1>1, <2>1, <2>3, <2>4
<1>6. k * (r * z) = r * (k * z) /\ k * (r * x) = r * (k * x) /\ r * (k * y) = k * (r * y)
  BY <1>1, <1>3
<1>7. ASSUME y < x
      PROVE  FALSE
  <2>1. r * x <= r * z /\ r * x <= v * m /\ v * m \in Int /\ r * z \in Int /\ r * x \in Int
    BY <1>1, <1>3, <1>4 DEF Smaller
  <2>2. x <= z
    BY <1>1, <1>3, <2>1, Monotone
  <2>3. k * y < k * z /\ k * y \in Int /\ k * z \in Int /\ k * y < k * x /\ k * x \in Int
    BY <1>1, <1>3, <1>7, <2>2, Monotone
  <2>4. k * y = w * o /\ w * o \in Int
    BY <1>1, <1>4, <2>3 DEF Smaller
  <2>5. r * (w * o) < r * (k * x)
    BY <1>1, <2>3, <2>4, Monotone
  <2>6. k * (r * x) <= k * (v * m)
    <3>1. CASE r * x = v * m
      BY <1>1, <2>1, <3>1
    <3>2. CASE r * x < v * m
      BY <1>1, <2>1, <3>2, Monotone
    <3> QED
      BY <2>1, <3>1, <3>2
  <2>7. k * (v * m) \in Int /\ r * (w * o) \in Int /\ k * (r * x) \in Int
    BY <1>1, <2>1, <2>4
  <2> QED
    BY <1>5, <1>6, <2>5, <2>6, <2>7
<1> QED
  BY <1>1, <1>3, <1>7 DEF x, y

\* So they agree on the time of a step.
LEMMA SameTime ==
    ASSUME ExactArithmetic, SameUnitStep, TypeOK, phase # "idle",
           NEW c \in Clusters, NEW d \in Clusters, NEW t \in Int, NEW u \in Int,
           NEW v \in Int, OnGrid(epoch, c, t, v), OnGrid(epoch, d, u, v)
    PROVE  t = u
<1>1. t <= u /\ u <= t
  BY SameGrid
<1> QED
  BY <1>1

\* A neighbour that is not slower has predicted no further than a cluster that
\* is about to correct.
LEMMA FasterNotAhead ==
    ASSUME NeighborRates, Rules, LTS!Until \in Int, NEW l \in Links,
           Rate[l[1]] <= Rate[l[2]], Pred[l[2]] # Corr[l[2]]
    PROVE  Pred[l[1]] <= Pred[l[2]]
<1> DEFINE f == l[1]
           c == l[2]
           u == LTS!Until
<1>1. f \in Clusters /\ c \in Clusters /\ <<c, f>> \in Links
  BY LinkPair, LinksAssumption
<1>2. WholeSteps(f) /\ WholeSteps(c) /\ InStep(f, c)
  BY <1>1 DEF Rules
<1>3. Rate[f] \in Nat \ {0} /\ Rate[c] \in Nat \ {0} /\ Multiple(Rate[c], Rate[f])
  BY <1>1, RateAssumption, RateOfFaster
<1> HIDE DEF f, c, u
<1>4. Multiple(Pred[c], Rate[f]) /\ Multiple(Pred[f], Rate[f]) /\ Multiple(Corr[f], Rate[f])
  BY <1>2, <1>3, MultipleOfMultiple DEF WholeSteps
<1>5. /\ Pred[f] \in Int /\ Corr[f] \in Int /\ Pred[c] \in Int /\ Corr[c] \in Int /\ Corr[c] >= 0
      /\ Pred[c] = Corr[c] + Rate[c]
      /\ Pred[f] = 0 \/ Pred[f] - Rate[f] < u
      /\ Pred[f] = Corr[f] \/ Pred[f] = Corr[f] + Rate[f]
  BY <1>2 DEF WholeSteps, c, u
<1>6. Corr[f] <= Pred[c] \/ Pred[c] >= u
  BY <1>2 DEF InStep, u
<1>7. Pred[f] # Corr[f] => Corr[f] < Pred[c]
  BY <1>2, <1>5 DEF InStep
<1>8. CASE Pred[f] - Rate[f] < Pred[c]
  <2>1. Pred[f] < Pred[c] + Rate[f]
    BY <1>3, <1>5, <1>8
  <2> QED
    BY <1>3, <1>4, <2>1, NoMultipleBetween DEF f, c
<1>9. CASE Pred[f] = 0
  BY <1>3, <1>5, <1>9 DEF f, c
<1>10. CASE Pred[f] = Corr[f] /\ Corr[f] <= Pred[c]
  BY <1>10 DEF f, c
<1> QED
  BY <1>3, <1>5, <1>6, <1>7, <1>8, <1>9, <1>10 DEF u

\* What a neighbour that is not faster has predicted began no later than the
\* step a cluster corrects.
LEMMA SlowerJustAhead ==
    ASSUME NeighborRates, Rules, LTS!Until \in Int, NEW l \in Links,
           Rate[l[1]] <= Rate[l[2]]
    PROVE  Pred[l[2]] <= Corr[l[1]] + Rate[l[2]]
<1> DEFINE f == l[1]
           c == l[2]
           u == LTS!Until
<1>1. f \in Clusters /\ c \in Clusters /\ <<c, f>> \in Links
  BY LinkPair, LinksAssumption
<1>2. WholeSteps(f) /\ WholeSteps(c) /\ InStep(c, f)
  <2>1. InStep(<<c, f>>[1], <<c, f>>[2])
    BY <1>1 DEF Rules
  <2> QED
    BY <1>1, <2>1 DEF Rules
<1>3. Rate[f] \in Nat \ {0} /\ Rate[c] \in Nat \ {0} /\ Multiple(Rate[c], Rate[f]) /\ Rate[f] <= Rate[c]
  BY <1>1, RateAssumption, RateOfFaster
<1> HIDE DEF f, c, u
<1>4. Multiple(Pred[c] - Rate[c], Rate[f]) /\ Multiple(Corr[f], Rate[f])
  <2>1. Multiple(Pred[c], Rate[f])
    BY <1>2, <1>3, MultipleOfMultiple DEF WholeSteps
  <2> QED
    BY <1>2, <1>3, <2>1, MultipleDifference DEF WholeSteps
<1>5. /\ Pred[f] \in Int /\ Corr[f] \in Int /\ Pred[c] \in Int /\ Corr[c] \in Int /\ Corr[f] >= 0
      /\ Pred[c] = 0 \/ Pred[c] - Rate[c] < u
      /\ Pred[c] = Corr[c] \/ Pred[c] = Corr[c] + Rate[c]
      /\ Pred[f] = Corr[f] \/ Pred[f] = Corr[f] + Rate[f]
  BY <1>2 DEF WholeSteps, u
<1>6. Corr[c] <= Pred[f] \/ Pred[f] >= u
  BY <1>2 DEF InStep, u
<1>7. Pred[c] # Corr[c] => Corr[c] < Corr[f] + Rate[f]
  BY <1>2, <1>5 DEF InStep
<1>8. CASE Pred[c] - Rate[c] < Corr[f] + Rate[f]
  <2>1. Pred[c] - Rate[c] <= Corr[f]
    BY <1>3, <1>4, <1>8, NoMultipleBetween
  <2> QED
    BY <1>3, <1>5, <2>1 DEF f, c
<1>9. CASE Pred[c] = 0 \/ (Pred[c] = Corr[c] /\ Corr[c] <= Pred[f])
  BY <1>3, <1>5, <1>9 DEF f, c
<1> QED
  BY <1>3, <1>5, <1>6, <1>7, <1>8, <1>9 DEF u

----------------------------------------------------------------------------
(* The steps that messages carry *)

\* c has been reset for the current phase.
Active(c) == phase # "idle" /\ ~(phase = "reset" /\ c \in todo)

\* All steps told and known of a cluster of rate r are whole steps.
Whole(t, q, r) ==
    /\ Multiple(t.predictionsSinceLastSync, r) /\ Multiple(t.stepsSinceLastSync, r)
    /\ \A i \in 1..Len(q) : Multiple(q[i].stepsSinceSync, r)

\* A prediction follows the correction it starts from.
Alternates(t, q, r) ==
    \A i \in 1..Len(q) : q[i].kind = "prediction" =>
        IF i = 1 THEN t.stepsSinceLastSync = q[i].stepsSinceSync - r
        ELSE q[i - 1].kind = "correction" /\ q[i - 1].stepsSinceSync = q[i].stepsSinceSync - r

\* The last that was told is the correction to d.
Told(t, q, d) ==
    IF q = <<>> THEN t.stepsSinceLastSync = d
    ELSE q[Len(q)].kind = "correction" /\ q[Len(q)].stepsSinceSync = d

\* What c, at s, knows of its neighbour n, that has predicted p and corrected d:
\* n has been heard to predict all that c has corrected, and a faster c hears
\* of every correction.
StepsHeard(c, n, t, q, s, p, d) ==
    /\ Whole(t, q, Rate[n])
    /\ s <= t.predictionsSinceLastSync \/ EndOf(epoch, n) <= t.predictionsSinceLastSync
    /\ Rate[n] > Rate[c] => Alternates(t, q, Rate[n]) /\ (p = d => Told(t, q, d))

StepsOf(l) ==
    Active(l[1]) => StepsHeard(l[1], l[2], nct[l], inbox[l], Corr[l[1]], Pred[l[2]], Corr[l[2]])

StepsInv == \A l \in Links : StepsOf(l)

\* Elements of the rest of a queue.
LEMMA TailElements ==
    ASSUME NEW q \in Seq(Message), q # <<>>
    PROVE  /\ Tail(q) \in Seq(Message) /\ Len(Tail(q)) = Len(q) - 1 /\ Len(q) \in Nat \ {0}
           /\ Head(q) = q[1] /\ q[1] \in Message
           /\ \A i \in 1..Len(Tail(q)) : Tail(q)[i] = q[i + 1] /\ i + 1 \in 1..Len(q)
           /\ Tail(q) = <<>> <=> Len(q) = 1
<1>1. Len(q) \in Nat /\ Len(q) # 0 /\ q \in [1..Len(q) -> Message]
  OBVIOUS
<1>2. 1 \in 1..Len(q) /\ Head(q) = q[1]
  BY <1>1
<1>3. Tail(q) \in Seq(Message) /\ Len(Tail(q)) = Len(q) - 1
  OBVIOUS
<1>4. ASSUME NEW i \in 1..Len(Tail(q))
      PROVE  Tail(q)[i] = q[i + 1] /\ i + 1 \in 1..Len(q)
  BY <1>1, <1>3
<1>5. Tail(q) = <<>> <=> Len(q) = 1
  <2>1. Tail(q) = <<>> <=> Len(Tail(q)) = 0
    BY <1>3, EmptySeq
  <2> QED
    BY <1>1, <1>3, <2>1
<1> QED
  BY <1>1, <1>2, <1>3, <1>4, <1>5

\* Reading keeps what is known in whole steps and in turns.
LEMMA ReadSteps ==
    ASSUME NEW t \in ClusterTimes, NEW q \in Seq(Message), q # <<>>, NEW r
    PROVE  LET u == AfterMessage(t, Head(q))
           IN  /\ Whole(t, q, r) => Whole(u, Tail(q), r)
               /\ Alternates(t, q, r) => Alternates(u, Tail(q), r)
               /\ \A d : Told(t, q, d) => Told(u, Tail(q), d)
<1> DEFINE u == AfterMessage(t, Head(q))
           h == q[1]
<1>1. /\ Tail(q) \in Seq(Message) /\ Len(Tail(q)) = Len(q) - 1 /\ Len(q) \in Nat \ {0}
      /\ Head(q) = h /\ h \in Message
      /\ \A i \in 1..Len(Tail(q)) : Tail(q)[i] = q[i + 1] /\ i + 1 \in 1..Len(q)
      /\ Tail(q) = <<>> <=> Len(q) = 1
  BY TailElements
<1>2. /\ h.kind = "prediction" => /\ u.predictionsSinceLastSync = h.stepsSinceSync
                                  /\ u.stepsSinceLastSync = t.stepsSinceLastSync
      /\ h.kind = "correction" => /\ u.predictionsSinceLastSync = t.predictionsSinceLastSync
                                  /\ u.stepsSinceLastSync = h.stepsSinceSync
      /\ h.kind \in {"prediction", "correction"}
  BY <1>1 DEF AfterMessage, ClusterTimes, Message
<1> HIDE DEF u
<1>3. ASSUME Whole(t, q, r)
      PROVE  Whole(u, Tail(q), r)
  <2>1. Multiple(h.stepsSinceSync, r)
    BY <1>1, <1>3 DEF Whole
  <2> QED
    BY <1>1, <1>2, <1>3, <2>1 DEF Whole
<1>4. ASSUME Alternates(t, q, r), NEW i \in 1..Len(Tail(q)), Tail(q)[i].kind = "prediction"
      PROVE  IF i = 1 THEN u.stepsSinceLastSync = Tail(q)[i].stepsSinceSync - r
             ELSE /\ Tail(q)[i - 1].kind = "correction"
                  /\ Tail(q)[i - 1].stepsSinceSync = Tail(q)[i].stepsSinceSync - r
  <2>1. Tail(q)[i] = q[i + 1] /\ i + 1 \in 1..Len(q) /\ i + 1 # 1 /\ (i + 1) - 1 = i
    BY <1>1
  <2>2. q[i].kind = "correction" /\ q[i].stepsSinceSync = Tail(q)[i].stepsSinceSync - r
    BY <1>4, <2>1 DEF Alternates
  <2>3. CASE i = 1
    BY <1>2, <2>2, <2>3
  <2>4. CASE i # 1
    <3>1. i - 1 \in 1..Len(Tail(q)) /\ (i - 1) + 1 = i
      BY <1>1, <2>4
    <3>2. Tail(q)[i - 1] = q[i]
      BY <1>1, <3>1
    <3> QED
      BY <2>2, <2>4, <3>2
  <2> QED
    BY <2>3, <2>4
<1>5. ASSUME NEW d, Told(t, q, d)
      PROVE  Told(u, Tail(q), d)
  <2>1. q[Len(q)].kind = "correction" /\ q[Len(q)].stepsSinceSync = d
    BY <1>5 DEF Told
  <2>2. CASE Len(q) = 1
    BY <1>1, <1>2, <2>1, <2>2 DEF Told
  <2>3. CASE Len(q) # 1
    <3>1. Len(Tail(q)) \in 1..Len(Tail(q)) /\ Len(Tail(q)) + 1 = Len(q)
      BY <1>1, <2>3
    <3>2. Tail(q)[Len(Tail(q))] = q[Len(q)]
      BY <1>1, <3>1
    <3> QED
      BY <1>1, <2>1, <2>3, <3>2 DEF Told
  <2> QED
    BY <2>2, <2>3
<1> QED
  BY <1>3, <1>4, <1>5 DEF Alternates, u

\* Telling whole steps in turn keeps that.
LEMMA TellSteps ==
    ASSUME NEW t, NEW q \in Seq(Message), NEW m \in Message, NEW r \in Int
    PROVE  /\ Whole(t, q, r) /\ Multiple(m.stepsSinceSync, r) => Whole(t, Append(q, m), r)
           /\ Alternates(t, q, r) /\ m.kind = "correction"
                  => Alternates(t, Append(q, m), r) /\ Told(t, Append(q, m), m.stepsSinceSync)
           /\ \A d \in Int :
                  Alternates(t, q, r) /\ Told(t, q, d) /\ m.kind = "prediction"
                      /\ m.stepsSinceSync = d + r => Alternates(t, Append(q, m), r)
<1> DEFINE w == Append(q, m)
           n == Len(q)
<1>1. /\ w \in Seq(Message) /\ Len(w) = n + 1 /\ n \in Nat
      /\ \A i \in 1..n : w[i] = q[i]
      /\ w[n + 1] = m /\ w # <<>>
  BY AddLast
<1>2. n = 0 <=> q = <<>>
  OBVIOUS
<1> HIDE DEF w, n
<1>3. ASSUME Whole(t, q, r), Multiple(m.stepsSinceSync, r)
      PROVE  Whole(t, w, r)
  <2>1. ASSUME NEW i \in 1..(n + 1)
        PROVE  Multiple(w[i].stepsSinceSync, r)
    <3>1. CASE i = n + 1
      BY <1>1, <1>3, <3>1
    <3>2. CASE i \in 1..n
      BY <1>1, <1>3, <3>2 DEF Whole, n
    <3> QED
      BY <1>1, <3>1, <3>2
  <2> QED
    BY <1>1, <1>3, <2>1 DEF Whole
<1>4. ASSUME Alternates(t, q, r), NEW i \in 1..n, w[i].kind = "prediction"
      PROVE  IF i = 1 THEN t.stepsSinceLastSync = w[i].stepsSinceSync - r
             ELSE w[i - 1].kind = "correction" /\ w[i - 1].stepsSinceSync = w[i].stepsSinceSync - r
  <2>1. i # 1 => i - 1 \in 1..n
    BY <1>1
  <2> QED
    BY <1>1, <1>4, <2>1 DEF Alternates, n
<1>5. ASSUME Alternates(t, q, r), m.kind = "correction"
      PROVE  Alternates(t, w, r) /\ Told(t, w, m.stepsSinceSync)
  <2>1. ASSUME NEW i \in 1..(n + 1), w[i].kind = "prediction"
        PROVE  i \in 1..n
    <3>1. i # n + 1
      BY <1>1, <1>5, <2>1
    <3> QED
      BY <1>1, <3>1
  <2> QED
    BY <1>1, <1>4, <1>5, <2>1 DEF Alternates, Told
<1>6. ASSUME NEW d \in Int, Alternates(t, q, r), Told(t, q, d), m.stepsSinceSync = d + r
      PROVE  Alternates(t, w, r)
  <2>1. ASSUME n = 0
        PROVE  t.stepsSinceLastSync = w[1].stepsSinceSync - r
    BY <1>1, <1>2, <1>6, <2>1 DEF Told
  <2>2. ASSUME n # 0
        PROVE  /\ n + 1 # 1 /\ w[(n + 1) - 1].kind = "correction"
               /\ w[(n + 1) - 1].stepsSinceSync = w[n + 1].stepsSinceSync - r
    <3>1. q[n].kind = "correction" /\ q[n].stepsSinceSync = d
      BY <1>2, <1>6, <2>2 DEF Told, n
    <3>2. w[n] = q[n] /\ (n + 1) - 1 = n /\ n + 1 # 1
      BY <1>1, <2>2
    <3> QED
      BY <1>1, <1>6, <3>1, <3>2
  <2>3. ASSUME NEW i \in 1..(n + 1), w[i].kind = "prediction"
        PROVE  IF i = 1 THEN t.stepsSinceLastSync = w[i].stepsSinceSync - r
               ELSE w[i - 1].kind = "correction" /\ w[i - 1].stepsSinceSync = w[i].stepsSinceSync - r
    <3>1. CASE i \in 1..n
      BY <1>4, <1>6, <2>3, <3>1
    <3>2. CASE i = n + 1
      BY <1>1, <2>1, <2>2, <3>2
    <3> QED
      BY <1>1, <3>1, <3>2
  <2> QED
    BY <1>1, <2>3 DEF Alternates
<1> QED
  BY <1>3, <1>5, <1>6 DEF w

\* In the loop the shared counters are those of the clusters.
LEMMA CountersInLoop ==
    ASSUME phase # "idle", phase # "reset", NEW c \in Clusters
    PROVE  /\ Pred[c] = ct[c].predictionsSinceLastSync /\ Corr[c] = ct[c].stepsSinceLastSync
           /\ Active(c)
BY DEF Pred, Corr, Counter, Active

\* Cluster c reads what its neighbours have told.
LEMMA ReadStepsOf ==
    ASSUME ActorTypeOK, NEW c \in Clusters, NEW m, NEW to,
           ProcessAndSend(c, Waiting(c), m, to), NEW l \in Links, l[1] = c,
           RunningLink(l), ct'[l[2]] = ct[l[2]], UNCHANGED epoch, EndOf(epoch, l[2]) \in Int,
           NEW s \in Int, NEW p, NEW d, StepsHeard(c, l[2], nct[l], inbox[l], s, p, d)
    PROVE  StepsHeard(c, l[2], nct'[l], inbox'[l], s, p, d)
<1>1. nct[l] \in ClusterTimes /\ inbox[l] \in Seq(Message) /\ nct'[l] \in ClusterTimes
  BY LinkTypes, LinksAfter, LinkIsRead
<1>2. nct'[l].predictionsSinceLastSync >= nct[l].predictionsSinceLastSync
  <2> DEFINE b == ct[l[2]].predictionsSinceLastSync
             a == ct[l[2]].stepsSinceLastSync
  <2>1. Running(epoch, l[2], b, a, nct[l], inbox[l]) /\ a \in Int /\ b \in Int
    BY LinkTypes DEF RunningLink
  <2> HIDE DEF a, b
  <2> QED
    BY <2>1, ReadLink
<1>3. nct[l].predictionsSinceLastSync \in Int /\ nct'[l].predictionsSinceLastSync \in Int
  BY <1>1 DEF ClusterTimes
<1>4. CASE inbox[l] = <<>>
  <2>1. nct'[l] = nct[l] /\ inbox'[l] = inbox[l]
    BY <1>4, LinksAfter, LinkIsRead
  <2> QED
    BY <2>1
<1>5. CASE inbox[l] # <<>>
  <2>1. nct'[l] = AfterMessage(nct[l], Head(inbox[l])) /\ inbox'[l] = Tail(inbox[l])
    BY <1>5, HeadIsRead
  <2> DEFINE t == nct'[l]
             q == inbox'[l]
             r == Rate[l[2]]
  <2>2. /\ Whole(nct[l], inbox[l], r) => Whole(t, q, r)
        /\ Alternates(nct[l], inbox[l], r) => Alternates(t, q, r)
        /\ \A x : Told(nct[l], inbox[l], x) => Told(t, q, x)
    BY <1>1, <1>5, <2>1, ReadSteps
  <2>3. s <= t.predictionsSinceLastSync \/ EndOf(epoch, l[2]) <= t.predictionsSinceLastSync
    BY <1>2, <1>3 DEF StepsHeard
  <2> QED
    BY <2>2, <2>3 DEF StepsHeard
<1> QED
  BY <1>4, <1>5

\* Poll, Sync and RestartAfterSync only read.
LEMMA QuietStepsInv ==
    ASSUME ExactArithmetic, MessageInv, StepsInv, NEW c \in Clusters,
           ProcessAndSend(c, Waiting(c), <<>>, {}), UNCHANGED <<ct, epoch>>,
           phase \in {"restart", "loop"}, phase' \in {"restart", "loop"}
    PROVE  StepsInv'
<1> SUFFICES ASSUME NEW l \in Links
             PROVE  StepsHeard(l[1], l[2], nct'[l], inbox'[l], Corr[l[1]], Pred[l[2]], Corr[l[2]])
  <2>1. Pred' = Pred /\ Corr' = Corr
    BY DEF Pred, Corr, Counter
  <2>2. \A n : EndOf(epoch, n)' = EndOf(epoch, n)
    BY DEF EndOf, StepsUntil, PhaseStart
  <2> QED
    BY <2>1, <2>2 DEF StepsInv, StepsOf, StepsHeard
<1>1. ActorTypeOK /\ TypeOK /\ l[1] \in Clusters /\ l[2] \in Clusters
  BY LinkTypes DEF MessageInv, TypeOK
<1>2. Active(l[1]) /\ Corr[l[1]] \in Int
  BY <1>1, CountersInLoop, LinkTypes
<1>3. StepsHeard(l[1], l[2], nct[l], inbox[l], Corr[l[1]], Pred[l[2]], Corr[l[2]])
  BY <1>2 DEF StepsInv, StepsOf
<1>4. RunningLink(l) /\ EndOf(epoch, l[2]) \in Int
  BY <1>1, EndOfFacts, InAPhase DEF MessageInv, LinkInv, LinkOf, LinkAt, RunningLink
<1>5. CASE l[1] = c
  BY <1>1, <1>2, <1>3, <1>4, <1>5, ReadStepsOf
<1>6. CASE l[1] # c
  <2>1. nct'[l] = nct[l] /\ inbox'[l] = inbox[l]
    BY <1>1, <1>6, LinksAfter
  <2> QED
    BY <1>3, <2>1
<1> QED
  BY <1>5, <1>6

\* What a prediction of c does to the counters.
LEMMA PredictCounters ==
    ASSUME ExactArithmetic, SameUnitStep, MessageInv, Rules, NEW c \in Clusters, PredictCluster(c)
    PROVE  /\ Pred[c] = Corr[c] /\ Corr[c] < EndOf(epoch, c) /\ EndOf(epoch, c) \in Int
           /\ Pred'[c] = Pred[c] + Rate[c]
           /\ \A k \in Clusters \ {c} : Pred'[k] = Pred[k]
           /\ \A k \in Clusters : Corr'[k] = Corr[k]
<1>1. phase = "loop" /\ Predict(c, Waiting(c)) /\ UNCHANGED managerVars
  BY DEF PredictCluster
<1>2. TypeOK /\ LinkInv /\ InPhase(c)
  BY <1>1 DEF MessageInv, ClockInv, ClockOf
<1>3. LTS!PredictStep(c)
  BY <1>1, <1>2, PredictSimulates
<1>4. LTS!Until = EndOf(epoch, c) /\ EndOf(epoch, c) \in Int
  BY <1>1, <1>2, UntilOfPhase, EndOfFacts, InAPhase
<1>5. Corr[c] \in Int
  BY DEF Rules, WholeSteps
<1>6. /\ Pred[c] = Corr[c] /\ ~(Corr[c] >= LTS!Until)
      /\ Pred' = [Pred EXCEPT ![c] = @ + Rate[c]] /\ Corr' = Corr
  BY <1>3 DEF LTS!PredictStep, LTS!Done, Pred, Corr
<1>7. Pred'[c] = Pred[c] + Rate[c] /\ \A k \in Clusters \ {c} : Pred'[k] = Pred[k]
  BY <1>6 DEF Pred
<1>8. Pred[c] = Corr[c] /\ Corr[c] < EndOf(epoch, c) /\ \A k \in Clusters : Corr'[k] = Corr[k]
  BY <1>4, <1>5, <1>6
<1> QED
  BY <1>4, <1>7, <1>8

\* What a correction of c does to the counters.
LEMMA CorrectCounters ==
    ASSUME ExactArithmetic, SameUnitStep, MessageInv, Rules, NEW c \in Clusters, CorrectCluster(c)
    PROVE  /\ Pred[c] = Corr[c] + Rate[c] /\ Corr[c] < EndOf(epoch, c) /\ EndOf(epoch, c) \in Int
           /\ \A n \in Neighbors(c) : Pred[n] >= EndOf(epoch, c) \/ Pred[c] <= Pred[n]
           /\ Corr'[c] = Pred[c]
           /\ \A k \in Clusters \ {c} : Corr'[k] = Corr[k]
           /\ \A k \in Clusters : Pred'[k] = Pred[k]
<1>1. phase = "loop" /\ Correct(c, Waiting(c)) /\ UNCHANGED managerVars
  BY DEF CorrectCluster
<1>2. TypeOK /\ LinkInv /\ InPhase(c)
  BY <1>1 DEF MessageInv, ClockInv, ClockOf
<1>3. LTS!CorrectStep(c)
  BY <1>1, <1>2, CorrectSimulates
<1>4. LTS!Until = EndOf(epoch, c) /\ EndOf(epoch, c) \in Int
  BY <1>1, <1>2, UntilOfPhase, EndOfFacts, InAPhase
<1>5. /\ Pred[c] \in Int /\ Corr[c] \in Int /\ Corr[c] >= 0 /\ Rate[c] \in Nat \ {0}
      /\ Pred[c] = Corr[c] \/ Pred[c] = Corr[c] + Rate[c]
      /\ Pred[c] = 0 \/ Pred[c] - Rate[c] < LTS!Until
  BY RateAssumption DEF Rules, WholeSteps
<1>6. /\ Pred[c] # Corr[c] /\ Corr' = [Corr EXCEPT ![c] = @ + Rate[c]] /\ Pred' = Pred
      /\ \A n \in Clusters : <<c, n>> \in Links => Pred[n] >= LTS!Until \/ Pred[c] <= Pred[n]
  BY <1>3 DEF LTS!CorrectStep, LTS!MayCorrectNow, LTS!Near, Pred, Corr
<1>7. Pred[c] = Corr[c] + Rate[c] /\ Corr[c] < EndOf(epoch, c)
  BY <1>4, <1>5, <1>6
<1> QED
  BY <1>4, <1>6, <1>7 DEF Neighbors, Corr

\* What c tells keeps the steps of its links in turn.
LEMMA PredictStepsInv ==
    ASSUME ExactArithmetic, SameUnitStep, MessageInv, Rules, Rules', StepsInv,
           NEW c \in Clusters, PredictCluster(c)
    PROVE  StepsInv'
<1>1. /\ phase = "loop" /\ phase' = "loop" /\ epoch' = epoch /\ Predict(c, Waiting(c))
  BY DEF PredictCluster, managerVars
<1>2. ActorTypeOK /\ TypeOK
  BY DEF MessageInv, TypeOK
<1> DEFINE new == [ct[c] EXCEPT !.predictionsSinceLastSync = @ + Rate[c],
                                !.predictionTime = Plus(@, TimeStepSize(c))]
           m == [kind |-> "prediction", time |-> new.predictionTime,
                 stepsSinceSync |-> new.predictionsSinceLastSync]
           to == {n \in Neighbors(c) : TellPrediction(new, Mirror(c, Waiting(c)), n)}
<1>3. ct' = [ct EXCEPT ![c] = new] /\ ProcessAndSend(c, Waiting(c), m, to)
  BY <1>1 DEF Predict
<1>4. ct \in [Clusters -> ClusterTimes]
  BY <1>2 DEF ActorTypeOK
<1>5. /\ Pred[c] = Corr[c] /\ Pred'[c] = Pred[c] + Rate[c] /\ Pred[c] \in Int /\ Rate[c] \in Nat \ {0}
      /\ \A k \in Clusters \ {c} : Pred'[k] = Pred[k]
      /\ \A k \in Clusters : Corr'[k] = Corr[k] /\ Corr[k] \in Int
      /\ Multiple(Pred'[c], Rate[c])
  BY PredictCounters, RateAssumption DEF Rules, WholeSteps
<1>6. new.predictionsSinceLastSync = Pred'[c] /\ new \in ClusterTimes
  <2>1. Pred[c] = ct[c].predictionsSinceLastSync
    BY <1>1, CountersInLoop
  <2>2. TimeStepSize(c) \in Time /\ ct[c] \in ClusterTimes
    BY <1>2, <1>4, TimeStepSizeType
  <2>3. Plus(ct[c].predictionTime, TimeStepSize(c)) \in Time
    BY <2>2, PlusMinusType DEF ClusterTimes
  <2>4. ct[c].predictionsSinceLastSync + Rate[c] = Pred'[c] /\ Pred'[c] \in Int
    BY <1>5, <2>1
  <2> QED
    BY <2>2, <2>3, <2>4 DEF ClusterTimes
<1>7. /\ m \in Message /\ m.kind = "prediction" /\ m.stepsSinceSync = Corr[c] + Rate[c]
      /\ Multiple(m.stepsSinceSync, Rate[c])
  BY <1>5, <1>6 DEF Message, ClusterTimes
<1>8. \A n : EndOf(epoch, n)' = EndOf(epoch, n)
  BY <1>1 DEF EndOf, StepsUntil, PhaseStart
<1> HIDE DEF new, m, to
<1> SUFFICES ASSUME NEW l \in Links
             PROVE  StepsHeard(l[1], l[2], nct'[l], inbox'[l], Corr'[l[1]], Pred'[l[2]], Corr'[l[2]])
  BY <1>8 DEF StepsInv, StepsOf, StepsHeard
<1>9. l[1] \in Clusters /\ l[2] \in Clusters /\ l[1] # l[2]
  BY LinkPair
<1>10. Active(l[1]) /\ Corr[l[1]] \in Int
  BY <1>1, <1>5, <1>9, CountersInLoop
<1>11. StepsHeard(l[1], l[2], nct[l], inbox[l], Corr[l[1]], Pred[l[2]], Corr[l[2]])
  BY <1>10 DEF StepsInv, StepsOf
<1>12. RunningLink(l) /\ EndOf(epoch, l[2]) \in Int
  BY <1>1, <1>2, <1>9, EndOfFacts, InAPhase DEF MessageInv, LinkInv, LinkOf, LinkAt, RunningLink
<1>13. CASE l[1] = c
  <2>1. ct'[l[2]] = ct[l[2]]
    BY <1>3, <1>4, <1>9, <1>13
  <2>2. StepsHeard(c, l[2], nct'[l], inbox'[l], Corr[l[1]], Pred[l[2]], Corr[l[2]])
    BY <1>1, <1>2, <1>3, <1>10, <1>11, <1>12, <1>13, <2>1, ReadStepsOf
  <2> QED
    BY <1>5, <1>9, <1>13, <2>2
<1>14. CASE l[2] = c
  <2>1. /\ nct'[l] = nct[l]
        /\ inbox'[l] = inbox[l] \/ inbox'[l] = Append(inbox[l], m)
        /\ inbox[l] \in Seq(Message)
    BY <1>2, <1>3, <1>9, <1>14, LinksAfter, LinkTypes
  <2>2. CASE inbox'[l] = inbox[l]
    BY <1>5, <1>9, <1>11, <1>14, <2>1, <2>2 DEF StepsHeard
  <2>3. CASE inbox'[l] = Append(inbox[l], m)
    <3>1. Whole(nct[l], inbox[l], Rate[c]) => Whole(nct[l], inbox'[l], Rate[c])
      <4>1. Rate[c] \in Int
        BY <1>5
      <4> QED
        BY <1>7, <2>1, <2>3, <4>1, TellSteps
    <3>2. Alternates(nct[l], inbox[l], Rate[c]) /\ Told(nct[l], inbox[l], Corr[c])
              => Alternates(nct[l], inbox'[l], Rate[c])
      <4>1. Rate[c] \in Int /\ Corr[c] \in Int
        BY <1>5
      <4>2. \A d \in Int :
                Alternates(nct[l], inbox[l], Rate[c]) /\ Told(nct[l], inbox[l], d)
                    /\ m.kind = "prediction" /\ m.stepsSinceSync = d + Rate[c]
                    => Alternates(nct[l], Append(inbox[l], m), Rate[c])
        BY <1>7, <2>1, <4>1, TellSteps
      <4> QED
        BY <1>7, <2>3, <4>1, <4>2
    <3> QED
      BY <1>5, <1>9, <1>11, <1>14, <2>1, <3>1, <3>2 DEF StepsHeard
  <2> QED
    BY <2>1, <2>2, <2>3
<1>15. CASE l[1] # c /\ l[2] # c
  <2>1. nct'[l] = nct[l] /\ inbox'[l] = inbox[l]
    BY <1>2, <1>3, <1>15, LinksAfter
  <2> QED
    BY <1>5, <1>9, <1>11, <1>15, <2>1
<1> QED
  BY <1>13, <1>14, <1>15

\* A faster neighbour is told of every correction.
LEMMA CorrectStepsInv ==
    ASSUME ExactArithmetic, SameUnitStep, NeighborRates, MessageInv, MessageInv', Rules, Rules',
           StepsInv, NEW c \in Clusters, CorrectCluster(c)
    PROVE  StepsInv'
<1>1. /\ phase = "loop" /\ phase' = "loop" /\ epoch' = epoch /\ Correct(c, Waiting(c))
  BY DEF CorrectCluster, managerVars
<1>2. ActorTypeOK /\ TypeOK
  BY DEF MessageInv, TypeOK
<1> DEFINE new == [ct[c] EXCEPT !.correctionTime = Plus(@, TimeStepSize(c)),
                                !.stepsSinceLastSync = @ + Rate[c],
                                !.stepsSinceStart = @ + Rate[c]]
           m == [kind |-> "correction", time |-> new.correctionTime,
                 stepsSinceSync |-> new.stepsSinceLastSync]
           to == {n \in Neighbors(c) : TellCorrection(new, Mirror(c, Waiting(c)), n)}
<1>3. /\ ct' = [ct EXCEPT ![c] = new] /\ ProcessAndSend(c, Waiting(c), m, to)
      /\ MayCorrect(ct[c], Mirror(c, Waiting(c)))
  BY <1>1 DEF Correct
<1>4. ct \in [Clusters -> ClusterTimes]
  BY <1>2 DEF ActorTypeOK
<1>5. /\ Pred[c] = Corr[c] + Rate[c] /\ Corr'[c] = Pred[c] /\ Rate[c] \in Nat \ {0}
      /\ \A k \in Clusters \ {c} : Corr'[k] = Corr[k]
      /\ \A k \in Clusters : Pred'[k] = Pred[k] /\ Corr[k] \in Int /\ Pred[k] \in Int
      /\ Multiple(Corr'[c], Rate[c])
  BY CorrectCounters, RateAssumption DEF Rules, WholeSteps
<1>6. new.stepsSinceLastSync = Corr'[c] /\ new \in ClusterTimes
  <2>1. Corr[c] = ct[c].stepsSinceLastSync
    BY <1>1, CountersInLoop
  <2>2. TimeStepSize(c) \in Time /\ ct[c] \in ClusterTimes
    BY <1>2, <1>4, TimeStepSizeType
  <2>3. Plus(ct[c].correctionTime, TimeStepSize(c)) \in Time
    BY <2>2, PlusMinusType DEF ClusterTimes
  <2>4. /\ ct[c].stepsSinceLastSync + Rate[c] = Corr'[c] /\ Corr'[c] \in Int
        /\ ct[c].stepsSinceStart + Rate[c] \in Int
    BY <1>5, <2>1, <2>2 DEF ClusterTimes
  <2> QED
    BY <2>2, <2>3, <2>4 DEF ClusterTimes
<1>7. /\ m \in Message /\ m.kind = "correction" /\ m.stepsSinceSync = Corr'[c]
      /\ Multiple(m.stepsSinceSync, Rate[c])
  BY <1>5, <1>6 DEF Message, ClusterTimes
<1>8. \A n : EndOf(epoch, n)' = EndOf(epoch, n)
  BY <1>1 DEF EndOf, StepsUntil, PhaseStart
<1> HIDE DEF m, to
<1> SUFFICES ASSUME NEW l \in Links
             PROVE  StepsHeard(l[1], l[2], nct'[l], inbox'[l], Corr'[l[1]], Pred'[l[2]], Corr'[l[2]])
  BY <1>8 DEF StepsInv, StepsOf, StepsHeard
<1>9. l[1] \in Clusters /\ l[2] \in Clusters /\ l[1] # l[2]
  BY LinkPair
<1>10. Active(l[1]) /\ Corr[l[1]] \in Int
  BY <1>1, <1>5, <1>9, CountersInLoop
<1>11. StepsHeard(l[1], l[2], nct[l], inbox[l], Corr[l[1]], Pred[l[2]], Corr[l[2]])
  BY <1>10 DEF StepsInv, StepsOf
<1>12. RunningLink(l) /\ EndOf(epoch, l[2]) \in Int
  BY <1>1, <1>2, <1>9, EndOfFacts, InAPhase DEF MessageInv, LinkInv, LinkOf, LinkAt, RunningLink
<1>13. CASE l[1] = c
  <2>1. ct'[l[2]] = ct[l[2]]
    BY <1>3, <1>4, <1>9, <1>13
  <2>2. StepsHeard(c, l[2], nct'[l], inbox'[l], Corr[l[1]], Pred[l[2]], Corr[l[2]])
    BY <1>1, <1>2, <1>3, <1>10, <1>11, <1>12, <1>13, <2>1, ReadStepsOf
  <2>3. \/ Corr'[c] <= nct'[l].predictionsSinceLastSync
        \/ EndOf(epoch, l[2]) <= nct'[l].predictionsSinceLastSync
    <3>1. nct'[l] = Mirror(c, Waiting(c))[l[2]] /\ l[2] \in Neighbors(c)
      BY <1>2, <1>3, <1>13, LinksAfter, LinkPair
    <3>2. DOMAIN Mirror(c, Waiting(c)) = Neighbors(c)
      BY DEF Mirror
    <3>3. \/ nct'[l].stepsUntilSync <= nct'[l].predictionsSinceLastSync
          \/ ct[c].predictionsSinceLastSync <= nct'[l].predictionsSinceLastSync
      BY <1>3, <3>1, <3>2 DEF MayCorrect
    <3>4. nct'[l].stepsUntilSync = EndOf(epoch, l[2])
      <4>1. RunningLink(l)'
        BY <1>1 DEF MessageInv, LinkInv, LinkOf, LinkAt, RunningLink
      <4> QED
        BY <1>8, <4>1 DEF RunningLink, Running, MirrorOf
    <3>5. ct[c].predictionsSinceLastSync = Corr'[c]
      BY <1>1, <1>5, CountersInLoop
    <3> QED
      BY <3>3, <3>4, <3>5
  <2> QED
    BY <1>5, <1>9, <1>13, <2>2, <2>3 DEF StepsHeard
<1>14. CASE l[2] = c
  <2>1. nct'[l] = nct[l] /\ inbox[l] \in Seq(Message)
    BY <1>2, <1>3, <1>9, <1>14, LinksAfter, LinkTypes
  <2>2. CASE l[1] \in to
    <3>1. inbox'[l] = Append(inbox[l], m)
      BY <1>2, <1>3, <1>14, <2>2, LinksAfter
    <3>2. /\ Whole(nct[l], inbox[l], Rate[c]) => Whole(nct[l], inbox'[l], Rate[c])
          /\ Alternates(nct[l], inbox[l], Rate[c])
                 => Alternates(nct[l], inbox'[l], Rate[c]) /\ Told(nct[l], inbox'[l], Corr'[c])
      <4>1. Rate[c] \in Int
        BY <1>5
      <4> QED
        BY <1>7, <2>1, <3>1, <4>1, TellSteps
    <3> QED
      BY <1>5, <1>9, <1>11, <1>14, <2>1, <3>2 DEF StepsHeard
  <2>3. CASE l[1] \notin to
    <3>1. inbox'[l] = inbox[l]
      BY <1>2, <1>3, <1>9, <1>14, <2>3, LinksAfter
    <3>2. ASSUME Rate[l[2]] > Rate[l[1]]
          PROVE  FALSE
      <4> DEFINE k == <<c, l[1]>>
      <4>1. k \in Links /\ k[1] = c /\ k[2] = l[1] /\ l[1] \in Neighbors(c)
        BY <1>9, <1>14, LinksAssumption, LinkPair DEF Neighbors
      <4>2. nct'[k] = Mirror(c, Waiting(c))[l[1]]
        BY <1>2, <1>3, <4>1, LinksAfter
      <4>3. ~(new.stepsSinceLastSync >= nct'[k].predictionsSinceLastSync)
        BY <2>3, <4>1, <4>2 DEF to, TellCorrection
      <4>4. nct'[k].predictionsSinceLastSync <= Pred'[l[1]] /\ nct'[k].predictionsSinceLastSync \in Int
        <5>1. RunningLink(k)' /\ ActorTypeOK'
          BY <1>1, <4>1 DEF MessageInv, LinkInv, LinkOf, LinkAt, RunningLink, TypeOK
        <5>2. /\ nct'[k].predictionsSinceLastSync <= ct'[l[1]].predictionsSinceLastSync
              /\ nct'[k].predictionsSinceLastSync \in Int
          <6> HIDE DEF k
          <6>1. /\ nct'[k] \in ClusterTimes
                /\ nct'[k].predictionsSinceLastSync \in 0..ct'[l[1]].predictionsSinceLastSync
            BY <1>2, <1>3, <4>1, <5>1, LinksAfter, LinkIsRead DEF RunningLink, Running, MirrorOf, Reported
          <6>2. ct'[l[1]].predictionsSinceLastSync \in Int
            BY <1>9, <5>1 DEF ActorTypeOK, ClusterTimes
          <6> QED
            BY <6>1, <6>2
        <5>3. Pred'[l[1]] = ct'[l[1]].predictionsSinceLastSync
          BY <1>1, <1>9 DEF Pred, Counter
        <5> QED
          BY <5>2, <5>3
      <4>5. Pred[l[1]] <= Pred[c]
        <5>1. LTS!Until \in Int /\ Rate[l[1]] \in Nat /\ Rate[l[2]] \in Nat
          <6>1. LTS!Until = EndOf(epoch, c) /\ EndOf(epoch, c) \in Nat
            BY <1>1, <1>2, UntilOfPhase, EndOfFacts, InAPhase DEF MessageInv
          <6> QED
            BY <1>9, <6>1, RateAssumption
        <5>2. Pred[l[2]] # Corr[l[2]]
          BY <1>5, <1>14
        <5> QED
          BY <1>14, <3>2, <5>1, <5>2, FasterNotAhead
      <4> QED
        BY <1>5, <1>6, <1>9, <4>3, <4>4, <4>5
    <3>3. ~(Rate[c] > Rate[l[1]]) /\ Corr'[l[1]] = Corr[l[1]]
      BY <1>5, <1>9, <1>14, <3>2
    <3> QED
      BY <1>11, <1>14, <2>1, <3>1, <3>3 DEF StepsHeard
  <2> QED
    BY <2>2, <2>3
<1>15. CASE l[1] # c /\ l[2] # c
  <2>1. nct'[l] = nct[l] /\ inbox'[l] = inbox[l]
    BY <1>2, <1>3, <1>15, LinksAfter
  <2> QED
    BY <1>5, <1>9, <1>11, <1>15, <2>1
<1> QED
  BY <1>13, <1>14, <1>15

\* A reset leaves links on which nothing has been told.
LEMMA ResetStepsInv ==
    ASSUME ExactArithmetic, MessageInv, StepsInv, NEW c \in Clusters, ResetCluster(c)
    PROVE  StepsInv'
<1>1. /\ phase = "reset" /\ c \in todo /\ epoch' = epoch
      /\ \/ phase' = "restart" /\ todo = {c}
         \/ phase' = "reset" /\ todo' = todo \ {c}
      /\ \A l \in Links : l[1] # c => nct'[l] = nct[l] /\ inbox'[l] = inbox[l]
  BY DEF ResetCluster, SetSyncTimeAndReset, LoopStep, MessageInv, TypeOK, ActorTypeOK
<1>2. \A k \in Clusters : Pred'[k] = Pred[k] /\ Corr'[k] = Corr[k] /\ Corr[k] = 0
  <2>1. UNCHANGED LTS!ltsVars
    BY ResetSimulates DEF MessageInv
  <2>2. \A k \in Clusters : k \notin todo => ct[k].stepsSinceLastSync = 0
    BY <1>1 DEF MessageInv, PhaseInv, PhaseOf
  <2> QED
    BY <1>1, <2>1, <2>2 DEF LTS!ltsVars, Pred, Corr, Counter
<1>3. \A n : EndOf(epoch, n)' = EndOf(epoch, n)
  BY <1>1 DEF EndOf, StepsUntil, PhaseStart
<1> SUFFICES ASSUME NEW l \in Links, Active(l[1])'
             PROVE  StepsHeard(l[1], l[2], nct'[l], inbox'[l], Corr'[l[1]], Pred'[l[2]], Corr'[l[2]])
  BY <1>3 DEF StepsInv, StepsOf, StepsHeard
<1>4. l[1] \in Clusters /\ l[2] \in Clusters
  BY LinkPair
<1>5. CASE l[1] = c
  <2>1. Fresh(epoch, l[2], nct'[l], inbox'[l])
    BY <1>1, <1>5, LinkIsReset
  <2>2. /\ inbox'[l] = <<>> /\ nct'[l].predictionsSinceLastSync = 0
        /\ nct'[l].stepsSinceLastSync = 0 /\ Corr'[l[1]] = 0 /\ Corr'[l[2]] = 0
    BY <1>2, <1>4, <2>1 DEF Fresh
  <2>3. Rate[l[2]] \in Int /\ 1..Len(<<>>) = {}
    BY <1>4, RateAssumption
  <2>4. Multiple(0, Rate[l[2]])
    BY <2>3, ZeroIsMultiple
  <2> QED
    BY <2>2, <2>3, <2>4 DEF StepsHeard, Whole, Alternates, Told
<1>6. CASE l[1] # c
  <2>1. Active(l[1])
    BY <1>1, <1>6 DEF Active
  <2> QED
    BY <1>1, <1>2, <1>4, <1>6, <2>1 DEF StepsInv, StepsOf
<1> QED
  BY <1>5, <1>6

\* Every step keeps what is heard in steps.
LEMMA NextStepsInv ==
    ASSUME ExactArithmetic, SameUnitStep, NeighborRates, MessageInv, MessageInv', Rules, Rules',
           StepsInv, [Next]_vars
    PROVE  StepsInv'
<1>1. CASE AdvanceInTime
  <2>1. phase' = "reset" /\ todo' = Clusters
    BY <1>1 DEF AdvanceInTime
  <2> QED
    BY <2>1, LinkPair DEF StepsInv, StepsOf, Active
<1>2. CASE Finish
  BY <1>2 DEF Finish, StepsInv, StepsOf, Active
<1>3. CASE UNCHANGED vars
  <2>1. UNCHANGED <<ct, nct, inbox, phase, epoch, todo>>
    BY <1>3 DEF vars, actorVars, managerVars
  <2>2. Pred' = Pred /\ Corr' = Corr /\ \A n : EndOf(epoch, n)' = EndOf(epoch, n)
    BY <2>1 DEF Pred, Corr, Counter, EndOf, StepsUntil, PhaseStart
  <2> QED
    BY <2>1, <2>2 DEF StepsInv, StepsOf, StepsHeard, Active
<1>4. ASSUME NEW c \in Clusters, Step(c)
      PROVE  StepsInv'
  <2>1. CASE RestartCluster(c)
    <3>1. /\ ProcessAndSend(c, Waiting(c), <<>>, {}) /\ UNCHANGED <<ct, epoch>>
          /\ phase \in {"restart", "loop"} /\ phase' \in {"restart", "loop"}
      BY <2>1 DEF RestartCluster, RestartAfterSync, LoopStep
    <3> QED
      BY <3>1, QuietStepsInv
  <2>2. CASE PollCluster(c)
    <3>1. /\ ProcessAndSend(c, Waiting(c), <<>>, {}) /\ UNCHANGED <<ct, epoch>>
          /\ phase \in {"restart", "loop"} /\ phase' \in {"restart", "loop"}
      BY <2>2 DEF PollCluster, Poll, managerVars
    <3> QED
      BY <3>1, QuietStepsInv
  <2>3. CASE SyncCluster(c)
    <3>1. /\ ProcessAndSend(c, Waiting(c), <<>>, {}) /\ UNCHANGED <<ct, epoch>>
          /\ phase \in {"restart", "loop"} /\ phase' \in {"restart", "loop"}
      BY <2>3 DEF SyncCluster, Sync, managerVars
    <3> QED
      BY <3>1, QuietStepsInv
  <2> QED
    BY <1>4, <2>1, <2>2, <2>3, ResetStepsInv, PredictStepsInv, CorrectStepsInv DEF Step
<1> QED
  BY <1>1, <1>2, <1>3, <1>4 DEF Next, Over

----------------------------------------------------------------------------
(* The data of the predictions *)

\* d is the last of the steps up to p.
Predictor(c, d, p) == OnGrid(epoch, c, d.from, p - Rate[c]) /\ OnGrid(epoch, c, d.to, p)

\* b holds the steps up to p from where the slower neighbours' step begins.
Buffered(c, b, p) ==
    \E f \in Int :
        /\ OnGrid(epoch, c, b.from, f) /\ OnGrid(epoch, c, b.to, p)
        /\ \A n \in Slower(c) : Multiple(f, Rate[n]) /\ f < p /\ p <= f + Rate[n]

Intervals == [from : Int, to : Int]

\* What every cluster has predicted in this phase is what its neighbours need.
PredictionInv ==
    /\ derivative \in [Clusters -> Intervals] /\ buffer \in [Clusters -> Intervals]
    /\ phase # "idle" => \A c \in Clusters : Pred[c] # 0 => /\ Predictor(c, derivative[c], Pred[c])
                                                           /\ Buffered(c, buffer[c], Pred[c])

\* Nothing but a prediction changes that data.
LEMMA PredictionsKept ==
    ASSUME ClusterNext, \A c \in Clusters : ~PredictCluster(c)
    PROVE  UNCHANGED <<derivative, buffer>>
BY DEF ClusterNext, ClusterStep, dataVars, ResetData, CorrectData, KeepData

\* Nor does anything else predict, but a new phase begins with nothing predicted.
LEMMA CountersKept ==
    ASSUME TypeOK, ClusterNext, \A c \in Clusters : ~PredictCluster(c), NEW k \in Clusters
    PROVE  phase' = "idle" \/ Pred'[k] = 0 \/ (phase # "idle" /\ epoch' = epoch /\ Pred'[k] = Pred[k])
<1>1. ct \in [Clusters -> ClusterTimes]
  BY DEF TypeOK, ActorTypeOK
<1>2. CASE AdvanceInTime
  BY <1>2 DEF AdvanceInTime, Pred, Counter
<1>3. CASE Finish \/ Over
  BY <1>3 DEF Finish, Over, vars, managerVars
<1>4. ASSUME NEW c \in Clusters, ResetCluster(c)
      PROVE  phase # "idle" /\ epoch' = epoch /\ Pred'[k] = Pred[k]
  <2>1. UNCHANGED LTS!ltsVars
    BY <1>4, ResetSimulates
  <2>2. phase # "idle" /\ epoch' = epoch
    BY <1>4 DEF ResetCluster, LoopStep
  <2> QED
    BY <2>1, <2>2 DEF LTS!ltsVars, Pred
<1>5. ASSUME NEW c \in Clusters, CorrectCluster(c)
      PROVE  phase # "idle" /\ epoch' = epoch /\ Pred'[k] = Pred[k]
  <2>1. ct'[k].predictionsSinceLastSync = ct[k].predictionsSinceLastSync
    BY <1>1, <1>5 DEF CorrectCluster, Correct, ClusterTimes
  <2> QED
    BY <1>5, <2>1 DEF CorrectCluster, managerVars, Pred, Counter
<1>6. ASSUME NEW c \in Clusters, RestartCluster(c) \/ PollCluster(c) \/ SyncCluster(c)
      PROVE  phase # "idle" /\ epoch' = epoch /\ Pred'[k] = Pred[k]
  <2>1. /\ phase \in {"restart", "loop"} /\ phase' \in {"restart", "loop"}
        /\ ct' = ct /\ epoch' = epoch
    BY <1>6 DEF RestartCluster, RestartAfterSync, PollCluster, Poll, SyncCluster, Sync, LoopStep,
                managerVars
  <2> QED
    BY <2>1 DEF Pred, Counter
<1> QED
  BY <1>2, <1>3, <1>4, <1>5, <1>6 DEF ClusterNext, ClusterStep

\* The times of a step in the loop.
LEMMA StepTimes ==
    ASSUME ExactArithmetic, MessageInv, phase = "loop", NEW c \in Clusters
    PROVE  LET from == ct[c].correctionTime
               to   == Plus(from, TimeStepSize(c))
           IN  /\ from \in Int /\ to \in Int /\ to = from + TimeStepSize(c)
               /\ TimeStepSize(c) \in Int /\ syncTime[c] = SyncTimes[epoch]
               /\ OnGrid(epoch, c, from, Corr[c]) /\ OnGrid(epoch, c, to, Corr[c] + Rate[c])
<1>1. TypeOK /\ ActorTypeOK /\ InPhase(c)
  BY DEF MessageInv, TypeOK, ClockInv, ClockOf
<1>2. syncTime[c] = SyncTimes[epoch]
  <2>1. epoch # 0
    BY <1>1, PhaseTimes, InAPhase
  <2> QED
    BY <2>1 DEF MessageInv, PhaseInv, PhaseOf, LastSync
<1>3. Corr[c] = ct[c].stepsSinceLastSync
  BY CountersInLoop
<1>4. ct[c].correctionTime \in Int /\ Corr[c] \in Int /\ TimeStepSize(c) \in Int
  BY <1>1, <1>3, TimeStepSizeType DEF ActorTypeOK, ClusterTimes, Time
<1>5. OnGrid(epoch, c, ct[c].correctionTime, Corr[c])
  BY <1>1, <1>3 DEF InPhase, ClockAt
<1>6. OnGrid(epoch, c, Plus(ct[c].correctionTime, TimeStepSize(c)), Corr[c] + Rate[c])
  BY <1>1, <1>2, <1>4, <1>5, StepOnGrid, InAPhase
<1> DEFINE from == ct[c].correctionTime
<1> HIDE DEF from
<1>7. Plus(from, TimeStepSize(c)) = from + TimeStepSize(c)
  BY <1>4, ExactOperations DEF from
<1> QED
  BY <1>2, <1>4, <1>5, <1>6, <1>7 DEF from

\* A cluster that predicts is in the step its slower neighbours last told to have
\* corrected up to.
LEMMA SlowerMirror ==
    ASSUME ExactArithmetic, SameUnitStep, MessageInv, MessageInv', Rules, StepsInv',
           NEW c \in Clusters, PredictCluster(c), NEW n \in Slower(c)
    PROVE  LET s == Mirror(c, Waiting(c))[n].stepsSinceLastSync
           IN  /\ s \in Int /\ Multiple(s, Rate[n])
               /\ s <= Pred[c] /\ Pred[c] < s + Rate[n]
<1> DEFINE l == <<c, n>>
           s == Mirror(c, Waiting(c))[n].stepsSinceLastSync
<1>1. /\ phase = "loop" /\ phase' = "loop" /\ epoch' = epoch /\ Predict(c, Waiting(c))
  BY DEF PredictCluster, managerVars
<1>2. /\ l \in Links /\ n \in Clusters /\ n \in Neighbors(c) /\ c # n
      /\ l[1] = c /\ l[2] = n /\ <<n, c>> \in Links
  BY LinksAssumption DEF Slower, Neighbors
<1>3. /\ ActorTypeOK /\ ActorTypeOK' /\ TypeOK
  BY DEF MessageInv, TypeOK
<1>4. /\ s = nct'[l].stepsSinceLastSync /\ nct'[l] \in ClusterTimes
      /\ Mirror(c, Waiting(c))[n] = nct'[l] /\ s \in Int
  <2>1. nct'[l] = Mirror(c, Waiting(c))[l[2]] /\ nct'[l] \in ClusterTimes
    <3> HIDE DEF l
    <3> QED
      BY <1>1, <1>2, <1>3, LinksAfter, LinkIsRead DEF Predict
  <2> QED
    BY <1>2, <2>1 DEF ClusterTimes
<1> HIDE DEF l
<1>5. Multiple(s, Rate[n])
  <2>1. Active(c)'
    BY <1>1 DEF Active
  <2>2. StepsOf(l)'
    BY <1>2 DEF StepsInv
  <2> QED
    BY <1>2, <1>4, <2>1, <2>2 DEF StepsOf, StepsHeard, Whole
<1>6. /\ Pred[c] = Corr[c] /\ Corr[c] < LTS!Until /\ LTS!Until \in Int
      /\ \A k \in Clusters : Corr'[k] = Corr[k] /\ Corr[k] \in Int
      /\ Pred[c] \in Int /\ Rate[n] \in Nat
  <2>1. LTS!Until = EndOf(epoch, c)
    BY <1>1, <1>3, UntilOfPhase
  <2> QED
    BY <1>2, <2>1, PredictCounters, RateAssumption DEF Rules, WholeSteps
<1>7. s <= Corr[n]
  <2>1. RunningLink(l)'
    BY <1>1, <1>2 DEF MessageInv, LinkInv, LinkOf, LinkAt, RunningLink
  <2>2. s <= ct'[n].stepsSinceLastSync
    BY <1>2, <1>4, <2>1 DEF RunningLink, Running, MirrorOf
  <2>3. Corr'[n] = ct'[n].stepsSinceLastSync
    BY <1>1, <1>2 DEF Corr, Counter
  <2> QED
    BY <1>2, <1>6, <2>2, <2>3
<1>8. Corr[n] <= Pred[c]
  <2>1. InStep(n, c)
    <3>1. InStep(<<n, c>>[1], <<n, c>>[2])
      BY <1>2 DEF Rules
    <3> QED
      BY <3>1
  <2> QED
    BY <1>2, <1>6, <2>1 DEF InStep
<1>9. Pred[c] < s + Rate[n]
  <2>1. DOMAIN Mirror(c, Waiting(c)) = Neighbors(c)
    BY DEF Mirror
  <2>2. ct[c].predictionsSinceLastSync < NextCorrectionSteps(Rate[n], nct'[l])
    BY <1>1, <1>2, <1>4, <2>1 DEF Predict, MayPredict
  <2>3. ct[c].predictionsSinceLastSync = Pred[c] /\ nct'[l].stepsUntilSync \in Int
    BY <1>1, <1>4, CountersInLoop DEF ClusterTimes
  <2> HIDE DEF s
  <2>4. Pred[c] < Smaller(s + Rate[n], nct'[l].stepsUntilSync)
    BY <1>4, <2>2, <2>3 DEF NextCorrectionSteps
  <2> QED
    BY <1>4, <1>6, <2>3, <2>4 DEF Smaller
<1> HIDE DEF s
<1>10. s <= Pred[c]
  BY <1>2, <1>4, <1>6, <1>7, <1>8
<1> QED
  BY <1>4, <1>5, <1>9, <1>10 DEF s

\* The buffers of c, up to where c predicts from, are continued or started anew.
LEMMA BufferStep ==
    ASSUME ExactArithmetic, SameUnitStep, NeighborRates, MessageInv, MessageInv', Rules,
           StepsInv', PredictionInv, NEW c \in Clusters, PredictCluster(c), PredictData(c)
    PROVE  buffer'[c] \in Intervals /\ Buffered(c, buffer'[c], Pred[c] + Rate[c])
<1> DEFINE from == ct[c].correctionTime
           dt == TimeStepSize(c)
           to == Plus(from, dt)
           p == Pred[c]
           r == Rate[c]
           S(n) == Mirror(c, Waiting(c))[n].stepsSinceLastSync
<1>1. phase = "loop" /\ TypeOK /\ c \in DOMAIN buffer /\ buffer[c] \in Intervals
  BY DEF PredictCluster, MessageInv, PredictionInv
<1>2. /\ p = Corr[c] /\ p \in Int /\ p >= 0 /\ r \in Nat \ {0} /\ Multiple(p, r)
      /\ ct[c].stepsSinceLastSync = p
  BY <1>1, PredictCounters, RateAssumption, CountersInLoop DEF Rules, WholeSteps
<1>3. /\ from \in Int /\ to \in Int /\ dt \in Int /\ to = from + dt
      /\ OnGrid(epoch, c, from, p) /\ OnGrid(epoch, c, to, p + r)
  BY <1>1, <1>2, StepTimes
<1>4. buffer'[c] = IF ResetBuffers(c) THEN Interval(from, to)
                   ELSE Interval(buffer[c].from, Plus(buffer[c].to, dt))
  BY <1>1 DEF PredictData
<1>5. \A n \in Slower(c) : /\ S(n) \in Int /\ Multiple(S(n), Rate[n])
                           /\ S(n) <= p /\ p < S(n) + Rate[n]
  BY SlowerMirror
<1>6. \A n \in Slower(c) : /\ Rate[n] \in Nat \ {0} /\ Rate[n] > r /\ n \in Neighbors(c)
                           /\ Multiple(Rate[n], r)
  <2> SUFFICES ASSUME NEW n \in Slower(c)
               PROVE  /\ Rate[n] \in Nat \ {0} /\ Rate[n] > r /\ n \in Neighbors(c)
                      /\ Multiple(Rate[n], r)
    OBVIOUS
  <2>1. n \in Neighbors(c) /\ n \in Clusters /\ Rate[n] > r /\ <<c, n>> \in Links
    BY DEF Slower, Neighbors
  <2>2. Rate[n] \in Nat \ {0}
    BY <2>1, RateAssumption
  <2>3. Rate[<<c, n>>[1]] < Rate[<<c, n>>[2]]
    BY <1>2, <2>1, <2>2
  <2>4. Multiple(Rate[<<c, n>>[2]], Rate[<<c, n>>[1]])
    BY <2>1, <2>3 DEF NeighborRates
  <2> QED
    BY <2>1, <2>2, <2>4
<1>7. ResetBuffers(c) <=> p = 0 \/ \A n \in Slower(c) : p <= S(n)
  BY <1>2 DEF ResetBuffers, Slower
<1> HIDE DEF from, dt, to, p, r, S
<1>8. CASE ResetBuffers(c)
  <2>1. buffer'[c] = [from |-> from, to |-> to]
    BY <1>4, <1>8 DEF Interval
  <2>2. ASSUME NEW n \in Slower(c)
        PROVE  Multiple(p, Rate[n]) /\ p < p + r /\ p + r <= p + Rate[n]
    <3>1. CASE p = 0
      BY <1>2, <1>6, <3>1, ZeroIsMultiple
    <3>2. CASE p <= S(n)
      <4>1. p = S(n)
        BY <1>2, <1>5, <3>2
      <4> QED
        BY <1>2, <1>5, <1>6, <4>1
    <3> QED
      BY <1>7, <1>8, <3>1, <3>2
  <2>3. buffer'[c].from = from /\ buffer'[c].to = to /\ buffer'[c] \in Intervals
    BY <1>3, <2>1 DEF Intervals
  <2> QED
    BY <1>2, <1>3, <2>2, <2>3 DEF Buffered, p, r
<1>9. CASE ~ResetBuffers(c)
  <2>1. p # 0 /\ \E m \in Slower(c) : ~(p <= S(m))
    BY <1>7, <1>9
  <2>2. PICK m \in Slower(c) : ~(p <= S(m))
    BY <2>1
  <2>3. Buffered(c, buffer[c], p)
    BY <1>1, <2>1 DEF PredictionInv, p
  <2>4. PICK f \in Int : /\ OnGrid(epoch, c, buffer[c].from, f) /\ OnGrid(epoch, c, buffer[c].to, p)
                         /\ \A n \in Slower(c) : Multiple(f, Rate[n]) /\ f < p /\ p <= f + Rate[n]
    BY <2>3 DEF Buffered
  <2>5. buffer[c].from \in Int /\ buffer[c].to \in Int
    BY <1>1 DEF Intervals
  <2>6. buffer[c].to = from
    BY <1>1, <1>2, <1>3, <2>4, <2>5, SameTime
  <2>7. buffer'[c] = [from |-> buffer[c].from, to |-> to]
    BY <1>4, <1>9, <2>6 DEF Interval, to
  <2>8. ASSUME NEW n \in Slower(c)
        PROVE  f < p + r /\ p + r <= f + Rate[n]
    <3>1. Rate[n] = Rate[m]
      BY DEF NeighborRates
    <3>2. /\ Rate[n] \in Nat \ {0} /\ Multiple(Rate[n], r)
          /\ Multiple(f, Rate[n]) /\ f < p /\ p <= f + Rate[n]
          /\ Multiple(S(m), Rate[n]) /\ S(m) \in Int /\ S(m) < p /\ p < S(m) + Rate[n]
      BY <1>2, <1>5, <1>6, <2>2, <2>4, <3>1
    <3>3. f <= S(m) /\ S(m) <= f
      <4>1. f < S(m) + Rate[n] /\ S(m) < f + Rate[n]
        BY <1>2, <3>2
      <4> QED
        BY <3>2, <4>1, NoMultipleBetween
    <3>4. p < f + Rate[n]
      BY <3>2, <3>3
    <3>5. Multiple(f, r) /\ Multiple((f + Rate[n]) - r, r)
      <4>1. Multiple(f, r)
        BY <1>2, <3>2, MultipleOfMultiple
      <4>2. Multiple(f + Rate[n], r)
        BY <1>2, <3>2, <4>1, MultipleDifference
      <4>3. r \in Int
        BY <1>2
      <4> QED
        BY <4>1, <4>2, <4>3, NextMultiple
    <3>6. p <= (f + Rate[n]) - r
      <4>1. p < ((f + Rate[n]) - r) + r
        BY <1>2, <3>2, <3>4
      <4> QED
        BY <1>2, <3>5, <4>1, NoMultipleBetween
    <3> QED
      BY <1>2, <3>2, <3>6
  <2>9. /\ buffer'[c].from = buffer[c].from /\ buffer'[c].to = to /\ buffer'[c] \in Intervals
    BY <1>3, <2>5, <2>7 DEF Intervals
  <2> QED
    BY <1>3, <2>4, <2>8, <2>9 DEF Buffered, p, r
<1> QED
  BY <1>8, <1>9

\* The predicted data stays what the neighbours need.
LEMMA NextPredictionInv ==
    ASSUME ExactArithmetic, SameUnitStep, NeighborRates, MessageInv, MessageInv', Rules,
           StepsInv', PredictionInv, [ClusterNext]_clusterVars
    PROVE  PredictionInv'
<1>1. CASE UNCHANGED clusterVars
  <2>1. UNCHANGED <<derivative, buffer, ct, phase, epoch, todo>>
    BY <1>1 DEF clusterVars, vars, actorVars, managerVars, dataVars
  <2>2. Pred' = Pred
    BY <2>1 DEF Pred, Counter
  <2> QED
    BY <2>1, <2>2 DEF PredictionInv, Predictor, Buffered, OnGrid, PhaseStart
<1>2. CASE ClusterNext /\ \A c \in Clusters : ~PredictCluster(c)
  <2>1. UNCHANGED <<derivative, buffer>>
    BY <1>2, PredictionsKept
  <2> SUFFICES ASSUME phase' # "idle", NEW c \in Clusters, Pred'[c] # 0
               PROVE  (Predictor(c, derivative[c], Pred[c]) /\ Buffered(c, buffer[c], Pred[c]))'
    BY <2>1 DEF PredictionInv
  <2>2. phase # "idle" /\ epoch' = epoch /\ Pred'[c] = Pred[c]
    BY <1>2, CountersKept DEF MessageInv
  <2>3. Predictor(c, derivative[c], Pred[c]) /\ Buffered(c, buffer[c], Pred[c])
    BY <2>2 DEF PredictionInv
  <2> QED
    BY <2>1, <2>2, <2>3 DEF Predictor, Buffered, OnGrid, PhaseStart
<1>3. ASSUME NEW c \in Clusters, PredictCluster(c), ClusterNext
      PROVE  PredictionInv'
  <2>1. phase = "loop" /\ epoch' = epoch
    BY <1>3 DEF PredictCluster, managerVars
  <2>2. PredictData(c)
    BY <1>3, PredictionActs DEF MessageInv
  <2>3. /\ Pred'[c] = Pred[c] + Rate[c] /\ Pred[c] \in Int /\ Rate[c] \in Nat \ {0}
        /\ Pred[c] = Corr[c]
        /\ \A k \in Clusters \ {c} : Pred'[k] = Pred[k]
    BY <1>3, PredictCounters, RateAssumption DEF Rules, WholeSteps
  <2>4. buffer'[c] \in Intervals /\ Buffered(c, buffer'[c], Pred'[c])
    BY <1>3, <2>2, <2>3, BufferStep
  <2>5. derivative'[c] \in Intervals /\ Predictor(c, derivative'[c], Pred'[c])
    <3> DEFINE from == ct[c].correctionTime
               to == Plus(from, TimeStepSize(c))
    <3>1. /\ from \in Int /\ to \in Int
          /\ OnGrid(epoch, c, from, Corr[c]) /\ OnGrid(epoch, c, to, Corr[c] + Rate[c])
      BY <2>1, StepTimes
    <3>2. derivative'[c] = [from |-> from, to |-> to]
      BY <2>2 DEF PredictData, Interval, PredictionInv
    <3> HIDE DEF from, to
    <3>3. derivative'[c].from = from /\ derivative'[c].to = to /\ derivative'[c] \in Intervals
      BY <3>1, <3>2 DEF Intervals
    <3>4. Pred'[c] - Rate[c] = Corr[c] /\ Pred'[c] = Corr[c] + Rate[c]
      BY <2>3
    <3> QED
      BY <3>1, <3>3, <3>4 DEF Predictor
  <2>6. /\ derivative' \in [Clusters -> Intervals] /\ buffer' \in [Clusters -> Intervals]
        /\ \A k \in Clusters \ {c} : derivative'[k] = derivative[k] /\ buffer'[k] = buffer[k]
    BY <2>2, <2>4, <2>5 DEF PredictData, PredictionInv
  <2>7. ASSUME NEW k \in Clusters, Pred'[k] # 0
        PROVE  Predictor(k, derivative'[k], Pred'[k]) /\ Buffered(k, buffer'[k], Pred'[k])
    <3>1. CASE k = c
      BY <2>4, <2>5, <3>1
    <3>2. CASE k # c
      BY <2>1, <2>3, <2>6, <2>7, <3>2 DEF PredictionInv
    <3> QED
      BY <3>1, <3>2
  <2>8. ASSUME NEW k \in Clusters, Pred'[k] # 0
        PROVE  (Predictor(k, derivative[k], Pred[k]) /\ Buffered(k, buffer[k], Pred[k]))'
    BY <2>1, <2>7, <2>8 DEF Predictor, Buffered, OnGrid, PhaseStart
  <2> QED
    BY <2>6, <2>8 DEF PredictionInv
<1> QED
  BY <1>1, <1>2, <1>3

----------------------------------------------------------------------------
(* The time basis of a slower neighbour *)

\* A cluster with a larger time step has a larger rate.
LEMMA LargerIsSlower ==
    ASSUME SameUnitStep, NEW c \in Clusters, NEW d \in Clusters
    PROVE  /\ Rate[d] > Rate[c] <=> MaxTimeStepSize[d] > MaxTimeStepSize[c]
           /\ Rate[d] = Rate[c] => MaxTimeStepSize[d] = MaxTimeStepSize[c]
<1> DEFINE r == Rate[c]
           k == Rate[d]
           m == MaxTimeStepSize[c]
           o == MaxTimeStepSize[d]
<1>1. /\ r \in Nat \ {0} /\ k \in Nat \ {0} /\ m \in Nat \ {0} /\ o \in Nat \ {0}
      /\ k * m = r * o
  BY RateAssumption DEF SameUnitStep
<1> HIDE DEF r, k, m, o
<1>2. ASSUME k = r
      PROVE  o = m
  BY <1>1, <1>2, Cancel
<1>3. ASSUME k > r
      PROVE  o > m
  <2>1. m * r < m * k /\ m * r = r * m /\ m * k = k * m
    BY <1>1, <1>3, Monotone
  <2>2. r * m < r * o
    BY <1>1, <2>1
  <2> QED
    BY <1>1, <2>2, Monotone
<1>4. ASSUME k < r
      PROVE  o < m
  <2>1. m * k < m * r /\ m * r = r * m /\ m * k = k * m
    BY <1>1, <1>4, Monotone
  <2>2. r * o < r * m
    BY <1>1, <2>1
  <2> QED
    BY <1>1, <2>2, Monotone
<1>5. k > r <=> o > m
  BY <1>1, <1>2, <1>3, <1>4
<1> QED
  BY <1>2, <1>5 DEF r, k, m, o

\* Links carry the steps a slower neighbour's last predictor began at.
SubTimeOf(l) ==
    Active(l[1]) /\ Rate[l[2]] > Rate[l[1]] /\ nct[l].predictionsSinceLastSync > Corr[l[1]]
        => OnGrid(epoch, l[2], lastSubTime[l[1]], nct[l].predictionsSinceLastSync - Rate[l[2]])

SubTimeInv == lastSubTime \in [Clusters -> Int] /\ \A l \in Links : SubTimeOf(l)

\* The time step of the slower neighbours, if there are any.
TimestepInv ==
    /\ DOMAIN neighborTimestep = Clusters
    /\ \A c \in Clusters : Active(c) => \A n \in Slower(c) : neighborTimestep[c] = MaxTimeStepSize[n]

\* The largest of all time steps around c is that of its slower neighbours.
LEMMA SlowerIsLargest ==
    ASSUME SameUnitStep, NeighborRates, TypeOK, phase # "idle", NEW c \in Clusters, NEW n \in Slower(c)
    PROVE  LargestTimestep(c) = MaxTimeStepSize[n]
<1> DEFINE own == Smaller(Minus(SyncTimes[epoch], ct[c].correctionTime), MaxTimeStepSize[c])
           T == {own} \cup {MaxTimeStepSize[k] : k \in Neighbors(c)}
<1>1. n \in Neighbors(c) /\ n \in Clusters /\ Rate[n] > Rate[c] /\ Neighbors(c) \subseteq Clusters
  BY DEF Slower, Neighbors
<1>2. \A k \in Clusters : MaxTimeStepSize[k] \in Int /\ Rate[k] \in Int
  BY RateAssumption
<1>3. own \in Int /\ own <= MaxTimeStepSize[c]
  <2>1. ct[c].correctionTime \in Time /\ SyncTimes[epoch] \in Time
    BY PhaseTimes, InAPhase DEF TypeOK, ActorTypeOK, ClusterTimes, Time
  <2>2. Minus(SyncTimes[epoch], ct[c].correctionTime) \in Int
    BY <2>1, PlusMinusType DEF Time
  <2> QED
    BY <1>2, <2>2 DEF Smaller
<1> HIDE DEF own
<1>4. own <= MaxTimeStepSize[n]
  <2>1. MaxTimeStepSize[n] > MaxTimeStepSize[c]
    BY <1>1, LargerIsSlower
  <2> QED
    BY <1>1, <1>2, <1>3, <2>1
<1>5. ASSUME NEW k \in Neighbors(c)
      PROVE  MaxTimeStepSize[k] <= MaxTimeStepSize[n]
  <2>1. k \in Clusters /\ Rate[k] <= Rate[n]
    <3>1. CASE k \in Slower(c)
      BY <1>1, <1>2, <3>1 DEF NeighborRates
    <3>2. CASE k \notin Slower(c)
      BY <1>1, <1>2, <3>2 DEF Slower
    <3> QED
      BY <3>1, <3>2
  <2>2. ~(MaxTimeStepSize[k] > MaxTimeStepSize[n])
    BY <1>1, <1>2, <2>1, LargerIsSlower
  <2> QED
    BY <1>1, <1>2, <2>1, <2>2
<1>6. MaxTimeStepSize[n] \in T /\ T \subseteq Int /\ \A y \in T : MaxTimeStepSize[n] >= y
  BY <1>1, <1>2, <1>3, <1>4, <1>5
<1>7. LargestTimestep(c) = CHOOSE x \in T : \A y \in T : x >= y
  BY DEF LargestTimestep, Max, own
<1> HIDE DEF T
<1>8. LargestTimestep(c) \in T /\ \A y \in T : LargestTimestep(c) >= y
  BY <1>6, <1>7
<1>9. LargestTimestep(c) >= MaxTimeStepSize[n] /\ MaxTimeStepSize[n] >= LargestTimestep(c)
  BY <1>6, <1>8
<1>10. LargestTimestep(c) \in Int /\ MaxTimeStepSize[n] \in Int
  BY <1>6, <1>8
<1> QED
  BY <1>9, <1>10

\* A reset sets it, nothing else changes it.
LEMMA NextTimestepInv ==
    ASSUME SameUnitStep, NeighborRates, MessageInv, TimestepInv, [ClusterNext]_clusterVars
    PROVE  TimestepInv'
<1>1. CASE UNCHANGED clusterVars
  BY <1>1 DEF clusterVars, vars, managerVars, dataVars, TimestepInv, Active
<1>2. CASE (AdvanceInTime \/ Finish \/ Over) /\ UNCHANGED dataVars
  BY <1>2 DEF AdvanceInTime, Finish, Over, vars, managerVars, dataVars, TimestepInv, Active
<1>3. ASSUME NEW c \in Clusters, ResetCluster(c), ResetData(c)
      PROVE  TimestepInv'
  <2>1. phase = "reset" /\ neighborTimestep' = [neighborTimestep EXCEPT ![c] = LargestTimestep(c)]
    BY <1>3 DEF ResetCluster, ResetData
  <2>2. ASSUME NEW k \in Clusters, Active(k)', k # c
        PROVE  Active(k)
    BY <1>3, <2>2 DEF ResetCluster, LoopStep, Active
  <2>3. \A n \in Slower(c) : LargestTimestep(c) = MaxTimeStepSize[n]
    BY <2>1, SlowerIsLargest DEF MessageInv
  <2>4. /\ DOMAIN neighborTimestep' = Clusters /\ neighborTimestep'[c] = LargestTimestep(c)
        /\ \A k \in Clusters \ {c} : neighborTimestep'[k] = neighborTimestep[k]
    BY <2>1 DEF TimestepInv
  <2> QED
    BY <2>2, <2>3, <2>4 DEF TimestepInv
<1>4. ASSUME NEW c \in Clusters, UNCHANGED neighborTimestep, phase \in {"restart", "loop"}
      PROVE  TimestepInv'
  BY <1>4 DEF TimestepInv, Active
<1>5. ASSUME NEW c \in Clusters, ClusterStep(c)
      PROVE  TimestepInv'
  BY <1>3, <1>4, <1>5 DEF ClusterStep, PredictCluster, PredictData, CorrectCluster, CorrectData,
                          RestartCluster, PollCluster, SyncCluster, KeepData
<1> QED
  BY <1>1, <1>2, <1>5 DEF ClusterNext

\* Handling messages only moves the sub-time of the cluster itself.
LEMMA SubTimeType ==
    ASSUME ActorTypeOK, NEW c \in Clusters, HandlePredictionMessages(c),
           lastSubTime \in [Clusters -> Int]
    PROVE  /\ lastSubTime' \in [Clusters -> Int]
           /\ \A k \in Clusters \ {c} : lastSubTime'[k] = lastSubTime[k]
<1>1. \A n \in Waiting(c) : nct[<<c, n>>].correctionTime \in Int
  BY DEF Waiting, Neighbors, ActorTypeOK, ClusterTimes, Time
<1>2. \/ lastSubTime' = lastSubTime
      \/ \E n \in Waiting(c) : lastSubTime' = [lastSubTime EXCEPT ![c] = nct[<<c, n>>].correctionTime]
  BY DEF HandlePredictionMessages
<1> QED
  BY <1>1, <1>2

\* A prediction read from a slower neighbour began at the correction read before it,
\* and goes beyond what c has corrected.
LEMMA PredictionRead ==
    ASSUME ExactArithmetic, SameUnitStep, NeighborRates, MessageInv, Rules, StepsInv,
           NEW l \in Links, Rate[l[2]] > Rate[l[1]], phase \in {"restart", "loop"},
           inbox[l] # <<>>, Head(inbox[l]).kind = "prediction"
    PROVE  LET v == Head(inbox[l]).stepsSinceSync
           IN  /\ v \in Int /\ Multiple(v, Rate[l[2]])
               /\ OnGrid(epoch, l[2], nct[l].correctionTime, v - Rate[l[2]])
               /\ Corr[l[1]] < v /\ v <= Pred[l[2]]
<1> DEFINE c == l[1]
           n == l[2]
           h == Head(inbox[l])
           v == h.stepsSinceSync
           t == nct[l]
           r == Rate[n]
<1>1. /\ c \in Clusters /\ n \in Clusters /\ TypeOK /\ ActorTypeOK
      /\ t \in ClusterTimes /\ inbox[l] \in Seq(Message)
      /\ h = inbox[l][1] /\ 1 \in 1..Len(inbox[l]) /\ h \in Message
  <2>1. TypeOK /\ ActorTypeOK
    BY DEF MessageInv, TypeOK
  <2>2. inbox[l] \in Seq(Message)
    BY <2>1, LinkTypes
  <2>3. Len(inbox[l]) \in Nat \ {0} /\ h = inbox[l][1] /\ inbox[l][1] \in Message
    BY <2>2, TailElements
  <2> QED
    BY <2>1, <2>2, <2>3, LinkTypes
<1>2. /\ r \in Nat \ {0} /\ v \in Int /\ h.kind = "prediction"
      /\ t.stepsSinceLastSync \in Int /\ t.predictionsSinceLastSync \in Int
  BY <1>1, RateAssumption DEF ClusterTimes, Message
<1>3. Running(epoch, n, ct[n].predictionsSinceLastSync, ct[n].stepsSinceLastSync, t, inbox[l])
  BY DEF MessageInv, LinkInv, LinkOf, LinkAt, RunningLink
<1>4. /\ StepsHeard(c, n, t, inbox[l], Corr[c], Pred[n], Corr[n])
      /\ Pred[n] = ct[n].predictionsSinceLastSync
  <2>1. Active(c) /\ Pred[n] = ct[n].predictionsSinceLastSync
    BY <1>1, CountersInLoop
  <2> QED
    BY <2>1 DEF StepsInv, StepsOf
<1>5. v <= Pred[n] /\ v > t.predictionsSinceLastSync
  <2>1. MessageOf(epoch, n, Pred[n], ct[n].stepsSinceLastSync, t, h)
    BY <1>1, <1>3, <1>4 DEF Running, QueueOf
  <2>2. v \in 0..Pred[n] /\ Turn(h) > 2 * t.predictionsSinceLastSync
    BY <2>1 DEF MessageOf, Reported
  <2>3. Turn(h) = 2 * v
    BY <1>2 DEF Turn
  <2>4. Pred[n] \in Int
    BY <1>1 DEF Rules, WholeSteps
  <2> QED
    BY <1>2, <2>2, <2>3, <2>4
<1>6. OnGrid(epoch, n, t.correctionTime, t.stepsSinceLastSync)
  BY <1>3 DEF Running, MirrorOf, Reported
<1>7. /\ Multiple(v, r) /\ Multiple(t.predictionsSinceLastSync, r)
      /\ t.stepsSinceLastSync = v - r
      /\ Corr[c] <= t.predictionsSinceLastSync \/ EndOf(epoch, n) <= t.predictionsSinceLastSync
  BY <1>1, <1>2, <1>4 DEF StepsHeard, Whole, Alternates
<1>8. /\ Pred[n] \in Int /\ Corr[c] \in Int /\ Multiple(Pred[n], r)
      /\ Pred[n] = 0 \/ Pred[n] - r < EndOf(epoch, n)
      /\ EndOf(epoch, n) \in Nat \ {0}
  <2>1. LTS!Until = EndOf(epoch, n) /\ EndOf(epoch, n) \in Nat \ {0}
    BY <1>1, UntilOfPhase, EndOfFacts, InAPhase
  <2> QED
    BY <1>1, <2>1 DEF Rules, WholeSteps
<1> HIDE DEF c, n, h, v, t, r
<1>9. ASSUME EndOf(epoch, n) <= t.predictionsSinceLastSync
      PROVE  FALSE
  <2>1. Pred[n] < t.predictionsSinceLastSync + r
    BY <1>2, <1>8, <1>9
  <2>2. Pred[n] <= t.predictionsSinceLastSync
    BY <1>2, <1>7, <1>8, <2>1, NoMultipleBetween
  <2> QED
    BY <1>2, <1>5, <1>8, <2>2
<1>10. Corr[c] < v
  BY <1>2, <1>5, <1>7, <1>8, <1>9
<1> QED
  BY <1>2, <1>5, <1>6, <1>7, <1>10 DEF c, n, h, v, t, r

\* Of what c has heard of a slower neighbour, what goes beyond its own correction
\* is within one step of that neighbour.
LEMMA HeardWithinStep ==
    ASSUME ExactArithmetic, SameUnitStep, NeighborRates, MessageInv, Rules,
           NEW l \in Links, Rate[l[2]] > Rate[l[1]], phase \in {"restart", "loop"},
           NEW p \in Int, p <= Pred[l[2]], Multiple(p, Rate[l[2]]), Corr[l[1]] < p,
           NEW k \in Links, k[1] = l[1], Rate[k[2]] > Rate[k[1]],
           NEW q \in Int, q <= Pred[k[2]], Multiple(q, Rate[k[2]]), Corr[k[1]] < q
    PROVE  p = q /\ Rate[l[2]] = Rate[k[2]]
<1> DEFINE r == Rate[l[2]]
           c == l[1]
<1>1. /\ c \in Clusters /\ l[2] \in Clusters /\ k[2] \in Clusters /\ TypeOK
      /\ l[2] \in Slower(c) /\ k[2] \in Slower(c)
  BY LinkPair DEF Slower, MessageInv
<1>2. Rate[k[2]] = r /\ r \in Nat \ {0} /\ Rate[c] \in Nat \ {0}
  BY <1>1, RateAssumption DEF NeighborRates
<1>3. LTS!Until \in Int
  BY <1>1, UntilOfPhase, EndOfFacts, InAPhase
<1>4. Pred[l[2]] <= Corr[c] + r /\ Pred[k[2]] <= Corr[c] + r
  <2>1. Rate[l[1]] <= Rate[l[2]] /\ Rate[k[1]] <= Rate[k[2]]
    BY <1>2
  <2> QED
    BY <1>2, <1>3, <2>1, SlowerJustAhead
<1>5. Corr[c] \in Int /\ Pred[l[2]] \in Int /\ Pred[k[2]] \in Int
  BY <1>1 DEF Rules, WholeSteps
<1>6. Multiple(p, r) /\ Multiple(q, r) /\ p < q + r /\ q < p + r
  BY <1>2, <1>4, <1>5
<1>7. p <= q /\ q <= p
  BY <1>2, <1>6, NoMultipleBetween
<1> QED
  BY <1>2, <1>7

\* Once c has read what its neighbours told, its sub-time is that of the predictor
\* that was heard last.
LEMMA SubTimeRead ==
    ASSUME ExactArithmetic, SameUnitStep, NeighborRates, MessageInv, MessageInv', Rules,
           StepsInv, StepsInv', SubTimeInv, NEW c \in Clusters, NEW m, NEW to,
           ProcessAndSend(c, Waiting(c), m, to), HandlePredictionMessages(c),
           phase \in {"restart", "loop"}, phase' \in {"restart", "loop"}, epoch' = epoch,
           \A k \in Clusters \ {c} : ct'[k] = ct[k],
           NEW l \in Links, Rate[l[2]] > Rate[l[1]],
           nct'[l].predictionsSinceLastSync > Corr[l[1]]
    PROVE  OnGrid(epoch, l[2], lastSubTime'[l[1]], nct'[l].predictionsSinceLastSync - Rate[l[2]])
<1>1. ActorTypeOK /\ ActorTypeOK' /\ TypeOK
  BY DEF MessageInv, TypeOK
<1>2. /\ lastSubTime' \in [Clusters -> Int]
      /\ \A k \in Clusters \ {c} : lastSubTime'[k] = lastSubTime[k]
  BY <1>1, SubTimeType DEF SubTimeInv
<1> DEFINE n == l[2]
           p == nct'[l].predictionsSinceLastSync
<1>3. /\ l[1] \in Clusters /\ n \in Clusters /\ l[1] # n /\ l = <<l[1], n>> /\ Active(l[1])
      /\ n \in Neighbors(l[1])
  BY LinkPair, CountersInLoop
<1>4. CASE l[1] # c
  <2>1. nct'[l] = nct[l] /\ lastSubTime'[l[1]] = lastSubTime[l[1]]
    BY <1>1, <1>2, <1>3, <1>4, LinksAfter
  <2> QED
    BY <1>3, <2>1 DEF SubTimeInv, SubTimeOf
<1>5. CASE l[1] = c
  <2>1. nct[l] \in ClusterTimes /\ nct'[l] \in ClusterTimes /\ inbox[l] \in Seq(Message)
    BY <1>1, LinkTypes, LinksAfter, LinkIsRead
  <2>2. p \in Int /\ Corr[c] \in Int /\ Corr[c] < p
    BY <1>5, <2>1 DEF ClusterTimes, Rules, WholeSteps
  <2>3. Multiple(p, Rate[n])
    <3>1. Active(l[1])' /\ StepsOf(l)'
      BY <1>3 DEF Active, StepsInv
    <3> QED
      BY <3>1 DEF StepsOf, StepsHeard, Whole
  <2>4. p <= Pred[n]
    <3>1. RunningLink(l)'
      BY DEF MessageInv, LinkInv, LinkOf, LinkAt, RunningLink
    <3>2. p <= ct'[n].predictionsSinceLastSync
      BY <2>2, <3>1 DEF RunningLink, Running, MirrorOf, Reported
    <3>3. Pred[n] = ct[n].predictionsSinceLastSync /\ ct'[n] = ct[n]
      BY <1>3, <1>5, CountersInLoop
    <3> QED
      BY <3>2, <3>3
  <2> DEFINE heads == {k \in Waiting(c) : /\ Head(inbox[<<c, k>>]).kind = "prediction"
                                          /\ MaxTimeStepSize[k] > MaxTimeStepSize[c]}
  <2>5. CASE heads = {}
    <3>1. lastSubTime' = lastSubTime
      BY <2>5 DEF HandlePredictionMessages
    <3>2. nct'[l].predictionsSinceLastSync = nct[l].predictionsSinceLastSync
      <4>1. CASE inbox[l] = <<>>
        BY <1>1, <1>5, <4>1, LinksAfter, LinkIsRead
      <4>2. CASE inbox[l] # <<>>
        <5>1. nct'[l] = AfterMessage(nct[l], Head(inbox[l]))
          BY <1>1, <1>5, <4>2, HeadIsRead
        <5>2. n \in Waiting(c)
          BY <1>3, <1>5, <4>2 DEF Waiting
        <5>3. MaxTimeStepSize[n] > MaxTimeStepSize[c]
          BY <1>3, <1>5, LargerIsSlower
        <5>4. Head(inbox[l]).kind # "prediction"
          BY <1>3, <1>5, <2>5, <5>2, <5>3
        <5> QED
          BY <2>1, <5>1, <5>4 DEF AfterMessage, ClusterTimes
      <4> QED
        BY <4>1, <4>2
    <3> QED
      BY <1>3, <1>5, <2>2, <3>1, <3>2 DEF SubTimeInv, SubTimeOf
  <2>6. CASE heads # {}
    <3>1. PICK k \in heads : lastSubTime' = [lastSubTime EXCEPT ![c] = nct[<<c, k>>].correctionTime]
      BY <2>6 DEF HandlePredictionMessages
    <3>2. k \in Waiting(c) /\ Head(inbox[<<c, k>>]).kind = "prediction"
          /\ MaxTimeStepSize[k] > MaxTimeStepSize[c]
      OBVIOUS
    <3> DEFINE j == <<c, k>>
               v == Head(inbox[j]).stepsSinceSync
    <3>3. j \in Links /\ j[1] = c /\ j[2] = k /\ k \in Clusters /\ inbox[j] # <<>>
      BY <3>2 DEF Waiting, Neighbors
    <3>4. Rate[k] > Rate[c]
      BY <3>2, <3>3, LargerIsSlower
    <3>5. lastSubTime'[l[1]] = nct[j].correctionTime
      BY <1>5, <3>1 DEF SubTimeInv
    <3> HIDE DEF j, heads, n, p
    <3>6. /\ v \in Int /\ Multiple(v, Rate[k])
          /\ OnGrid(epoch, k, nct[j].correctionTime, v - Rate[k])
          /\ Corr[c] < v /\ v <= Pred[k]
      <4>1. Rate[j[2]] > Rate[j[1]] /\ Head(inbox[j]).kind = "prediction"
        BY <3>2, <3>3, <3>4 DEF j
      <4> QED
        BY <3>3, <4>1, PredictionRead
    <3>7. p = v /\ Rate[n] = Rate[k]
      <4> HIDE DEF v
      <4> QED
        BY <1>5, <2>2, <2>3, <2>4, <3>3, <3>4, <3>6, HeardWithinStep DEF n
    <3>8. MaxTimeStepSize[n] = MaxTimeStepSize[k]
      BY <1>3, <3>3, <3>7, LargerIsSlower
    <3>9. OnGrid(epoch, n, nct[j].correctionTime, p - Rate[n])
      BY <3>6, <3>7, <3>8 DEF OnGrid
    <3> QED
      BY <3>5, <3>9 DEF n, p
  <2> QED
    BY <2>5, <2>6
<1> QED
  BY <1>4, <1>5

\* Reading keeps the sub-times, and so does a correction made in the same step.
LEMMA ReadSubTime ==
    ASSUME ExactArithmetic, SameUnitStep, NeighborRates, MessageInv, MessageInv', Rules,
           StepsInv, StepsInv', SubTimeInv, NEW c \in Clusters, NEW m, NEW to,
           ProcessAndSend(c, Waiting(c), m, to), HandlePredictionMessages(c),
           phase \in {"restart", "loop"}, phase' \in {"restart", "loop"}, epoch' = epoch,
           \A k \in Clusters \ {c} : ct'[k] = ct[k] /\ Corr'[k] = Corr[k],
           Corr'[c] \in Int, Corr'[c] >= Corr[c]
    PROVE  SubTimeInv'
<1>1. lastSubTime' \in [Clusters -> Int] /\ ActorTypeOK /\ ActorTypeOK'
  BY SubTimeType DEF SubTimeInv, MessageInv, TypeOK
<1> SUFFICES ASSUME NEW l \in Links, Rate[l[2]] > Rate[l[1]],
                    nct'[l].predictionsSinceLastSync > Corr'[l[1]]
             PROVE  OnGrid(epoch, l[2], lastSubTime'[l[1]], nct'[l].predictionsSinceLastSync - Rate[l[2]])
  BY <1>1 DEF SubTimeInv, SubTimeOf, OnGrid, PhaseStart
<1>2. nct'[l].predictionsSinceLastSync > Corr[l[1]]
  <2>1. l[1] \in Clusters /\ Corr[l[1]] \in Int /\ nct'[l].predictionsSinceLastSync \in Int
    BY <1>1, LinkPair DEF Rules, WholeSteps, ActorTypeOK, ClusterTimes
  <2> QED
    BY <2>1
<1> QED
  BY <1>2, SubTimeRead

\* Every step keeps the sub-times.
LEMMA NextSubTimeInv ==
    ASSUME ExactArithmetic, SameUnitStep, NeighborRates, MessageInv, MessageInv', Rules,
           StepsInv, StepsInv', SubTimeInv, [ClusterNext]_clusterVars
    PROVE  SubTimeInv'
<1>1. CASE UNCHANGED clusterVars
  <2>1. UNCHANGED <<lastSubTime, ct, nct, phase, epoch, todo>>
    BY <1>1 DEF clusterVars, vars, actorVars, managerVars, dataVars
  <2> QED
    BY <2>1 DEF SubTimeInv, SubTimeOf, Active, Corr, Counter, OnGrid, PhaseStart
<1>2. CASE (AdvanceInTime \/ Finish \/ Over) /\ UNCHANGED dataVars
  <2>1. UNCHANGED lastSubTime
    BY <1>2 DEF dataVars
  <2>2. \A c \in Clusters : ~Active(c)'
    BY <1>2 DEF AdvanceInTime, Finish, Over, vars, managerVars, Active
  <2> QED
    BY <2>1, <2>2, LinkPair DEF SubTimeInv, SubTimeOf
<1>3. ActorTypeOK /\ TypeOK
  BY DEF MessageInv, TypeOK
<1>4. ASSUME NEW c \in Clusters, HandlePredictionMessages(c), ResetCluster(c)
      PROVE  SubTimeInv'
  <2>1. /\ phase = "reset" /\ c \in todo /\ epoch' = epoch
        /\ \/ phase' = "restart" /\ todo = {c}
           \/ phase' = "reset" /\ todo' = todo \ {c}
        /\ \A l \in Links : l[1] # c => nct'[l] = nct[l]
    BY <1>3, <1>4 DEF ResetCluster, SetSyncTimeAndReset, LoopStep, ActorTypeOK
  <2>2. \A k \in Clusters : Corr'[k] = Corr[k]
    BY <1>3, <1>4, ResetSimulates DEF LTS!ltsVars, Corr
  <2>3. Corr[c] = 0
    BY <2>1 DEF Corr, Counter
  <2>4. /\ lastSubTime' \in [Clusters -> Int]
        /\ \A k \in Clusters \ {c} : lastSubTime'[k] = lastSubTime[k]
    BY <1>3, <1>4, SubTimeType DEF SubTimeInv
  <2>5. ASSUME NEW l \in Links
        PROVE  SubTimeOf(l)'
    <3>1. l[1] \in Clusters
      BY LinkPair
    <3>2. CASE l[1] = c
      <4>1. Fresh(epoch, l[2], nct'[l], inbox'[l])
        BY <1>3, <1>4, <3>2, LinkIsReset
      <4> QED
        BY <2>2, <2>3, <3>1, <3>2, <4>1 DEF Fresh, SubTimeOf
    <3>3. CASE l[1] # c
      <4>1. Active(l[1])' => Active(l[1])
        BY <2>1, <3>3 DEF Active
      <4>2. nct'[l] = nct[l] /\ Corr'[l[1]] = Corr[l[1]] /\ lastSubTime'[l[1]] = lastSubTime[l[1]]
        BY <2>1, <2>2, <2>4, <3>1, <3>3
      <4>3. SubTimeOf(l)
        BY DEF SubTimeInv
      <4> QED
        BY <2>1, <4>1, <4>2, <4>3 DEF SubTimeOf, OnGrid, PhaseStart
    <3> QED
      BY <3>2, <3>3
  <2> QED
    BY <2>4, <2>5 DEF SubTimeInv
<1>5. ASSUME NEW c \in Clusters, HandlePredictionMessages(c),
             RestartCluster(c) \/ PollCluster(c) \/ SyncCluster(c)
      PROVE  SubTimeInv'
  <2>1. /\ ProcessAndSend(c, Waiting(c), <<>>, {}) /\ UNCHANGED <<ct, epoch>>
        /\ phase \in {"restart", "loop"} /\ phase' \in {"restart", "loop"}
    BY <1>5 DEF RestartCluster, RestartAfterSync, PollCluster, Poll, SyncCluster, Sync, LoopStep,
                managerVars
  <2>2. \A k \in Clusters : Corr'[k] = Corr[k] /\ Corr[k] \in Int
    BY <2>1 DEF Corr, Counter, Rules, WholeSteps
  <2>3. Corr'[c] \in Int /\ Corr'[c] >= Corr[c]
    BY <2>2
  <2> QED
    BY <1>5, <2>1, <2>2, <2>3, ReadSubTime
<1>6. ASSUME NEW c \in Clusters, HandlePredictionMessages(c), PredictCluster(c)
      PROVE  SubTimeInv'
  <2>1. /\ phase = "loop" /\ phase' = "loop" /\ epoch' = epoch /\ Predict(c, Waiting(c))
    BY <1>6 DEF PredictCluster, managerVars
  <2>2. \E m, to : ProcessAndSend(c, Waiting(c), m, to)
    BY <2>1 DEF Predict
  <2>3. \A k \in Clusters \ {c} : ct'[k] = ct[k]
    BY <1>3, <2>1 DEF Predict, ActorTypeOK
  <2>4. \A k \in Clusters : Corr'[k] = Corr[k] /\ Corr[k] \in Int
    BY <1>6, PredictCounters DEF Rules, WholeSteps
  <2>5. Corr'[c] \in Int /\ Corr'[c] >= Corr[c]
    BY <2>4
  <2> QED
    BY <1>6, <2>1, <2>2, <2>3, <2>4, <2>5, ReadSubTime
<1>7. ASSUME NEW c \in Clusters, HandlePredictionMessages(c), CorrectCluster(c)
      PROVE  SubTimeInv'
  <2>1. /\ phase = "loop" /\ phase' = "loop" /\ epoch' = epoch /\ Correct(c, Waiting(c))
    BY <1>7 DEF CorrectCluster, managerVars
  <2>2. \E m, to : ProcessAndSend(c, Waiting(c), m, to)
    BY <2>1 DEF Correct
  <2>3. \A k \in Clusters \ {c} : ct'[k] = ct[k]
    BY <1>3, <2>1 DEF Correct, ActorTypeOK
  <2>4. \A k \in Clusters \ {c} : Corr'[k] = Corr[k]
    BY <1>7, CorrectCounters
  <2>5. Corr'[c] \in Int /\ Corr'[c] >= Corr[c]
    <3>1. /\ Corr'[c] = Pred[c] /\ Pred[c] = Corr[c] + Rate[c] /\ Corr[c] \in Int /\ Rate[c] \in Nat
      BY <1>7, CorrectCounters, RateAssumption DEF Rules, WholeSteps
    <3> QED
      BY <3>1
  <2> QED
    BY <1>7, <2>1, <2>2, <2>3, <2>4, <2>5, ReadSubTime
<1> QED
  BY <1>1, <1>2, <1>4, <1>5, <1>6, <1>7 DEF ClusterNext, ClusterStep

----------------------------------------------------------------------------
(* What a correction uses *)

\* Steps beyond the end of the phase end at the same time, as equal steps do.
LEMMA EndTogether ==
    ASSUME ExactArithmetic, SameUnitStep, TypeOK, phase # "idle",
           NEW c \in Clusters, NEW d \in Clusters, NEW t \in Int, NEW u \in Int,
           NEW v \in Int, NEW w \in Int, OnGrid(epoch, c, t, v), OnGrid(epoch, d, u, w), v <= w,
           w <= v \/ EndOf(epoch, c) <= v
    PROVE  t = u
<1>1. CASE v = w
  BY <1>1, SameTime
<1>2. CASE v # w
  <2>1. EndOf(epoch, c) = EndOf(epoch, d) /\ EndOf(epoch, c) \in Int
    BY SameEnd, InAPhase, EndOfFacts
  <2>2. ~(v < EndOf(epoch, c)) /\ ~(w < EndOf(epoch, d))
    BY <1>2, <2>1
  <2> QED
    BY <2>2, GridTimes, InAPhase
<1> QED
  BY <1>1, <1>2

\* A step that does not end at the synchronization time is a whole time step.
LEMMA WholeTimeStepOnGrid ==
    ASSUME ExactArithmetic, TypeOK, phase # "idle", NEW n \in Clusters, NEW from \in Int,
           NEW to \in Int, NEW p \in Int, OnGrid(epoch, n, from, p - Rate[n]), OnGrid(epoch, n, to, p),
           to # SyncTimes[epoch]
    PROVE  to - from = MaxTimeStepSize[n]
<1> DEFINE r == Rate[n]
           m == MaxTimeStepSize[n]
           b == PhaseStart(epoch)
           s == SyncTimes[epoch]
           x == to - b
           y == from - b
           z == s - b
<1>1. /\ r \in Nat \ {0} /\ m \in Nat \ {0} /\ b \in Int /\ s \in Int
      /\ x \in Int /\ y \in Int /\ z \in Int /\ x # z /\ to - from = x - y
  BY PhaseTimes, InAPhase, RateAssumption
<1>2. r * x = Smaller(r * z, p * m) /\ r * y = Smaller(r * z, (p - r) * m)
  BY DEF OnGrid, AtStep
<1> HIDE DEF r, m, b, s, x, y, z
<1>3. r * x # r * z
  BY <1>1, Cancel
<1>4. /\ r * x \in Int /\ r * y \in Int /\ r * z \in Int /\ p * m \in Int /\ r * m \in Nat
      /\ (p - r) * m = p * m - r * m
  BY <1>1
<1>5. r * x = p * m /\ p * m <= r * z
  BY <1>2, <1>3, <1>4 DEF Smaller
<1>6. r * y = p * m - r * m
  BY <1>2, <1>4, <1>5 DEF Smaller
<1>7. r * (x - y) = r * x - r * y
  BY <1>1
<1>8. r * (x - y) = r * m
  BY <1>4, <1>5, <1>6, <1>7
<1>9. x - y = m
  BY <1>1, <1>8, Cancel
<1> QED
  BY <1>1, <1>9 DEF m

\* A neighbour that is not slower has predicted what c corrects, and no more.
LEMMA DataOfFaster ==
    ASSUME ExactArithmetic, SameUnitStep, NeighborRates, MessageInv, Rules, PredictionInv,
           NEW c \in Clusters, CorrectCluster(c), NEW n \in Neighbors(c), Rate[n] <= Rate[c],
           NEW from \in Int, NEW to \in Int, OnGrid(epoch, c, from, Corr[c]), OnGrid(epoch, c, to, Pred[c])
    PROVE  /\ Rate[n] < Rate[c] => buffer[n] = Interval(from, to)
           /\ Rate[n] = Rate[c] => derivative[n] = Interval(from, to)
<1> DEFINE v == Corr[c]
           p == Pred[n]
           r == Rate[c]
<1>1. /\ phase = "loop" /\ TypeOK /\ n \in Clusters /\ <<n, c>> \in Links /\ c # n
      /\ c \in Neighbors(n)
  BY LinksAssumption DEF CorrectCluster, MessageInv, Neighbors
<1>2. /\ Pred[c] = v + r /\ v < EndOf(epoch, c) /\ EndOf(epoch, c) \in Int
      /\ p >= EndOf(epoch, c) \/ v + r <= p
      /\ v \in Int /\ v >= 0 /\ p \in Int /\ r \in Nat \ {0} /\ Rate[n] \in Nat \ {0}
      /\ Multiple(v, r) /\ Multiple(p, Rate[n])
  BY <1>1, CorrectCounters, RateAssumption DEF Rules, WholeSteps
<1>3. EndOf(epoch, n) = EndOf(epoch, c)
  BY <1>1, SameEnd, InAPhase
<1>4. p <= v + r
  <2>1. LTS!Until \in Int
    BY <1>1, <1>2, UntilOfPhase
  <2>2. Pred[<<n, c>>[1]] <= Pred[<<n, c>>[2]]
    <3> DEFINE l == <<n, c>>
    <3>1. l \in Links /\ Rate[l[1]] <= Rate[l[2]] /\ Pred[l[2]] # Corr[l[2]]
      BY <1>1, <1>2
    <3> HIDE DEF l
    <3>2. Pred[l[1]] <= Pred[l[2]]
      BY <2>1, <3>1, FasterNotAhead
    <3> QED
      BY <3>2 DEF l
  <2> QED
    BY <1>2, <2>2
<1>5. p > v /\ p # 0
  BY <1>2
<1>6. Predictor(n, derivative[n], p) /\ Buffered(n, buffer[n], p)
  BY <1>1, <1>5 DEF PredictionInv
<1>7. derivative[n] \in Intervals /\ buffer[n] \in Intervals
  BY <1>1 DEF PredictionInv
<1>8. \A u \in Int : OnGrid(epoch, n, u, p) => u = to
  BY <1>1, <1>2, <1>3, <1>4, EndTogether
<1>9. \A u \in Int : OnGrid(epoch, n, u, v) => u = from
  BY <1>1, <1>2, SameTime
<1> HIDE DEF v, p, r
<1>10. ASSUME Rate[n] = r
       PROVE  derivative[n] = Interval(from, to)
  <2>1. v + r < p + r /\ Multiple(v + r, r)
    BY <1>2, <1>5, NextMultiple
  <2>2. v + r <= p
    BY <1>2, <1>10, <2>1, NoMultipleBetween
  <2>3. p - r = v
    BY <1>2, <1>4, <2>2
  <2>4. derivative[n].from = from /\ derivative[n].to = to
    BY <1>6, <1>7, <1>8, <1>9, <1>10, <2>3 DEF Predictor, Intervals
  <2> QED
    BY <1>7, <2>4 DEF Intervals, Interval
<1>11. ASSUME Rate[n] < r
       PROVE  buffer[n] = Interval(from, to)
  <2>1. c \in Slower(n)
    BY <1>1, <1>2, <1>11 DEF Slower, r
  <2>2. PICK f \in Int : /\ OnGrid(epoch, n, buffer[n].from, f) /\ OnGrid(epoch, n, buffer[n].to, p)
                         /\ Multiple(f, r) /\ f < p /\ p <= f + r
    BY <1>6, <2>1 DEF Buffered, r
  <2>3. f < v + r /\ v < f + r
    BY <1>2, <1>4, <1>5, <2>2
  <2>4. f <= v /\ v <= f
    BY <1>2, <2>2, <2>3, NoMultipleBetween
  <2>5. f = v
    BY <1>2, <2>4
  <2>6. buffer[n].from = from /\ buffer[n].to = to
    BY <1>7, <1>8, <1>9, <2>2, <2>5 DEF Intervals
  <2> QED
    BY <1>7, <2>6 DEF Intervals, Interval
<1> QED
  BY <1>10, <1>11 DEF r

\* The predictor of a slower neighbour covers what c corrects, and c knows when it
\* began and how long it is.
LEMMA DataOfSlower ==
    ASSUME ExactArithmetic, SameUnitStep, NeighborRates, MessageInv, MessageInv', Rules,
           StepsInv, StepsInv', PredictionInv, SubTimeInv, TimestepInv,
           NEW c \in Clusters, CorrectCluster(c), HandlePredictionMessages(c),
           NEW n \in Neighbors(c), Rate[n] > Rate[c],
           NEW from \in Int, NEW to \in Int, OnGrid(epoch, c, from, Corr[c]), OnGrid(epoch, c, to, Pred[c])
    PROVE  /\ lastSubTime'[c] = derivative[n].from
           /\ derivative[n].from <= from /\ to <= derivative[n].to
           /\ derivative[n].to # SyncTimes[epoch] =>
                  neighborTimestep[c] = derivative[n].to - derivative[n].from
<1> DEFINE l == <<c, n>>
           v == Corr[c]
           p == Pred[n]
           r == Rate[n]
           h == nct'[l].predictionsSinceLastSync
<1>1. /\ phase = "loop" /\ phase' = "loop" /\ epoch' = epoch /\ Correct(c, Waiting(c))
      /\ TypeOK /\ ActorTypeOK /\ ActorTypeOK'
  BY DEF CorrectCluster, managerVars, MessageInv, TypeOK
<1>2. /\ n \in Clusters /\ l \in Links /\ l[1] = c /\ l[2] = n /\ c # n /\ n \in Slower(c)
  BY LinksAssumption DEF Neighbors, Slower
<1>3. /\ Pred[c] = v + Rate[c] /\ v < EndOf(epoch, c) /\ EndOf(epoch, c) \in Int
      /\ p >= EndOf(epoch, c) \/ Pred[c] <= p
      /\ v \in Int /\ v >= 0 /\ p \in Int /\ r \in Nat \ {0} /\ Rate[c] \in Nat \ {0}
      /\ Multiple(p, r) /\ Corr'[c] = Pred[c]
  BY <1>2, CorrectCounters, RateAssumption DEF Rules, WholeSteps
<1>4. EndOf(epoch, n) = EndOf(epoch, c) /\ EndOf(epoch, n)' = EndOf(epoch, n)
  <2>1. EndOf(epoch, n)' = EndOf(epoch, n)
    BY <1>1 DEF EndOf, StepsUntil, PhaseStart
  <2> QED
    BY <1>1, <1>2, <2>1, SameEnd, InAPhase
<1>5. p <= v + r
  <2>1. LTS!Until \in Int /\ Rate[l[1]] <= Rate[l[2]]
    BY <1>1, <1>2, <1>3, UntilOfPhase
  <2> HIDE DEF l
  <2>2. Pred[l[2]] <= Corr[l[1]] + Rate[l[2]]
    BY <1>2, <2>1, SlowerJustAhead
  <2> QED
    BY <1>2, <2>2
<1>6. /\ h \in Int /\ Multiple(h, r) /\ h <= p
      /\ Corr'[c] <= h \/ EndOf(epoch, c) <= h
  <2>1. nct'[l] \in ClusterTimes
    BY <1>1, <1>2 DEF ActorTypeOK
  <2>2. h \in Int
    BY <2>1 DEF ClusterTimes
  <2>3. StepsOf(l)' /\ Active(c)'
    BY <1>1, <1>2 DEF StepsInv, Active
  <2>4. Multiple(h, r) /\ (Corr'[c] <= h \/ EndOf(epoch, n)' <= h)
    BY <1>2, <2>3 DEF StepsOf, StepsHeard, Whole
  <2>5. RunningLink(l)'
    BY <1>1, <1>2 DEF MessageInv, LinkInv, LinkOf, LinkAt, RunningLink
  <2>6. h <= ct'[n].predictionsSinceLastSync
    BY <1>2, <2>2, <2>5 DEF RunningLink, Running, MirrorOf, Reported
  <2>7. ct'[n] = ct[n] /\ p = ct[n].predictionsSinceLastSync
    BY <1>1, <1>2, CountersInLoop DEF Correct, ActorTypeOK
  <2> QED
    BY <1>4, <2>2, <2>4, <2>6, <2>7
<1>7. h > v
  BY <1>3, <1>6
<1>8. OnGrid(epoch, n, lastSubTime'[c], h - r) /\ lastSubTime'[c] \in Int
  <2>1. \E m, to1 : ProcessAndSend(c, Waiting(c), m, to1)
    BY <1>1 DEF Correct
  <2>2. \A k \in Clusters \ {c} : ct'[k] = ct[k]
    BY <1>1 DEF Correct, ActorTypeOK
  <2>3. OnGrid(epoch, l[2], lastSubTime'[l[1]], nct'[l].predictionsSinceLastSync - Rate[l[2]])
    <3>1. Rate[l[2]] > Rate[l[1]] /\ nct'[l].predictionsSinceLastSync > Corr[l[1]]
      BY <1>2, <1>7
    <3> HIDE DEF l
    <3> QED
      BY <1>1, <1>2, <2>1, <2>2, <3>1, SubTimeRead
  <2>4. lastSubTime'[c] \in Int
    BY <1>1, SubTimeType DEF SubTimeInv
  <2> QED
    BY <1>2, <2>3, <2>4
<1> HIDE DEF l, h
<1>9. h = p
  <2>1. p < h + r
    BY <1>3, <1>5, <1>6, <1>7
  <2>2. p <= h
    BY <1>3, <1>6, <2>1, NoMultipleBetween
  <2> QED
    BY <1>3, <1>6, <2>2
<1>10. p # 0 /\ v < p
  BY <1>3, <1>6, <1>7, <1>9
<1> DEFINE d == derivative[n]
<1>11. /\ d \in Intervals /\ d.from \in Int /\ d.to \in Int
       /\ OnGrid(epoch, n, d.from, p - r) /\ OnGrid(epoch, n, d.to, p)
  BY <1>1, <1>2, <1>10 DEF PredictionInv, Predictor, Intervals
<1> HIDE DEF d, v, p, r
<1>12. lastSubTime'[c] = d.from
  <2>1. p - r \in Int
    BY <1>3
  <2> QED
    BY <1>1, <1>2, <1>8, <1>9, <1>11, <2>1, SameTime
<1>13. d.from <= from
  <2>1. p - r \in Int /\ p - r <= v
    BY <1>3, <1>5
  <2> QED
    BY <1>1, <1>2, <1>3, <1>11, <2>1, SameGrid DEF v
<1>14. to <= d.to
  <2>1. CASE Pred[c] <= p
    <3>1. Pred[c] \in Int
      BY <1>3
    <3> QED
      BY <1>1, <1>2, <1>3, <1>11, <2>1, <3>1, SameGrid
  <2>2. CASE p >= EndOf(epoch, c)
    <3>1. d.to = SyncTimes[epoch]
      <4>1. ~(p < EndOf(epoch, n))
        BY <1>3, <1>4, <2>2
      <4> QED
        BY <1>1, <1>2, <1>3, <1>11, <4>1, GridTimes, InAPhase
    <3>2. to <= SyncTimes[epoch]
      <4>1. Pred[c] \in Int /\ SyncTimes[epoch] \in Int
        BY <1>1, <1>3, PhaseTimes, InAPhase
      <4>2. to < SyncTimes[epoch] \/ to = SyncTimes[epoch]
        BY <1>1, <4>1, GridTimes, InAPhase
      <4> QED
        BY <4>1, <4>2
    <3> QED
      BY <3>1, <3>2
  <2> QED
    BY <1>3, <2>1, <2>2
<1>15. d.to # SyncTimes[epoch] => neighborTimestep[c] = d.to - d.from
  <2>1. neighborTimestep[c] = MaxTimeStepSize[n]
    BY <1>1, <1>2, CountersInLoop DEF TimestepInv
  <2>2. d.to # SyncTimes[epoch] => d.to - d.from = MaxTimeStepSize[n]
    BY <1>1, <1>2, <1>3, <1>11, WholeTimeStepOnGrid DEF r
  <2> QED
    BY <2>1, <2>2
<1> QED
  BY <1>12, <1>13, <1>14, <1>15 DEF d

\* The state of all data that clusters share.
DataInv == StepsInv /\ PredictionInv /\ SubTimeInv /\ TimestepInv

\* It is kept by every step.
LEMMA NextDataInv ==
    ASSUME ExactArithmetic, SameUnitStep, NeighborRates, MessageInv, MessageInv', Rules, Rules',
           DataInv, [ClusterNext]_clusterVars
    PROVE  DataInv'
<1>1. [Next]_vars
  BY DEF ClusterNext, ClusterStep, clusterVars, Next, Step
<1>2. StepsInv'
  BY <1>1, NextStepsInv DEF DataInv
<1> QED
  BY <1>2, NextPredictionInv, NextSubTimeInv, NextTimestepInv DEF DataInv

\* Nothing has been predicted yet.
LEMMA InitDataInv == ClusterInit => DataInv
<1> SUFFICES ASSUME ClusterInit PROVE DataInv
  OBVIOUS
<1>1. phase = "idle" /\ StartTime \in Int
  BY RateAssumption DEF ClusterInit, Init
<1>2. \A c : ~Active(c)
  BY <1>1 DEF Active
<1>3. /\ derivative \in [Clusters -> Intervals] /\ buffer \in [Clusters -> Intervals]
      /\ lastSubTime \in [Clusters -> Int] /\ DOMAIN neighborTimestep = Clusters
  BY <1>1 DEF ClusterInit, Interval, Intervals
<1> QED
  BY <1>1, <1>2, <1>3 DEF DataInv, StepsInv, StepsOf, PredictionInv, SubTimeInv, SubTimeOf, TimestepInv

\* The invariant of the shared data holds of every run.
LEMMA DataInvariant ==
    ASSUME ExactArithmetic, SameUnitStep, NeighborRates
    PROVE  ClusterSpec => [](MessageInv /\ Rules /\ DataInv)
<1>1. /\ MessageInv /\ Rules /\ MessageInv' /\ Rules' /\ DataInv /\ [ClusterNext]_clusterVars
          => DataInv'
  BY NextDataInv
<1> QED
  BY <1>1, InitDataInv, ClustersInvariant, PTL DEF ClusterSpec

\* A cluster that goes from predicted to corrected makes a correction.
LEMMA CorrectsActs ==
    ASSUME TypeOK, [ClusterNext]_clusterVars, NEW c \in Clusters, Corrects(c)
    PROVE  ClusterNext /\ CorrectCluster(c)
<1>1. state \in [Clusters -> ActorState] /\ state'[c] # state[c]
  BY DEF TypeOK, ActorTypeOK, Corrects
<1>2. ClusterNext
  BY <1>1 DEF clusterVars, vars, actorVars
<1>3. ClusterStep(c)
  BY <1>1, <1>2, OneActs
<1>4. ~ResetCluster(c) /\ ~PollCluster(c)
  BY <1>1 DEF ResetCluster, SetSyncTimeAndReset, PollCluster, Poll
<1>5. ~RestartCluster(c) /\ ~SyncCluster(c) /\ ~PredictCluster(c)
  BY DEF RestartCluster, RestartAfterSync, SyncCluster, Sync, PredictCluster, Predict, Corrects
<1> QED
  BY <1>2, <1>3, <1>4, <1>5 DEF ClusterStep

\* The times of the step a correction makes.
LEMMA CorrectedTimes ==
    ASSUME ExactArithmetic, SameUnitStep, MessageInv, Rules, NEW c \in Clusters, CorrectCluster(c)
    PROVE  /\ ct[c].correctionTime \in Int /\ ct'[c].correctionTime \in Int
           /\ ct'[c].correctionTime = Plus(ct[c].correctionTime, TimeStepSize(c))
           /\ OnGrid(epoch, c, ct[c].correctionTime, Corr[c]) /\ OnGrid(epoch, c, ct'[c].correctionTime, Pred[c])
           /\ syncTime[c] = SyncTimes[epoch]
<1>1. phase = "loop" /\ Correct(c, Waiting(c)) /\ ct \in [Clusters -> ClusterTimes]
  BY DEF CorrectCluster, MessageInv, TypeOK, ActorTypeOK
<1>2. ct'[c].correctionTime = Plus(ct[c].correctionTime, TimeStepSize(c))
  BY <1>1 DEF Correct, ClusterTimes
<1>3. Pred[c] = Corr[c] + Rate[c]
  BY CorrectCounters
<1> QED
  BY <1>1, <1>2, <1>3, StepTimes

\* Whatever order the clusters are polled in, every correction uses the data of
\* exactly the step it corrects: the buffers of faster neighbours, the predictor
\* of one of equal rate, and of a slower one a predictor that covers the step,
\* evaluated at the right offset and in the right time basis
\* (TimeCluster::predict, correct and handleAdvancedPredictionTimeMessage).
THEOREM CorrectionsUseMatchingData ==
    ASSUME ExactArithmetic, SameUnitStep, NeighborRates
    PROVE  ClusterSpec => CorrectUsesMatchingData
<1>1. ASSUME MessageInv, MessageInv', Rules, DataInv, DataInv', [ClusterNext]_clusterVars,
             NEW c \in Clusters, Corrects(c), NEW n \in Neighbors(c)
      PROVE  /\ Rate[n] < Rate[c] => buffer[n] = CorrectedStep(c)
             /\ Rate[n] = Rate[c] => derivative[n] = CorrectedStep(c)
             /\ Rate[n] > Rate[c] =>
                   /\ lastSubTime'[c] = derivative[n].from
                   /\ derivative[n].from <= CorrectedStep(c).from
                   /\ CorrectedStep(c).to <= derivative[n].to
                   /\ derivative[n].to # syncTime[c] =>
                         neighborTimestep[c] = derivative[n].to - derivative[n].from
  <2> DEFINE from == ct[c].correctionTime
             to == ct'[c].correctionTime
  <2>1. ClusterNext /\ CorrectCluster(c) /\ TypeOK
    BY <1>1, CorrectsActs DEF MessageInv
  <2>2. HandlePredictionMessages(c)
    BY <2>1, CorrectionActs
  <2>3. /\ from \in Int /\ to \in Int /\ syncTime[c] = SyncTimes[epoch]
        /\ OnGrid(epoch, c, from, Corr[c]) /\ OnGrid(epoch, c, to, Pred[c])
    BY <1>1, <2>1, CorrectedTimes
  <2>4. /\ CorrectedStep(c) = Interval(from, to)
        /\ CorrectedStep(c).from = from /\ CorrectedStep(c).to = to
    BY DEF CorrectedStep, Interval
  <2>5. n \in Clusters /\ Rate[n] \in Nat /\ Rate[c] \in Nat
    BY RateAssumption DEF Neighbors
  <2> HIDE DEF from, to
  <2>6. ASSUME Rate[n] <= Rate[c]
        PROVE  /\ Rate[n] < Rate[c] => buffer[n] = Interval(from, to)
               /\ Rate[n] = Rate[c] => derivative[n] = Interval(from, to)
    BY <1>1, <2>1, <2>3, <2>6, DataOfFaster DEF DataInv
  <2>7. ASSUME Rate[n] > Rate[c]
        PROVE  /\ lastSubTime'[c] = derivative[n].from
               /\ derivative[n].from <= from /\ to <= derivative[n].to
               /\ derivative[n].to # SyncTimes[epoch] =>
                      neighborTimestep[c] = derivative[n].to - derivative[n].from
    BY <1>1, <2>1, <2>2, <2>3, <2>7, DataOfSlower DEF DataInv
  <2> QED
    BY <2>3, <2>4, <2>5, <2>6, <2>7
<1>2. /\ MessageInv /\ MessageInv' /\ Rules /\ DataInv /\ DataInv' /\ [ClusterNext]_clusterVars
      => [\A c \in Clusters : Corrects(c) =>
          \A n \in Neighbors(c) :
             /\ Rate[n] < Rate[c] => buffer[n] = CorrectedStep(c)
             /\ Rate[n] = Rate[c] => derivative[n] = CorrectedStep(c)
             /\ Rate[n] > Rate[c] =>
                   /\ lastSubTime'[c] = derivative[n].from
                   /\ derivative[n].from <= CorrectedStep(c).from
                   /\ CorrectedStep(c).to <= derivative[n].to
                   /\ derivative[n].to # syncTime[c] =>
                         neighborTimestep[c] = derivative[n].to - derivative[n].from]_clusterVars
  BY <1>1
<1> QED
  BY <1>2, DataInvariant, PTL DEF ClusterSpec, CorrectUsesMatchingData

----------------------------------------------------------------------------
(* How often friction is evaluated *)

Members(i) == {k \in Clusters : InteriorOf[k] = i}

\* An interior layer is its own, and the layers of one cluster id, the interior
\* and the copy layer, are connected (TimeManager::addClusters).
LayersOfAnId ==
    /\ \A i \in InteriorClusters : InteriorOf[i] = i
    /\ \A k, j \in Clusters : InteriorOf[k] = InteriorOf[j] /\ k # j => <<k, j>> \in Links

\* What f, the interior layer's friction, is to its cluster k at time t, s steps
\* after the start and v in this phase, when it was last evaluated for the step
\* last: k has corrected that step, or is about to.
FrictionFor(k, f, last, s, t, v) ==
    /\ s >= last
    /\ s > last => f.to = t
    /\ s = last => phase # "idle" /\ f.from = t /\ OnGrid(epoch, k, f.to, v + Rate[k])

\* One cluster of the layer's id has corrected the step, and the clusters are
\* never out of step by a phase.
FrictionOf(i) ==
    /\ \E k \in Members(i) : ct[k].stepsSinceStart > lastCorrectionStepsInterior[i]
    /\ \A k \in Members(i) :
           FrictionFor(k, friction[i], lastCorrectionStepsInterior[i], ct[k].stepsSinceStart,
                       ct[k].correctionTime, Corr[k])
    /\ \A k, j \in Members(i) :
           /\ ct[k].stepsSinceStart - Corr[k] = ct[j].stepsSinceStart - Corr[j]
           /\ phase = "idle" => ct[k].stepsSinceStart = ct[j].stepsSinceStart

FrictionInv ==
    /\ friction \in [Clusters -> Intervals]
    /\ lastCorrectionStepsInterior \in [InteriorClusters -> Int]
    /\ \A i \in InteriorClusters : FrictionOf(i)

\* Steps that correct nothing and neither begin nor end a phase keep it.
LEMMA FrictionKept ==
    ASSUME FrictionInv, UNCHANGED <<friction, lastCorrectionStepsInterior, epoch>>,
           phase = "idle" <=> phase' = "idle",
           \A k \in Clusters : /\ ct'[k].stepsSinceStart = ct[k].stepsSinceStart
                               /\ ct'[k].correctionTime = ct[k].correctionTime
                               /\ Corr'[k] = Corr[k]
    PROVE  FrictionInv'
<1> SUFFICES ASSUME NEW i \in InteriorClusters
             PROVE  FrictionOf(i)'
  BY DEF FrictionInv
<1>1. FrictionOf(i)
  BY DEF FrictionInv
<1>2. \A k \in Members(i) : k \in Clusters
  BY DEF Members
<1>3. ASSUME NEW k \in Members(i)
      PROVE  FrictionFor(k, friction[i], lastCorrectionStepsInterior[i], ct[k].stepsSinceStart,
                         ct[k].correctionTime, Corr[k])'
  BY <1>1, <1>2 DEF FrictionOf, FrictionFor, OnGrid, PhaseStart
<1>4. \E k \in Members(i) : ct'[k].stepsSinceStart > lastCorrectionStepsInterior'[i]
  BY <1>1, <1>2 DEF FrictionOf
<1>5. ASSUME NEW k \in Members(i), NEW j \in Members(i)
      PROVE  /\ ct'[k].stepsSinceStart - Corr'[k] = ct'[j].stepsSinceStart - Corr'[j]
             /\ phase' = "idle" => ct'[k].stepsSinceStart = ct'[j].stepsSinceStart
  BY <1>1, <1>2 DEF FrictionOf
<1>6. Members(i)' = Members(i)
  BY DEF Members
<1> QED
  BY <1>3, <1>4, <1>5, <1>6 DEF FrictionOf

\* At the end of a phase all clusters of one rate have made the same steps.
LEMMA EqualRatesEndTogether ==
    ASSUME ExactArithmetic, SameUnitStep, MessageInv, Rules, Finish,
           NEW k \in Clusters, NEW j \in Clusters, Rate[k] = Rate[j]
    PROVE  Corr[k] = Corr[j]
<1>1. phase = "loop" /\ state[k] = "Synced" /\ state[j] = "Synced" /\ TypeOK
  BY DEF Finish, AllSynced, MessageInv
<1>2. ASSUME NEW c \in Clusters, state[c] = "Synced"
      PROVE  Corr[c] >= EndOf(epoch, c) /\ Pred[c] = Corr[c]
  <2>1. InPhase(c)
    BY <1>1 DEF MessageInv, ClockInv, ClockOf
  <2>2. MaySync(ct[c]) /\ ct[c].stepsUntilSync = EndOf(epoch, c)
    BY <1>1, <1>2, <2>1 DEF InPhase, ClockAt, EndOf
  <2>3. ct[c].predictionsSinceLastSync = ct[c].stepsSinceLastSync + 0
    BY <1>2, <2>1 DEF InPhase, ClockAt
  <2>4. ct[c].stepsSinceLastSync \in Int
    BY <1>1 DEF TypeOK, ActorTypeOK, ClusterTimes
  <2>5. Pred[c] = ct[c].predictionsSinceLastSync /\ Corr[c] = ct[c].stepsSinceLastSync
    BY <1>1, CountersInLoop
  <2> QED
    BY <2>2, <2>3, <2>4, <2>5 DEF MaySync
<1>3. EndOf(epoch, k) = LTS!Until /\ EndOf(epoch, j) = LTS!Until /\ LTS!Until \in Nat \ {0}
  BY <1>1, UntilOfPhase, EndOfFacts, InAPhase
<1>4. WholeSteps(k) /\ WholeSteps(j)
  BY DEF Rules
<1>5. Rate[k] \in Nat \ {0}
  BY RateAssumption
<1>6. Corr[k] < Corr[j] + Rate[k] /\ Corr[j] < Corr[k] + Rate[k]
  BY <1>1, <1>2, <1>3, <1>4, <1>5 DEF WholeSteps
<1>7. Corr[k] <= Corr[j] /\ Corr[j] <= Corr[k]
  BY <1>4, <1>5, <1>6, NoMultipleBetween DEF WholeSteps
<1> QED
  BY <1>4, <1>7 DEF WholeSteps

\* The end of a phase: whatever has been corrected, all clusters of the id have.
LEMMA FinishFriction ==
    ASSUME ExactArithmetic, SameUnitStep, MessageInv, Rules, Finish, FrictionInv,
           UNCHANGED <<friction, lastCorrectionStepsInterior>>
    PROVE  FrictionInv'
<1> SUFFICES ASSUME NEW i \in InteriorClusters
             PROVE  FrictionOf(i)'
  BY DEF FrictionInv
<1> DEFINE last == lastCorrectionStepsInterior[i]
<1>1. FrictionOf(i) /\ last \in Int
  BY DEF FrictionInv
<1>2. \A k \in Members(i) : k \in Clusters /\ Rate[k] = Rate[i] /\ ct[k].stepsSinceStart \in Int
  BY LayerAssumption DEF Members, MessageInv, TypeOK, ActorTypeOK, ClusterTimes
<1>3. /\ phase = "loop" /\ phase' = "idle" /\ ct' = ct /\ Corr' = Corr
      /\ last' = last /\ friction' = friction
  BY DEF Finish, actorVars, Corr, Counter
<1>4. \A k, j \in Members(i) : Corr[k] = Corr[j]
  BY <1>2, EqualRatesEndTogether
<1>5. \A k \in Clusters : Corr[k] \in Int
  BY DEF Rules, WholeSteps
<1>6. \A k, j \in Members(i) : ct[k].stepsSinceStart = ct[j].stepsSinceStart
  BY <1>1, <1>2, <1>4, <1>5 DEF FrictionOf
<1>7. ASSUME NEW k \in Members(i)
      PROVE  ct[k].stepsSinceStart > last /\ friction[i].to = ct[k].correctionTime
  BY <1>1, <1>2, <1>6 DEF FrictionOf, FrictionFor
<1>8. Members(i)' = Members(i)
  BY DEF Members
<1>9. ASSUME NEW k \in Members(i)
      PROVE  FrictionFor(k, friction[i], last, ct[k].stepsSinceStart, ct[k].correctionTime, Corr[k])'
  BY <1>1, <1>2, <1>3, <1>7 DEF FrictionFor
<1>10. (\E k \in Members(i) : ct[k].stepsSinceStart > last)'
  BY <1>1, <1>3, <1>7, <1>8 DEF FrictionOf
<1> QED
  BY <1>3, <1>4, <1>6, <1>8, <1>9, <1>10 DEF FrictionOf

\* So a new phase begins with no step corrected in part.
LEMMA AdvanceFriction ==
    ASSUME TypeOK, AdvanceInTime, FrictionInv, UNCHANGED <<friction, lastCorrectionStepsInterior>>
    PROVE  FrictionInv'
<1> SUFFICES ASSUME NEW i \in InteriorClusters
             PROVE  FrictionOf(i)'
  BY DEF FrictionInv
<1> DEFINE last == lastCorrectionStepsInterior[i]
<1>1. FrictionOf(i) /\ last \in Int
  BY DEF FrictionInv
<1>2. \A k \in Members(i) : k \in Clusters /\ ct[k].stepsSinceStart \in Int
  BY DEF Members, TypeOK, ActorTypeOK, ClusterTimes
<1>3. phase = "idle" /\ phase' = "reset" /\ ct' = ct /\ todo' = Clusters
  BY DEF AdvanceInTime, actorVars
<1>4. \A k \in Clusters : Corr'[k] = 0
  BY <1>3 DEF Corr, Counter
<1>5. \A k, j \in Members(i) : ct[k].stepsSinceStart = ct[j].stepsSinceStart
  BY <1>1, <1>3 DEF FrictionOf
<1>6. ASSUME NEW k \in Members(i)
      PROVE  ct[k].stepsSinceStart > last /\ friction[i].to = ct[k].correctionTime
  BY <1>1, <1>2, <1>5 DEF FrictionOf, FrictionFor
<1>7. Members(i)' = Members(i)
  BY DEF Members
<1>8. ASSUME NEW k \in Members(i)
      PROVE  FrictionFor(k, friction[i], last, ct[k].stepsSinceStart, ct[k].correctionTime, Corr[k])'
  BY <1>1, <1>2, <1>3, <1>6 DEF FrictionFor
<1>9. (\E k \in Members(i) : ct[k].stepsSinceStart > last)'
  BY <1>1, <1>3, <1>6, <1>7 DEF FrictionOf
<1> QED
  BY <1>2, <1>3, <1>4, <1>5, <1>7, <1>8, <1>9 DEF FrictionOf

\* A cluster that corrects finds the others of its id at the same step, or one
\* ahead, with the same step predicted.
LEMMA OthersOfAnId ==
    ASSUME ExactArithmetic, SameUnitStep, NeighborRates, LayersOfAnId, MessageInv, Rules,
           NEW c \in Clusters, CorrectCluster(c), NEW k \in Clusters \ {c},
           InteriorOf[k] = InteriorOf[c]
    PROVE  /\ k \in Neighbors(c) /\ Rate[k] = Rate[c] /\ MaxTimeStepSize[k] = MaxTimeStepSize[c]
           /\ Corr[k] = Corr[c] \/ Corr[k] = Pred[c]
<1>1. k \in Neighbors(c) /\ <<k, c>> \in Links /\ <<c, k>> \in Links
  BY DEF LayersOfAnId, Neighbors
<1>2. Rate[k] = Rate[c] /\ Rate[c] \in Nat \ {0}
  BY LayerAssumption, RateAssumption
<1>3. MaxTimeStepSize[k] = MaxTimeStepSize[c]
  BY <1>2, LargerIsSlower
<1>4. /\ Pred[c] = Corr[c] + Rate[c] /\ Corr[c] < EndOf(epoch, c) /\ EndOf(epoch, c) \in Int
      /\ Pred[k] >= EndOf(epoch, c) \/ Pred[c] <= Pred[k]
  <2>1. EndOf(epoch, k) = EndOf(epoch, c)
    BY SameEnd, InAPhase DEF CorrectCluster, MessageInv
  <2> QED
    BY <1>1, <2>1, CorrectCounters
<1>5. LTS!Until = EndOf(epoch, c)
  BY UntilOfPhase DEF CorrectCluster, MessageInv
<1>6. Pred[k] <= Pred[c]
  <2> DEFINE l == <<k, c>>
  <2>1. l \in Links /\ Rate[l[1]] <= Rate[l[2]] /\ Pred[l[2]] # Corr[l[2]] /\ LTS!Until \in Int
    BY <1>1, <1>2, <1>4, <1>5 DEF Rules, WholeSteps
  <2> HIDE DEF l
  <2>2. Pred[l[1]] <= Pred[l[2]]
    BY <2>1, FasterNotAhead
  <2> QED
    BY <2>2 DEF l
<1>7. WholeSteps(k) /\ WholeSteps(c)
  BY DEF Rules
<1>8. Pred[c] <= Pred[k]
  <2>1. Pred[c] < Pred[k] + Rate[c]
    BY <1>2, <1>4, <1>7 DEF WholeSteps
  <2> QED
    BY <1>2, <1>7, <2>1, NoMultipleBetween DEF WholeSteps
<1>9. Corr[k] = Corr[c] \/ Corr[k] = Pred[c]
  BY <1>2, <1>4, <1>6, <1>7, <1>8 DEF WholeSteps
<1> QED
  BY <1>1, <1>2, <1>3, <1>9

\* What a correction of c does to the times and counters, in the loop.
LEMMA CorrectedClock ==
    ASSUME ExactArithmetic, SameUnitStep, MessageInv, Rules, NEW c \in Clusters, CorrectCluster(c)
    PROVE  /\ ct[c].stepsSinceStart \in Int
           /\ ct'[c].stepsSinceStart = ct[c].stepsSinceStart + Rate[c]
           /\ \A k \in Clusters \ {c} : ct'[k] = ct[k]
<1>1. Correct(c, Waiting(c)) /\ ct \in [Clusters -> ClusterTimes]
  BY DEF CorrectCluster, MessageInv, TypeOK, ActorTypeOK
<1> QED
  BY <1>1 DEF Correct, ClusterTimes

\* The first cluster of an id to correct a step evaluates friction from where it
\* was left, and finds the other clusters before that step.
LEMMA FirstOfAnId ==
    ASSUME ExactArithmetic, SameUnitStep, NeighborRates, LayersOfAnId, MessageInv, Rules,
           FrictionInv, NEW c \in Clusters, CorrectCluster(c), CorrectData(c), MayComputeInterior(c)
    PROVE  LET i == InteriorOf[c]
           IN  /\ friction'[i] = CorrectedStep(c)
               /\ lastCorrectionStepsInterior'[i] = ct[c].stepsSinceStart
               /\ \A k \in Members(i) \ {c} :
                      /\ Corr[k] = Corr[c] /\ ct[k].stepsSinceStart = ct[c].stepsSinceStart
                      /\ ct[k].correctionTime = ct[c].correctionTime
<1> DEFINE i == InteriorOf[c]
           last == lastCorrectionStepsInterior[i]
           from == ct[c].correctionTime
           to == ct'[c].correctionTime
<1>1. /\ phase = "loop" /\ TypeOK /\ i \in InteriorClusters /\ i \in Clusters /\ c \in Members(i)
      /\ Rate[c] \in Nat \ {0}
  BY LayerAssumption, RateAssumption DEF CorrectCluster, MessageInv, InteriorClusters, Members
<1>2. FrictionOf(i) /\ last \in Int /\ friction[i] \in Intervals
  BY <1>1 DEF FrictionInv
<1>3. ct[c].stepsSinceStart > last /\ ct[c].stepsSinceStart \in Int
  BY CorrectedClock DEF MayComputeInterior
<1>4. friction[i].to = from
  BY <1>1, <1>2, <1>3 DEF FrictionOf, FrictionFor
<1>5. /\ from \in Int /\ to \in Int /\ to = Plus(from, TimeStepSize(c))
      /\ OnGrid(epoch, c, from, Corr[c]) /\ OnGrid(epoch, c, to, Pred[c])
  BY CorrectedTimes
<1>6. friction'[i] = CorrectedStep(c)
  <2>1. i \in Evaluated(c)
    BY DEF Evaluated
  <2> QED
    BY <1>1, <1>4, <1>5, <2>1 DEF CorrectData, CorrectedStep
<1>7. lastCorrectionStepsInterior'[i] = ct[c].stepsSinceStart
  BY <1>1 DEF CorrectData, FrictionInv
<1>8. /\ Pred[c] = Corr[c] + Rate[c] /\ Corr[c] < EndOf(epoch, c) /\ Corr[c] \in Int
  BY CorrectCounters DEF Rules, WholeSteps
<1>9. ASSUME NEW k \in Members(i) \ {c}
      PROVE  /\ Corr[k] = Corr[c] /\ ct[k].stepsSinceStart = ct[c].stepsSinceStart
             /\ ct[k].correctionTime = from
  <2> DEFINE t == ct[k].correctionTime
             s == ct[k].stepsSinceStart
  <2>1. k \in Clusters \ {c} /\ InteriorOf[k] = InteriorOf[c]
    BY DEF Members
  <2>2. Corr[k] = Corr[c] \/ Corr[k] = Pred[c]
    BY <2>1, OthersOfAnId
  <2>3. Rate[k] = Rate[c] /\ EndOf(epoch, k) = EndOf(epoch, c)
    BY <1>1, <2>1, OthersOfAnId, SameEnd, InAPhase
  <2>4. s \in Int /\ s - Corr[k] = ct[c].stepsSinceStart - Corr[c]
    BY <1>1, <1>2, <2>1 DEF FrictionOf, TypeOK, ActorTypeOK, ClusterTimes
  <2>5. t \in Int /\ OnGrid(epoch, k, t, Corr[k]) /\ Corr[k] \in Int
    BY <1>1, <2>1, StepTimes DEF Rules, WholeSteps
  <2>6. Corr[k] # Pred[c]
    <3> SUFFICES ASSUME Corr[k] = Pred[c] PROVE FALSE
      OBVIOUS
    <3>1. s > last
      BY <1>1, <1>2, <1>3, <1>8, <2>4
    <3>2. t = from
      BY <1>2, <1>4, <3>1 DEF FrictionOf, FrictionFor
    <3>3. t = to
      <4>1. Pred[c] \in Int /\ OnGrid(epoch, k, t, Pred[c])
        BY <1>1, <1>8, <2>5
      <4> QED
        BY <1>1, <1>5, <2>1, <2>5, <4>1, SameTime
    <3>4. from < to
      <4>1. Corr[c] < Pred[c] /\ Pred[c] \in Int
        BY <1>1, <1>8
      <4> QED
        BY <1>1, <1>5, <1>8, <4>1, GridTimes, InAPhase
    <3> QED
      BY <1>5, <3>2, <3>3, <3>4
  <2>7. Corr[k] = Corr[c]
    BY <2>2, <2>6
  <2>8. t = from
    BY <1>1, <1>5, <1>8, <2>1, <2>5, <2>7, SameTime
  <2> QED
    BY <1>3, <1>8, <2>4, <2>7, <2>8
<1> QED
  BY <1>6, <1>7, <1>9

\* The second one finds it evaluated for its own step.
LEMMA SecondOfAnId ==
    ASSUME ExactArithmetic, SameUnitStep, MessageInv, Rules, FrictionInv,
           NEW c \in Clusters, CorrectCluster(c), CorrectData(c), ~MayComputeInterior(c)
    PROVE  LET i == InteriorOf[c]
           IN  /\ ct[c].stepsSinceStart = lastCorrectionStepsInterior[i]
               /\ UNCHANGED lastCorrectionStepsInterior
               /\ friction'[i] = friction[i] /\ friction[i] = CorrectedStep(c)
<1> DEFINE i == InteriorOf[c]
           last == lastCorrectionStepsInterior[i]
           from == ct[c].correctionTime
           to == ct'[c].correctionTime
<1>1. /\ phase = "loop" /\ TypeOK /\ i \in InteriorClusters /\ i \in Clusters /\ i \notin CopyClusters
      /\ c \in Members(i)
  BY LayerAssumption DEF CorrectCluster, MessageInv, InteriorClusters, Members
<1>2. FrictionOf(i) /\ last \in Int /\ friction[i] \in Intervals
  BY <1>1 DEF FrictionInv
<1>3. ct[c].stepsSinceStart = last
  <2>1. ct[c].stepsSinceStart \in Int /\ ~(ct[c].stepsSinceStart > last)
    BY CorrectedClock DEF MayComputeInterior
  <2>2. ct[c].stepsSinceStart >= last
    BY <1>1, <1>2 DEF FrictionOf, FrictionFor
  <2> QED
    BY <1>2, <2>1, <2>2
<1>4. friction[i].from = from /\ OnGrid(epoch, c, friction[i].to, Corr[c] + Rate[c])
  BY <1>1, <1>2, <1>3 DEF FrictionOf, FrictionFor
<1>5. to \in Int /\ OnGrid(epoch, c, to, Pred[c])
  BY CorrectedTimes
<1>6. Pred[c] = Corr[c] + Rate[c] /\ Pred[c] \in Int
  BY CorrectCounters DEF Rules, WholeSteps
<1>7. friction[i].to = to
  BY <1>1, <1>2, <1>4, <1>5, <1>6, SameTime DEF Intervals
<1>8. friction[i] = CorrectedStep(c)
  BY <1>2, <1>4, <1>7 DEF Intervals, CorrectedStep, Interval
<1>9. friction'[i] = friction[i]
  <2>1. i \notin Evaluated(c)
    BY <1>1 DEF Evaluated
  <2> QED
    BY <1>1, <2>1 DEF CorrectData
<1> QED
  BY <1>3, <1>8, <1>9 DEF CorrectData

\* A correction keeps the friction of every layer.
LEMMA CorrectFriction ==
    ASSUME ExactArithmetic, SameUnitStep, NeighborRates, LayersOfAnId, MessageInv, Rules,
           FrictionInv, NEW c \in Clusters, CorrectCluster(c), CorrectData(c)
    PROVE  FrictionInv' /\ friction'[InteriorOf[c]] = CorrectedStep(c)
<1> DEFINE i == InteriorOf[c]
           last == lastCorrectionStepsInterior[i]
           from == ct[c].correctionTime
           to == ct'[c].correctionTime
           s == ct[c].stepsSinceStart
           r == Rate[c]
<1>1. /\ phase = "loop" /\ phase' = "loop" /\ epoch' = epoch /\ TypeOK
      /\ i \in InteriorClusters /\ i \in Clusters /\ c \in Members(i) /\ r \in Nat \ {0}
  BY LayerAssumption, RateAssumption
     DEF CorrectCluster, managerVars, MessageInv, InteriorClusters, Members
<1>2. FrictionOf(i) /\ last \in Int
  BY <1>1 DEF FrictionInv
<1>3. s \in Int /\ ct'[c].stepsSinceStart = s + r /\ \A k \in Clusters \ {c} : ct'[k] = ct[k]
  BY CorrectedClock
<1>4. /\ Pred[c] = Corr[c] + r /\ Corr[c] \in Int /\ Corr'[c] = Corr[c] + r
      /\ \A k \in Clusters \ {c} : Corr'[k] = Corr[k]
  BY CorrectCounters DEF Rules, WholeSteps
<1>5. from \in Int /\ to \in Int /\ OnGrid(epoch, c, from, Corr[c]) /\ OnGrid(epoch, c, to, Corr[c] + r)
  BY <1>4, CorrectedTimes
<1>6. friction' \in [Clusters -> Intervals] /\ lastCorrectionStepsInterior' \in [InteriorClusters -> Int]
  <2>1. friction'[i] = CorrectedStep(c)
    BY FirstOfAnId, SecondOfAnId
  <2>2. ASSUME NEW l \in Clusters
        PROVE  friction'[l] \in Intervals
    <3>1. CASE l \in Evaluated(c)
      <4>1. friction'[l] = Interval(from, Plus(friction[l].to, TimeStepSize(c)))
        BY <3>1 DEF CorrectData
      <4>2. friction[l].to \in Int /\ TimeStepSize(c) \in Int
        BY <1>1, StepTimes DEF FrictionInv, Intervals
      <4>3. Plus(friction[l].to, TimeStepSize(c)) \in Int
        <5>1. \A a, b \in Int : Plus(a, b) \in Int
          BY ExactOperations
        <5> QED
          BY <4>2, <5>1
      <4> QED
        BY <1>5, <4>1, <4>3 DEF Interval, Intervals
    <3>2. CASE l \notin Evaluated(c)
      BY <3>2 DEF CorrectData, FrictionInv
    <3> QED
      BY <3>1, <3>2
  <2>3. lastCorrectionStepsInterior' \in [InteriorClusters -> Int]
    BY <1>3 DEF CorrectData, FrictionInv
  <2> QED
    BY <2>2, <2>3 DEF CorrectData
<1>7. friction'[i] = CorrectedStep(c) /\ friction'[i].from = from /\ friction'[i].to = to
  BY FirstOfAnId, SecondOfAnId DEF CorrectedStep, Interval
<1>8. lastCorrectionStepsInterior'[i] = s
  BY FirstOfAnId, SecondOfAnId
<1>9. \A k \in Members(i) : k \in Clusters /\ InteriorOf[k] = InteriorOf[c] /\ Members(i)' = Members(i)
  BY DEF Members
<1>10. \A k, j \in Members(i) : ct'[k].stepsSinceStart - Corr'[k] = ct'[j].stepsSinceStart - Corr'[j]
  <2>1. \A k \in Members(i) : ct[k].stepsSinceStart - Corr[k] = s - Corr[c]
    BY <1>1, <1>2 DEF FrictionOf
  <2>2. \A k \in Members(i) : ct'[k].stepsSinceStart - Corr'[k] = s - Corr[c]
    BY <1>1, <1>3, <1>4, <1>9, <2>1
  <2> QED
    BY <2>2
<1>11. ASSUME NEW k \in Members(i)
       PROVE  FrictionFor(k, friction[i], last, ct[k].stepsSinceStart, ct[k].correctionTime, Corr[k])'
  <2>1. CASE k = c
    BY <1>1, <1>3, <1>7, <1>8, <2>1 DEF FrictionFor
  <2>2. CASE k # c /\ MayComputeInterior(c)
    <3>1. Corr[k] = Corr[c] /\ ct[k].stepsSinceStart = s /\ ct[k].correctionTime = from
      BY <2>2, FirstOfAnId
    <3>2. Rate[k] = r /\ MaxTimeStepSize[k] = MaxTimeStepSize[c]
      BY <1>9, <2>2, OthersOfAnId
    <3>3. OnGrid(epoch, k, to, Corr[k] + Rate[k])
      BY <1>5, <3>1, <3>2 DEF OnGrid
    <3>4. OnGrid(epoch, k, friction[i].to, Corr[k] + Rate[k])'
      BY <1>1, <1>4, <1>7, <1>9, <2>2, <3>3 DEF OnGrid, PhaseStart
    <3> QED
      BY <1>1, <1>3, <1>7, <1>8, <1>9, <2>2, <3>1, <3>4 DEF FrictionFor
  <2>3. CASE k # c /\ ~MayComputeInterior(c)
    <3>1. /\ friction'[i] = friction[i]
          /\ lastCorrectionStepsInterior' = lastCorrectionStepsInterior
      BY <2>3, SecondOfAnId
    <3>2. ct'[k] = ct[k] /\ Corr'[k] = Corr[k]
      BY <1>3, <1>4, <1>9, <2>3
    <3>3. FrictionFor(k, friction[i], last, ct[k].stepsSinceStart, ct[k].correctionTime, Corr[k])
      BY <1>2 DEF FrictionOf
    <3> QED
      BY <1>1, <3>1, <3>2, <3>3 DEF FrictionFor, OnGrid, PhaseStart
  <2> QED
    BY <2>1, <2>2, <2>3
<1>12. ct'[c].stepsSinceStart > lastCorrectionStepsInterior'[i]
  BY <1>1, <1>3, <1>8
<1>13. FrictionOf(i)'
  BY <1>1, <1>9, <1>10, <1>11, <1>12 DEF FrictionOf
<1>14. ASSUME NEW l \in InteriorClusters, l # i
       PROVE  FrictionOf(l)'
  <2>1. friction'[l] = friction[l] /\ lastCorrectionStepsInterior'[l] = lastCorrectionStepsInterior[l]
    <3>1. l \notin Evaluated(c) /\ l \in Clusters
      BY <1>14 DEF Evaluated, InteriorClusters
    <3> QED
      BY <1>14, <3>1 DEF CorrectData, FrictionInv
  <2>2. \A k \in Members(l) : k \in Clusters /\ ct'[k] = ct[k] /\ Corr'[k] = Corr[k]
    BY <1>3, <1>4, <1>14 DEF Members
  <2>3. FrictionOf(l) /\ Members(l)' = Members(l)
    BY DEF FrictionInv, Members
  <2>4. ASSUME NEW k \in Members(l)
        PROVE  FrictionFor(k, friction[l], lastCorrectionStepsInterior[l], ct[k].stepsSinceStart,
                           ct[k].correctionTime, Corr[k])'
    BY <1>1, <2>1, <2>2, <2>3 DEF FrictionOf, FrictionFor, OnGrid, PhaseStart
  <2> QED
    BY <1>1, <2>1, <2>2, <2>3, <2>4 DEF FrictionOf
<1> QED
  BY <1>6, <1>7, <1>13, <1>14 DEF FrictionInv

\* So does every step.
LEMMA NextFrictionInv ==
    ASSUME ExactArithmetic, SameUnitStep, NeighborRates, LayersOfAnId, MessageInv, Rules,
           FrictionInv, [ClusterNext]_clusterVars
    PROVE  FrictionInv'
<1>1. TypeOK /\ ct \in [Clusters -> ClusterTimes]
  BY DEF MessageInv, TypeOK, ActorTypeOK
<1>2. CASE UNCHANGED clusterVars
  <2>1. UNCHANGED <<friction, lastCorrectionStepsInterior, epoch, phase, todo, ct>>
    BY <1>2 DEF clusterVars, vars, actorVars, managerVars, dataVars
  <2>2. Corr' = Corr
    BY <2>1 DEF Corr, Counter
  <2> QED
    BY <2>1, <2>2, FrictionKept
<1>3. CASE AdvanceInTime /\ UNCHANGED dataVars
  <2>1. UNCHANGED <<friction, lastCorrectionStepsInterior>>
    BY <1>3 DEF dataVars
  <2> QED
    BY <1>1, <1>3, <2>1, AdvanceFriction
<1>4. CASE Finish /\ UNCHANGED dataVars
  <2>1. UNCHANGED <<friction, lastCorrectionStepsInterior>>
    BY <1>4 DEF dataVars
  <2> QED
    BY <1>4, <2>1, FinishFriction
<1>5. CASE Over /\ UNCHANGED dataVars
  BY <1>2, <1>5 DEF Over, clusterVars
<1>6. ASSUME NEW c \in Clusters, ClusterStep(c)
      PROVE  FrictionInv'
  <2>1. CASE CorrectCluster(c)
    <3>1. CorrectData(c)
      BY <1>1, <1>6, <2>1, CorrectionActs DEF ClusterNext
    <3> QED
      BY <2>1, <3>1, CorrectFriction
  <2>2. CASE PredictCluster(c) /\ PredictData(c)
    <3>1. UNCHANGED <<friction, lastCorrectionStepsInterior, epoch, phase>>
      BY <2>2 DEF PredictCluster, PredictData, managerVars
    <3>2. \A k \in Clusters : Corr'[k] = Corr[k]
      BY <2>2, PredictCounters
    <3>3. \A k \in Clusters : /\ ct'[k].stepsSinceStart = ct[k].stepsSinceStart
                              /\ ct'[k].correctionTime = ct[k].correctionTime
      BY <1>1, <2>2 DEF PredictCluster, Predict, ClusterTimes
    <3> QED
      BY <3>1, <3>2, <3>3, FrictionKept
  <2>3. CASE ResetCluster(c) /\ ResetData(c)
    <3>1. /\ UNCHANGED <<friction, lastCorrectionStepsInterior, epoch>>
          /\ phase = "reset" /\ phase' \in {"reset", "restart"}
      BY <2>3 DEF ResetCluster, ResetData, LoopStep
    <3>2. \A k \in Clusters : Corr'[k] = Corr[k]
      <4>1. UNCHANGED LTS!ltsVars
        BY <1>1, <2>3, ResetSimulates
      <4> QED
        BY <4>1 DEF LTS!ltsVars, Corr
    <3>3. \A k \in Clusters : /\ ct'[k].stepsSinceStart = ct[k].stepsSinceStart
                              /\ ct'[k].correctionTime = ct[k].correctionTime
      <4>1. ct' = [ct EXCEPT ![c] = Cleared(@, StepsUntil(c, ct[c].correctionTime, SyncTimes[epoch]))]
        BY <2>3 DEF ResetCluster, SetSyncTimeAndReset
      <4> QED
        BY <1>1, <4>1 DEF Cleared, ClusterTimes
    <3> QED
      BY <3>1, <3>2, <3>3, FrictionKept
  <2>4. CASE (RestartCluster(c) \/ PollCluster(c) \/ SyncCluster(c)) /\ KeepData
    <3>1. /\ UNCHANGED <<friction, lastCorrectionStepsInterior, epoch, ct>>
          /\ phase \in {"restart", "loop"} /\ phase' \in {"restart", "loop"}
      BY <2>4 DEF KeepData, RestartCluster, RestartAfterSync, PollCluster, Poll, SyncCluster, Sync,
                  LoopStep, managerVars
    <3>2. Corr' = Corr
      BY <3>1 DEF Corr, Counter
    <3> QED
      BY <3>1, <3>2, FrictionKept
  <2> QED
    BY <1>6, <2>1, <2>2, <2>3, <2>4 DEF ClusterStep
<1> QED
  BY <1>2, <1>3, <1>4, <1>5, <1>6 DEF ClusterNext

\* No step has been corrected, and the counter of every layer is before the first.
LEMMA InitFrictionInv ==
    ASSUME LayersOfAnId, ClusterInit
    PROVE  FrictionInv
<1>1. /\ phase = "idle" /\ StartTime \in Int
      /\ \A k \in Clusters : /\ ct[k].stepsSinceStart = 0 /\ ct[k].correctionTime = StartTime
                             /\ Corr[k] = 0
  BY RateAssumption DEF ClusterInit, Init, ActorInit, Corr, Counter
<1>2. /\ friction = [c \in Clusters |-> Interval(StartTime, StartTime)]
      /\ lastCorrectionStepsInterior = [c \in InteriorClusters |-> -1]
  BY DEF ClusterInit
<1>3. ASSUME NEW i \in InteriorClusters
      PROVE  FrictionOf(i)
  <2>1. i \in Members(i) /\ i \in Clusters /\ \A k \in Members(i) : k \in Clusters
    BY DEF LayersOfAnId, Members, InteriorClusters
  <2>2. friction[i].to = StartTime /\ lastCorrectionStepsInterior[i] = -1
    BY <1>2, <2>1 DEF Interval
  <2> QED
    BY <1>1, <2>1, <2>2 DEF FrictionOf, FrictionFor
<1>4. friction \in [Clusters -> Intervals]
  BY <1>1, <1>2 DEF Interval, Intervals
<1> QED
  BY <1>2, <1>3, <1>4 DEF FrictionInv

\* The friction law of the fault faces inside a rank is evaluated once for every
\* step of a cluster id, for exactly that step and when both layers have
\* predicted it, whichever of them corrects first (TimeCluster::correct,
\* DynamicRuptureScheduler::mayComputeInterior).
THEOREM FrictionIsEvaluatedOncePerStep ==
    ASSUME ExactArithmetic, SameUnitStep, NeighborRates, LayersOfAnId
    PROVE  ClusterSpec => FrictionOncePerStep
<1>1. /\ MessageInv /\ Rules /\ FrictionInv /\ [ClusterNext]_clusterVars => FrictionInv'
  BY NextFrictionInv
<1>2. ClusterInit => FrictionInv
  BY InitFrictionInv
<1>3. ClusterSpec => []FrictionInv
  BY <1>1, <1>2, ClustersInvariant, PTL DEF ClusterSpec
<1>4. ASSUME MessageInv, Rules, DataInv, FrictionInv, [ClusterNext]_clusterVars,
             NEW c \in Clusters, Corrects(c)
      PROVE  /\ friction'[InteriorOf[c]] = CorrectedStep(c)
             /\ friction'[InteriorOf[c]] # friction[InteriorOf[c]] =>
                   \A k \in Clusters : InteriorOf[k] = InteriorOf[c]
                                          => derivative[k] = CorrectedStep(c)
  <2> DEFINE from == ct[c].correctionTime
             to == ct'[c].correctionTime
  <2>1. ClusterNext /\ CorrectCluster(c) /\ TypeOK /\ phase = "loop"
    BY <1>4, CorrectsActs DEF MessageInv, CorrectCluster
  <2>2. CorrectData(c)
    BY <2>1, CorrectionActs
  <2>3. friction'[InteriorOf[c]] = CorrectedStep(c)
    BY <1>4, <2>1, <2>2, CorrectFriction
  <2>4. /\ from \in Int /\ to \in Int
        /\ OnGrid(epoch, c, from, Corr[c]) /\ OnGrid(epoch, c, to, Pred[c])
    BY <1>4, <2>1, CorrectedTimes
  <2>5. CorrectedStep(c) = Interval(from, to)
    BY DEF CorrectedStep
  <2>6. ASSUME NEW k \in Clusters, InteriorOf[k] = InteriorOf[c], k # c
        PROVE  derivative[k] = Interval(from, to)
    <3>1. k \in Neighbors(c) /\ Rate[k] = Rate[c] /\ Rate[k] <= Rate[c]
      BY <1>4, <2>1, <2>6, OthersOfAnId, RateAssumption
    <3> QED
      BY <1>4, <2>1, <2>4, <3>1, DataOfFaster DEF DataInv
  <2>7. derivative[c] = Interval(from, to)
    <3>1. /\ Pred[c] = Corr[c] + Rate[c] /\ Corr[c] \in Int /\ Corr[c] >= 0
          /\ Pred[c] \in Int /\ Rate[c] \in Nat \ {0}
      BY <1>4, <2>1, CorrectCounters, RateAssumption DEF Rules, WholeSteps
    <3>2. /\ derivative[c] \in Intervals
          /\ OnGrid(epoch, c, derivative[c].from, Corr[c]) /\ OnGrid(epoch, c, derivative[c].to, Pred[c])
      <4>1. Pred[c] # 0 /\ Pred[c] - Rate[c] = Corr[c]
        BY <3>1
      <4> QED
        BY <1>4, <2>1, <4>1 DEF DataInv, PredictionInv, Predictor
    <3>3. derivative[c].from = from /\ derivative[c].to = to
      BY <1>4, <2>1, <2>4, <3>1, <3>2, SameTime DEF Intervals
    <3> QED
      BY <3>2, <3>3 DEF Intervals, Interval
  <2> QED
    BY <2>3, <2>5, <2>6, <2>7
<1>5. /\ MessageInv /\ Rules /\ DataInv /\ FrictionInv /\ [ClusterNext]_clusterVars
      => [\A c \in Clusters : Corrects(c) =>
          /\ friction'[InteriorOf[c]] = CorrectedStep(c)
          /\ friction'[InteriorOf[c]] # friction[InteriorOf[c]] =>
                \A k \in Clusters : InteriorOf[k] = InteriorOf[c]
                                       => derivative[k] = CorrectedStep(c)]_clusterVars
  BY <1>4
<1> QED
  BY <1>3, <1>5, DataInvariant, PTL DEF ClusterSpec, FrictionOncePerStep

----------------------------------------------------------------------------
(* When the fault output is recorded *)

\* There are finitely many clusters, the simulation starts at 0, and the time step
\* of the fastest cluster divides all others: rates are products along one list
\* of rates (ClusterLayout), and the unit step is the same.
FastestStep ==
    /\ IsFiniteSet(Clusters) /\ StartTime = 0
    /\ \E f \in Clusters : \A c \in Clusters : Multiple(MaxTimeStepSize[c], MaxTimeStepSize[f])

OutputTimes(i) ==
    {t \in PhaseStart(i)..SyncTimes[i] : (t - PhaseStart(i)) % OutputTimestep = 0 \/ t = SyncTimes[i]}

\* What is recorded at the end of the e-th phase, and in that phase at the time u,
\* when every step is.
RecordedBy(e) == {0} \cup UNION {OutputTimes(i) : i \in 1..e}

RecordedSince(e, u) == IF e = 0 THEN {} ELSE {t \in OutputTimes(e) : t <= u}

RecordedAt(e, u) == RecordedBy(e - 1) \cup RecordedSince(e, u)

\* Each layer is recorded as far as its friction has been advanced, that of a
\* copy layer together with its cluster.
OutputInv ==
    /\ iterationStep \in Int
    /\ DOMAIN pickpoints = Clusters
    /\ \A l \in Clusters : pickpoints[l] = RecordedAt(epoch, friction[l].to)
    /\ \A k \in CopyClusters : friction[k].to = ct[k].correctionTime

\* The output steps are those of the fastest cluster.
LEMMA OutputSteps ==
    ASSUME FastestStep
    PROVE  /\ OutputTimestep \in Nat \ {0}
           /\ \A c \in Clusters : Multiple(MaxTimeStepSize[c], OutputTimestep)
<1>1. PICK f \in Clusters : \A c \in Clusters : Multiple(MaxTimeStepSize[c], MaxTimeStepSize[f])
  BY DEF FastestStep
<1> DEFINE S == {MaxTimeStepSize[c] : c \in Clusters}
           m == MaxTimeStepSize[f]
<1>2. m \in S /\ m \in Nat \ {0} /\ S \subseteq Nat \ {0}
  BY RateAssumption
<1>3. ASSUME NEW x \in S
      PROVE  m <= x
  <2>1. x \in Nat \ {0} /\ Multiple(x, m)
    BY <1>1, <1>2
  <2>2. PICK k \in Int : x = k * m
    BY <2>1 DEF Multiple
  <2>3. ASSUME k <= 0 PROVE FALSE
    <3>1. (0 - k) * m >= 0 /\ (0 - k) * m = 0 - k * m
      BY <1>2, <2>3
    <3> QED BY <2>1, <2>2, <3>1
  <2>4. (k - 1) * m >= 0 /\ (k - 1) * m = k * m - m
    BY <1>2, <2>3
  <2> QED BY <1>2, <2>1, <2>2, <2>4
<1> HIDE DEF S, m
<1>4. Min(S) = m
  <2> DEFINE n == Min(S)
  <2>1. n \in S /\ \A x \in S : n <= x
    BY <1>2, <1>3, Zenon DEF Min
  <2> HIDE DEF n
  <2>2. n <= m /\ m <= n /\ n \in Nat /\ m \in Nat
    BY <1>2, <1>3, <2>1
  <2> QED BY <2>2 DEF n
<1> QED
  BY <1>1, <1>2, <1>4 DEF OutputTimestep, S, m

\* The times of q calls after f, cut off at s.
CallsAfter(f, q, o, s) == {Smaller(f + k * o, s) : k \in 1..q}

\* The output times of a phase from b to s, after f and up to t.
TimesBetween(b, s, o, f, t) == {x \in b..s : ((x - b) % o = 0 \/ x = s) /\ f < x /\ x <= t}

\* The calls of a step, q output steps long or cut at s, are at the output times
\* between its ends.
LEMMA CallsOfAStep ==
    ASSUME NEW b \in Int, NEW s \in Int, NEW f \in Int, NEW o \in Nat \ {0}, NEW q \in Nat \ {0},
           b <= f, f < s, Multiple(f - b, o), NEW t, t = Smaller(s, f + q * o)
    PROVE  CallsAfter(f, q, o, s) = TimesBetween(b, s, o, f, t)
<1>1. PICK j \in Int : f - b = j * o
  BY DEF Multiple
<1>2. ASSUME NEW k \in 1..q
      PROVE  LET x == Smaller(f + k * o, s)
             IN  x \in b..s /\ ((x - b) % o = 0 \/ x = s) /\ f < x /\ x <= t
  <2>1. k * o \in Int /\ q * o \in Int /\ k * o >= o /\ q * o >= k * o
    <3>1. (k - 1) * o = k * o - o /\ (q - k) * o = q * o - k * o /\ (k - 1) * o >= 0 /\ (q - k) * o >= 0
      OBVIOUS
    <3>2. k * o \in Int /\ q * o \in Int
      OBVIOUS
    <3> QED BY <3>1, <3>2
  <2>2. CASE f + k * o < s
    <3>1. Multiple(f + k * o - b, o) /\ f + k * o - b \in Int
      <4>1. (j + k) * o = j * o + k * o /\ j + k \in Int
        OBVIOUS
      <4>2. f + k * o - b = (j + k) * o
        BY <1>1, <2>1, <4>1
      <4> QED BY <2>1, <4>1, <4>2 DEF Multiple
    <3> DEFINE y == k * o
               z == q * o
    <3>2. (f + y - b) % o = 0
      BY <3>1, MultipleMod
    <3> HIDE DEF y, z
    <3>3. f + y < s /\ y \in Int /\ y >= o /\ z >= y /\ z \in Int /\ t = Smaller(s, f + z)
      BY <2>1, <2>2 DEF y, z
    <3>4. Smaller(f + y, s) = f + y /\ t >= f + y
      BY <3>3 DEF Smaller
    <3> QED BY <3>2, <3>3, <3>4 DEF y
  <2>3. CASE ~(f + k * o < s)
    BY <2>1, <2>3 DEF Smaller
  <2> QED BY <2>2, <2>3
<1>3. ASSUME NEW x \in b..s, (x - b) % o = 0 \/ x = s, f < x, x <= t
      PROVE  \E k \in 1..q : x = Smaller(f + k * o, s)
  <2>1. q * o \in Int
    OBVIOUS
  <2>2. CASE x = s
    <3>1. s <= f + q * o
      BY <1>3, <2>1, <2>2 DEF Smaller
    <3>2. x = Smaller(f + q * o, s)
      BY <2>1, <2>2, <3>1 DEF Smaller
    <3> QED BY <3>2
  <2>3. CASE x # s
    <3>1. x - b \in Int /\ Multiple(x - b, o)
      BY <1>3, <2>3, MultipleMod
    <3>2. PICK i \in Int : x - b = i * o
      BY <3>1 DEF Multiple
    <3> DEFINE k == i - j
    <3>3. k \in Int /\ k * o = i * o - j * o
      OBVIOUS
    <3>4. x = f + k * o /\ k * o \in Int /\ i * o \in Int /\ j * o \in Int
      <4>1. i * o \in Int /\ j * o \in Int
        OBVIOUS
      <4> QED BY <1>1, <3>2, <3>3, <4>1
    <3> HIDE DEF k
    <3>5. k >= 1
      <4>1. ASSUME k <= 0 PROVE FALSE
        <5>1. (0 - k) * o >= 0 /\ (0 - k) * o = 0 - k * o
          BY <3>3, <4>1
        <5> QED BY <1>3, <3>4, <5>1
      <4> QED BY <3>3, <4>1
    <3>6. k <= q
      <4>1. ASSUME k > q PROVE FALSE
        <5>1. (k - q) * o > 0 /\ (k - q) * o = k * o - q * o
          BY <3>3, <4>1
        <5>2. f + q * o < x
          BY <2>1, <3>4, <5>1
        <5> QED BY <1>3, <2>1, <5>2 DEF Smaller
      <4> QED BY <3>3, <4>1
    <3>7. x = Smaller(f + k * o, s)
      BY <2>3, <3>4 DEF Smaller
    <3> QED BY <3>3, <3>5, <3>6, <3>7
  <2> QED BY <2>2, <2>3
<1> QED
  BY <1>2, <1>3 DEF CallsAfter, TimesBetween

\* What the calls of the step of cluster c record.
LEMMA RecordedCalls ==
    ASSUME ExactArithmetic, SameUnitStep, FastestStep, PrintTimeInterval = 1,
           MessageInv, Rules, iterationStep \in Int,
           NEW c \in Clusters, CorrectCluster(c), CorrectData(c)
    PROVE  LET from == ct[c].correctionTime
               to == ct'[c].correctionTime
           IN  /\ iterationStep' \in Int
               /\ pickpoints' = [l \in Clusters |->
                      IF l \in Evaluated(c)
                      THEN pickpoints[l] \cup {t \in OutputTimes(epoch) : from < t /\ t <= to}
                      ELSE pickpoints[l]]
               /\ PhaseStart(epoch) <= from /\ from < to /\ to <= SyncTimes[epoch]
<1> DEFINE from == ct[c].correctionTime
           to == ct'[c].correctionTime
           b == PhaseStart(epoch)
           s == SyncTimes[epoch]
           m == MaxTimeStepSize[c]
           o == OutputTimestep
           q == CeilDiv(m, o)
           calls == OutputCalls(c)
<1>1. /\ phase = "loop" /\ TypeOK /\ b \in Int /\ s \in Int
      /\ m \in Nat \ {0} /\ Rate[c] \in Nat \ {0}
      /\ o \in Nat \ {0} /\ Multiple(m, o)
  BY PhaseTimes, InAPhase, RateAssumption, OutputSteps DEF CorrectCluster, MessageInv
<1>2. /\ from \in Int /\ to \in Int /\ to = Plus(from, TimeStepSize(c))
      /\ OnGrid(epoch, c, from, Corr[c]) /\ OnGrid(epoch, c, to, Pred[c]) /\ syncTime[c] = s
  BY CorrectedTimes
<1>3. /\ Pred[c] = Corr[c] + Rate[c] /\ Corr[c] < EndOf(epoch, c) /\ EndOf(epoch, c) \in Int
      /\ Corr[c] \in Int /\ Corr[c] >= 0 /\ Multiple(Corr[c], Rate[c])
  BY CorrectCounters DEF Rules, WholeSteps
<1>4. from < s /\ from < to
  <2>1. Pred[c] \in Int /\ Corr[c] < Pred[c]
    BY <1>1, <1>3
  <2> QED BY <1>1, <1>2, <1>3, <2>1, GridTimes, InAPhase
<1>5. b <= from /\ Multiple(from - b, o)
  <2> DEFINE r == Rate[c]
             x == from - b
  <2>1. PICK k \in Int : Corr[c] = k * r
    BY <1>3 DEF Multiple
  <2>2. r * x = Smaller(r * (s - b), Corr[c] * m)
    BY <1>2 DEF OnGrid, AtStep
  <2>3. r * x < r * (s - b) /\ r * x \in Int /\ r * (s - b) \in Int
    <3>1. x < s - b /\ x \in Int /\ s - b \in Int
      BY <1>1, <1>2, <1>4
    <3> HIDE DEF x
    <3> QED BY <1>1, <3>1, Monotone
  <2>4. r * x = Corr[c] * m
    BY <2>2, <2>3 DEF Smaller
  <2>5. Corr[c] * m = r * (k * m) /\ k * m \in Int
    BY <1>1, <2>1
  <2>6. x = k * m
    <3>1. x \in Int /\ r * x = r * (k * m)
      BY <1>1, <1>2, <2>4, <2>5
    <3> DEFINE y == k * m
    <3>2. y \in Int
      BY <2>5
    <3> HIDE DEF x, y
    <3>3. ~(x < y) /\ ~(y < x)
      BY <1>1, <3>1, <3>2, Monotone DEF y
    <3> QED BY <3>1, <3>2, <3>3 DEF y
  <2>7. Multiple(x, o)
    <3>1. Multiple(x, m)
      BY <2>6 DEF Multiple
    <3> QED BY <1>1, <3>1, MultipleOfMultiple
  <2>8. k >= 0
    <3>1. ASSUME k < 0 PROVE FALSE
      <4>1. (0 - k) * r > 0 /\ (0 - k) * r = 0 - k * r
        BY <1>1, <3>1
      <4> QED BY <1>3, <2>1, <4>1
    <3> QED BY <3>1
  <2>9. x >= 0
    <3>1. k * m >= 0
      BY <1>1, <2>8
    <3> QED BY <2>6, <3>1
  <2> QED BY <1>1, <1>2, <2>7, <2>9
<1>6. q \in Nat \ {0} /\ q * o = m
  <2>1. PICK k \in Int : m = k * o
    BY <1>1 DEF Multiple
  <2>2. q = (m + o - 1) \div o
    <3>1. \A x \in Int, y \in Nat \ {0} : CeilDiv(x, y) = (x + y - 1) \div y
      BY ExactOperations
    <3> HIDE DEF m, o
    <3> QED BY <1>1, <3>1
  <2>3. k > 0
    <3>1. ASSUME k <= 0 PROVE FALSE
      <4>1. (0 - k) * o >= 0 /\ (0 - k) * o = 0 - k * o
        BY <1>1, <3>1
      <4> QED BY <1>1, <2>1, <4>1
    <3> QED BY <3>1
  <2>4. (k * o + o - 1) \div o = k
    <3>1. k * o + o - 1 = k * o + (o - 1) /\ o - 1 \in 0..(o - 1)
      BY <1>1
    <3> QED BY <1>1, <2>1, <3>1
  <2> QED BY <2>1, <2>2, <2>3, <2>4
<1>7. to = Smaller(s, from + q * o)
  <2>1. /\ \A x, y \in Int : Plus(x, y) = x + y /\ Minus(x, y) = x - y
    BY ExactOperations
  <2>2. TimeStepSize(c) = Smaller(s - from, m)
    <3>1. Minus(s, from) = s - from
      BY <1>1, <1>2, <2>1
    <3>2. TimeStepSize(c) = Smaller(Minus(s, from), m)
      BY <1>2 DEF TimeStepSize
    <3> QED BY <3>1, <3>2
  <2> HIDE DEF from, to, s, m, o, q
  <2>3. Smaller(s - from, m) \in Int
    BY <1>1, <1>2 DEF Smaller
  <2>4. to = from + Smaller(s - from, m)
    BY <1>2, <2>1, <2>2, <2>3
  <2> QED BY <1>1, <1>2, <1>6, <2>4 DEF Smaller
<1>8. to <= s
  BY <1>1, <1>2, <1>6, <1>7 DEF Smaller
<1> HIDE DEF q
<1>9. /\ calls = [k \in 1..q |-> Interval(from + (k - 1) * o, Smaller(from + k * o, s))]
      /\ DOMAIN calls = 1..q /\ Len(calls) = q
  <2>1. calls = [k \in 1..q |-> Interval(from + (k - 1) * o, Smaller(from + k * o, s))]
    BY <1>2 DEF OutputCalls, q
  <2> QED BY <1>6, <2>1
<1>10. IsFiniteSet(Evaluated(c)) /\ \A S : S \subseteq Evaluated(c) => Cardinality(S) \in Nat
  <2>1. Evaluated(c) \subseteq Clusters
    BY LayerAssumption DEF Evaluated
  <2>2. IsFiniteSet(Clusters)
    BY DEF FastestStep
  <2> QED BY <2>1, <2>2, FS_Subset, FS_CardinalityType
<1>11. ASSUME NEW l \in Clusters
       PROVE  LET first == iterationStep
                               + Len(calls) * Cardinality(Evaluated(c) \ ({l} \cup CopyClusters))
              IN  {calls[k].to : k \in {j \in DOMAIN calls :
                       IsAtPickpoint(first + j - 1, calls[j].to, calls[j].to - calls[j].from)}}
                  = {t \in OutputTimes(epoch) : from < t /\ t <= to}
  <2> DEFINE first == iterationStep
                          + Len(calls) * Cardinality(Evaluated(c) \ ({l} \cup CopyClusters))
             all == {j \in DOMAIN calls :
                       IsAtPickpoint(first + j - 1, calls[j].to, calls[j].to - calls[j].from)}
  <2>1. first \in Int
    <3>1. Cardinality(Evaluated(c) \ ({l} \cup CopyClusters)) \in Nat
      BY <1>10
    <3> QED BY <1>6, <1>9, <3>1
  <2>2. all = 1..q
    <3>1. ASSUME NEW j \in 1..q
          PROVE  IsAtPickpoint(first + j - 1, calls[j].to, calls[j].to - calls[j].from)
      <4>1. first + j - 1 \in Int
        BY <1>6, <2>1
      <4>2. (first + j - 1) % PrintTimeInterval = 0
        BY <4>1
      <4> QED BY <4>2 DEF IsAtPickpoint
    <3> QED BY <1>9, <3>1
  <2>3. {calls[k].to : k \in all} = CallsAfter(from, q, o, s)
    <3>1. \A k \in 1..q : calls[k].to = Smaller(from + k * o, s)
      BY <1>9 DEF Interval
    <3> HIDE DEF all, calls
    <3> QED BY <2>2, <3>1 DEF CallsAfter
  <2>4. CallsAfter(from, q, o, s) = TimesBetween(b, s, o, from, to)
    <3> HIDE DEF b, s, o, from, to
    <3> QED BY <1>1, <1>2, <1>4, <1>5, <1>6, <1>7, CallsOfAStep
  <2>5. TimesBetween(b, s, o, from, to) = {t \in OutputTimes(epoch) : from < t /\ t <= to}
    BY DEF OutputTimes, TimesBetween
  <2> QED BY <2>3, <2>4, <2>5
<1>12. /\ iterationStep' = iterationStep + Len(calls) * Cardinality(Evaluated(c))
       /\ pickpoints' = [l \in Clusters |->
              IF l \in Evaluated(c)
              THEN pickpoints[l] \cup {t \in OutputTimes(epoch) : from < t /\ t <= to}
              ELSE pickpoints[l]]
  <2>1. WritePickpointOutput(c)
    BY DEF CorrectData
  <2> HIDE DEF from, to
  <2> QED BY <1>11, <2>1 DEF WritePickpointOutput
<1>13. iterationStep' \in Int
  <2>1. Cardinality(Evaluated(c)) \in Nat
    BY <1>10
  <2> HIDE DEF calls
  <2> QED BY <1>6, <1>9, <1>12, <2>1
<1> QED
  BY <1>4, <1>5, <1>8, <1>12, <1>13

\* Steps that correct nothing keep what has been recorded.
LEMMA OutputKept ==
    ASSUME OutputInv, UNCHANGED <<friction, pickpointVars, epoch>>,
           \A k \in Clusters : ct'[k].correctionTime = ct[k].correctionTime
    PROVE  OutputInv'
<1>1. \A e, u : RecordedAt(e, u)' = RecordedAt(e, u)
  BY DEF RecordedAt, RecordedBy, RecordedSince, OutputTimes, PhaseStart, OutputTimestep
<1>2. CopyClusters \subseteq Clusters
  BY LayerAssumption
<1> QED
  BY <1>1, <1>2 DEF OutputInv, pickpointVars

\* Between two phases the friction of all layers is at the synchronization time.
LEMMA IdleFriction ==
    ASSUME LayersOfAnId, MessageInv, FrictionInv, OutputInv, phase = "idle", NEW l \in Clusters
    PROVE  friction[l].to = PhaseStart(epoch + 1)
<1>1. \A k \in Clusters : ct[k].correctionTime = PhaseStart(epoch + 1)
  BY DEF MessageInv, ClockInv, ClockOf, StandsAt
<1>2. CASE l \in CopyClusters
  BY <1>1, <1>2 DEF OutputInv
<1>3. CASE l \in InteriorClusters
  <2>1. FrictionOf(l)
    BY <1>3 DEF FrictionInv
  <2>2. PICK k \in Members(l) : ct[k].stepsSinceStart > lastCorrectionStepsInterior[l]
    BY <2>1 DEF FrictionOf
  <2>3. friction[l].to = ct[k].correctionTime /\ k \in Clusters
    BY <2>1, <2>2 DEF FrictionOf, FrictionFor, Members
  <2> QED BY <1>1, <2>3
<1> QED
  BY <1>2, <1>3 DEF InteriorClusters

\* What a whole phase records.
LEMMA WholePhase ==
    ASSUME TypeOK, FastestStep
    PROVE  LET u == PhaseStart(epoch + 1)
           IN  /\ RecordedAt(epoch, u) = RecordedBy(epoch)
               /\ epoch < Len(SyncTimes) => RecordedAt(epoch + 1, u) = RecordedBy(epoch)
<1> DEFINE u == PhaseStart(epoch + 1)
           e == epoch
<1>1. e \in 0..Len(SyncTimes) /\ Len(SyncTimes) \in Nat /\ StartTime = 0
  BY SyncTimesAssumption DEF TypeOK, FastestStep
<1>2. \A i \in 1..Len(SyncTimes) :
          SyncTimes[i] \in Nat /\ PhaseStart(i) \in Nat /\ PhaseStart(i) < SyncTimes[i]
  <2> TAKE i \in 1..Len(SyncTimes)
  <2>1. SyncTimes[i] \in Nat /\ SyncTimes[i] > IF i = 1 THEN StartTime ELSE SyncTimes[i - 1]
    BY <1>1, SyncTimesAssumption
  <2>2. CASE i = 1
    <3>1. PhaseStart(i) = 0
      BY <1>1, <2>2 DEF PhaseStart
    <3> QED BY <1>1, <2>1, <2>2, <3>1
  <2>3. CASE i # 1
    <3>1. i - 1 \in 1..Len(SyncTimes)
      BY <1>1, <2>3
    <3>2. SyncTimes[i - 1] \in Nat
      BY <3>1, SyncTimesAssumption
    <3>3. PhaseStart(i) = SyncTimes[i - 1]
      BY <2>3 DEF PhaseStart
    <3> QED BY <2>1, <2>3, <3>2, <3>3
  <2> QED BY <2>2, <2>3
<1>3. e > 0 => u = SyncTimes[e]
  BY <1>1 DEF PhaseStart
<1>4. e = 0 => u = 0
  BY <1>1 DEF PhaseStart
<1>5. \A k, x : x \in RecordedBy(k) <=> x = 0 \/ \E i \in 1..k : x \in OutputTimes(i)
  BY Zenon DEF RecordedBy
<1>6. \A x : x \in RecordedAt(e, u) <=> x \in RecordedBy(e)
  <2>1. CASE e = 0
    <3>1. 1..(e - 1) = {} /\ 1..e = {}
      BY <2>1
    <3> QED BY <1>5, <2>1, <3>1 DEF RecordedAt, RecordedSince
  <2>2. CASE e > 0
    <3>1. RecordedSince(e, u) = OutputTimes(e)
      <4>1. \A t \in OutputTimes(e) : t <= u
        BY <1>1, <1>2, <1>3, <2>2 DEF OutputTimes
      <4>2. RecordedSince(e, u) = {t \in OutputTimes(e) : t <= u}
        BY <2>2 DEF RecordedSince
      <4> QED BY <4>1, <4>2
    <3>2. 1..e = (1..(e - 1)) \cup {e}
      BY <1>1, <2>2
    <3> QED BY <1>5, <3>1, <3>2 DEF RecordedAt
  <2> QED BY <1>1, <2>1, <2>2
<1>7. ASSUME e < Len(SyncTimes)
      PROVE  RecordedAt(e + 1, u) = RecordedBy(e)
  <2>1. (e + 1) - 1 = e /\ e + 1 # 0
    BY <1>1
  <2>2. RecordedSince(e + 1, u) \subseteq {u}
    <3>1. u \in Nat /\ e + 1 \in 1..Len(SyncTimes)
      BY <1>1, <1>2, <1>7
    <3> QED BY <1>2, <2>1, <3>1 DEF OutputTimes, RecordedSince
  <2>3. u \in RecordedBy(e)
    <3>1. CASE e = 0
      BY <1>4, <1>5, <3>1
    <3>2. CASE e > 0
      <4>1. e \in 1..e /\ SyncTimes[e] \in PhaseStart(e)..SyncTimes[e]
        BY <1>1, <1>2, <3>2
      <4>2. u \in OutputTimes(e)
        BY <1>3, <3>2, <4>1 DEF OutputTimes
      <4> QED BY <1>5, <4>1, <4>2
    <3> QED BY <1>1, <3>1, <3>2
  <2>4. RecordedAt(e + 1, u) = RecordedBy(e) \cup RecordedSince(e + 1, u)
    BY <2>1 DEF RecordedAt
  <2> HIDE DEF u
  <2> QED BY <2>2, <2>3, <2>4
<1> HIDE DEF u
<1>8. RecordedAt(e, u) = RecordedBy(e)
  BY <1>6
<1> QED
  BY <1>7, <1>8 DEF u

\* A new phase begins where the last one has ended.
LEMMA AdvanceOutput ==
    ASSUME LayersOfAnId, FastestStep, MessageInv, FrictionInv, OutputInv, AdvanceInTime,
           UNCHANGED <<friction, pickpointVars>>
    PROVE  OutputInv'
<1>1. phase = "idle" /\ epoch < Len(SyncTimes) /\ epoch' = epoch + 1 /\ ct' = ct /\ TypeOK
  BY DEF AdvanceInTime, actorVars, MessageInv
<1>2. \A l \in Clusters : pickpoints[l] = RecordedAt(epoch + 1, friction[l].to)
  BY <1>1, IdleFriction, WholePhase DEF OutputInv
<1>3. \A l \in Clusters : pickpoints'[l] = RecordedAt(epoch, friction[l].to)'
  <2>1. \A l \in Clusters : RecordedAt(epoch, friction[l].to)' = RecordedAt(epoch + 1, friction[l].to)
    BY <1>1 DEF RecordedAt, RecordedBy, RecordedSince, OutputTimes, PhaseStart, OutputTimestep
  <2> QED BY <1>2, <2>1 DEF pickpointVars
<1> QED
  BY <1>1, <1>3 DEF OutputInv, pickpointVars

\* A correction records the output times of its step in the layers it evaluates.
LEMMA CorrectOutput ==
    ASSUME ExactArithmetic, SameUnitStep, FastestStep, PrintTimeInterval = 1, MessageInv, Rules,
           FrictionInv, OutputInv, NEW c \in Clusters, CorrectCluster(c), CorrectData(c)
    PROVE  OutputInv'
<1> DEFINE from == ct[c].correctionTime
           to == ct'[c].correctionTime
           i == InteriorOf[c]
<1>1. /\ phase = "loop" /\ TypeOK /\ epoch' = epoch /\ epoch \in Nat \ {0}
      /\ i \in InteriorClusters /\ i \in Clusters /\ c \in Members(i) /\ CopyClusters \subseteq Clusters
  BY LayerAssumption, PhaseTimes, InAPhase
     DEF CorrectCluster, MessageInv, managerVars, InteriorClusters, Members
<1>2. /\ from \in Int /\ to \in Int /\ to = Plus(from, TimeStepSize(c))
  BY CorrectedTimes
<1>3. /\ iterationStep' \in Int /\ from < to
      /\ pickpoints' = [l \in Clusters |->
             IF l \in Evaluated(c)
             THEN pickpoints[l] \cup {t \in OutputTimes(epoch) : from < t /\ t <= to}
             ELSE pickpoints[l]]
  BY RecordedCalls DEF OutputInv
<1>4. \A l \in Evaluated(c) : l \in Clusters /\ friction[l].to = from
  <2>1. MayComputeInterior(c) => friction[i].to = from
    BY <1>1 DEF FrictionInv, FrictionOf, FrictionFor, MayComputeInterior
  <2>2. c \in CopyClusters => friction[c].to = from
    BY DEF OutputInv
  <2> QED BY <1>1, <2>1, <2>2 DEF Evaluated
<1>5. /\ \A l \in Evaluated(c) : friction'[l].to = to
      /\ \A l \in Clusters \ Evaluated(c) : friction'[l] = friction[l]
  BY <1>2, <1>4 DEF CorrectData, Interval
<1>6. \A e, u : RecordedAt(e, u)' = RecordedAt(e, u)
  BY DEF RecordedAt, RecordedBy, RecordedSince, OutputTimes, PhaseStart, OutputTimestep
<1>7. RecordedAt(epoch, to)
          = RecordedAt(epoch, from) \cup {t \in OutputTimes(epoch) : from < t /\ t <= to}
  <2>1. \A t \in OutputTimes(epoch) : t \in Int
    BY <1>1, PhaseTimes, InAPhase DEF OutputTimes
  <2>2. \A x : RecordedSince(epoch, x) = {t \in OutputTimes(epoch) : t <= x}
    BY <1>1 DEF RecordedSince
  <2>3. RecordedSince(epoch, to)
            = RecordedSince(epoch, from) \cup {t \in OutputTimes(epoch) : from < t /\ t <= to}
    BY <1>2, <1>3, <2>1, <2>2
  <2> QED BY <2>3 DEF RecordedAt
<1>8. ASSUME NEW l \in Clusters
      PROVE  pickpoints'[l] = RecordedAt(epoch', friction'[l].to)
  BY <1>1, <1>3, <1>4, <1>5, <1>7 DEF OutputInv
<1>9. ASSUME NEW k \in CopyClusters
      PROVE  friction'[k].to = ct'[k].correctionTime
  <2>1. CASE k = c
    BY <1>5, <2>1 DEF Evaluated
  <2>2. CASE k # c
    <3>1. k \notin Evaluated(c)
      BY <1>1, <2>2 DEF Evaluated, InteriorClusters
    <3>2. ct'[k] = ct[k]
      BY <1>1, <2>2, CorrectedClock
    <3> QED BY <1>1, <1>5, <3>1, <3>2 DEF OutputInv
  <2> QED BY <2>1, <2>2
<1> QED
  BY <1>3, <1>6, <1>8, <1>9 DEF OutputInv

\* So does every step.
LEMMA NextOutputInv ==
    ASSUME ExactArithmetic, SameUnitStep, LayersOfAnId, FastestStep,
           PrintTimeInterval = 1, MessageInv, Rules, FrictionInv, OutputInv, [ClusterNext]_clusterVars
    PROVE  OutputInv'
<1>1. TypeOK /\ ct \in [Clusters -> ClusterTimes]
  BY DEF MessageInv, TypeOK, ActorTypeOK
<1>2. CASE UNCHANGED clusterVars \/ ((Finish \/ Over) /\ UNCHANGED dataVars)
  <2>1. UNCHANGED <<friction, pickpointVars, epoch, ct>>
    BY <1>2 DEF clusterVars, vars, actorVars, managerVars, dataVars, Finish, Over
  <2> QED BY <2>1, OutputKept
<1>3. CASE AdvanceInTime /\ UNCHANGED dataVars
  BY <1>3, AdvanceOutput DEF dataVars
<1>4. ASSUME NEW c \in Clusters, ClusterStep(c)
      PROVE  OutputInv'
  <2>1. CASE CorrectCluster(c)
    <3>1. CorrectData(c)
      BY <1>1, <1>4, <2>1, CorrectionActs DEF ClusterNext
    <3> QED BY <2>1, <3>1, CorrectOutput
  <2>2. CASE PredictCluster(c) /\ PredictData(c)
    <3>1. UNCHANGED <<friction, pickpointVars, epoch>>
      BY <2>2 DEF PredictCluster, PredictData, managerVars
    <3>2. \A k \in Clusters : ct'[k].correctionTime = ct[k].correctionTime
      BY <1>1, <2>2 DEF PredictCluster, Predict, ClusterTimes
    <3> QED BY <3>1, <3>2, OutputKept
  <2>3. CASE ResetCluster(c) /\ ResetData(c)
    <3>1. UNCHANGED <<friction, pickpointVars, epoch>>
      BY <2>3 DEF ResetCluster, ResetData, LoopStep
    <3>2. \A k \in Clusters : ct'[k].correctionTime = ct[k].correctionTime
      <4>1. ct' = [ct EXCEPT ![c] = Cleared(@, StepsUntil(c, ct[c].correctionTime, SyncTimes[epoch]))]
        BY <2>3 DEF ResetCluster, SetSyncTimeAndReset
      <4> QED BY <1>1, <4>1 DEF Cleared, ClusterTimes
    <3> QED BY <3>1, <3>2, OutputKept
  <2>4. CASE (RestartCluster(c) \/ PollCluster(c) \/ SyncCluster(c)) /\ KeepData
    <3>1. UNCHANGED <<friction, pickpointVars, epoch, ct>>
      BY <2>4 DEF KeepData, RestartCluster, RestartAfterSync, PollCluster, Poll, SyncCluster, Sync,
                  LoopStep, managerVars
    <3> QED BY <3>1, OutputKept
  <2> QED BY <1>4, <2>1, <2>2, <2>3, <2>4 DEF ClusterStep
<1> QED
  BY <1>2, <1>3, <1>4 DEF ClusterNext

\* Every layer is recorded before the first step, whatever the order of the layers.
LEMMA InitOutputInv ==
    ASSUME FastestStep, PrintTimeInterval = 1, ClusterInit
    PROVE  OutputInv
<1>1. /\ epoch = 0 /\ StartTime = 0 /\ IsFiniteSet(Clusters)
      /\ \A k \in Clusters : ct[k].correctionTime = 0 /\ friction[k].to = 0
  BY DEF ClusterInit, Init, ActorInit, Interval, FastestStep
<1>2. iterationStep \in Int
  <2>1. Cardinality(Clusters) \in Nat
    BY <1>1, FS_CardinalityType
  <2> QED BY <2>1 DEF ClusterInit
<1>3. PICK order \in Perms!SetToSeqs(Clusters) :
          pickpoints = [l \in Clusters |->
              {t \in {0} : \E i \in DOMAIN order : order[i] = l /\ IsAtPickpoint(i - 1, t, 0)}]
  BY DEF ClusterInit, InitialPickpoints
<1> DEFINE n == Cardinality(Clusters)
<1>4. n \in Nat /\ order \in [1..n -> Clusters] /\ \A i, j \in 1..n : i # j => order[i] # order[j]
  <2>1. order \in {f \in [1..n -> Clusters] : \A i, j \in 1..n : i # j => f[i] # f[j]}
    <3>1. Perms!Cardinality(Clusters) = n
      BY DEF Perms!Cardinality, Cardinality
    <3> HIDE DEF n
    <3> QED BY <1>3, <3>1 DEF Perms!SetToSeqs
  <2>2. n \in Nat
    BY <1>1, FS_CardinalityType
  <2> HIDE DEF n
  <2> QED BY <2>1, <2>2
<1>5. \A l \in Clusters : \E i \in 1..n : order[i] = l
  <2>1. order \in Injection(1..n, Clusters)
    BY <1>4 DEF Injection, IsInjective
  <2>2. Cardinality(1..n) = Cardinality(Clusters)
    BY <1>4, FS_Interval
  <2>3. order \in Surjection(1..n, Clusters)
    BY <1>1, <2>1, <2>2, FS_Injection
  <2> QED BY <2>3 DEF Surjection
<1>6. ASSUME NEW l \in Clusters
      PROVE  pickpoints[l] = {0}
  <2>1. PICK i \in 1..n : order[i] = l
    BY <1>5
  <2>2. IsAtPickpoint(i - 1, 0, 0)
    <3>1. (i - 1) % PrintTimeInterval = 0
      BY <1>4
    <3> QED BY <3>1 DEF IsAtPickpoint
  <2>3. DOMAIN order = 1..n
    BY <1>4
  <2> QED BY <1>3, <2>1, <2>2, <2>3
<1>7. \A u : RecordedAt(0, u) = {0}
  <2>1. 1..(0 - 1) = {}
    OBVIOUS
  <2> QED BY <2>1 DEF RecordedAt, RecordedBy, RecordedSince
<1>8. DOMAIN pickpoints = Clusters /\ CopyClusters \subseteq Clusters
  BY <1>3, LayerAssumption
<1> QED
  BY <1>1, <1>2, <1>6, <1>7, <1>8 DEF OutputInv

\* Recorded at every step, the fault output of all layers has the same times at a
\* synchronization, those of the fastest cluster and each synchronization time,
\* for any clusters, layers, rates and synchronization times
\* (TimeCluster.cpp:734-747, OutputManager::writePickpointOutput).
THEOREM FaultOutputsAreRecordedInStep ==
    ASSUME ExactArithmetic, SameUnitStep, NeighborRates, LayersOfAnId, FastestStep
    PROVE  ClusterSpec => []FaultOutputsAreInStep
<1>1. CASE PrintTimeInterval = 1
  <2>1. /\ MessageInv /\ Rules /\ FrictionInv /\ [ClusterNext]_clusterVars => FrictionInv'
    BY NextFrictionInv
  <2>2. /\ MessageInv /\ Rules /\ FrictionInv /\ OutputInv /\ [ClusterNext]_clusterVars => OutputInv'
    BY <1>1, NextOutputInv
  <2>3. ClusterInit => FrictionInv /\ OutputInv
    BY <1>1, InitFrictionInv, InitOutputInv
  <2>4. MessageInv /\ FrictionInv /\ OutputInv => FaultOutputsAreInStep
    <3> SUFFICES ASSUME MessageInv, FrictionInv, OutputInv, phase = "idle", epoch > 0,
                        NEW l \in Clusters
                 PROVE  pickpoints[l] = RecordedBy(epoch)
      BY DEF FaultOutputsAreInStep, OutputTimes, RecordedBy
    <3>1. pickpoints[l] = RecordedAt(epoch, PhaseStart(epoch + 1))
      BY IdleFriction DEF OutputInv
    <3> QED BY <3>1, WholePhase DEF MessageInv
  <2> QED
    BY <2>1, <2>2, <2>3, <2>4, ClustersInvariant, PTL DEF ClusterSpec
<1>2. CASE PrintTimeInterval # 1
  <2>1. FaultOutputsAreInStep
    BY <1>2 DEF FaultOutputsAreInStep
  <2> QED BY <2>1, PTL
<1> QED
  BY <1>1, <1>2

=============================================================================
