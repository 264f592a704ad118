--------------------------- MODULE Phases_proofs ---------------------------
(***************************************************************************)
(* Lemmas about the clusters and their connections in one phase, for every  *)
(* phase e, whoever drives the clusters: types; the grid of times on which  *)
(* a cluster steps from one synchronization time to the next; its clock;    *)
(* and the link <<c, n>>, what c believes of n and has not read of it.      *)
(* seen is what a call of c pops: any of the messages that wait.            *)
(***************************************************************************)
EXTENDS Phases, SequenceTheorems, TLAPS

\* A stored result is an integer number of ticks.
LEMMA RoundType == \A x \in Int : Round(x) \in Int
BY DoublesAssumption DEF Round

\* So are sums and differences of times.
LEMMA PlusMinusType ==
    \A a, b \in Time : Plus(a, b) \in Time /\ Minus(a, b) \in Time
BY RoundType DEF Plus, Minus, Time

\* The ceiling of a quotient is an integer, rounded or not.
LEMMA CeilDivType == \A a \in Int, b \in Nat \ {0} : CeilDiv(a, b) \in Int
<1> SUFFICES ASSUME NEW a \in Int, NEW b \in Nat \ {0}
             PROVE  CeilDiv(a, b) \in Int
  OBVIOUS
<1> DEFINE n == Round(a)
<1>1. n \in Int
  BY RoundType
<1>2. (n + b - 1) \div b \in Int
  BY <1>1
<1>3. <<n, b>> \in DOMAIN RoundedCeil => RoundedCeil[<<n, b>>] \in Int
  BY DoublesAssumption
<1> QED
  BY <1>2, <1>3 DEF CeilDiv

\* A link is a pair of connected clusters, and its reverse is a link too.
LEMMA LinkPair ==
    \A l \in Links : /\ l = <<l[1], l[2]>>
                      /\ l[1] \in Clusters /\ l[2] \in Clusters /\ l[1] # l[2]
                      /\ l[2] \in Neighbors(l[1])
<1> SUFFICES ASSUME NEW l \in Links
             PROVE  /\ l = <<l[1], l[2]>> /\ l[1] \in Clusters /\ l[2] \in Clusters
                    /\ l[1] # l[2] /\ l[2] \in Neighbors(l[1])
  OBVIOUS
<1>1. l \in Clusters \X Clusters
  BY LinksAssumption
<1>2. l = <<l[1], l[2]>> /\ l[1] \in Clusters /\ l[2] \in Clusters
  BY <1>1
<1>3. <<l[1], l[2]>> \in Links
  BY <1>2
<1> QED
  BY <1>2, <1>3, LinksAssumption DEF Neighbors

\* A time step size is a time.
LEMMA TimeStepSizeType ==
    ASSUME ActorTypeOK, NEW c \in Clusters
    PROVE  TimeStepSize(c) \in Time
BY PlusMinusType, RateAssumption DEF TimeStepSize, Smaller, ActorTypeOK, ClusterTimes, Time

\* The number of steps of a phase is an integer.
LEMMA StepsUntilType ==
    ASSUME NEW c \in Clusters, NEW a \in Time, NEW b \in Time
    PROVE  StepsUntil(c, a, b) \in Int
<1>1. Minus(b, a) \in Int
  BY PlusMinusType DEF Time
<1>2. Rate[c] * Minus(b, a) \in Int
  BY <1>1, RateAssumption
<1>3. MaxTimeStepSize[c] \in Nat \ {0}
  BY RateAssumption
<1> QED
  BY <1>2, <1>3, CeilDivType DEF StepsUntil

\* A message updates a mirror to a ClusterTimes.
LEMMA AfterMessageType ==
    ASSUME NEW t \in ClusterTimes, NEW m \in Message
    PROVE  AfterMessage(t, m) \in ClusterTimes
BY DEF AfterMessage, ClusterTimes, Message

\* The mirrors after one message of each neighbour are ClusterTimes.
LEMMA MirrorType ==
    ASSUME ActorTypeOK, NEW c \in Clusters, NEW seen \in SUBSET Waiting(c),
           NEW n \in Neighbors(c)
    PROVE  Mirror(c, seen)[n] \in ClusterTimes
<1>1. <<c, n>> \in Links /\ nct[<<c, n>>] \in ClusterTimes
  BY DEF Neighbors, ActorTypeOK
<1>2. CASE n \in seen
  <2>1. Head(inbox[<<c, n>>]) \in Message
    BY <1>1, <1>2 DEF Waiting, ActorTypeOK
  <2> QED
    BY <1>1, <1>2, <2>1, AfterMessageType DEF Mirror
<1>3. CASE n \notin seen
  BY <1>1, <1>3 DEF Mirror
<1> QED
  BY <1>2, <1>3

\* Popping one message of each waiting neighbour and sending a message keeps
\* the mirrors and the queues well typed.
LEMMA ProcessAndSendType ==
    ASSUME ActorTypeOK, NEW c \in Clusters, NEW seen \in SUBSET Waiting(c), NEW m, NEW to,
           to = {} \/ m \in Message,
           ProcessAndSend(c, seen, m, to)
    PROVE  nct' \in [Links -> ClusterTimes] /\ inbox' \in [Links -> Seq(Message)]
<1>1. ASSUME NEW l \in Links
      PROVE  nct'[l] \in ClusterTimes
  <2>1. CASE l[1] = c
    <3>1. l = <<c, l[2]>> /\ l[2] \in Neighbors(c)
      BY <1>1, <2>1, LinkPair
    <3> QED
      BY <1>1, <2>1, <3>1, MirrorType DEF ProcessAndSend
  <2>2. CASE l[1] # c
    BY <1>1, <2>2 DEF ProcessAndSend, ActorTypeOK
  <2> QED
    BY <2>1, <2>2
<1>2. ASSUME NEW l \in Links
      PROVE  inbox'[l] \in Seq(Message)
  <2>1. inbox[l] \in Seq(Message)
    BY DEF ActorTypeOK
  <2>2. CASE l[1] = c /\ l[2] \in seen
    <3>1. l = <<c, l[2]>>
      BY <1>2, <2>2, LinkPair
    <3>2. inbox[l] # <<>>
      BY <2>2, <3>1 DEF Waiting
    <3> QED
      BY <2>1, <2>2, <3>2 DEF ProcessAndSend
  <2>3. CASE ~(l[1] = c /\ l[2] \in seen)
    BY <2>1, <2>3 DEF ProcessAndSend
  <2> QED
    BY <2>2, <2>3
<1>3. nct' \in [Links -> ClusterTimes]
  BY <1>1 DEF ProcessAndSend
<1>4. inbox' \in [Links -> Seq(Message)]
  BY <1>2 DEF ProcessAndSend
<1> QED
  BY <1>3, <1>4

\* A prediction keeps the actors well typed.
LEMMA PredictType ==
    ASSUME ActorTypeOK, NEW c \in Clusters, NEW seen \in SUBSET Waiting(c), Predict(c, seen)
    PROVE  ActorTypeOK'
<1> DEFINE new == [ct[c] EXCEPT !.predictionsSinceLastSync = @ + Rate[c],
                                !.predictionTime = Plus(@, TimeStepSize(c))]
           m == [kind |-> "prediction", time |-> new.predictionTime,
                 stepsSinceSync |-> new.predictionsSinceLastSync]
<1>1. ct[c] \in ClusterTimes
  BY DEF ActorTypeOK
<1>2. new \in ClusterTimes
  <2>1. Plus(ct[c].predictionTime, TimeStepSize(c)) \in Time
    BY <1>1, TimeStepSizeType, PlusMinusType DEF ClusterTimes
  <2>2. ct[c].predictionsSinceLastSync + Rate[c] \in Int
    BY <1>1, RateAssumption DEF ClusterTimes
  <2> QED
    BY <1>1, <2>1, <2>2 DEF ClusterTimes
<1>3. m \in Message
  BY <1>2 DEF Message, ClusterTimes
<1>4. nct' \in [Links -> ClusterTimes] /\ inbox' \in [Links -> Seq(Message)]
  BY <1>3, ProcessAndSendType DEF Predict
<1>5. ct' \in [Clusters -> ClusterTimes]
  BY <1>2 DEF Predict, ActorTypeOK
<1> QED
  BY <1>4, <1>5 DEF Predict, ActorTypeOK, ActorState

\* A correction keeps the actors well typed.
LEMMA CorrectType ==
    ASSUME ActorTypeOK, NEW c \in Clusters, NEW seen \in SUBSET Waiting(c), Correct(c, seen)
    PROVE  ActorTypeOK'
<1> DEFINE new == [ct[c] EXCEPT !.correctionTime = Plus(@, TimeStepSize(c)),
                                !.stepsSinceLastSync = @ + Rate[c],
                                !.stepsSinceStart = @ + Rate[c]]
           m == [kind |-> "correction", time |-> new.correctionTime,
                 stepsSinceSync |-> new.stepsSinceLastSync]
<1>1. ct[c] \in ClusterTimes
  BY DEF ActorTypeOK
<1>2. new \in ClusterTimes
  <2>1. Plus(ct[c].correctionTime, TimeStepSize(c)) \in Time
    BY <1>1, TimeStepSizeType, PlusMinusType DEF ClusterTimes
  <2>2. /\ ct[c].stepsSinceLastSync + Rate[c] \in Int
        /\ ct[c].stepsSinceStart + Rate[c] \in Int
    BY <1>1, RateAssumption DEF ClusterTimes
  <2> QED
    BY <1>1, <2>1, <2>2 DEF ClusterTimes
<1>3. m \in Message
  BY <1>2 DEF Message, ClusterTimes
<1>4. nct' \in [Links -> ClusterTimes] /\ inbox' \in [Links -> Seq(Message)]
  BY <1>3, ProcessAndSendType DEF Correct
<1>5. ct' \in [Clusters -> ClusterTimes]
  BY <1>2 DEF Correct, ActorTypeOK
<1> QED
  BY <1>4, <1>5 DEF Correct, ActorTypeOK, ActorState

\* Cleared counters are ClusterTimes.
LEMMA ClearedType ==
    ASSUME NEW r \in ClusterTimes, NEW steps \in Int
    PROVE  Cleared(r, steps) \in ClusterTimes
<1> DEFINE z == 0
<1>1. z \in Int
  OBVIOUS
<1> HIDE DEF z
<1>2. [r EXCEPT !.stepsSinceLastSync = z, !.predictionsSinceLastSync = z,
                !.stepsUntilSync = steps] \in ClusterTimes
  BY <1>1 DEF ClusterTimes
<1> QED
  BY <1>2 DEF Cleared, z

\* setSyncTime and reset keep the actors well typed.
LEMMA ResetType ==
    ASSUME ActorTypeOK, NEW c \in Clusters, NEW seen \in SUBSET Waiting(c), NEW t \in Time,
           SetSyncTimeAndReset(c, t, seen)
    PROVE  ActorTypeOK'
<1> DEFINE steps(k) == StepsUntil(k, ct[c].correctionTime, t)
<1>1. ct[c] \in ClusterTimes
  BY DEF ActorTypeOK
<1>2. \A k \in Clusters : steps(k) \in Int
  BY <1>1, StepsUntilType DEF ClusterTimes
<1>3. ct' \in [Clusters -> ClusterTimes]
  <2>1. ct' = [ct EXCEPT ![c] = Cleared(ct[c], steps(c))]
    BY DEF SetSyncTimeAndReset
  <2>2. Cleared(ct[c], steps(c)) \in ClusterTimes
    BY <1>1, <1>2, ClearedType
  <2> QED
    BY <2>1, <2>2 DEF ActorTypeOK
<1>4. ASSUME NEW l \in Links
      PROVE  nct'[l] \in ClusterTimes /\ inbox'[l] \in Seq(Message)
  <2>1. l = <<l[1], l[2]>> /\ l[2] \in Clusters /\ l[2] \in Neighbors(l[1])
    BY LinkPair
  <2>2. nct'[l] = IF l[1] = c THEN Cleared(Mirror(c, seen)[l[2]], steps(l[2]))
                  ELSE nct[l]
    BY DEF SetSyncTimeAndReset
  <2>3. l[1] = c => Mirror(c, seen)[l[2]] \in ClusterTimes
    BY <2>1, MirrorType
  <2>4. nct'[l] \in ClusterTimes
    <3>1. CASE l[1] = c
      BY <3>1, <1>2, <2>1, <2>2, <2>3, ClearedType
    <3>2. CASE l[1] # c
      BY <3>2, <2>2 DEF ActorTypeOK
    <3> QED
      BY <3>1, <3>2
  <2>5. inbox[l] \in Seq(Message)
    BY DEF ActorTypeOK
  <2>6. inbox'[l] \in Seq(Message)
    <3>1. CASE l[1] = c /\ l[2] \in seen
      <4>1. inbox[l] # <<>>
        BY <2>1, <3>1 DEF Waiting
      <4>2. Tail(inbox[l]) \in Seq(Message)
        BY <2>5, <4>1
      <4>3. inbox'[l] = Tail(inbox[l])
        BY <3>1 DEF SetSyncTimeAndReset
      <4> QED
        BY <4>2, <4>3
    <3>2. CASE ~(l[1] = c /\ l[2] \in seen)
      BY <2>5, <3>2 DEF SetSyncTimeAndReset
    <3> QED
      BY <3>1, <3>2
  <2> QED
    BY <2>4, <2>6
<1>5. /\ nct' \in [Links -> ClusterTimes]
      /\ inbox' \in [Links -> Seq(Message)]
  BY <1>4 DEF SetSyncTimeAndReset
<1>6. /\ state' \in [Clusters -> ActorState]
      /\ syncTime' \in [Clusters -> Time]
  BY DEF SetSyncTimeAndReset, ActorTypeOK
<1> QED
  BY <1>3, <1>5, <1>6 DEF ActorTypeOK

\* Poll, Sync and RestartAfterSync only pop messages and change the state.
LEMMA QuietType ==
    ASSUME ActorTypeOK, NEW c \in Clusters, NEW seen \in SUBSET Waiting(c),
           ProcessAndSend(c, seen, <<>>, {}),
           state' \in [Clusters -> ActorState], UNCHANGED <<syncTime, ct>>
    PROVE  ActorTypeOK'
BY ProcessAndSendType DEF ActorTypeOK

----------------------------------------------------------------------------
(* Arithmetic *)

Multiple(v, r) == \E k \in Int : v = k * r

\* A multiple and the next one.
LEMMA NextMultiple ==
    ASSUME NEW r \in Int, NEW v, Multiple(v, r)
    PROVE  Multiple(v + r, r) /\ Multiple(v - r, r) /\ v \in Int
<1>1. PICK k \in Int : v = k * r
  BY DEF Multiple
<1>2. v + r = (k + 1) * r /\ v - r = (k - 1) * r /\ v \in Int
  BY <1>1
<1> QED
  BY <1>2 DEF Multiple

\* Zero is a multiple of every rate.
LEMMA ZeroIsMultiple == \A r \in Int : Multiple(0, r)
<1> SUFFICES ASSUME NEW r \in Int PROVE Multiple(0, r)
  OBVIOUS
<1>1. 0 = 0 * r
  OBVIOUS
<1> QED
  BY <1>1 DEF Multiple

\* Between a multiple and the next there is no other.
LEMMA NoMultipleBetween ==
    ASSUME NEW r \in Nat \ {0}, NEW v, NEW w, Multiple(v, r), Multiple(w, r), v < w + r
    PROVE  v <= w
<1>1. PICK k \in Int : v = k * r
  BY DEF Multiple
<1>2. PICK j \in Int : w = j * r
  BY DEF Multiple
<1>3. ASSUME ~(k <= j)
      PROVE  FALSE
  <2>1. k - j - 1 \in Nat
    BY <1>3
  <2>2. (k - j - 1) * r >= 0
    BY <2>1
  <2>3. (k - j - 1) * r = k * r - j * r - r
    OBVIOUS
  <2> QED
    BY <1>1, <1>2, <2>2, <2>3
<1>4. (j - k) * r >= 0
  BY <1>3
<1>5. (j - k) * r = j * r - k * r
  OBVIOUS
<1> QED
  BY <1>1, <1>2, <1>4, <1>5

\* A factor can be cancelled.
LEMMA Cancel ==
    ASSUME NEW r \in Nat \ {0}, NEW a \in Int, NEW b \in Int, r * a = r * b
    PROVE  a = b
<1>1. r * (a - b) = 0
  OBVIOUS
<1> QED
  BY <1>1

\* A factor keeps the order.
LEMMA Monotone ==
    ASSUME NEW r \in Nat \ {0}, NEW a \in Int, NEW b \in Int
    PROVE  /\ r * a \in Int /\ r * b \in Int
           /\ r * a < r * b => a < b
           /\ a < b => r * a < r * b
<1>1. r * (a - b) = r * a - r * b /\ r * (b - a) = r * b - r * a
  OBVIOUS
<1>2. a < b => r * (b - a) > 0
  OBVIOUS
<1>3. ~(a < b) => r * (a - b) >= 0
  OBVIOUS
<1>4. r * a \in Int /\ r * b \in Int
  OBVIOUS
<1> QED
  BY <1>1, <1>2, <1>3, <1>4

\* As many steps as fit above a / b cover a.
LEMMA CeilCovers ==
    ASSUME NEW a \in Int, NEW b \in Nat \ {0}, NEW n \in Int, n >= (a + b - 1) \div b
    PROVE  n * b >= a
<1> DEFINE q == (a + b - 1) \div b
           r == (a + b - 1) % b
<1>1. q \in Int /\ r \in 0..(b - 1) /\ a + b - 1 = b * q + r
  OBVIOUS
<1> HIDE DEF q, r
<1>2. b * q >= a
  BY <1>1
<1>3. n >= q
  BY DEF q
<1>4. b * (n - q) >= 0
  BY <1>1, <1>3
<1>5. b * (n - q) = n * b - b * q
  BY <1>1
<1> QED
  BY <1>1, <1>2, <1>4, <1>5

\* Fewer steps than fit above a / b do not cover a.
LEMMA CeilIsLeast ==
    ASSUME NEW a \in Int, NEW b \in Nat \ {0}, NEW n \in Int, n < (a + b - 1) \div b
    PROVE  n * b < a
<1> DEFINE q == (a + b - 1) \div b
           r == (a + b - 1) % b
<1>1. q \in Int /\ r \in 0..(b - 1) /\ a + b - 1 = b * q + r
  OBVIOUS
<1> HIDE DEF q, r
<1>2. b * q < a + b
  BY <1>1
<1>3. n <= q - 1
  BY <1>1 DEF q
<1>4. b * ((q - 1) - n) >= 0
  BY <1>1, <1>3
<1>5. b * ((q - 1) - n) = b * q - b - n * b
  BY <1>1
<1>6. n * b \in Int /\ b * q \in Int
  BY <1>1
<1> QED
  BY <1>2, <1>4, <1>5, <1>6

----------------------------------------------------------------------------
(* Steps and times *)

ExactArithmetic == Rounded = <<>> /\ RoundedCeil = <<>>

\* A unit step is as long for one cluster as for another: the time step of a
\* cluster is its rate times the smallest time step (ClusterLayout).
SameUnitStep ==
    \A c, d \in Clusters : Rate[d] * MaxTimeStepSize[c] = Rate[c] * MaxTimeStepSize[d]

\* n unit steps after b, at the rate r in time steps of m, the time is t: the
\* last step is cut off at s.
AtStep(r, m, b, s, t, n) == r * (t - b) = Smaller(r * (s - b), n * m)

\* steps unit steps after the start of phase e, which are whole time steps of
\* cluster c, c is at time t.
OnGrid(e, c, t, steps) ==
    /\ Multiple(steps, Rate[c])
    /\ AtStep(Rate[c], MaxTimeStepSize[c], PhaseStart(e), SyncTimes[e], t, steps)

\* The steps of cluster n until the end of phase e.
EndOf(e, n) == StepsUntil(n, PhaseStart(e), SyncTimes[e])

\* One more time step, cut off at the end s, advances the steps by the rate r.
LEMMA GridStep ==
    ASSUME NEW r \in Nat \ {0}, NEW m \in Nat \ {0}, NEW b \in Int, NEW s \in Int,
           NEW t \in Int, NEW n \in Int,
           AtStep(r, m, b, s, t, n)
    PROVE  AtStep(r, m, b, s, t + Smaller(s - t, m), n + r)
<1>a. r * (t - b) = Smaller(r * (s - b), n * m)
  BY DEF AtStep
<1>1. /\ r * (s - b) = r * s - r * b
      /\ r * (t - b) = r * t - r * b
      /\ (n + r) * m = n * m + r * m
      /\ r * m > 0
  OBVIOUS
<1>2. CASE s - t < m
  <2>1. r * (s - t) < r * m
    BY <1>2
  <2>2. r * (s - t) = r * s - r * t
    OBVIOUS
  <2>3. r * (s - b) < (n + r) * m
    BY <1>a, <1>1, <2>1, <2>2 DEF Smaller
  <2>4. (t + Smaller(s - t, m)) - b = s - b
    BY <1>2 DEF Smaller
  <2> QED
    BY <2>3, <2>4 DEF Smaller, AtStep
<1>3. CASE ~(s - t < m)
  <2>1. r * (s - t) >= r * m
    BY <1>3
  <2>2. r * (s - t) = r * s - r * t
    OBVIOUS
  <2>3. r * (t - b) = n * m /\ r * (s - b) >= (n + r) * m
    BY <1>a, <1>1, <2>1, <2>2 DEF Smaller
  <2>4. r * ((t + m) - b) = r * (t - b) + r * m
    OBVIOUS
  <2>5. Smaller(s - t, m) = m
    BY <1>3 DEF Smaller
  <2>6. Smaller(r * (s - b), (n + r) * m) = (n + r) * m
    BY <2>3 DEF Smaller
  <2> QED
    BY <1>1, <2>3, <2>4, <2>5, <2>6 DEF AtStep
<1> QED
  BY <1>2, <1>3

\* Without rounding the operations on times are those of the integers.
LEMMA ExactOperations ==
    ASSUME ExactArithmetic
    PROVE  /\ \A a, b \in Int : Plus(a, b) = a + b /\ Minus(a, b) = a - b
           /\ \A a \in Int, b \in Nat \ {0} : CeilDiv(a, b) = (a + b - 1) \div b
<1>1. DOMAIN Rounded = {} /\ DOMAIN RoundedCeil = {}
  BY DEF ExactArithmetic
<1>2. \A x \in Int : Round(x) = x
  BY <1>1 DEF Round
<1>3. \A a \in Int, b \in Nat \ {0} : CeilDiv(a, b) = (a + b - 1) \div b
  BY <1>1, <1>2 DEF CeilDiv
<1> QED
  BY <1>2, <1>3 DEF Plus, Minus

\* The synchronization times of phase e.
LEMMA PhaseTimes ==
    ASSUME NEW e \in 1..Len(SyncTimes)
    PROVE  PhaseStart(e) \in Int /\ SyncTimes[e] \in Int /\ e \in Nat \ {0}
<1>1. Len(SyncTimes) \in Nat
  BY SyncTimesAssumption
<1> QED
  BY <1>1, SyncTimesAssumption, RateAssumption DEF PhaseStart

\* v steps do not reach the end of the phase exactly when they cover less than
\* the phase.
LEMMA EndOfFacts ==
    ASSUME ExactArithmetic, NEW e \in 1..Len(SyncTimes), NEW n \in Clusters
    PROVE  /\ EndOf(e, n) \in Nat \ {0}
           /\ SyncTimes[e] - PhaseStart(e) > 0
           /\ \A v \in Int : v < EndOf(e, n) <=>
                  v * MaxTimeStepSize[n] < Rate[n] * (SyncTimes[e] - PhaseStart(e))
<1> DEFINE b == PhaseStart(e)
           s == SyncTimes[e]
           r == Rate[n]
           m == MaxTimeStepSize[n]
<1>1. b \in Int /\ s \in Int /\ r \in Nat \ {0} /\ m \in Nat \ {0}
  BY PhaseTimes, RateAssumption
<1>2. s - b > 0
  <2>1. s > b
    BY SyncTimesAssumption DEF PhaseStart
  <2> QED
    BY <1>1, <2>1
<1>3. r * (s - b) \in Int /\ r * (s - b) > 0
  BY <1>1, <1>2
<1>4. EndOf(e, n) = (r * (s - b) + m - 1) \div m
  <2>1. Minus(s, b) = s - b
    BY <1>1, ExactOperations
  <2>2. CeilDiv(r * (s - b), m) = (r * (s - b) + m - 1) \div m
    BY <1>1, <1>3, ExactOperations
  <2> QED
    BY <2>1, <2>2 DEF EndOf, StepsUntil
<1> HIDE DEF b, s, r, m
<1>5. EndOf(e, n) \in Int
  BY <1>1, <1>3, <1>4
<1>6. \A v \in Int : v < EndOf(e, n) => v * m < r * (s - b)
  BY <1>1, <1>3, <1>4, CeilIsLeast
<1>7. \A v \in Int : ~(v < EndOf(e, n)) => v * m >= r * (s - b)
  BY <1>1, <1>3, <1>4, <1>5, CeilCovers
<1>8. EndOf(e, n) > 0
  <2>1. CASE 0 < EndOf(e, n)
    BY <1>5, <2>1
  <2>2. CASE ~(0 < EndOf(e, n))
    <3>1. 0 * m >= r * (s - b)
      BY <1>7, <2>2
    <3> QED
      BY <1>1, <1>3, <3>1
  <2> QED
    BY <2>1, <2>2
<1>9. \A v \in Int : v * m \in Int
  BY <1>1
<1>10. \A v \in Int : v < EndOf(e, n) <=> v * m < r * (s - b)
  <2>1. \A v \in Int : ~(v < EndOf(e, n)) => ~(v * m < r * (s - b))
    BY <1>3, <1>7, <1>9
  <2> QED
    BY <1>6, <2>1, Zenon
<1>11. EndOf(e, n) \in Nat \ {0}
  BY <1>5, <1>8
<1> QED
  BY <1>2, <1>10, <1>11 DEF b, s, r, m

\* More steps stand at a later time, until the steps end the phase.
LEMMA GridTimes ==
    ASSUME ExactArithmetic, NEW e \in 1..Len(SyncTimes), NEW n \in Clusters,
           NEW v \in Int, NEW t \in Int, OnGrid(e, n, t, v)
    PROVE  /\ v < EndOf(e, n) => t < SyncTimes[e]
           /\ ~(v < EndOf(e, n)) => t = SyncTimes[e]
           /\ \A w, u \in Int : OnGrid(e, n, u, w) /\ v < w /\ v < EndOf(e, n) => t < u
<1> DEFINE b == PhaseStart(e)
           s == SyncTimes[e]
           r == Rate[n]
           m == MaxTimeStepSize[n]
<1>1. b \in Int /\ s \in Int /\ r \in Nat \ {0} /\ m \in Nat \ {0}
  BY PhaseTimes, RateAssumption
<1>2. \A w \in Int : w < EndOf(e, n) <=> w * m < r * (s - b)
  BY EndOfFacts
<1>3. r * (t - b) = Smaller(r * (s - b), v * m)
  BY DEF OnGrid, AtStep
<1>4. \A w, u \in Int : OnGrid(e, n, u, w) => r * (u - b) = Smaller(r * (s - b), w * m)
  BY Zenon DEF OnGrid, AtStep
<1> HIDE DEF b, s, r, m
<1>5. r * (s - b) \in Int /\ v * m \in Int /\ s - b \in Int /\ t - b \in Int
  BY <1>1
<1>6. ASSUME v < EndOf(e, n)
      PROVE  r * (t - b) = v * m /\ v * m < r * (s - b) /\ t < s
  <2>1. v * m < r * (s - b)
    BY <1>2, <1>6
  <2>2. r * (t - b) = v * m
    BY <1>3, <1>5, <2>1 DEF Smaller
  <2>3. t - b < s - b
    BY <1>1, <1>5, <2>1, <2>2, Monotone
  <2> QED
    BY <1>1, <2>1, <2>2, <2>3
<1>7. ASSUME ~(v < EndOf(e, n))
      PROVE  t = s
  <2>1. ~(v * m < r * (s - b))
    BY <1>2, <1>7
  <2>2. r * (t - b) = r * (s - b)
    BY <1>3, <1>5, <2>1 DEF Smaller
  <2>3. t - b = s - b
    BY <1>1, <1>5, <2>2, Cancel
  <2> QED
    BY <1>1, <2>3
<1>8. ASSUME NEW w \in Int, NEW u \in Int, OnGrid(e, n, u, w), v < w, v < EndOf(e, n)
      PROVE  t < u
  <2>1. r * (u - b) = Smaller(r * (s - b), w * m)
    BY <1>4, <1>8
  <2>2. m * v < m * w /\ m * v = v * m /\ m * w = w * m /\ w * m \in Int
    BY <1>1, <1>8, Monotone
  <2>3. r * (t - b) < r * (u - b)
    BY <1>5, <1>6, <1>8, <2>1, <2>2 DEF Smaller
  <2>4. t - b < u - b
    BY <1>1, <2>3, Monotone
  <2> QED
    BY <1>1, <2>4
<1> QED
  BY <1>6, <1>7, <1>8 DEF s

\* With the same unit step all clusters end the phase at the same step.
LEMMA SameEnd ==
    ASSUME ExactArithmetic, SameUnitStep, NEW e \in 1..Len(SyncTimes),
           NEW c \in Clusters, NEW d \in Clusters
    PROVE  EndOf(e, c) = EndOf(e, d)
<1> DEFINE D == SyncTimes[e] - PhaseStart(e)
<1>1. D \in Int
  BY PhaseTimes
<1>2. /\ EndOf(e, c) \in Int /\ \A v \in Int : v < EndOf(e, c) <=> v * MaxTimeStepSize[c] < Rate[c] * D
      /\ EndOf(e, d) \in Int /\ \A v \in Int : v < EndOf(e, d) <=> v * MaxTimeStepSize[d] < Rate[d] * D
  BY EndOfFacts
<1> HIDE DEF D
<1>3. ASSUME NEW x \in Clusters, NEW y \in Clusters, NEW v \in Int,
             v * MaxTimeStepSize[x] < Rate[x] * D
      PROVE  v * MaxTimeStepSize[y] < Rate[y] * D
  <2> DEFINE mx == MaxTimeStepSize[x]
             my == MaxTimeStepSize[y]
             rx == Rate[x]
             ry == Rate[y]
  <2>1. /\ mx \in Nat \ {0} /\ my \in Nat \ {0} /\ rx \in Nat \ {0} /\ ry \in Nat \ {0}
        /\ ry * mx = rx * my
    BY RateAssumption DEF SameUnitStep
  <2> HIDE DEF mx, my, rx, ry
  <2>2. v * mx \in Int /\ rx * D \in Int /\ v * my \in Int /\ ry * D \in Int
    BY <1>1, <2>1
  <2>3. ry * (v * mx) < ry * (rx * D)
    BY <1>3, <2>1, <2>2, Monotone DEF mx, rx
  <2>4. ry * (v * mx) = rx * (v * my)
    <3>1. ry * (v * mx) = v * (ry * mx) /\ rx * (v * my) = v * (rx * my)
      BY <2>1
    <3> QED
      BY <2>1, <3>1
  <2>5. ry * (rx * D) = rx * (ry * D)
    BY <1>1, <2>1
  <2>6. rx * (v * my) < rx * (ry * D)
    BY <2>3, <2>4, <2>5
  <2>7. v * my < ry * D
    BY <2>1, <2>2, <2>6, Monotone
  <2> QED
    BY <2>7 DEF my, ry
<1>4. \A v \in Int : v < EndOf(e, c) <=> v < EndOf(e, d)
  BY <1>2, <1>3
<1> QED
  BY <1>2, <1>4

\* At the start of the phase a cluster stands on the grid.
LEMMA StartOnGrid ==
    ASSUME ExactArithmetic, NEW e \in 1..Len(SyncTimes), NEW n \in Clusters
    PROVE  OnGrid(e, n, PhaseStart(e), 0)
<1> DEFINE b == PhaseStart(e)
           s == SyncTimes[e]
           r == Rate[n]
           m == MaxTimeStepSize[n]
<1>1. b \in Int /\ s \in Int /\ r \in Nat \ {0} /\ m \in Nat \ {0} /\ s - b > 0
  BY PhaseTimes, RateAssumption, EndOfFacts
<1> HIDE DEF b, s, r, m
<1>2. r * (b - b) = 0 /\ 0 * m = 0 /\ r * (s - b) > 0 /\ r * (s - b) \in Int
  BY <1>1
<1>3. AtStep(r, m, b, s, b, 0)
  BY <1>2 DEF AtStep, Smaller
<1>4. Multiple(0, r)
  BY <1>1, ZeroIsMultiple
<1> QED
  BY <1>3, <1>4 DEF OnGrid, b, s, r, m

----------------------------------------------------------------------------
(* Clocks *)

StandsAt(t, time) == t.correctionTime = time /\ t.predictionTime = time

\* The clock t of cluster c in the state s in phase e: the counters count unit
\* steps, the times are on the grid.
ClockAt(e, c, s, t) ==
    /\ t.stepsUntilSync = EndOf(e, c)
    /\ t.predictionsSinceLastSync =
           t.stepsSinceLastSync + IF s = "Predicted" THEN Rate[c] ELSE 0
    /\ OnGrid(e, c, t.correctionTime, t.stepsSinceLastSync)
    /\ OnGrid(e, c, t.predictionTime, t.predictionsSinceLastSync)
    /\ s = "Predicted" => t.stepsSinceLastSync < t.stepsUntilSync

\* A cluster whose steps are done stands at the synchronization time.
LEMMA DoneIsOnTime ==
    ASSUME ExactArithmetic, NEW e \in 1..Len(SyncTimes), NEW c \in Clusters,
           NEW s, NEW t \in ClusterTimes, ClockAt(e, c, s, t), MaySync(t), s # "Predicted"
    PROVE  StandsAt(t, SyncTimes[e])
<1>1. /\ t.stepsSinceLastSync \in Int /\ t.correctionTime \in Int /\ t.predictionTime \in Int
      /\ t.predictionsSinceLastSync \in Int /\ EndOf(e, c) \in Int
  BY EndOfFacts DEF ClusterTimes, Time
<1>2. t.predictionsSinceLastSync = t.stepsSinceLastSync /\ ~(t.stepsSinceLastSync < EndOf(e, c))
  BY <1>1 DEF ClockAt, MaySync
<1>3. /\ OnGrid(e, c, t.correctionTime, t.stepsSinceLastSync)
      /\ OnGrid(e, c, t.predictionTime, t.stepsSinceLastSync)
  BY <1>2 DEF ClockAt
<1>4. t.correctionTime = SyncTimes[e] /\ t.predictionTime = SyncTimes[e]
  BY <1>1, <1>2, <1>3, GridTimes
<1> QED
  BY <1>4 DEF StandsAt

\* One time step of c takes a time on the grid to the next.
LEMMA StepOnGrid ==
    ASSUME ExactArithmetic, ActorTypeOK, NEW e \in 1..Len(SyncTimes), NEW c \in Clusters,
           syncTime[c] = SyncTimes[e], NEW n \in Int,
           OnGrid(e, c, ct[c].correctionTime, n)
    PROVE  OnGrid(e, c, Plus(ct[c].correctionTime, TimeStepSize(c)), n + Rate[c])
<1> DEFINE t == ct[c].correctionTime
           b == PhaseStart(e)
           s == SyncTimes[e]
           r == Rate[c]
           m == MaxTimeStepSize[c]
<1>1. b \in Int /\ s \in Int
  BY PhaseTimes
<1>2. r \in Nat \ {0} /\ m \in Nat \ {0}
  BY RateAssumption
<1>3. t \in Int
  <2>1. ct[c] \in ClusterTimes
    BY DEF ActorTypeOK
  <2> QED
    BY <2>1 DEF ClusterTimes, Time
<1>4. TimeStepSize(c) = Smaller(s - t, m)
  BY <1>1, <1>3, ExactOperations DEF TimeStepSize
<1>5. Smaller(s - t, m) \in Int
  BY <1>1, <1>2, <1>3 DEF Smaller
<1>6. Plus(t, TimeStepSize(c)) = t + Smaller(s - t, m)
  BY <1>3, <1>4, <1>5, ExactOperations
<1>7. AtStep(r, m, b, s, t, n) /\ Multiple(n, r)
  BY DEF OnGrid
<1>8. AtStep(r, m, b, s, t + Smaller(s - t, m), n + r)
  BY <1>1, <1>2, <1>3, <1>7, GridStep
<1>9. Multiple(n + r, r)
  BY <1>2, <1>7, NextMultiple
<1> QED
  BY <1>6, <1>8, <1>9 DEF OnGrid

\* A prediction moves the prediction time ahead by the step c corrects next.
LEMMA PredictClock ==
    ASSUME ExactArithmetic, ActorTypeOK, NEW e \in 1..Len(SyncTimes), NEW c \in Clusters,
           syncTime[c] = SyncTimes[e], ClockAt(e, c, state[c], ct[c]),
           NEW seen, Predict(c, seen)
    PROVE  ClockAt(e, c, state'[c], ct'[c])
<1> DEFINE n == ct[c].stepsSinceLastSync
           new == [ct[c] EXCEPT !.predictionsSinceLastSync = @ + Rate[c],
                                !.predictionTime = Plus(@, TimeStepSize(c))]
<1>1. ct[c] \in ClusterTimes /\ state[c] = "Corrected" /\ ~MaySync(ct[c])
  BY DEF ActorTypeOK, Predict
<1>2. /\ n \in Int /\ ct[c].correctionTime \in Int /\ ct[c].predictionTime \in Int
      /\ ct[c].predictionsSinceLastSync \in Int /\ ct[c].stepsUntilSync \in Int
  BY <1>1 DEF ClusterTimes, Time
<1>3. ct[c].predictionsSinceLastSync = n /\ n < ct[c].stepsUntilSync
  BY <1>1, <1>2 DEF ClockAt, MaySync
<1>4. ct[c].predictionTime = ct[c].correctionTime
  <2> DEFINE b == PhaseStart(e)
  <2>1. Rate[c] * (ct[c].predictionTime - b) = Rate[c] * (ct[c].correctionTime - b)
    <3>1. OnGrid(e, c, ct[c].correctionTime, n) /\ OnGrid(e, c, ct[c].predictionTime, n)
      BY <1>3 DEF ClockAt
    <3> QED
      BY <3>1, Zenon DEF OnGrid, AtStep
  <2>2. Rate[c] \in Nat \ {0} /\ b \in Int
    BY PhaseTimes, RateAssumption
  <2>3. ct[c].predictionTime - b \in Int /\ ct[c].correctionTime - b \in Int
    BY <1>2, <2>2
  <2>4. ct[c].predictionTime - b = ct[c].correctionTime - b
    BY <2>1, <2>2, <2>3, Cancel
  <2> QED
    BY <1>2, <2>2, <2>4
<1>5. ct'[c] = new
  BY <1>1 DEF Predict, ActorTypeOK
<1>6. /\ new.predictionsSinceLastSync = n + Rate[c]
      /\ new.predictionTime = Plus(ct[c].correctionTime, TimeStepSize(c))
      /\ new.correctionTime = ct[c].correctionTime
      /\ new.stepsSinceLastSync = n /\ new.stepsUntilSync = ct[c].stepsUntilSync
  BY <1>1, <1>3, <1>4 DEF ClusterTimes
<1>7. OnGrid(e, c, new.correctionTime, n) /\ OnGrid(e, c, new.predictionTime, n + Rate[c])
  BY <1>2, <1>6, StepOnGrid DEF ClockAt
<1>8. state'[c] = "Predicted"
  BY DEF Predict, ActorTypeOK
<1> HIDE DEF new, n
<1> QED
  BY <1>3, <1>5, <1>6, <1>7, <1>8 DEF ClockAt

\* A correction moves the correction time to where the prediction time is.
LEMMA CorrectClock ==
    ASSUME ExactArithmetic, ActorTypeOK, NEW e \in 1..Len(SyncTimes), NEW c \in Clusters,
           syncTime[c] = SyncTimes[e], ClockAt(e, c, state[c], ct[c]),
           NEW seen, Correct(c, seen)
    PROVE  ClockAt(e, c, state'[c], ct'[c])
<1> DEFINE n == ct[c].stepsSinceLastSync
           new == [ct[c] EXCEPT !.correctionTime = Plus(@, TimeStepSize(c)),
                                !.stepsSinceLastSync = @ + Rate[c],
                                !.stepsSinceStart = @ + Rate[c]]
<1>1. ct[c] \in ClusterTimes /\ state[c] = "Predicted"
  BY DEF ActorTypeOK, Correct
<1>2. n \in Int
  BY <1>1 DEF ClusterTimes
<1>3. ct[c].predictionsSinceLastSync = n + Rate[c]
  BY <1>1 DEF ClockAt
<1>4. OnGrid(e, c, Plus(ct[c].correctionTime, TimeStepSize(c)), n + Rate[c])
  BY <1>2, StepOnGrid DEF ClockAt
<1>5. ct'[c] = new
  BY <1>1 DEF Correct, ActorTypeOK
<1>6. /\ new.correctionTime = Plus(ct[c].correctionTime, TimeStepSize(c))
      /\ new.stepsSinceLastSync = n + Rate[c]
      /\ new.predictionTime = ct[c].predictionTime
      /\ new.predictionsSinceLastSync = ct[c].predictionsSinceLastSync
      /\ new.stepsUntilSync = ct[c].stepsUntilSync
  BY <1>1 DEF ClusterTimes
<1>7. state'[c] = "Corrected"
  BY DEF Correct, ActorTypeOK
<1>8. OnGrid(e, c, ct[c].predictionTime, n + Rate[c])
  BY <1>3 DEF ClockAt
<1>9. n + Rate[c] + 0 = n + Rate[c]
  BY <1>2, RateAssumption
<1> HIDE DEF new, n
<1> QED
  BY <1>3, <1>4, <1>5, <1>6, <1>7, <1>8, <1>9 DEF ClockAt

\* A reset starts the grid of the new phase.
LEMMA ResetClock ==
    ASSUME ExactArithmetic, ActorTypeOK, NEW e \in 1..Len(SyncTimes), NEW c \in Clusters,
           state[c] = "Synced", StandsAt(ct[c], PhaseStart(e)),
           NEW seen, SetSyncTimeAndReset(c, SyncTimes[e], seen)
    PROVE  /\ ClockAt(e, c, state'[c], ct'[c])
           /\ ct'[c].stepsSinceLastSync = 0 /\ ct'[c].predictionsSinceLastSync = 0
<1> DEFINE b == PhaseStart(e)
           steps == EndOf(e, c)
<1>1. ct[c] \in ClusterTimes
  BY DEF ActorTypeOK
<1>2. ct[c].correctionTime = b /\ ct[c].predictionTime = b
  BY DEF StandsAt
<1>3. ct'[c] = Cleared(ct[c], steps)
  BY <1>2 DEF SetSyncTimeAndReset, ActorTypeOK, EndOf
<1>4. /\ ct'[c].correctionTime = b /\ ct'[c].predictionTime = b
      /\ ct'[c].stepsSinceLastSync = 0 /\ ct'[c].predictionsSinceLastSync = 0
      /\ ct'[c].stepsUntilSync = steps
  <2> HIDE DEF b, steps
  <2> QED
    BY <1>1, <1>2, <1>3 DEF Cleared, ClusterTimes
<1>5. state'[c] = "Synced"
  BY DEF SetSyncTimeAndReset
<1>6. OnGrid(e, c, b, 0)
  BY StartOnGrid
<1> QED
  BY <1>4, <1>5, <1>6 DEF ClockAt

----------------------------------------------------------------------------
(* A link of the running phase: what is believed of cluster n, the times    *)
(* and counters t, and what has been sent but not read, the queue q, when n *)
(* has predicted p and corrected s steps.                                   *)

\* n has been at v steps, at the time t, and is there still if v ends the phase.
Reported(e, n, p, v, t) == v \in 0..p /\ (v < EndOf(e, n) \/ v = p) /\ OnGrid(e, n, t, v)

MirrorOf(e, n, p, s, t) ==
    /\ t.stepsUntilSync = EndOf(e, n)
    /\ Reported(e, n, p, t.predictionsSinceLastSync, t.predictionTime)
    /\ Reported(e, n, p, t.stepsSinceLastSync, t.correctionTime)
    /\ t.stepsSinceLastSync <= s

\* A cluster predicts and corrects in turns.
Turn(m) == 2 * m.stepsSinceSync + IF m.kind = "prediction" THEN 0 ELSE 1

MessageOf(e, n, p, s, t, m) ==
    /\ Reported(e, n, p, m.stepsSinceSync, m.time)
    /\ m.kind = "correction" => m.stepsSinceSync <= s
    /\ Turn(m) > 2 * t.predictionsSinceLastSync
    /\ Turn(m) > 2 * t.stepsSinceLastSync + 1

QueueOf(e, n, p, s, t, q) ==
    /\ \A i \in 1..Len(q) : MessageOf(e, n, p, s, t, q[i])
    /\ \A i, j \in 1..Len(q) : i < j => Turn(q[i]) < Turn(q[j])

Holds(q, kind, steps) == \E i \in 1..Len(q) : q[i].kind = kind /\ q[i].stepsSinceSync = steps

\* The last prediction and the last correction of a phase are always told.
LastIsTold(e, n, p, s, t, q) ==
    /\ p >= EndOf(e, n) => t.predictionsSinceLastSync = p \/ Holds(q, "prediction", p)
    /\ s >= EndOf(e, n) => t.stepsSinceLastSync = s \/ Holds(q, "correction", s)

Running(e, n, p, s, t, q) ==
    MirrorOf(e, n, p, s, t) /\ QueueOf(e, n, p, s, t, q) /\ LastIsTold(e, n, p, s, t, q)

\* A link at the end of a phase, at the given time: at most the last correction
\* has not been read.
Settled(t, q, time) ==
    /\ t.predictionTime = time
    /\ \/ q = <<>> /\ t.correctionTime = time
       \/ /\ Len(q) = 1 /\ Head(q).kind = "correction" /\ Head(q).time = time
          /\ t.correctionTime < time

\* A link that has been reset for the current phase.
Fresh(e, n, t, q) ==
    /\ q = <<>>
    /\ t.predictionsSinceLastSync = 0 /\ t.stepsSinceLastSync = 0
    /\ t.predictionTime = PhaseStart(e) /\ t.correctionTime = PhaseStart(e)
    /\ t.stepsUntilSync = EndOf(e, n)
----------------------------------------------------------------------------
(* Queues *)

\* Steps and turns are integers.
LEMMA TurnType == \A m \in Message : Turn(m) \in Int /\ m.stepsSinceSync \in Int
BY DEF Turn, Message

\* Reading the first message of a queue.
LEMMA ReadFirst ==
    ASSUME NEW e, NEW n, NEW p \in Int, NEW s \in Int, NEW t \in ClusterTimes,
           NEW q \in Seq(Message), q # <<>>, Running(e, n, p, s, t, q)
    PROVE  /\ Running(e, n, p, s, AfterMessage(t, Head(q)), Tail(q))
           /\ AfterMessage(t, Head(q)).predictionsSinceLastSync >= t.predictionsSinceLastSync
<1> DEFINE m == Head(q)
           u == AfterMessage(t, m)
<1>1. /\ m \in Message /\ m = q[1] /\ Len(q) \in Nat /\ Len(q) >= 1
      /\ Len(Tail(q)) = Len(q) - 1
      /\ \A i \in 1..Len(Tail(q)) : i + 1 \in 1..Len(q) /\ Tail(q)[i] = q[i + 1]
      /\ \A i \in 1..Len(q) : q[i] \in Message
  BY HeadTailProperties, LenProperties, EmptySeq, ElementOfSeq
<1>2. /\ MessageOf(e, n, p, s, t, m)
      /\ \A i \in 1..Len(Tail(q)) : MessageOf(e, n, p, s, t, Tail(q)[i]) /\ Turn(m) < Turn(Tail(q)[i])
      /\ \A i, j \in 1..Len(Tail(q)) : i < j => Turn(Tail(q)[i]) < Turn(Tail(q)[j])
  <2>1. 1 \in 1..Len(q)
    BY <1>1
  <2> QED
    BY <1>1, <2>1 DEF Running, QueueOf
<1>3. /\ u.stepsUntilSync = t.stepsUntilSync
      /\ m.kind = "prediction" =>
            /\ u.predictionsSinceLastSync = m.stepsSinceSync /\ u.predictionTime = m.time
            /\ u.stepsSinceLastSync = t.stepsSinceLastSync /\ u.correctionTime = t.correctionTime
      /\ m.kind = "correction" =>
            /\ u.stepsSinceLastSync = m.stepsSinceSync /\ u.correctionTime = m.time
            /\ u.predictionsSinceLastSync = t.predictionsSinceLastSync
            /\ u.predictionTime = t.predictionTime
      /\ m.kind \in {"prediction", "correction"}
  BY <1>1 DEF AfterMessage, ClusterTimes, Message
<1>4. t.predictionsSinceLastSync \in Int /\ t.stepsSinceLastSync \in Int /\ m.stepsSinceSync \in Int
  BY <1>1 DEF ClusterTimes, Message
<1> HIDE DEF u, m
<1>5. MirrorOf(e, n, p, s, u)
  BY <1>2, <1>3 DEF Running, MirrorOf, MessageOf
<1>6. ASSUME NEW i \in 1..Len(Tail(q))
      PROVE  MessageOf(e, n, p, s, u, Tail(q)[i])
  <2>1. Turn(Tail(q)[i]) \in Int /\ Turn(m) \in Int
    BY <1>1, TurnType
  <2>2. Turn(m) >= 2 * u.predictionsSinceLastSync
    <3>1. CASE m.kind = "prediction"
      BY <1>3, <1>4, <3>1 DEF Turn
    <3>2. CASE m.kind = "correction"
      BY <1>2, <1>3, <1>4, <2>1, <3>2 DEF MessageOf
    <3> QED
      BY <1>3, <3>1, <3>2
  <2>3. u.predictionsSinceLastSync \in Int /\ u.stepsSinceLastSync \in Int
    BY <1>3, <1>4
  <2>4. Turn(Tail(q)[i]) > 2 * u.stepsSinceLastSync + 1
    <3>1. CASE m.kind = "prediction"
      BY <1>2, <1>3, <3>1 DEF MessageOf
    <3>2. CASE m.kind = "correction"
      BY <1>2, <1>3, <1>4, <2>1, <3>2 DEF Turn
    <3> QED
      BY <1>3, <3>1, <3>2
  <2>5. Turn(Tail(q)[i]) > 2 * u.predictionsSinceLastSync
    BY <1>2, <2>1, <2>2, <2>3
  <2> QED
    BY <1>2, <2>4, <2>5 DEF MessageOf
<1>7. QueueOf(e, n, p, s, u, Tail(q))
  BY <1>2, <1>6 DEF QueueOf
<1>8. ASSUME NEW kind, NEW steps, Holds(q, kind, steps)
      PROVE  Holds(Tail(q), kind, steps) \/ (m.kind = kind /\ m.stepsSinceSync = steps)
  <2>1. PICK i \in 1..Len(q) : q[i].kind = kind /\ q[i].stepsSinceSync = steps
    BY <1>8 DEF Holds
  <2>2. CASE i = 1
    BY <1>1, <2>1, <2>2
  <2>3. CASE i # 1
    <3>1. i - 1 \in 1..Len(Tail(q)) /\ (i - 1) + 1 = i
      BY <1>1, <2>3
    <3> QED
      BY <1>1, <2>1, <3>1 DEF Holds
  <2> QED
    BY <2>2, <2>3
<1>9. LastIsTold(e, n, p, s, u, Tail(q))
  <2>1. p >= EndOf(e, n) => u.predictionsSinceLastSync = p \/ Holds(Tail(q), "prediction", p)
    <3> SUFFICES ASSUME p >= EndOf(e, n)
                 PROVE  u.predictionsSinceLastSync = p \/ Holds(Tail(q), "prediction", p)
      OBVIOUS
    <3>1. CASE t.predictionsSinceLastSync = p
      <4>1. m.kind = "prediction" => Turn(m) = 2 * m.stepsSinceSync
        BY <1>4 DEF Turn
      <4>2. m.kind = "prediction" => m.stepsSinceSync <= p
        BY <1>2 DEF MessageOf, Reported
      <4>3. m.kind # "prediction"
        BY <1>2, <1>4, <3>1, <4>1, <4>2 DEF MessageOf
      <4> QED
        BY <1>3, <3>1, <4>3
    <3>2. CASE Holds(q, "prediction", p)
      BY <1>3, <1>8, <3>2
    <3> QED
      BY <3>1, <3>2 DEF Running, LastIsTold
  <2>2. s >= EndOf(e, n) => u.stepsSinceLastSync = s \/ Holds(Tail(q), "correction", s)
    <3> SUFFICES ASSUME s >= EndOf(e, n)
                 PROVE  u.stepsSinceLastSync = s \/ Holds(Tail(q), "correction", s)
      OBVIOUS
    <3>1. CASE t.stepsSinceLastSync = s
      <4>1. m.kind = "correction" => Turn(m) = 2 * m.stepsSinceSync + 1
        BY <1>4 DEF Turn
      <4>2. m.kind = "correction" => m.stepsSinceSync <= s
        BY <1>2 DEF MessageOf
      <4>3. m.kind # "correction"
        BY <1>2, <1>4, <3>1, <4>1, <4>2 DEF MessageOf
      <4> QED
        BY <1>3, <3>1, <4>3
    <3>2. CASE Holds(q, "correction", s)
      BY <1>3, <1>8, <3>2
    <3> QED
      BY <3>1, <3>2 DEF Running, LastIsTold
  <2> QED
    BY <2>1, <2>2 DEF LastIsTold
<1>10. u.predictionsSinceLastSync >= t.predictionsSinceLastSync
  <2>1. m.kind = "prediction" => Turn(m) = 2 * m.stepsSinceSync
    BY <1>4 DEF Turn
  <2> QED
    BY <1>2, <1>3, <1>4, <2>1 DEF MessageOf
<1> QED
  BY <1>5, <1>7, <1>9, <1>10 DEF Running, u, m

\* A longer queue holds what the shorter one holds, and the message added.
LEMMA AddLast ==
    ASSUME NEW q \in Seq(Message), NEW m \in Message
    PROVE  /\ Append(q, m) \in Seq(Message) /\ Len(Append(q, m)) = Len(q) + 1
           /\ Len(q) \in Nat
           /\ \A i \in 1..Len(q) : Append(q, m)[i] = q[i] /\ q[i] \in Message
           /\ Append(q, m)[Len(q) + 1] = m
           /\ Holds(Append(q, m), m.kind, m.stepsSinceSync)
           /\ \A kind, steps : Holds(q, kind, steps) => Holds(Append(q, m), kind, steps)
<1>1. /\ Append(q, m) \in Seq(Message) /\ Len(Append(q, m)) = Len(q) + 1
      /\ Len(q) \in Nat
      /\ \A i \in 1..Len(q) : Append(q, m)[i] = q[i] /\ q[i] \in Message
      /\ Append(q, m)[Len(q) + 1] = m
  BY AppendProperties, LenProperties, ElementOfSeq
<1>2. Len(q) + 1 \in 1..Len(Append(q, m)) /\ 1..Len(q) \subseteq 1..Len(Append(q, m))
  BY <1>1
<1>3. Holds(Append(q, m), m.kind, m.stepsSinceSync)
  BY <1>1, <1>2 DEF Holds
<1>4. \A kind, steps : Holds(q, kind, steps) => Holds(Append(q, m), kind, steps)
  BY <1>1, <1>2 DEF Holds
<1> QED
  BY <1>1, <1>3, <1>4

\* A queue stays ordered when a later turn is added.
LEMMA AddLater ==
    ASSUME NEW e, NEW n, NEW p, NEW s, NEW t \in ClusterTimes,
           NEW q \in Seq(Message), NEW m \in Message,
           QueueOf(e, n, p, s, t, q), MessageOf(e, n, p, s, t, m),
           \A i \in 1..Len(q) : Turn(q[i]) < Turn(m)
    PROVE  QueueOf(e, n, p, s, t, Append(q, m))
<1>1. \A i \in 1..Len(Append(q, m)) : i \in 1..Len(q) \/ i = Len(q) + 1
  BY AddLast
<1>2. \A i \in 1..Len(q) : i < Len(q) + 1
  BY AddLast
<1>3. \A i, j \in 1..Len(Append(q, m)) : i < j => i \in 1..Len(q)
  BY AddLast
<1>4. \A i \in 1..Len(Append(q, m)) : MessageOf(e, n, p, s, t, Append(q, m)[i])
  BY <1>1, AddLast DEF QueueOf
<1>5. ASSUME NEW i \in 1..Len(Append(q, m)), NEW j \in 1..Len(Append(q, m)), i < j
      PROVE  Turn(Append(q, m)[i]) < Turn(Append(q, m)[j])
  <2>1. i \in 1..Len(q) /\ Append(q, m)[i] = q[i]
    BY <1>3, <1>5, AddLast
  <2>2. CASE j \in 1..Len(q)
    BY <1>5, <2>1, <2>2, AddLast DEF QueueOf
  <2>3. CASE j = Len(q) + 1
    BY <2>1, <2>3, AddLast
  <2> QED
    BY <1>1, <2>2, <2>3
<1> QED
  BY <1>4, <1>5 DEF QueueOf

\* Before the end of the phase n may go on from where it was reported.
LEMMA ReportedBefore ==
    ASSUME NEW e, NEW n, NEW p \in Int, NEW p2 \in Int, p <= p2, EndOf(e, n) \in Int, p < EndOf(e, n),
           NEW v, NEW t, Reported(e, n, p, v, t)
    PROVE  Reported(e, n, p2, v, t)
BY DEF Reported

\* n predicts r more steps; unless they end the phase, it may not tell.
LEMMA AfterPrediction ==
    ASSUME NEW e, NEW n, EndOf(e, n) \in Int, NEW s \in Nat, s < EndOf(e, n), NEW r \in Nat \ {0},
           NEW t \in ClusterTimes, NEW q \in Seq(Message), Running(e, n, s, s, t, q),
           NEW m \in Message, m.kind = "prediction", m.stepsSinceSync = s + r,
           OnGrid(e, n, m.time, s + r)
    PROVE  /\ Running(e, n, s + r, s, t, Append(q, m))
           /\ s + r < EndOf(e, n) => Running(e, n, s + r, s, t, q)
<1>1. MirrorOf(e, n, s + r, s, t)
  BY ReportedBefore DEF Running, MirrorOf
<1>2. \A k \in 1..Len(q) : MessageOf(e, n, s + r, s, t, q[k])
  BY ReportedBefore DEF Running, QueueOf, MessageOf
<1>3. QueueOf(e, n, s + r, s, t, q)
  BY <1>2 DEF Running, QueueOf
<1>4. Turn(m) = 2 * (s + r)
  BY DEF Turn
<1>5. MessageOf(e, n, s + r, s, t, m)
  <2>1. t.predictionsSinceLastSync <= s /\ t.stepsSinceLastSync <= s
    BY DEF Running, MirrorOf, Reported
  <2>2. t.predictionsSinceLastSync \in Int /\ t.stepsSinceLastSync \in Int
    BY DEF ClusterTimes
  <2>3. Reported(e, n, s + r, m.stepsSinceSync, m.time)
    BY DEF Reported
  <2> QED
    BY <1>4, <2>1, <2>2, <2>3 DEF MessageOf
<1>6. ASSUME NEW i \in 1..Len(q)
      PROVE  Turn(q[i]) < Turn(m)
  <2>1. q[i] \in Message /\ q[i].stepsSinceSync \in Int
    BY AddLast, TurnType
  <2>2. q[i].stepsSinceSync <= s
    BY DEF Running, QueueOf, MessageOf, Reported
  <2> QED
    BY <1>4, <2>1, <2>2 DEF Turn
<1>7. QueueOf(e, n, s + r, s, t, Append(q, m))
  BY <1>3, <1>5, <1>6, AddLater
<1>8. LastIsTold(e, n, s + r, s, t, Append(q, m))
  BY AddLast DEF LastIsTold
<1>9. s + r < EndOf(e, n) => LastIsTold(e, n, s + r, s, t, q)
  BY DEF LastIsTold
<1> QED
  BY <1>1, <1>3, <1>7, <1>8, <1>9 DEF Running

\* n corrects what it has predicted; unless it ends the phase, it may not tell.
LEMMA AfterCorrection ==
    ASSUME NEW e, NEW n, EndOf(e, n) \in Int, NEW s \in Nat, NEW p \in Nat, s < p,
           NEW t \in ClusterTimes, NEW q \in Seq(Message), Running(e, n, p, s, t, q),
           NEW m \in Message, m.kind = "correction", m.stepsSinceSync = p,
           OnGrid(e, n, m.time, p)
    PROVE  /\ Running(e, n, p, p, t, Append(q, m))
           /\ p < EndOf(e, n) => Running(e, n, p, p, t, q)
<1>0. t.predictionsSinceLastSync \in Int /\ t.stepsSinceLastSync \in Int
  BY DEF ClusterTimes
<1>1. MirrorOf(e, n, p, p, t)
  BY <1>0 DEF Running, MirrorOf
<1>2. \A k \in 1..Len(q) : MessageOf(e, n, p, p, t, q[k])
  BY AddLast DEF Running, QueueOf, MessageOf, Reported
<1>3. QueueOf(e, n, p, p, t, q)
  BY <1>2 DEF Running, QueueOf
<1>4. Turn(m) = 2 * p + 1
  BY DEF Turn
<1>5. MessageOf(e, n, p, p, t, m)
  <2>1. t.predictionsSinceLastSync <= p /\ t.stepsSinceLastSync <= s
    BY DEF Running, MirrorOf, Reported
  <2>2. Reported(e, n, p, m.stepsSinceSync, m.time)
    BY DEF Reported
  <2> QED
    BY <1>0, <1>4, <2>1, <2>2 DEF MessageOf
<1>6. ASSUME NEW i \in 1..Len(q)
      PROVE  Turn(q[i]) < Turn(m)
  <2>1. q[i] \in Message /\ q[i].stepsSinceSync \in Int
    BY AddLast, TurnType
  <2>2. MessageOf(e, n, p, s, t, q[i])
    BY DEF Running, QueueOf
  <2>3. CASE q[i].kind = "correction"
    BY <1>4, <2>1, <2>2, <2>3 DEF Turn, MessageOf
  <2>4. CASE q[i].kind # "correction"
    <3>1. q[i].kind = "prediction"
      BY <2>1, <2>4 DEF Message
    <3>2. q[i].stepsSinceSync <= p
      BY <2>2 DEF MessageOf, Reported
    <3> QED
      BY <1>4, <2>1, <3>1, <3>2 DEF Turn
  <2> QED
    BY <2>3, <2>4
<1>7. QueueOf(e, n, p, p, t, Append(q, m))
  BY <1>3, <1>5, <1>6, AddLater
<1>8. LastIsTold(e, n, p, p, t, Append(q, m))
  BY AddLast DEF Running, LastIsTold
<1>9. p < EndOf(e, n) => LastIsTold(e, n, p, p, t, q)
  BY DEF LastIsTold
<1> QED
  BY <1>1, <1>3, <1>7, <1>8, <1>9 DEF Running

----------------------------------------------------------------------------
(* The phases of a link *)

\* When n has ended the phase and its last prediction has been read, at most its
\* last correction has not been.
LEMMA RunningSettles ==
    ASSUME ExactArithmetic, NEW e \in 1..Len(SyncTimes), NEW n \in Clusters, NEW p \in Int,
           NEW t \in ClusterTimes, NEW q \in Seq(Message), Running(e, n, p, p, t, q),
           p >= EndOf(e, n), t.predictionsSinceLastSync >= EndOf(e, n)
    PROVE  Settled(t, q, SyncTimes[e])
<1> DEFINE P == t.predictionsSinceLastSync
           S == t.stepsSinceLastSync
           T == SyncTimes[e]
<1>1. /\ P \in Int /\ S \in Int /\ t.predictionTime \in Int /\ t.correctionTime \in Int
      /\ EndOf(e, n) \in Int
  BY EndOfFacts DEF ClusterTimes, Time
<1>2. /\ Reported(e, n, p, P, t.predictionTime) /\ Reported(e, n, p, S, t.correctionTime)
      /\ \A i \in 1..Len(q) : MessageOf(e, n, p, p, t, q[i])
      /\ \A i, j \in 1..Len(q) : i < j => Turn(q[i]) < Turn(q[j])
      /\ S = p \/ Holds(q, "correction", p)
  BY DEF Running, MirrorOf, QueueOf, LastIsTold
<1>3. P = p
  BY <1>1, <1>2 DEF Reported
<1>4. t.predictionTime = T
  BY <1>1, <1>2, GridTimes DEF Reported
<1>5. ASSUME NEW i \in 1..Len(q)
      PROVE  q[i].kind = "correction" /\ Turn(q[i]) = 2 * p + 1 /\ q[i].time = T
  <2>1. q[i] \in Message /\ q[i].stepsSinceSync \in Int /\ q[i].time \in Int
    <3>1. q[i] \in Message
      BY ElementOfSeq
    <3> QED
      BY <3>1 DEF Message, Time
  <2>2. q[i].stepsSinceSync <= p /\ OnGrid(e, n, q[i].time, q[i].stepsSinceSync)
    BY <1>2 DEF MessageOf, Reported
  <2>3. Turn(q[i]) > 2 * p
    BY <1>2, <1>3 DEF MessageOf
  <2>4. q[i].kind = "correction" /\ q[i].stepsSinceSync = p
    <3>1. q[i].kind \in {"prediction", "correction"}
      BY <2>1 DEF Message
    <3> QED
      BY <2>1, <2>2, <2>3, <3>1 DEF Turn
  <2>5. q[i].time = T
    BY <1>1, <2>1, <2>2, <2>4, GridTimes
  <2> QED
    BY <2>4, <2>5 DEF Turn
<1>6. Len(q) \in Nat
  BY LenProperties
<1>7. Len(q) <= 1
  <2> SUFFICES ASSUME Len(q) > 1 PROVE FALSE
    BY <1>6
  <2>1. 1 \in 1..Len(q) /\ 2 \in 1..Len(q)
    BY <1>6
  <2>2. Turn(q[1]) < Turn(q[2]) /\ Turn(q[1]) = 2 * p + 1 /\ Turn(q[2]) = 2 * p + 1
    BY <1>2, <1>5, <2>1
  <2> QED
    BY <2>2
<1>8. CASE Len(q) = 0
  <2>1. ~Holds(q, "correction", p)
    BY <1>8 DEF Holds
  <2>2. t.correctionTime = T
    BY <1>1, <1>2, <2>1, GridTimes DEF Reported
  <2>3. q = <<>>
    BY <1>8, EmptySeq
  <2> QED
    BY <1>4, <2>2, <2>3 DEF Settled
<1>9. CASE Len(q) = 1
  <2>1. Head(q) = q[1] /\ 1 \in 1..Len(q)
    BY <1>9
  <2>2. /\ Head(q).kind = "correction" /\ Head(q).time = T
        /\ Turn(Head(q)) = 2 * p + 1 /\ Turn(Head(q)) > 2 * S + 1
    BY <1>2, <1>5, <2>1 DEF MessageOf
  <2>3. S < EndOf(e, n)
    BY <1>1, <1>2, <2>2 DEF Reported
  <2>4. t.correctionTime < T
    BY <1>1, <1>2, <2>3, GridTimes DEF Reported
  <2> QED
    BY <1>4, <1>9, <2>2, <2>4 DEF Settled
<1>10. Len(q) = 0 \/ Len(q) = 1
  <2>1. \A k \in Nat : k <= 1 => k = 0 \/ k = 1
    OBVIOUS
  <2> QED
    BY <1>6, <1>7, <2>1
<1> QED
  BY <1>8, <1>9, <1>10

\* A settled link that reads one message, if there is one, has read all and knows
\* the times of its neighbour.
LEMMA SettledReads ==
    ASSUME NEW t \in ClusterTimes, NEW q \in Seq(Message), NEW time, Settled(t, q, time)
    PROVE  LET u == IF q # <<>> THEN AfterMessage(t, Head(q)) ELSE t
           IN  /\ u \in ClusterTimes
               /\ u.predictionTime = time /\ u.correctionTime = time
               /\ (IF q # <<>> THEN Tail(q) ELSE q) = <<>>
<1>1. CASE q = <<>>
  BY <1>1 DEF Settled
<1>2. CASE q # <<>>
  <2>1. /\ Len(q) = 1 /\ Head(q).kind = "correction" /\ Head(q).time = time
        /\ t.predictionTime = time
    BY <1>2 DEF Settled
  <2>2. Tail(q) = <<>>
    <3>1. Tail(q) \in Seq(Message) /\ Len(Tail(q)) = 0
      BY <1>2, <2>1, HeadTailProperties
    <3> QED
      BY <3>1, EmptySeq
  <2>3. Head(q) \in Message
    BY <1>2, HeadTailProperties
  <2>4. AfterMessage(t, Head(q)) \in ClusterTimes
    BY <2>3, AfterMessageType
  <2>5. /\ AfterMessage(t, Head(q)).predictionTime = time
        /\ AfterMessage(t, Head(q)).correctionTime = time
    <3>1. \A m \in Message : m.kind = "correction" =>
             /\ AfterMessage(t, m).predictionTime = t.predictionTime
             /\ AfterMessage(t, m).correctionTime = m.time
      BY DEF AfterMessage, Message, ClusterTimes
    <3> QED
      BY <2>1, <2>3, <3>1
  <2> QED
    BY <1>2, <2>2, <2>4, <2>5
<1> QED
  BY <1>1, <1>2

\* A link that has been reset is one of a phase nobody has begun.
LEMMA FreshRuns ==
    ASSUME ExactArithmetic, NEW e \in 1..Len(SyncTimes), NEW n \in Clusters,
           NEW t, NEW q, Fresh(e, n, t, q)
    PROVE  Running(e, n, 0, 0, t, q)
<1>1. OnGrid(e, n, PhaseStart(e), 0) /\ EndOf(e, n) \in Nat \ {0}
  BY StartOnGrid, EndOfFacts
<1>2. MirrorOf(e, n, 0, 0, t)
  BY <1>1 DEF Fresh, MirrorOf, Reported
<1>3. Len(q) = 0
  BY DEF Fresh
<1> QED
  BY <1>1, <1>2, <1>3 DEF Running, QueueOf, LastIsTold

----------------------------------------------------------------------------
(* What a call of a cluster does to the links *)

\* What holds of the link l in phase e, with the own clock, that of the
\* neighbour, the mirror m and the queue q: what is not read of the neighbour,
\* and whoever has made all its steps knows that its neighbour has predicted its.
LinkAt(e, l, own, t, m, q) ==
    /\ Running(e, l[2], t.predictionsSinceLastSync, t.stepsSinceLastSync, m, q)
    /\ own.stepsSinceLastSync >= EndOf(e, l[1]) =>
           m.predictionsSinceLastSync >= EndOf(e, l[2])

\* The links of c are read, those to c are sent to, the others are left alone.
LEMMA LinksAfter ==
    ASSUME NEW c, NEW seen, NEW m, NEW to, ProcessAndSend(c, seen, m, to), NEW l \in Links
    PROVE  /\ l[1] = c => nct'[l] = Mirror(c, seen)[l[2]]
           /\ l[1] = c /\ l[2] \notin seen => nct'[l] = nct[l] /\ inbox'[l] = inbox[l]
           /\ l[1] = c /\ l[2] \in seen => /\ nct'[l] = AfterMessage(nct[l], Head(inbox[l]))
                                           /\ inbox'[l] = Tail(inbox[l])
           /\ l[1] # c => nct'[l] = nct[l]
           /\ l[2] = c /\ l[1] \in to => inbox'[l] = Append(inbox[l], m)
           /\ l[1] # c /\ ~(l[2] = c /\ l[1] \in to) => inbox'[l] = inbox[l]
<1>1. l = <<l[1], l[2]>> /\ l[2] \in Neighbors(l[1]) /\ l[1] # l[2]
  BY LinkPair
<1>2. l[1] = c => nct'[l] = Mirror(c, seen)[l[2]]
  BY DEF ProcessAndSend
<1>3. l[1] = c => Mirror(c, seen)[l[2]] =
                     IF l[2] \in seen THEN AfterMessage(nct[l], Head(inbox[l])) ELSE nct[l]
  BY <1>1 DEF Mirror
<1>4. l[1] # c => nct'[l] = nct[l]
  BY DEF ProcessAndSend
<1>5. inbox'[l] = IF l[1] = c /\ l[2] \in seen THEN Tail(inbox[l])
                  ELSE IF l[2] = c /\ l[1] \in to THEN Append(inbox[l], m) ELSE inbox[l]
  BY DEF ProcessAndSend
<1> QED
  BY <1>1, <1>2, <1>3, <1>4, <1>5

\* What c reads is there.
LEMMA LinkIsRead ==
    ASSUME ActorTypeOK, NEW c \in Clusters, NEW seen \in SUBSET Waiting(c),
           NEW l \in Links, l[1] = c
    PROVE  /\ l[2] \in seen => inbox[l] # <<>>
           /\ Mirror(c, seen)[l[2]] \in ClusterTimes
<1>1. l = <<l[1], l[2]>> /\ l[2] \in Neighbors(l[1])
  BY LinkPair
<1> QED
  BY <1>1, MirrorType DEF Waiting

\* Types of what a link is made of.
LEMMA LinkTypes ==
    ASSUME ActorTypeOK, NEW l \in Links
    PROVE  /\ nct[l] \in ClusterTimes /\ inbox[l] \in Seq(Message)
           /\ l[1] \in Clusters /\ l[2] \in Clusters /\ l[1] # l[2]
           /\ \A k \in Clusters : /\ ct[k] \in ClusterTimes
                                   /\ ct[k].stepsSinceLastSync \in Int
                                   /\ ct[k].predictionsSinceLastSync \in Int
           /\ nct[l].predictionsSinceLastSync \in Int
BY LinkPair DEF ActorTypeOK, ClusterTimes

\* A link of c that is read keeps what holds of it.
LEMMA ReadLink ==
    ASSUME ActorTypeOK, NEW e, NEW c \in Clusters, NEW seen \in SUBSET Waiting(c),
           NEW m, NEW to, ProcessAndSend(c, seen, m, to), NEW l \in Links, l[1] = c,
           NEW p \in Int, NEW s \in Int, Running(e, l[2], p, s, nct[l], inbox[l])
    PROVE  /\ Running(e, l[2], p, s, nct'[l], inbox'[l])
           /\ nct'[l].predictionsSinceLastSync >= nct[l].predictionsSinceLastSync
           /\ nct'[l].predictionsSinceLastSync \in Int
<1>1. nct[l] \in ClusterTimes /\ inbox[l] \in Seq(Message)
      /\ nct[l].predictionsSinceLastSync \in Int
  BY LinkTypes
<1>2. nct'[l].predictionsSinceLastSync \in Int
  <2>1. nct'[l] = Mirror(c, seen)[l[2]]
    BY LinksAfter
  <2>2. nct'[l] \in ClusterTimes
    BY <2>1, LinkIsRead
  <2> QED
    BY <2>2 DEF ClusterTimes
<1>3. CASE l[2] \notin seen
  BY <1>1, <1>2, <1>3, LinksAfter
<1>4. CASE l[2] \in seen
  <2>1. /\ inbox[l] # <<>> /\ inbox'[l] = Tail(inbox[l])
        /\ nct'[l] = AfterMessage(nct[l], Head(inbox[l]))
    BY <1>4, LinksAfter, LinkIsRead
  <2>2. /\ Running(e, l[2], p, s, AfterMessage(nct[l], Head(inbox[l])), Tail(inbox[l]))
        /\ AfterMessage(nct[l], Head(inbox[l])).predictionsSinceLastSync
               >= nct[l].predictionsSinceLastSync
    BY <1>1, <2>1, ReadFirst
  <2> QED
    BY <1>2, <2>1, <2>2
<1> QED
  BY <1>3, <1>4

\* Poll, Sync and RestartAfterSync only read.
LEMMA QuietLinks ==
    ASSUME ActorTypeOK, NEW e, NEW c \in Clusters, NEW seen \in SUBSET Waiting(c),
           ProcessAndSend(c, seen, <<>>, {}), NEW l \in Links, EndOf(e, l[2]) \in Int,
           LinkAt(e, l, ct[l[1]], ct[l[2]], nct[l], inbox[l])
    PROVE  LinkAt(e, l, ct[l[1]], ct[l[2]], nct'[l], inbox'[l])
<1> DEFINE p == ct[l[2]].predictionsSinceLastSync
           s == ct[l[2]].stepsSinceLastSync
<1>1. p \in Int /\ s \in Int /\ nct[l].predictionsSinceLastSync \in Int
  BY LinkTypes
<1>2. Running(e, l[2], p, s, nct[l], inbox[l])
  BY DEF LinkAt
<1> HIDE DEF p, s
<1>3. CASE l[1] = c
  <2>1. /\ Running(e, l[2], p, s, nct'[l], inbox'[l])
        /\ nct'[l].predictionsSinceLastSync >= nct[l].predictionsSinceLastSync
        /\ nct'[l].predictionsSinceLastSync \in Int
    BY <1>1, <1>2, <1>3, ReadLink
  <2> QED
    BY <1>1, <2>1 DEF LinkAt, p, s
<1>4. CASE l[1] # c
  <2>1. nct'[l] = nct[l] /\ inbox'[l] = inbox[l]
    BY <1>4, LinksAfter
  <2> QED
    BY <2>1
<1> QED
  BY <1>3, <1>4

\* A step of c leaves the links of other clusters alone, but for what it sends.
LEMMA OtherLink ==
    ASSUME ActorTypeOK, NEW c \in Clusters, NEW seen, NEW m, NEW to,
           ProcessAndSend(c, seen, m, to), \A k \in Clusters \ {c} : ct'[k] = ct[k],
           NEW l \in Links, l[1] # c
    PROVE  /\ nct'[l] = nct[l] /\ ct'[l[1]] = ct[l[1]]
           /\ l[2] # c => ct'[l[2]] = ct[l[2]] /\ inbox'[l] = inbox[l]
           /\ l[2] = c /\ l[1] \in to => inbox'[l] = Append(inbox[l], m)
           /\ l[2] = c /\ l[1] \notin to => inbox'[l] = inbox[l]
BY LinksAfter, LinkTypes

\* The steps a cluster has predicted and corrected, as a link knows them.
LEMMA RunningSteps ==
    ASSUME NEW e, NEW n, NEW p \in Int, NEW s \in Int, NEW t \in ClusterTimes, NEW q,
           Running(e, n, p, s, t, q)
    PROVE  /\ s \in Nat /\ p \in Nat
           /\ t.stepsUntilSync = EndOf(e, n)
           /\ t.predictionsSinceLastSync \in 0..p
           /\ t.stepsSinceLastSync <= s /\ t.stepsSinceLastSync \in Nat
<1>1. t.stepsSinceLastSync \in Int /\ t.predictionsSinceLastSync \in Int
  BY DEF ClusterTimes
<1> QED
  BY <1>1 DEF Running, MirrorOf, Reported

\* What a prediction of c does to the links.
LEMMA PredictLinks ==
    ASSUME ExactArithmetic, ActorTypeOK, NEW e \in 1..Len(SyncTimes), NEW c \in Clusters,
           NEW seen \in SUBSET Waiting(c), syncTime[c] = SyncTimes[e],
           ClockAt(e, c, state[c], ct[c]), Predict(c, seen),
           NEW l \in Links, LinkAt(e, l, ct[l[1]], ct[l[2]], nct[l], inbox[l])
    PROVE  LinkAt(e, l, ct'[l[1]], ct'[l[2]], nct'[l], inbox'[l])
<1> DEFINE s == ct[c].stepsSinceLastSync
           new == [ct[c] EXCEPT !.predictionsSinceLastSync = @ + Rate[c],
                                !.predictionTime = Plus(@, TimeStepSize(c))]
           m == [kind |-> "prediction", time |-> new.predictionTime,
                 stepsSinceSync |-> new.predictionsSinceLastSync]
           to == {n \in Neighbors(c) : TellPrediction(new, Mirror(c, seen), n)}
<1>1. /\ ct[c] \in ClusterTimes /\ s \in Int /\ Rate[c] \in Nat \ {0}
      /\ \A k \in Clusters : EndOf(e, k) \in Nat \ {0}
      /\ l[1] \in Clusters /\ l[2] \in Clusters
  BY EndOfFacts, RateAssumption, LinkTypes
<1>2. ct[c].stepsUntilSync = EndOf(e, c) /\ ct[c].predictionsSinceLastSync = s /\ s < EndOf(e, c)
  BY <1>1 DEF Predict, ClockAt, MaySync
<1>3. ct' = [ct EXCEPT ![c] = new] /\ ProcessAndSend(c, seen, m, to)
  BY DEF Predict
<1>4. ct'[c] = new /\ \A k \in Clusters \ {c} : ct'[k] = ct[k]
  BY <1>3 DEF ActorTypeOK
<1>5. /\ new.predictionsSinceLastSync = s + Rate[c] /\ new.stepsSinceLastSync = s
      /\ new.stepsUntilSync = EndOf(e, c)
  BY <1>1, <1>2 DEF ClusterTimes
<1>6. m \in Message
  <2>1. new \in ClusterTimes
    BY <1>4, PredictType DEF ActorTypeOK
  <2> QED
    BY <2>1 DEF Message, ClusterTimes
<1>7. m.kind = "prediction" /\ m.stepsSinceSync = s + Rate[c] /\ m.time = new.predictionTime
  BY <1>5
<1>8. OnGrid(e, c, new.predictionTime, s + Rate[c])
  <2>1. ClockAt(e, c, state'[c], ct'[c])
    BY PredictClock
  <2> HIDE DEF new
  <2> QED
    BY <1>4, <1>5, <2>1 DEF ClockAt
<1>9. \A n \in Neighbors(c) \ to : s + Rate[c] < EndOf(e, c)
  BY <1>1, <1>5 DEF TellPrediction, JustBeforeSync
<1> HIDE DEF s, new, m, to
<1>10. CASE l[1] = c
  <2> DEFINE p2 == ct[l[2]].predictionsSinceLastSync
             s2 == ct[l[2]].stepsSinceLastSync
  <2>1. p2 \in Int /\ s2 \in Int /\ ct'[l[2]] = ct[l[2]]
    BY <1>3, <1>10, LinkTypes DEF ActorTypeOK
  <2>2. Running(e, l[2], p2, s2, nct[l], inbox[l])
    BY DEF LinkAt
  <2> HIDE DEF p2, s2
  <2>3. Running(e, l[2], p2, s2, nct'[l], inbox'[l])
    BY <1>3, <1>10, <2>1, <2>2, ReadLink
  <2>4. ~(ct'[c].stepsSinceLastSync >= EndOf(e, l[1]))
    BY <1>1, <1>2, <1>4, <1>5, <1>10
  <2> QED
    BY <1>10, <2>1, <2>3, <2>4 DEF LinkAt, p2, s2
<1>11. CASE l[2] = c
  <2>1. l[1] # c /\ l[1] \in Neighbors(c) /\ nct[l] \in ClusterTimes /\ inbox[l] \in Seq(Message)
    <3>1. <<l[2], l[1]>> \in Links
      BY LinksAssumption
    <3> QED
      BY <1>1, <1>11, <3>1, LinkTypes DEF Neighbors
  <2>2. Running(e, c, s, s, nct[l], inbox[l])
    BY <1>2, <1>11 DEF LinkAt, s
  <2>3. s \in Nat
    BY <1>1, <2>1, <2>2, RunningSteps
  <2>4. /\ Running(e, c, s + Rate[c], s, nct[l], Append(inbox[l], m))
        /\ s + Rate[c] < EndOf(e, c) => Running(e, c, s + Rate[c], s, nct[l], inbox[l])
    <3>1. EndOf(e, c) \in Int /\ s < EndOf(e, c) /\ Rate[c] \in Nat \ {0} /\ OnGrid(e, c, m.time, s + Rate[c])
      BY <1>1, <1>2, <1>7, <1>8
    <3> QED
      BY <1>6, <1>7, <2>1, <2>2, <2>3, <3>1, AfterPrediction
  <2>5. /\ nct'[l] = nct[l] /\ ct'[l[1]] = ct[l[1]]
        /\ l[1] \in to => inbox'[l] = Append(inbox[l], m)
        /\ l[1] \notin to => inbox'[l] = inbox[l]
    BY <1>3, <1>4, <1>11, <2>1, OtherLink
  <2>6. Running(e, c, s + Rate[c], s, nct'[l], inbox'[l])
    BY <1>9, <2>1, <2>4, <2>5
  <2> QED
    BY <1>4, <1>5, <1>11, <2>5, <2>6 DEF LinkAt
<1>12. CASE l[1] # c /\ l[2] # c
  <2>1. /\ nct'[l] = nct[l] /\ ct'[l[1]] = ct[l[1]]
        /\ ct'[l[2]] = ct[l[2]] /\ inbox'[l] = inbox[l]
    BY <1>3, <1>4, <1>12, OtherLink
  <2> QED
    BY <2>1
<1> QED
  BY <1>10, <1>11, <1>12

\* What a correction of c does to the links.
LEMMA CorrectLinks ==
    ASSUME ExactArithmetic, SameUnitStep, ActorTypeOK, NEW e \in 1..Len(SyncTimes),
           NEW c \in Clusters, NEW seen \in SUBSET Waiting(c), syncTime[c] = SyncTimes[e],
           ClockAt(e, c, state[c], ct[c]), Correct(c, seen),
           NEW l \in Links, LinkAt(e, l, ct[l[1]], ct[l[2]], nct[l], inbox[l])
    PROVE  LinkAt(e, l, ct'[l[1]], ct'[l[2]], nct'[l], inbox'[l])
<1> DEFINE s == ct[c].stepsSinceLastSync
           p == ct[c].predictionsSinceLastSync
           new == [ct[c] EXCEPT !.correctionTime = Plus(@, TimeStepSize(c)),
                                !.stepsSinceLastSync = @ + Rate[c],
                                !.stepsSinceStart = @ + Rate[c]]
           m == [kind |-> "correction", time |-> new.correctionTime,
                 stepsSinceSync |-> new.stepsSinceLastSync]
           to == {n \in Neighbors(c) : TellCorrection(new, Mirror(c, seen), n)}
<1>1. /\ ct[c] \in ClusterTimes /\ s \in Int /\ p \in Int /\ Rate[c] \in Nat \ {0}
      /\ \A k \in Clusters : EndOf(e, k) \in Nat \ {0}
      /\ l[1] \in Clusters /\ l[2] \in Clusters
  BY EndOfFacts, RateAssumption, LinkTypes
<1>2. ct[c].stepsUntilSync = EndOf(e, c) /\ p = s + Rate[c]
  <2>1. state[c] = "Predicted"
    BY DEF Correct
  <2> QED
    BY <2>1 DEF ClockAt
<1>3. ct' = [ct EXCEPT ![c] = new] /\ ProcessAndSend(c, seen, m, to)
  BY DEF Correct
<1>4. ct'[c] = new /\ \A k \in Clusters \ {c} : ct'[k] = ct[k]
  BY <1>3 DEF ActorTypeOK
<1>5. /\ new.predictionsSinceLastSync = p /\ new.stepsSinceLastSync = p
      /\ new.stepsUntilSync = EndOf(e, c)
  BY <1>1, <1>2 DEF ClusterTimes
<1>6. m \in Message
  <2>1. new \in ClusterTimes
    BY <1>4, CorrectType DEF ActorTypeOK
  <2> QED
    BY <2>1 DEF Message, ClusterTimes
<1>7. m.kind = "correction" /\ m.stepsSinceSync = p /\ m.time = new.correctionTime
  BY <1>5
<1>8. OnGrid(e, c, new.correctionTime, p)
  <2>1. ClockAt(e, c, state'[c], ct'[c])
    BY CorrectClock
  <2> HIDE DEF new
  <2> QED
    BY <1>4, <1>5, <2>1 DEF ClockAt
<1>9. \A n \in Neighbors(c) \ to : p < EndOf(e, c)
  BY <1>1, <1>5 DEF TellCorrection, JustBeforeSync
<1>10. \A n \in Neighbors(c) : \/ Mirror(c, seen)[n].stepsUntilSync
                                     <= Mirror(c, seen)[n].predictionsSinceLastSync
                                \/ p <= Mirror(c, seen)[n].predictionsSinceLastSync
  <2>1. DOMAIN Mirror(c, seen) = Neighbors(c)
    BY DEF Mirror
  <2> QED
    BY <2>1 DEF Correct, MayCorrect
<1> HIDE DEF s, p, new, m, to
<1>11. CASE l[1] = c
  <2> DEFINE p2 == ct[l[2]].predictionsSinceLastSync
             s2 == ct[l[2]].stepsSinceLastSync
  <2>1. p2 \in Int /\ s2 \in Int /\ ct'[l[2]] = ct[l[2]]
    BY <1>3, <1>11, LinkTypes DEF ActorTypeOK
  <2>2. Running(e, l[2], p2, s2, nct[l], inbox[l])
    BY DEF LinkAt
  <2> HIDE DEF p2, s2
  <2>3. Running(e, l[2], p2, s2, nct'[l], inbox'[l])
    BY <1>3, <1>11, <2>1, <2>2, ReadLink
  <2>4. nct'[l].stepsUntilSync = EndOf(e, l[2])
    BY <2>3 DEF Running, MirrorOf
  <2>5. nct'[l] = Mirror(c, seen)[l[2]] /\ l[2] \in Neighbors(c) /\ nct'[l] \in ClusterTimes
    BY <1>1, <1>3, <1>11, LinksAfter, LinkIsRead, LinkPair
  <2>6. \/ EndOf(e, l[2]) <= nct'[l].predictionsSinceLastSync
        \/ p <= nct'[l].predictionsSinceLastSync
    BY <1>10, <2>4, <2>5
  <2>7. EndOf(e, l[2]) = EndOf(e, c) /\ nct'[l].predictionsSinceLastSync \in Int
    BY <1>1, <2>5, SameEnd DEF ClusterTimes
  <2>8. p >= EndOf(e, c) => nct'[l].predictionsSinceLastSync >= EndOf(e, l[2])
    BY <1>1, <2>6, <2>7
  <2> QED
    BY <1>4, <1>5, <1>11, <2>1, <2>3, <2>8 DEF LinkAt, p2, s2
<1>12. CASE l[2] = c
  <2>1. l[1] # c /\ l[1] \in Neighbors(c) /\ nct[l] \in ClusterTimes /\ inbox[l] \in Seq(Message)
    <3>1. <<l[2], l[1]>> \in Links
      BY LinksAssumption
    <3> QED
      BY <1>1, <1>12, <3>1, LinkTypes DEF Neighbors
  <2>2. Running(e, c, p, s, nct[l], inbox[l])
    BY <1>12 DEF LinkAt, s, p
  <2>3. s \in Nat /\ p \in Nat /\ s < p
    <3>1. s \in Nat /\ p \in Nat
      BY <1>1, <2>1, <2>2, RunningSteps
    <3> QED
      BY <1>1, <1>2, <3>1
  <2>4. /\ Running(e, c, p, p, nct[l], Append(inbox[l], m))
        /\ p < EndOf(e, c) => Running(e, c, p, p, nct[l], inbox[l])
    BY <1>1, <1>6, <1>7, <1>8, <2>1, <2>2, <2>3, AfterCorrection
  <2>5. /\ nct'[l] = nct[l] /\ ct'[l[1]] = ct[l[1]]
        /\ l[1] \in to => inbox'[l] = Append(inbox[l], m)
        /\ l[1] \notin to => inbox'[l] = inbox[l]
    BY <1>3, <1>4, <1>12, <2>1, OtherLink
  <2>6. Running(e, c, p, p, nct'[l], inbox'[l])
    BY <1>9, <2>1, <2>4, <2>5
  <2> QED
    BY <1>4, <1>5, <1>12, <2>5, <2>6 DEF LinkAt
<1>13. CASE l[1] # c /\ l[2] # c
  <2>1. /\ nct'[l] = nct[l] /\ ct'[l[1]] = ct[l[1]]
        /\ ct'[l[2]] = ct[l[2]] /\ inbox'[l] = inbox[l]
    BY <1>3, <1>4, <1>13, OtherLink
  <2> QED
    BY <2>1
<1> QED
  BY <1>11, <1>12, <1>13

\* Resetting c reads its links to the end.
LEMMA ResetLink ==
    ASSUME ActorTypeOK, NEW e, NEW c \in Clusters, StandsAt(ct[c], PhaseStart(e)),
           SetSyncTimeAndReset(c, SyncTimes[e], Waiting(c)),
           NEW l \in Links, l[1] = c, Settled(nct[l], inbox[l], PhaseStart(e))
    PROVE  Fresh(e, l[2], nct'[l], inbox'[l])
<1> DEFINE T == PhaseStart(e)
           u == IF inbox[l] # <<>> THEN AfterMessage(nct[l], Head(inbox[l])) ELSE nct[l]
<1>1. nct[l] \in ClusterTimes /\ inbox[l] \in Seq(Message)
  BY LinkTypes
<1>2. ct[c].correctionTime = T
  BY DEF StandsAt
<1>3. u \in ClusterTimes /\ u.predictionTime = T /\ u.correctionTime = T
      /\ (IF inbox[l] # <<>> THEN Tail(inbox[l]) ELSE inbox[l]) = <<>>
  BY <1>1, SettledReads
<1>4. l = <<l[1], l[2]>> /\ l[2] \in Neighbors(c)
  BY LinkPair
<1>5. l[2] \in Waiting(c) <=> inbox[l] # <<>>
  BY <1>4 DEF Waiting
<1>6. Mirror(c, Waiting(c))[l[2]] = u
  BY <1>4, <1>5 DEF Mirror
<1>7. /\ nct'[l] = Cleared(Mirror(c, Waiting(c))[l[2]],
                           StepsUntil(l[2], ct[c].correctionTime, SyncTimes[e]))
      /\ inbox'[l] = IF l[2] \in Waiting(c) THEN Tail(inbox[l]) ELSE inbox[l]
  BY DEF SetSyncTimeAndReset
<1>8. nct'[l] = Cleared(u, EndOf(e, l[2])) /\ inbox'[l] = <<>>
  BY <1>2, <1>3, <1>5, <1>6, <1>7 DEF EndOf
<1> HIDE DEF u, T
<1>9. /\ nct'[l].predictionsSinceLastSync = 0 /\ nct'[l].stepsSinceLastSync = 0
      /\ nct'[l].stepsUntilSync = EndOf(e, l[2])
      /\ nct'[l].predictionTime = T /\ nct'[l].correctionTime = T
  BY <1>3, <1>8 DEF Cleared, ClusterTimes
<1> QED
  BY <1>8, <1>9 DEF Fresh, T

\* A cluster that predicts by what it believes may do so by what is true.
LEMMA PredictIsAllowed ==
    ASSUME ActorTypeOK, NEW e, NEW c \in Clusters, NEW seen \in SUBSET Waiting(c),
           Predict(c, seen), NEW n \in Clusters, <<c, n>> \in Links,
           LinkAt(e, <<c, n>>, ct[c], ct[n], nct[<<c, n>>], inbox[<<c, n>>])
    PROVE  ct[c].predictionsSinceLastSync < ct[n].stepsSinceLastSync + Rate[n]
<1> DEFINE M == Mirror(c, seen)
           s == ct[n].stepsSinceLastSync
<1>1. PICK m, to : ProcessAndSend(c, seen, m, to)
  BY Zenon DEF Predict
<1> DEFINE l == <<c, n>>
<1>2. l \in Links /\ l[1] = c /\ l[2] = n
  OBVIOUS
<1>3. /\ ct[n].predictionsSinceLastSync \in Int /\ s \in Int /\ Rate[n] \in Int
      /\ ct[c].predictionsSinceLastSync \in Int
  BY LinkTypes, RateAssumption
<1>4. Running(e, n, ct[n].predictionsSinceLastSync, s, nct'[l], inbox'[l])
  BY <1>1, <1>2, <1>3, ReadLink DEF LinkAt
<1>5. nct'[l] = M[n] /\ n \in Neighbors(c) /\ nct'[l] \in ClusterTimes
  BY <1>1, <1>2, LinksAfter, LinkIsRead, LinkPair
<1>6. DOMAIN M = Neighbors(c)
  BY DEF Mirror
<1>7. ct[c].predictionsSinceLastSync < NextCorrectionSteps(Rate[n], nct'[l])
  BY <1>5, <1>6 DEF Predict, MayPredict
<1>8. nct'[l].stepsSinceLastSync <= s
  BY <1>4 DEF Running, MirrorOf
<1>9. nct'[l].stepsSinceLastSync \in Int /\ nct'[l].stepsUntilSync \in Int
  BY <1>5 DEF ClusterTimes
<1> HIDE DEF s, M
<1>10. ct[c].predictionsSinceLastSync < nct'[l].stepsSinceLastSync + Rate[n]
  BY <1>3, <1>7, <1>9 DEF NextCorrectionSteps, Smaller
<1>11. ct[c].predictionsSinceLastSync < s + Rate[n]
  BY <1>3, <1>8, <1>9, <1>10
<1> QED
  BY <1>11 DEF s

\* A cluster that corrects by what it believes may do so by what is true.
LEMMA CorrectIsAllowed ==
    ASSUME ActorTypeOK, NEW e, NEW c \in Clusters, NEW seen \in SUBSET Waiting(c),
           Correct(c, seen), NEW n \in Clusters, <<c, n>> \in Links,
           LinkAt(e, <<c, n>>, ct[c], ct[n], nct[<<c, n>>], inbox[<<c, n>>])
    PROVE  \/ ct[n].predictionsSinceLastSync >= EndOf(e, n)
           \/ ct[c].predictionsSinceLastSync <= ct[n].predictionsSinceLastSync
<1> DEFINE M == Mirror(c, seen)
           p == ct[n].predictionsSinceLastSync
<1>1. PICK m, to : ProcessAndSend(c, seen, m, to)
  BY Zenon DEF Correct
<1> DEFINE l == <<c, n>>
<1>2. l \in Links /\ l[1] = c /\ l[2] = n
  OBVIOUS
<1>3. /\ p \in Int /\ ct[n].stepsSinceLastSync \in Int
      /\ ct[c].predictionsSinceLastSync \in Int
  BY LinkTypes
<1>4. Running(e, n, p, ct[n].stepsSinceLastSync, nct'[l], inbox'[l])
  BY <1>1, <1>2, <1>3, ReadLink DEF LinkAt
<1>5. nct'[l] = M[n] /\ n \in Neighbors(c) /\ nct'[l] \in ClusterTimes
  BY <1>1, <1>2, LinksAfter, LinkIsRead, LinkPair
<1>6. DOMAIN M = Neighbors(c)
  BY DEF Mirror
<1>7. \/ nct'[l].stepsUntilSync <= nct'[l].predictionsSinceLastSync
      \/ ct[c].predictionsSinceLastSync <= nct'[l].predictionsSinceLastSync
  BY <1>5, <1>6 DEF Correct, MayCorrect
<1>8. nct'[l].predictionsSinceLastSync <= p /\ nct'[l].stepsUntilSync = EndOf(e, n)
  BY <1>4 DEF Running, MirrorOf, Reported
<1>9. nct'[l].predictionsSinceLastSync \in Int /\ nct'[l].stepsUntilSync \in Int
  BY <1>5 DEF ClusterTimes
<1> HIDE DEF p, M
<1>10. p >= EndOf(e, n) \/ ct[c].predictionsSinceLastSync <= p
  BY <1>3, <1>7, <1>8, <1>9
<1> QED
  BY <1>10 DEF p

=============================================================================
