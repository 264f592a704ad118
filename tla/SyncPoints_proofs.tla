------------------------- MODULE SyncPoints_proofs -------------------------
(***************************************************************************)
(* The loop of the Simulator and the modules, for any modules, intervals,   *)
(* final time and number of crashes: types, that no output is made off its  *)
(* schedule, that the loop always advances, and that no point of time is    *)
(* passed over.                                                            *)
(***************************************************************************)
EXTENDS SyncPoints, TLAPS, NaturalsInduction, WellFoundedInduction

\* The library's relation, named so that the provers need not look into it.
Before == OpToRel(<, Nat)

\* The order of the natural numbers, as a relation.
LEMMA BeforeIsWellFounded == IsWellFoundedOn(Before, Nat)
BY NatLessThanWellFounded DEF Before

\* What the relation says.
LEMMA BeforeIsLess == \A x, y \in Nat : <<x, y>> \in Before <=> x < y
BY DEF Before, OpToRel

\* A non-empty set of times has a first one.
LEMMA FirstExists ==
    ASSUME NEW T, T \subseteq Nat, T # {}
    PROVE  \E x \in T : \A y \in T : x <= y
<1>1. PICK x \in T : \A y \in T : ~(<<y, x>> \in Before)
  BY BeforeIsWellFounded, WFMin, Zenon
<1>2. x \in Nat /\ \A y \in T : y \in Nat /\ ~(y < x)
  BY <1>1, BeforeIsLess
<1>3. \A y \in T : x <= y
  BY <1>2
<1> QED
  BY <1>3

\* Quotient and remainder.
LEMMA DivisionFacts ==
    ASSUME NEW a \in Int, NEW b \in Nat \ {0}
    PROVE  a \div b \in Int /\ a % b \in 0..(b - 1) /\ a = b * (a \div b) + (a % b)
<1>1. a \div b \in Int
  OBVIOUS
<1>2. a % b \in 0..(b - 1)
  OBVIOUS
<1>3. a = b * (a \div b) + (a % b)
  OBVIOUS
<1> QED
  BY <1>1, <1>2, <1>3

\* The first multiple of an interval from a time on.
LEMMA FirstMultiple ==
    ASSUME NEW i \in Nat \ {0}, NEW x \in Nat \ {0}
    PROVE  /\ (x + i - 1) \div i \in Nat \ {0}
           /\ i * ((x + i - 1) \div i) >= x
           /\ i * ((x + i - 1) \div i) \in Nat
<1> DEFINE q == (x + i - 1) \div i
           r == (x + i - 1) % i
<1>1. q \in Int /\ r \in 0..(i - 1) /\ x + i - 1 = i * q + r
  OBVIOUS
<1> HIDE DEF q, r
<1>2. i * q >= x
  BY <1>1
<1>3. q > 0
  <2>1. SUFFICES ASSUME q <= 0 PROVE FALSE
    BY <1>1
  <2>2. i * (-q) >= 0
    BY <1>1, <2>1
  <2>3. i * (-q) = -(i * q)
    BY <1>1
  <2> QED BY <1>1, <1>2, <2>2, <2>3
<1> QED
  BY <1>1, <1>2, <1>3 DEF q

\* A multiple up to a time is one of the due times.
LEMMA MultipleIsDue ==
    ASSUME NEW i \in Nat \ {0}, NEW k \in Nat \ {0}, NEW t \in Int, k * i <= t
    PROVE  k \in 1..(t \div i)
<1> DEFINE q == t \div i
           r == t % i
<1>1. q \in Int /\ r \in 0..(i - 1) /\ t = i * q + r
  OBVIOUS
<1> HIDE DEF q, r
<1>2. k <= q
  <2>1. SUFFICES ASSUME k >= q + 1 PROVE FALSE
    BY <1>1
  <2>2. i * (k - (q + 1)) >= 0
    BY <1>1, <2>1
  <2>3. i * (k - (q + 1)) = k * i - i * q - i
    BY <1>1
  <2> QED BY <1>1, <2>2, <2>3
<1> QED
  BY <1>1, <1>2 DEF q

----------------------------------------------------------------------------
(* Types *)

USE SyncPointsAssumption

\* The module called either starts an output or is left alone.
LEMMA HookOutcome ==
    ASSUME NEW m \in Outputs, NEW force \in BOOLEAN, PotentialSyncPoint(m, force)
    PROVE  \/ /\ ~Duplicate(m) /\ (force \/ Due(m))
              /\ SyncPoint(m)
              /\ lastSyncPoint' = [lastSyncPoint EXCEPT ![m] = currentTime]
              /\ nextSyncPoint' = [nextSyncPoint EXCEPT ![m] = @ + Interval[m]]
           \/ /\ Duplicate(m) \/ ~(force \/ Due(m))
              /\ UNCHANGED <<nextSyncPoint, lastSyncPoint, served, files, pending>>
BY DEF PotentialSyncPoint, Following, moduleVars, diskVars

\* The outputs of a module after its writer thread has finished.
LEMMA FinishedType ==
    ASSUME SyncPointsTypeOK, NEW m \in Outputs
    PROVE  Finished(m) \subseteq files[m] \cup ({pending[m]} \ {Never})
BY DEF SyncPointsTypeOK, Finished, Truncated

\* The first synchronization point after a start.
LEMMA FirstSyncPointType ==
    ASSUME NEW m \in Outputs, NEW t \in Nat
    PROVE  /\ FirstSyncPoint(m, t) \in Nat
           /\ FirstSyncPoint(m, t) >= t + StartTolerance
           /\ \E k \in Nat \ {0} : FirstSyncPoint(m, t) = k * Interval[m]
           /\ \A k \in Nat \ {0} :
                  k * Interval[m] < FirstSyncPoint(m, t) => k * Interval[m] < t + StartTolerance
<1> DEFINE i == Interval[m]
           x == t + StartTolerance
           q == (x + i - 1) \div i
<1>1. i \in Nat \ {0} /\ x \in Nat \ {0}
  OBVIOUS
<1>2. FirstSyncPoint(m, t) = i * q
  BY DEF FirstSyncPoint
<1> HIDE DEF i, x
<1>3. q \in Nat \ {0} /\ i * q >= x /\ i * q \in Nat
  BY <1>1, FirstMultiple
<1>4. i * q = q * i /\ i * q <= x + i - 1
  <2>1. x + i - 1 \in Int
    BY <1>1
  <2>2. /\ q \in Int /\ (x + i - 1) % i \in 0..(i - 1)
        /\ x + i - 1 = i * q + ((x + i - 1) % i)
    BY <1>1, <2>1, DivisionFacts
  <2> HIDE DEF q
  <2> QED BY <1>1, <2>2
<1> HIDE DEF q
<1>5. ASSUME NEW k \in Nat \ {0}, k * i < i * q PROVE k * i < x
  <2>1. k <= q - 1
    <3>1. SUFFICES ASSUME k >= q PROVE FALSE
      BY <1>3
    <3>2. i * (k - q) >= 0
      BY <1>1, <1>3, <3>1
    <3>3. i * (k - q) = k * i - i * q
      BY <1>1, <1>3
    <3> QED BY <1>1, <1>3, <1>5, <3>2, <3>3
  <2>2. i * (q - 1 - k) >= 0
    BY <1>1, <1>3, <2>1
  <2>3. i * (q - 1 - k) = i * q - i - k * i
    BY <1>1, <1>3
  <2> QED BY <1>1, <1>3, <1>4, <2>2, <2>3
<1>6. \A k \in Nat \ {0} : k * i < FirstSyncPoint(m, t) => k * i < x
  BY <1>2, <1>5
<1>7. FirstSyncPoint(m, t) \in Nat /\ FirstSyncPoint(m, t) >= x /\ FirstSyncPoint(m, t) = q * i
  BY <1>2, <1>3, <1>4
<1>8. \E k \in Nat \ {0} : FirstSyncPoint(m, t) = k * i
  BY <1>3, <1>7
<1> QED
  BY <1>6, <1>7, <1>8 DEF i, x

\* A start sets the modules to points of time, of which the first is the next.
LEMMA StartFacts ==
    ASSUME NEW t \in Nat, Start(t)
    PROVE  /\ nextSyncPoint' \in [Outputs -> Nat]
           /\ \A m \in StartHook : nextSyncPoint'[m] = FirstSyncPoint(m, t)
           /\ \E m \in Outputs : upcomingTime' = Smaller(FinalTime, nextSyncPoint'[m])
           /\ \A m \in Outputs : upcomingTime' <= nextSyncPoint'[m]
           /\ upcomingTime' <= FinalTime
<1> DEFINE next(m) == IF m \in Started THEN FirstSyncPoint(m, t) ELSE 0
           times == {next(m) : m \in Outputs}
           earliest == CHOOSE n \in times : \A m \in Outputs : n <= next(m)
<1>1. \A m \in Outputs : next(m) \in Nat
  BY FirstSyncPointType
<1>2. times \subseteq Nat /\ times # {}
  BY <1>1
<1>3. \E n \in times : \A m \in Outputs : n <= next(m)
  <2> HIDE DEF next
  <2>1. \A m \in Outputs : next(m) \in times
    OBVIOUS
  <2> HIDE DEF times
  <2>2. PICK n \in times : \A k \in times : n <= k
    BY <1>2, FirstExists
  <2> QED BY <2>1, <2>2
<1>4. earliest \in times /\ \A m \in Outputs : earliest <= next(m)
  <2> HIDE DEF next
  <2> QED BY <1>3
<1>5. nextSyncPoint' = [m \in Outputs |-> next(m)] /\ upcomingTime' = Smaller(FinalTime, earliest)
  BY DEF Start
<1> HIDE DEF next
<1>6. PICK m \in Outputs : earliest = next(m)
  BY <1>4
<1>7. nextSyncPoint' \in [Outputs -> Nat] /\ \A n \in Outputs : nextSyncPoint'[n] = next(n)
  BY <1>1, <1>5
<1>8. upcomingTime' = Smaller(FinalTime, nextSyncPoint'[m])
  BY <1>5, <1>6, <1>7
<1>9. upcomingTime' <= FinalTime /\ \A n \in Outputs : upcomingTime' <= nextSyncPoint'[n]
  BY <1>1, <1>4, <1>5, <1>6, <1>7 DEF Smaller
<1>10. \A n \in StartHook : nextSyncPoint'[n] = FirstSyncPoint(n, t)
  BY <1>7 DEF next, Started
<1> QED
  BY <1>7, <1>8, <1>9, <1>10

\* One module of a synchronization point keeps the types.
LEMMA CallSyncHookType ==
    ASSUME SyncPointsTypeOK, NEW m \in Outputs, NEW force \in BOOLEAN,
           NEW after \in {"loop", "end"}, CallSyncHook(m, force, after)
    PROVE  SyncPointsTypeOK'
<1> USE DEF SyncPointsTypeOK
<1>1. PotentialSyncPoint(m, force)
  BY DEF CallSyncHook
<1>2. /\ nextSyncPoint' \in [Outputs -> Nat]
      /\ lastSyncPoint' \in [Outputs -> Nat \cup {Never}]
      /\ served' \in [Outputs -> SUBSET (0..FinalTime)]
      /\ files' \in [Outputs -> SUBSET (0..FinalTime)]
      /\ pending' \in [Outputs -> (0..FinalTime) \cup {Never}]
  <2>1. Finished(m) \subseteq 0..FinalTime
    BY FinishedType
  <2>2. CASE SyncPoint(m) /\ lastSyncPoint' = [lastSyncPoint EXCEPT ![m] = currentTime]
                          /\ nextSyncPoint' = [nextSyncPoint EXCEPT ![m] = @ + Interval[m]]
    BY <2>1, <2>2 DEF SyncPoint
  <2>3. CASE UNCHANGED <<nextSyncPoint, lastSyncPoint, served, files, pending>>
    BY <2>3
  <2> QED BY <1>1, <2>2, <2>3, HookOutcome
<1>3. upcomingTime' \in 0..FinalTime
  BY <1>2 DEF CallSyncHook, Smaller
<1> QED
  BY <1>2, <1>3 DEF CallSyncHook, runVars

\* Every step keeps the types.
LEMMA SyncPointsTypeStep ==
    ASSUME SyncPointsTypeOK, [Next]_vars
    PROVE  SyncPointsTypeOK'
<1> USE DEF SyncPointsTypeOK, Never
<1>1. ASSUME NEW t \in Checkpoints \cup {0}, Start(t) PROVE SyncPointsTypeOK'
  <2>1. t \in 0..FinalTime
    BY DEF Checkpoints
  <2>2. upcomingTime' \in 0..FinalTime
    <3>1. PICK m \in Outputs : upcomingTime' = Smaller(FinalTime, nextSyncPoint'[m])
      BY <1>1, <2>1, StartFacts
    <3>2. nextSyncPoint'[m] \in Nat
      BY <1>1, <2>1, StartFacts
    <3> QED BY <3>1, <3>2 DEF Smaller
  <2>3. nextSyncPoint' \in [Outputs -> Nat]
    BY <1>1, <2>1, StartFacts
  <2>4. 0 \in 0..FinalTime
    OBVIOUS
  <2>5. served' \in [Outputs -> SUBSET (0..FinalTime)]
    BY <1>1, <2>4 DEF Start
  <2>6. files' \in [Outputs -> SUBSET (0..FinalTime)]
    BY <1>1 DEF Start
  <2>7. pending' \in [Outputs -> (0..FinalTime) \cup {Never}]
    BY <1>1, <2>4 DEF Start
  <2>8. resumedAt' \subseteq 0..FinalTime
    BY <1>1, <2>1 DEF Start
  <2>9. lastSyncPoint' \in [Outputs -> Nat \cup {Never}]
    BY <1>1, <2>1 DEF Start
  <2>10. phase' = "loop" /\ currentTime' = t /\ aborted' = FALSE /\ todo' = {} /\ restarts' = restarts
    BY <1>1 DEF Start
  <2> QED BY <2>1, <2>2, <2>3, <2>5, <2>6, <2>7, <2>8, <2>9, <2>10
<1>2. CASE AdvanceInTime
  BY <1>2 DEF AdvanceInTime, moduleVars, diskVars, runVars
<1>3. CASE Leave
  BY <1>3 DEF Leave, moduleVars, diskVars, runVars
<1>4. ASSUME NEW m \in Outputs, Hook(m) \/ FinalHook(m) PROVE SyncPointsTypeOK'
  BY <1>4, CallSyncHookType DEF Hook, FinalHook
<1>5. ASSUME NEW m \in Outputs, WriteDone(m) PROVE SyncPointsTypeOK'
  <2>1. Finished(m) \subseteq 0..FinalTime
    BY FinishedType
  <2> QED BY <1>5, <2>1 DEF WriteDone, moduleVars, runVars
<1>6. CASE End
  <2>1. \A m \in Outputs : Finished(m) \subseteq 0..FinalTime
    BY FinishedType
  <2> QED BY <1>6, <2>1 DEF End, moduleVars, runVars
<1>7. CASE Crash
  <2>1. files' \in [Outputs -> SUBSET (0..FinalTime)]
    BY <1>7 DEF Crash, Truncated
  <2> QED BY <1>7, <2>1 DEF Crash, moduleVars
<1>8. CASE Over \/ UNCHANGED vars
  BY <1>8 DEF Over, vars, moduleVars, diskVars, runVars
<1> QED
  BY <1>1, <1>2, <1>3, <1>4, <1>5, <1>6, <1>7, <1>8 DEF Next, Run, Restart

\* The types hold before the first run.
LEMMA SyncPointsTypeInit == Init => SyncPointsTypeOK
<1> SUFFICES ASSUME Init PROVE SyncPointsTypeOK
  OBVIOUS
<1>1. FinalTime \in Nat /\ MaxRestarts \in Nat
  OBVIOUS
<1>2. 0 \in 0..FinalTime /\ 0 \in 0..MaxRestarts
  BY <1>1
<1>3. served \in [Outputs -> SUBSET (0..FinalTime)] /\ files \in [Outputs -> SUBSET (0..FinalTime)]
  BY Zenon DEF Init
<1>4. nextSyncPoint \in [Outputs -> Nat] /\ lastSyncPoint \in [Outputs -> Nat \cup {Never}]
      /\ pending \in [Outputs -> (0..FinalTime) \cup {Never}]
  BY DEF Init
<1> QED
  BY <1>2, <1>3, <1>4 DEF Init, SyncPointsTypeOK

\* Times stay between 0 and the final time, also after a restart, and each
\* module's points of time are natural numbers (Module.cpp, Simulator.cpp).
THEOREM SyncPointsTypesHold == Spec => []SyncPointsTypeOK
<1>1. SyncPointsTypeOK /\ [Next]_vars => SyncPointsTypeOK'
  BY SyncPointsTypeStep
<1> QED
  BY <1>1, SyncPointsTypeInit, PTL DEF Spec

----------------------------------------------------------------------------
(* No output is off its schedule *)

\* What has been written was written at some time before now, and the points of
\* time of a running module are multiples of its interval.
PastInv ==
    /\ \A m \in Outputs : pending[m] <= currentTime /\ \A f \in files[m] : f <= currentTime
    /\ phase # "down" =>
           \A m \in StartHook : \E k \in Nat \ {0} : nextSyncPoint[m] = k * Interval[m]

\* The outputs a finished writer thread leaves are of the past.
LEMMA FinishedPast ==
    ASSUME SyncPointsTypeOK, PastInv, NEW m \in Outputs
    PROVE  \A f \in Finished(m) : f <= currentTime
BY FinishedType DEF PastInv

\* The next multiple of an interval.
LEMMA NextMultiple ==
    ASSUME NEW i \in Nat \ {0}, NEW k \in Nat \ {0}
    PROVE  k + 1 \in Nat \ {0} /\ k * i + i = (k + 1) * i
OBVIOUS

\* The call of a module keeps them: it writes now, and its next point is one
\* interval later.
LEMMA HookPast ==
    ASSUME SyncPointsTypeOK, PastInv, NEW m \in Outputs, NEW force \in BOOLEAN,
           NEW after \in {"loop", "end"}, CallSyncHook(m, force, after), phase # "down"
    PROVE  PastInv'
<1>1. PotentialSyncPoint(m, force) /\ currentTime' = currentTime
  BY DEF CallSyncHook
<1>2. CASE UNCHANGED <<nextSyncPoint, lastSyncPoint, served, files, pending>>
  BY <1>1, <1>2 DEF PastInv
<1>3. CASE SyncPoint(m) /\ nextSyncPoint' = [nextSyncPoint EXCEPT ![m] = @ + Interval[m]]
  <2>1. ASSUME NEW n \in Outputs
        PROVE  pending'[n] <= currentTime /\ \A f \in files'[n] : f <= currentTime
    <3>1. CASE n = m
      <4>1. files'[m] = Finished(m) /\ pending'[m] = currentTime
        BY <1>3 DEF SyncPoint, SyncPointsTypeOK
      <4> QED BY <3>1, <4>1, FinishedPast DEF SyncPointsTypeOK
    <3>2. CASE n # m
      BY <1>3, <3>2 DEF SyncPoint, SyncPointsTypeOK, PastInv
    <3> QED BY <3>1, <3>2
  <2>2. ASSUME NEW n \in StartHook
        PROVE  \E k \in Nat \ {0} : nextSyncPoint'[n] = k * Interval[n]
    <3>1. PICK k \in Nat \ {0} : nextSyncPoint[n] = k * Interval[n]
      BY DEF PastInv
    <3>2. n \in Outputs /\ Interval[n] \in Nat \ {0}
      OBVIOUS
    <3>3. CASE n = m
      <4>1. nextSyncPoint'[n] = k * Interval[n] + Interval[n]
        BY <1>3, <3>1, <3>3 DEF SyncPointsTypeOK
      <4>2. k + 1 \in Nat \ {0} /\ k * Interval[n] + Interval[n] = (k + 1) * Interval[n]
        BY <3>2, NextMultiple
      <4> QED BY <4>1, <4>2
    <3>4. CASE n # m
      BY <1>3, <3>1, <3>2, <3>4 DEF SyncPointsTypeOK
    <3> QED BY <3>3, <3>4
  <2> QED BY <1>1, <2>1, <2>2 DEF PastInv
<1> QED
  BY <1>1, <1>2, <1>3, HookOutcome

\* A start forgets what lies after it.
LEMMA StartPast ==
    ASSUME SyncPointsTypeOK, NEW t \in Nat, Start(t)
    PROVE  PastInv'
<1>1. ASSUME NEW m \in Outputs
      PROVE  pending'[m] <= t /\ \A f \in files'[m] : f <= t
  BY DEF Start, Never
<1>2. ASSUME NEW m \in StartHook
      PROVE  \E k \in Nat \ {0} : nextSyncPoint'[m] = k * Interval[m]
  BY StartFacts, FirstSyncPointType
<1> QED
  BY <1>1, <1>2 DEF PastInv, Start

\* Every step keeps the past.
LEMMA PastStep ==
    ASSUME SyncPointsTypeOK, PastInv, [Next]_vars
    PROVE  PastInv'
<1> USE DEF SyncPointsTypeOK
<1>1. ASSUME NEW t \in Checkpoints \cup {0}, Start(t) PROVE PastInv'
  BY <1>1, StartPast DEF Checkpoints
<1>2. CASE AdvanceInTime
  <2>1. currentTime <= upcomingTime
    BY <1>2 DEF AdvanceInTime, Advances
  <2>2. ASSUME NEW m \in Outputs
        PROVE  pending[m] <= upcomingTime /\ \A f \in files[m] : f <= upcomingTime
    BY <2>1 DEF PastInv, Never
  <2> QED BY <1>2, <2>2 DEF AdvanceInTime, PastInv, moduleVars, diskVars
<1>3. CASE Leave
  BY <1>3 DEF Leave, PastInv, moduleVars, diskVars
<1>4. ASSUME NEW m \in Outputs, Hook(m) \/ FinalHook(m) PROVE PastInv'
  BY <1>4, HookPast DEF Hook, FinalHook
<1>5. ASSUME NEW m \in Outputs, WriteDone(m) PROVE PastInv'
  <2>1. \A f \in Finished(m) : f <= currentTime
    BY FinishedPast
  <2> QED BY <1>5, <2>1 DEF WriteDone, PastInv, moduleVars, Never
<1>6. CASE End
  <2>1. \A m \in Outputs : \A f \in Finished(m) : f <= currentTime
    BY FinishedPast
  <2> QED BY <1>6, <2>1 DEF End, PastInv, moduleVars, Never
<1>7. CASE Crash
  <2>1. \A m \in Outputs : files'[m] \subseteq files[m] /\ pending'[m] = Never
    BY <1>7 DEF Crash, Truncated
  <2> QED BY <1>7, <2>1 DEF Crash, PastInv, Never
<1>8. CASE Over \/ UNCHANGED vars
  BY <1>8 DEF Over, vars, PastInv, moduleVars, diskVars
<1> QED
  BY <1>1, <1>2, <1>3, <1>4, <1>5, <1>6, <1>7, <1>8 DEF Next, Run, Restart

\* An output at a multiple of the interval of its module.
NearMultiple(m, w) ==
    \E d \in DueTimes(m, w + TimeTolerance) \cup {0} : Within(w, d, TimeTolerance)

\* A module that is due stands near a multiple of its interval.
LEMMA DueIsNearMultiple ==
    ASSUME SyncPointsTypeOK, PastInv, NEW m \in StartHook, phase # "down", Due(m)
    PROVE  NearMultiple(m, currentTime)
<1>1. PICK k \in Nat \ {0} : nextSyncPoint[m] = k * Interval[m]
  BY DEF PastInv
<1>2. /\ nextSyncPoint[m] \in Nat /\ currentTime \in Nat
      /\ nextSyncPoint[m] - currentTime < TimeTolerance
      /\ currentTime - nextSyncPoint[m] < TimeTolerance
  BY DEF Due, Within, SyncPointsTypeOK
<1>3. k \in 1..((currentTime + TimeTolerance) \div Interval[m])
  <2>1. Interval[m] \in Nat \ {0} /\ currentTime + TimeTolerance \in Int
    BY <1>2
  <2>2. k * Interval[m] <= currentTime + TimeTolerance
    BY <1>1, <1>2
  <2> QED BY <2>1, <2>2, MultipleIsDue
<1>4. nextSyncPoint[m] \in DueTimes(m, currentTime + TimeTolerance)
  BY <1>1, <1>3 DEF DueTimes
<1>5. Within(currentTime, nextSyncPoint[m], TimeTolerance)
  BY <1>2 DEF Within, Never
<1> QED
  BY <1>4, <1>5 DEF NearMultiple

\* The start of a run, with its initial output and what is left of earlier ones.
LEMMA StartOnSchedule ==
    ASSUME SyncPointsTypeOK, OutputsOnSchedule, NEW t \in 0..currentTime, Start(t)
    PROVE  OutputsOnSchedule'
<1> SUFFICES ASSUME NEW m \in StartHook, NEW w \in served'[m]
             PROVE  NearMultiple(m, w) \/ w \in resumedAt'
  BY DEF OutputsOnSchedule, NearMultiple
<1>1. \/ w \in served[m] /\ w <= t
      \/ w = 0
  BY DEF Start
<1>2. CASE w = 0
  <2>1. TimeTolerance \in Nat \ {0}
    OBVIOUS
  <2>2. Within(0, 0, TimeTolerance)
    BY <2>1 DEF Within, Never
  <2> QED BY <1>2, <2>2 DEF NearMultiple
<1>3. CASE w \in served[m] /\ w <= t
  <2>1. w \in 0..FinalTime /\ currentTime \in Nat
    BY <1>3 DEF SyncPointsTypeOK
  <2>2. NearMultiple(m, w) \/ w = currentTime \/ w \in resumedAt
    BY <1>3 DEF OutputsOnSchedule, NearMultiple
  <2>3. w = currentTime => w = t
    BY <1>3, <2>1
  <2>4. t \in resumedAt' /\ (w \in resumedAt => w \in resumedAt')
    BY <1>3 DEF Start
  <2> QED BY <2>2, <2>3, <2>4
<1> QED
  BY <1>1, <1>2, <1>3

\* A synchronization point, or the forced one at the end of a run.
LEMMA HookOnSchedule ==
    ASSUME SyncPointsTypeOK, PastInv, OutputsOnSchedule, NEW m \in Outputs,
           Hook(m) \/ FinalHook(m)
    PROVE  OutputsOnSchedule'
<1> USE DEF Hook, FinalHook, CallSyncHook
<1>1. \/ served' = served
      \/ /\ served' = [served EXCEPT ![m] = @ \cup {currentTime}]
         /\ Due(m) \/ phase = "final"
  BY HookOutcome DEF SyncPoint
<1>2. /\ currentTime' = currentTime /\ resumedAt' = resumedAt /\ phase # "down"
      /\ phase = "hooks" => phase' \in {"hooks", "loop"}
      /\ phase = "final" => phase' \in {"final", "end"}
      /\ phase \in {"hooks", "final"}
  BY DEF runVars
<1> SUFFICES ASSUME NEW n \in StartHook, NEW w \in served'[n]
             PROVE  \/ NearMultiple(n, w)
                    \/ w = currentTime /\ phase = "final"
                    \/ w \in resumedAt
  BY <1>2 DEF OutputsOnSchedule, NearMultiple
<1>3. CASE w \in served[n]
  BY <1>2, <1>3 DEF OutputsOnSchedule, NearMultiple
<1>4. CASE w \notin served[n]
  <2>1. n = m /\ w = currentTime /\ (Due(m) \/ phase = "final")
    BY <1>1, <1>4 DEF SyncPointsTypeOK
  <2>2. Due(m) => NearMultiple(m, currentTime)
    BY <1>2, <2>1, DueIsNearMultiple
  <2> QED BY <2>1, <2>2
<1> QED
  BY <1>3, <1>4

\* Whatever the modules, their intervals and the crashes: an output stands at a
\* multiple of the interval of its module, up to the tolerance, at the end of a
\* run or at its start from a checkpoint (Module.cpp:20-31).
THEOREM OutputsStayOnSchedule == Spec => []OutputsOnSchedule
<1>1. Init => PastInv
  BY DEF Init, PastInv, Never
<1>2. Init => OutputsOnSchedule
  BY DEF Init, OutputsOnSchedule
<1>3. SyncPointsTypeOK /\ PastInv /\ OutputsOnSchedule /\ [Next]_vars => OutputsOnSchedule'
  <2> SUFFICES ASSUME SyncPointsTypeOK, PastInv, OutputsOnSchedule, [Next]_vars
               PROVE  OutputsOnSchedule'
    OBVIOUS
  <2>1. ASSUME NEW t \in Checkpoints \cup {0}, Start(t) PROVE OutputsOnSchedule'
    <3>1. t \in 0..currentTime
      BY DEF Checkpoints, PastInv, SyncPointsTypeOK
    <3> QED BY <2>1, <3>1, StartOnSchedule
  <2>2. ASSUME NEW m \in Outputs, Hook(m) \/ FinalHook(m) PROVE OutputsOnSchedule'
    BY <2>2, HookOnSchedule
  <2>3. CASE AdvanceInTime
    BY <2>3 DEF AdvanceInTime, OutputsOnSchedule, diskVars, runVars
  <2>4. CASE Leave
    BY <2>4 DEF Leave, OutputsOnSchedule, diskVars, runVars
  <2>5. CASE End
    BY <2>5 DEF End, OutputsOnSchedule, runVars
  <2>6. CASE Crash
    BY <2>6 DEF Crash, OutputsOnSchedule
  <2>7. ASSUME NEW m \in Outputs, WriteDone(m) PROVE OutputsOnSchedule'
    BY <2>7 DEF WriteDone, OutputsOnSchedule, runVars
  <2>8. CASE Over \/ UNCHANGED vars
    BY <2>8 DEF Over, vars, OutputsOnSchedule, diskVars, runVars
  <2> QED
    BY <2>1, <2>2, <2>3, <2>4, <2>5, <2>6, <2>7, <2>8 DEF Next, Run, Restart
<1>4. SyncPointsTypeOK /\ PastInv /\ [Next]_vars => PastInv'
  BY PastStep
<1> QED
  BY <1>1, <1>2, <1>3, <1>4, SyncPointsTypesHold, PTL DEF Spec

----------------------------------------------------------------------------
(* The simulation advances *)

\* Every module is given its start time, its intervals are not below the
\* tolerance, and neither is the tolerance at the start.
AllStarted ==
    /\ StartHook = Outputs
    /\ TimeTolerance <= StartTolerance
    /\ \A m \in Outputs : TimeTolerance <= Interval[m]

\* The modules that have been asked since the last call of advanceInTime want
\* to be called in a step's time at the earliest, and one of them decides the
\* upcoming time; the others were called at an earlier time and want to be
\* called now or later.
AdvanceInv ==
    /\ phase # "failed"
    /\ phase = "loop" => todo = {}
    /\ phase \in {"loop", "hooks"} =>
        /\ \/ upcomingTime = FinalTime
           \/ \E m \in Outputs \ todo : upcomingTime = nextSyncPoint[m]
        /\ \A m \in Outputs \ todo :
               /\ nextSyncPoint[m] >= currentTime + TimeTolerance
               /\ upcomingTime <= nextSyncPoint[m]
               /\ lastSyncPoint[m] <= currentTime
        /\ \A m \in todo :
               /\ nextSyncPoint[m] >= currentTime
               /\ lastSyncPoint[m] + TimeTolerance <= currentTime

\* After a start every module wants to be called in the future.
LEMMA StartAdvances ==
    ASSUME AllStarted, NEW t \in Nat, Start(t)
    PROVE  AdvanceInv'
<1>1. phase' = "loop" /\ currentTime' = t /\ todo' = {}
  BY DEF Start
<1>2. \A m \in Outputs : nextSyncPoint'[m] \in Nat /\ nextSyncPoint'[m] >= t + TimeTolerance
  <2> TAKE m \in Outputs
  <2>1. nextSyncPoint'[m] = FirstSyncPoint(m, t)
    BY StartFacts DEF AllStarted
  <2>2. TimeTolerance \in Nat /\ StartTolerance \in Nat /\ TimeTolerance <= StartTolerance
    BY DEF AllStarted
  <2> QED BY <2>1, <2>2, FirstSyncPointType
<1>3. \A m \in Outputs : lastSyncPoint'[m] <= t
  BY DEF Start, Never
<1>4. PICK m \in Outputs : upcomingTime' = Smaller(FinalTime, nextSyncPoint'[m])
  BY StartFacts
<1>5. upcomingTime' = FinalTime \/ upcomingTime' = nextSyncPoint'[m]
  BY <1>4 DEF Smaller
<1> QED
  BY <1>1, <1>2, <1>3, <1>5, StartFacts DEF AdvanceInv

\* advanceInTime leads to the first of the points the modules want.
LEMMA AdvanceInTimeAdvances ==
    ASSUME SyncPointsTypeOK, AdvanceInv, AdvanceInTime
    PROVE  AdvanceInv'
<1>1. /\ phase' = "hooks" /\ todo' = Outputs /\ upcomingTime' = FinalTime
      /\ currentTime' = upcomingTime
      /\ nextSyncPoint' = nextSyncPoint /\ lastSyncPoint' = lastSyncPoint
  BY DEF AdvanceInTime, moduleVars
<1>2. upcomingTime >= currentTime + TimeTolerance /\ phase = "loop" /\ todo = {}
  BY DEF AdvanceInTime, Advances, AdvanceInv
<1>3. ASSUME NEW m \in Outputs
      PROVE  nextSyncPoint[m] >= upcomingTime /\ lastSyncPoint[m] + TimeTolerance <= upcomingTime
  <2>1. upcomingTime <= nextSyncPoint[m] /\ lastSyncPoint[m] <= currentTime
    BY <1>2 DEF AdvanceInv
  <2>2. /\ nextSyncPoint[m] \in Nat /\ lastSyncPoint[m] \in Int
        /\ upcomingTime \in Nat /\ currentTime \in Nat /\ TimeTolerance \in Nat
    BY DEF SyncPointsTypeOK, Never
  <2> QED BY <1>2, <2>1, <2>2
<1> QED
  BY <1>1, <1>3 DEF AdvanceInv

\* A module whose turn it is has not been called within the tolerance.
LEMMA HookAdvances ==
    ASSUME AllStarted, SyncPointsTypeOK, AdvanceInv, NEW m \in Outputs, Hook(m)
    PROVE  AdvanceInv'
<1>1. /\ phase = "hooks" /\ m \in todo /\ todo' = todo \ {m}
      /\ currentTime' = currentTime
      /\ upcomingTime' = Smaller(upcomingTime, nextSyncPoint'[m])
      /\ phase' = IF todo = {m} THEN "loop" ELSE "hooks"
      /\ PotentialSyncPoint(m, FALSE)
  BY DEF Hook, CallSyncHook
<1>2. /\ nextSyncPoint[m] \in Nat /\ lastSyncPoint[m] \in Int /\ Interval[m] \in Nat
      /\ currentTime \in Nat /\ upcomingTime \in Nat /\ TimeTolerance \in Nat \ {0}
      /\ TimeTolerance <= Interval[m]
  BY DEF SyncPointsTypeOK, Never, AllStarted
<1>3. nextSyncPoint[m] >= currentTime /\ lastSyncPoint[m] + TimeTolerance <= currentTime
  BY <1>1 DEF AdvanceInv
<1>4. ~Duplicate(m)
  BY <1>2, <1>3 DEF Duplicate, Within
<1>5. /\ nextSyncPoint'[m] >= currentTime + TimeTolerance /\ nextSyncPoint'[m] \in Nat
      /\ lastSyncPoint'[m] <= currentTime
      /\ \A n \in Outputs \ {m} : nextSyncPoint'[n] = nextSyncPoint[n]
                                  /\ lastSyncPoint'[n] = lastSyncPoint[n]
  <2>1. CASE Due(m) /\ lastSyncPoint' = [lastSyncPoint EXCEPT ![m] = currentTime]
                    /\ nextSyncPoint' = [nextSyncPoint EXCEPT ![m] = @ + Interval[m]]
    BY <1>2, <1>3, <2>1 DEF SyncPointsTypeOK
  <2>2. CASE ~Due(m) /\ UNCHANGED <<nextSyncPoint, lastSyncPoint>>
    BY <1>2, <1>3, <2>2 DEF Due, Within, Never
  <2> QED BY <1>1, <1>4, <2>1, <2>2, HookOutcome
<1>6. upcomingTime' <= upcomingTime /\ upcomingTime' <= nextSyncPoint'[m]
      /\ upcomingTime' \in {upcomingTime, nextSyncPoint'[m]} /\ upcomingTime' \in Nat
  BY <1>1, <1>2, <1>5 DEF Smaller
<1>7. ASSUME NEW n \in Outputs \ todo'
      PROVE  /\ nextSyncPoint'[n] >= currentTime + TimeTolerance
             /\ upcomingTime' <= nextSyncPoint'[n]
             /\ lastSyncPoint'[n] <= currentTime
  <2>1. CASE n = m
    BY <1>5, <1>6, <2>1
  <2>2. CASE n # m
    <3>1. n \in Outputs \ todo /\ nextSyncPoint[n] \in Nat
      BY <1>1, <2>2 DEF SyncPointsTypeOK
    <3>2. /\ nextSyncPoint[n] >= currentTime + TimeTolerance
          /\ upcomingTime <= nextSyncPoint[n] /\ lastSyncPoint[n] <= currentTime
      BY <1>1, <3>1 DEF AdvanceInv
    <3> QED BY <1>2, <1>5, <1>6, <2>2, <3>1, <3>2
  <2> QED BY <2>1, <2>2
<1>8. upcomingTime' = FinalTime \/ \E n \in Outputs \ todo' : upcomingTime' = nextSyncPoint'[n]
  <2>1. CASE upcomingTime' = nextSyncPoint'[m]
    BY <1>1, <2>1
  <2>2. CASE upcomingTime' = upcomingTime
    <3>1. CASE upcomingTime = FinalTime
      BY <2>2, <3>1
    <3>2. ASSUME NEW n \in Outputs \ todo, upcomingTime = nextSyncPoint[n]
          PROVE  upcomingTime' = nextSyncPoint'[n] /\ n \in Outputs \ todo'
      BY <1>1, <1>5, <2>2, <3>2
    <3> QED BY <1>1, <3>1, <3>2 DEF AdvanceInv
  <2> QED BY <1>6, <2>1, <2>2
<1>9. ASSUME NEW n \in todo'
      PROVE  nextSyncPoint'[n] >= currentTime /\ lastSyncPoint'[n] + TimeTolerance <= currentTime
  BY <1>1, <1>5 DEF AdvanceInv, SyncPointsTypeOK
<1>10. phase' = "loop" => todo' = {}
  BY <1>1
<1> QED
  BY <1>1, <1>7, <1>8, <1>9, <1>10 DEF AdvanceInv

\* "Simulator did not advance in time" is never reported, for any modules with
\* intervals above the tolerance that are given their start times
\* (Simulator.cpp:93-97, Modules.cpp:71-80).
THEOREM SimulationAdvances ==
    ASSUME AllStarted
    PROVE  Spec => []AlwaysAdvances
<1>1. Init => AdvanceInv
  BY DEF Init, AdvanceInv
<1>2. SyncPointsTypeOK /\ AdvanceInv /\ [Next]_vars => AdvanceInv'
  <2> SUFFICES ASSUME SyncPointsTypeOK, AdvanceInv, [Next]_vars PROVE AdvanceInv'
    OBVIOUS
  <2>1. ASSUME NEW t \in Checkpoints \cup {0}, Start(t) PROVE AdvanceInv'
    BY <2>1, StartAdvances DEF Checkpoints, SyncPointsTypeOK
  <2>2. CASE AdvanceInTime
    BY <2>2, AdvanceInTimeAdvances
  <2>3. ASSUME NEW m \in Outputs, Hook(m) PROVE AdvanceInv'
    BY <2>3, HookAdvances
  <2>4. ASSUME NEW m \in Outputs, FinalHook(m) PROVE AdvanceInv'
    BY <2>4 DEF FinalHook, CallSyncHook, AdvanceInv
  <2>5. CASE Leave
    <3>1. phase = "loop" /\ todo = {} /\ phase' = IF Continues /\ ~Advances THEN "failed" ELSE "final"
      BY <2>5 DEF Leave, AdvanceInv
    <3>2. Continues => Advances
      <4>1. /\ currentTime \in Nat /\ upcomingTime \in Nat /\ TimeTolerance \in Nat
            /\ FinalTime \in Nat
        BY DEF SyncPointsTypeOK
      <4>2. \/ upcomingTime = FinalTime
            \/ upcomingTime >= currentTime + TimeTolerance
        BY <3>1 DEF AdvanceInv
      <4> QED BY <4>1, <4>2 DEF Continues, Advances
    <3> QED BY <3>1, <3>2 DEF AdvanceInv
  <2>6. CASE End \/ Crash
    BY <2>6 DEF End, Crash, AdvanceInv
  <2>7. ASSUME NEW m \in Outputs, WriteDone(m) PROVE AdvanceInv'
    BY <2>7 DEF WriteDone, AdvanceInv, moduleVars
  <2>8. CASE Over \/ UNCHANGED vars
    BY <2>8 DEF Over, vars, AdvanceInv, moduleVars
  <2> QED
    BY <2>1, <2>2, <2>3, <2>4, <2>5, <2>6, <2>7, <2>8 DEF Next, Run, Restart
<1>3. AdvanceInv => AlwaysAdvances
  BY DEF AdvanceInv, AlwaysAdvances
<1> QED
  BY <1>1, <1>2, <1>3, SyncPointsTypesHold, PTL DEF Spec

----------------------------------------------------------------------------
(* No point of time is skipped *)

Handled(m, d) ==
    \/ \E w \in served[m] : Within(w, d, TimeTolerance)
    \/ \E r \in resumedAt : Within(r, d, TimeTolerance)

Multiples(m) == {k * Interval[m] : k \in Nat \ {0}}

\* The times at which a run can stand.
Points == {0, FinalTime} \cup UNION {Multiples(m) : m \in Outputs}

\* Two of these times that are closer than the tolerance at the start are closer
\* than that of the points themselves.
PointsApart ==
    \A t \in Points : \A m \in StartHook : \A d \in Multiples(m) :
        d < t + StartTolerance => d < t + TimeTolerance

PointsInv ==
    /\ currentTime \in Points /\ upcomingTime \in Points
    /\ \A m \in Outputs : /\ nextSyncPoint[m] \in {0} \cup Multiples(m)
                          /\ files[m] \subseteq Points
                          /\ pending[m] \in Points \cup {Never}

\* A run starts at 0 or at a point of an earlier run.
LEMMA StartPoints ==
    ASSUME SyncPointsTypeOK, PointsInv, NEW t \in Checkpoints \cup {0}, Start(t)
    PROVE  PointsInv'
<1>1. t \in Points /\ t \in Nat
  BY DEF Checkpoints, PointsInv, Points, SyncPointsTypeOK
<1>2. ASSUME NEW m \in Outputs PROVE nextSyncPoint'[m] \in {0} \cup Multiples(m)
  <2>1. nextSyncPoint'[m] = IF m \in StartHook THEN FirstSyncPoint(m, t) ELSE 0
    BY DEF Start, Started
  <2> QED BY <1>1, <2>1, FirstSyncPointType DEF Multiples
<1>3. upcomingTime' \in Points
  <2>1. PICK m \in Outputs : upcomingTime' = Smaller(FinalTime, nextSyncPoint'[m])
    BY <1>1, StartFacts
  <2> QED BY <1>2, <2>1 DEF Smaller, Points
<1>4. \A m \in Outputs : files'[m] \subseteq Points /\ pending'[m] \in Points \cup {Never}
  BY DEF Start, PointsInv, Points
<1>5. currentTime' = t
  BY DEF Start
<1> QED
  BY <1>1, <1>2, <1>3, <1>4, <1>5 DEF PointsInv

\* The call of a module leads from one multiple of its interval to the next.
LEMMA HookPoints ==
    ASSUME SyncPointsTypeOK, PointsInv, NEW m \in Outputs, NEW force \in BOOLEAN,
           NEW after \in {"loop", "end"}, CallSyncHook(m, force, after)
    PROVE  PointsInv'
<1>1. /\ PotentialSyncPoint(m, force) /\ currentTime' = currentTime
      /\ upcomingTime' = Smaller(upcomingTime, nextSyncPoint'[m])
  BY DEF CallSyncHook
<1>2. ASSUME NEW n \in Outputs PROVE nextSyncPoint'[n] \in {0} \cup Multiples(n)
  <2>1. \/ nextSyncPoint' = nextSyncPoint
        \/ nextSyncPoint' = [nextSyncPoint EXCEPT ![m] = @ + Interval[m]]
    BY <1>1, HookOutcome
  <2>2. \/ nextSyncPoint'[n] = nextSyncPoint[n]
        \/ nextSyncPoint'[n] = nextSyncPoint[n] + Interval[n]
    BY <2>1 DEF SyncPointsTypeOK
  <2>3. Interval[n] \in Nat \ {0}
    OBVIOUS
  <2>4. 0 + Interval[n] \in Multiples(n)
    <3>1. 1 \in Nat \ {0} /\ 0 + Interval[n] = 1 * Interval[n]
      BY <2>3
    <3> QED BY <3>1 DEF Multiples
  <2>5. ASSUME NEW d \in Multiples(n) PROVE d + Interval[n] \in Multiples(n)
    <3>1. PICK k \in Nat \ {0} : d = k * Interval[n]
      BY DEF Multiples
    <3>2. k + 1 \in Nat \ {0} /\ k * Interval[n] + Interval[n] = (k + 1) * Interval[n]
      BY <2>3, NextMultiple
    <3> QED BY <3>1, <3>2 DEF Multiples
  <2> QED BY <2>2, <2>4, <2>5 DEF PointsInv
<1>3. upcomingTime' \in Points
  BY <1>1, <1>2 DEF Smaller, Points, PointsInv
<1>4. \A n \in Outputs : files'[n] \subseteq Points /\ pending'[n] \in Points \cup {Never}
  <2>1. \/ files' = files /\ pending' = pending
        \/ /\ files' = [files EXCEPT ![m] = Finished(m)]
           /\ pending' = [pending EXCEPT ![m] = currentTime]
    BY <1>1, HookOutcome DEF SyncPoint
  <2>2. Finished(m) \subseteq Points
    BY FinishedType DEF PointsInv
  <2> QED BY <2>1, <2>2 DEF PointsInv, SyncPointsTypeOK
<1> QED
  BY <1>1, <1>2, <1>3, <1>4 DEF PointsInv

\* Every step stands at one of the times.
LEMMA PointsStep ==
    ASSUME SyncPointsTypeOK, PointsInv, [Next]_vars
    PROVE  PointsInv'
<1> USE DEF SyncPointsTypeOK
<1>1. ASSUME NEW t \in Checkpoints \cup {0}, Start(t) PROVE PointsInv'
  BY <1>1, StartPoints
<1>2. CASE AdvanceInTime
  BY <1>2 DEF AdvanceInTime, PointsInv, Points, moduleVars, diskVars
<1>3. CASE Leave
  BY <1>3 DEF Leave, PointsInv, moduleVars, diskVars
<1>4. ASSUME NEW m \in Outputs, Hook(m) \/ FinalHook(m) PROVE PointsInv'
  BY <1>4, HookPoints DEF Hook, FinalHook
<1>5. ASSUME NEW m \in Outputs, WriteDone(m) PROVE PointsInv'
  <2>1. Finished(m) \subseteq Points
    BY FinishedType DEF PointsInv
  <2> QED BY <1>5, <2>1 DEF WriteDone, PointsInv, moduleVars
<1>6. CASE End
  <2>1. \A m \in Outputs : Finished(m) \subseteq Points
    BY FinishedType DEF PointsInv
  <2> QED BY <1>6, <2>1 DEF End, PointsInv, moduleVars
<1>7. CASE Crash
  <2>1. \A m \in Outputs : files'[m] \subseteq files[m] /\ pending'[m] = Never
    BY <1>7 DEF Crash, Truncated
  <2> QED BY <1>7, <2>1 DEF Crash, PointsInv, moduleVars
<1>8. CASE Over \/ UNCHANGED vars
  BY <1>8 DEF Over, vars, PointsInv, moduleVars, diskVars
<1> QED
  BY <1>1, <1>2, <1>3, <1>4, <1>5, <1>6, <1>7, <1>8 DEF Next, Run, Restart

\* All multiples before the next synchronization point of a module have been
\* handled; a module that has been asked looks to the future, and the program
\* never steps over the next point of any.
DueInv ==
    /\ phase = "loop" => todo = {}
    /\ \A m \in StartHook :
        /\ phase \in {"loop", "hooks"} =>
            /\ \A d \in Multiples(m) : d < nextSyncPoint[m] => Handled(m, d)
            /\ nextSyncPoint[m] >= currentTime
            /\ m \in todo => lastSyncPoint[m] + TimeTolerance <= currentTime
            /\ m \notin todo => /\ nextSyncPoint[m] > currentTime
                                /\ upcomingTime <= nextSyncPoint[m]
                                /\ lastSyncPoint[m] <= currentTime
        /\ phase \in {"final", "end", "done"} =>
            \A d \in Multiples(m) : d <= currentTime => Handled(m, d)
        /\ phase = "down" =>
            \A d \in Multiples(m) : d + TimeTolerance <= currentTime => Handled(m, d)

\* Multiples are positive times.
LEMMA MultiplesType ==
    ASSUME NEW m \in Outputs
    PROVE  \A d \in Multiples(m) : d \in Nat \ {0}
<1>1. Interval[m] \in Nat \ {0}
  OBVIOUS
<1>2. ASSUME NEW i \in Nat \ {0}, NEW k \in Nat \ {0} PROVE k * i \in Nat \ {0}
  OBVIOUS
<1> QED
  BY <1>1, <1>2 DEF Multiples

\* The due times up to a time are the multiples up to it.
LEMMA DueTimesAreMultiples ==
    ASSUME NEW m \in Outputs, NEW t \in Nat, NEW d \in DueTimes(m, t)
    PROVE  d \in Multiples(m) /\ d <= t
<1>1. Interval[m] \in Nat \ {0}
  OBVIOUS
<1>2. PICK k \in 1..(t \div Interval[m]) : d = k * Interval[m]
  BY DEF DueTimes
<1>3. ASSUME NEW i \in Nat \ {0}, NEW j \in 1..(t \div i) PROVE j * i <= t /\ j \in Nat \ {0}
  <2> DEFINE q == t \div i
             r == t % i
  <2>1. q \in Int /\ r \in 0..(i - 1) /\ t = i * q + r
    OBVIOUS
  <2>2. j \in 1..q
    OBVIOUS
  <2> HIDE DEF q, r
  <2>3. i * (q - j) >= 0
    BY <2>1, <2>2
  <2>4. i * (q - j) = i * q - j * i
    BY <2>1, <2>2
  <2> QED BY <2>1, <2>2, <2>3, <2>4
<1> QED
  BY <1>1, <1>2, <1>3 DEF Multiples

\* There is no other multiple before the next one.
LEMMA NoneBetween ==
    ASSUME NEW m \in Outputs, NEW n \in Multiples(m), NEW d \in Multiples(m),
           n <= d, d < n + Interval[m]
    PROVE  d = n
<1>1. PICK k \in Nat \ {0} : n = k * Interval[m]
  BY DEF Multiples
<1>2. PICK j \in Nat \ {0} : d = j * Interval[m]
  BY DEF Multiples
<1> DEFINE i == Interval[m]
<1>3. i \in Nat \ {0}
  OBVIOUS
<1>4. n = k * i /\ d = j * i /\ n <= d /\ d < n + i
  BY <1>1, <1>2
<1> HIDE DEF i
<1>5. j >= k
  <2>1. SUFFICES ASSUME j <= k - 1 PROVE FALSE
    OBVIOUS
  <2>2. i * (k - 1 - j) >= 0
    BY <1>3, <2>1
  <2>3. i * (k - 1 - j) = k * i - i - j * i
    BY <1>3
  <2> QED BY <1>3, <1>4, <2>2, <2>3
<1>6. j <= k
  <2>1. SUFFICES ASSUME j >= k + 1 PROVE FALSE
    OBVIOUS
  <2>2. i * (j - k - 1) >= 0
    BY <1>3, <2>1
  <2>3. i * (j - k - 1) = j * i - k * i - i
    BY <1>3
  <2> QED BY <1>3, <1>4, <2>2, <2>3
<1> QED
  BY <1>4, <1>5, <1>6

\* What a start leaves behind was handled before the checkpoint was written, or
\* lies at the start itself.
LEMMA StartServes ==
    ASSUME PointsApart, SyncPointsTypeOK, DueInv,
           NEW t \in 0..currentTime, t \in Points, Start(t)
    PROVE  DueInv'
<1>1. phase = "down" /\ phase' = "loop" /\ currentTime' = t /\ todo' = {}
  BY DEF Start
<1>2. currentTime \in Nat /\ t \in Nat /\ TimeTolerance \in Nat \ {0} /\ StartTolerance \in Nat \ {0}
  BY DEF SyncPointsTypeOK
<1> SUFFICES ASSUME NEW m \in StartHook
             PROVE  /\ \A d \in Multiples(m) : d < nextSyncPoint'[m] => Handled(m, d)'
                    /\ nextSyncPoint'[m] > t
                    /\ upcomingTime' <= nextSyncPoint'[m]
                    /\ lastSyncPoint'[m] <= t
                    /\ nextSyncPoint'[m] \in Nat
  BY <1>1, <1>2 DEF DueInv
<1>3. nextSyncPoint'[m] = FirstSyncPoint(m, t) /\ upcomingTime' <= nextSyncPoint'[m]
  BY <1>2, StartFacts
<1>4. /\ nextSyncPoint'[m] \in Nat /\ nextSyncPoint'[m] >= t + StartTolerance
      /\ \A d \in Multiples(m) : d < nextSyncPoint'[m] => d < t + StartTolerance
  BY <1>2, <1>3, FirstSyncPointType DEF Multiples
<1>5. lastSyncPoint'[m] <= t
  BY DEF Start, Never
<1>6. ASSUME NEW d \in Multiples(m), d < nextSyncPoint'[m] PROVE Handled(m, d)'
  <2>1. d \in Nat /\ d < t + TimeTolerance
    BY <1>4, <1>6, MultiplesType DEF PointsApart
  <2>2. CASE d + TimeTolerance > t
    <3>1. t \in resumedAt'
      BY DEF Start
    <3>2. Within(t, d, TimeTolerance)
      BY <1>2, <2>1, <2>2 DEF Within, Never
    <3> QED BY <3>1, <3>2 DEF Handled
  <2>3. CASE d + TimeTolerance <= t
    <3>1. Handled(m, d)
      BY <1>1, <1>2, <2>1, <2>3 DEF DueInv
    <3>2. ASSUME NEW w \in Nat, Within(w, d, TimeTolerance) PROVE w <= t
      BY <1>2, <2>1, <2>3, <3>2 DEF Within
    <3>3. served[m] \subseteq Nat /\ resumedAt \subseteq Nat
      BY DEF SyncPointsTypeOK
    <3>4. ASSUME NEW w \in served[m], w <= t PROVE w \in served'[m]
      BY <3>4 DEF Start
    <3>5. ASSUME NEW r \in resumedAt, r <= t PROVE r \in resumedAt'
      BY <3>5 DEF Start
    <3> QED BY <3>1, <3>2, <3>3, <3>4, <3>5 DEF Handled
  <2> QED BY <1>2, <2>1, <2>2, <2>3
<1> QED
  BY <1>2, <1>3, <1>4, <1>5, <1>6

\* advanceInTime does not step over the next point of any module.
LEMMA AdvanceInTimeServes ==
    ASSUME SyncPointsTypeOK, DueInv, AdvanceInTime
    PROVE  DueInv'
<1>1. /\ phase = "loop" /\ todo = {} /\ phase' = "hooks" /\ todo' = Outputs
      /\ currentTime' = upcomingTime
      /\ upcomingTime >= currentTime + TimeTolerance
      /\ UNCHANGED <<nextSyncPoint, lastSyncPoint, served, resumedAt>>
  BY DEF AdvanceInTime, Advances, DueInv, moduleVars, diskVars, runVars
<1> SUFFICES ASSUME NEW m \in StartHook
             PROVE  /\ \A d \in Multiples(m) : d < nextSyncPoint[m] => Handled(m, d)
                    /\ nextSyncPoint[m] >= upcomingTime
                    /\ lastSyncPoint[m] + TimeTolerance <= upcomingTime
                    /\ m \in Outputs
  BY <1>1 DEF DueInv, Handled
<1>2. /\ nextSyncPoint[m] \in Nat /\ lastSyncPoint[m] \in Int
      /\ currentTime \in Nat /\ upcomingTime \in Nat /\ TimeTolerance \in Nat
  BY DEF SyncPointsTypeOK, Never
<1>3. /\ \A d \in Multiples(m) : d < nextSyncPoint[m] => Handled(m, d)
      /\ upcomingTime <= nextSyncPoint[m] /\ lastSyncPoint[m] <= currentTime
  BY <1>1 DEF DueInv
<1> QED
  BY <1>1, <1>2, <1>3

\* The call of a module handles its point, and its next one lies ahead; for the
\* others it changes nothing but, perhaps, the upcoming time.
LEMMA HookServes ==
    ASSUME SyncPointsTypeOK, PastInv, DueInv, NEW m \in Outputs, Hook(m)
    PROVE  DueInv'
<1>1. /\ phase = "hooks" /\ m \in todo /\ todo' = todo \ {m}
      /\ currentTime' = currentTime /\ resumedAt' = resumedAt
      /\ upcomingTime' = Smaller(upcomingTime, nextSyncPoint'[m])
      /\ phase' = IF todo = {m} THEN "loop" ELSE "hooks"
      /\ PotentialSyncPoint(m, FALSE)
  BY DEF Hook, CallSyncHook, runVars
<1>2. /\ currentTime \in Nat /\ upcomingTime \in Nat /\ TimeTolerance \in Nat \ {0}
      /\ \A n \in Outputs : nextSyncPoint[n] \in Nat /\ lastSyncPoint[n] \in Int
                            /\ Interval[n] \in Nat \ {0}
  BY DEF SyncPointsTypeOK, Never
<1>3. \/ /\ Due(m)
         /\ served' = [served EXCEPT ![m] = @ \cup {currentTime}]
         /\ lastSyncPoint' = [lastSyncPoint EXCEPT ![m] = currentTime]
         /\ nextSyncPoint' = [nextSyncPoint EXCEPT ![m] = @ + Interval[m]]
      \/ /\ Duplicate(m) \/ ~Due(m)
         /\ UNCHANGED <<nextSyncPoint, lastSyncPoint, served>>
  BY <1>1, HookOutcome DEF SyncPoint
<1>4. \A n \in Outputs, d \in Nat : Handled(n, d) => Handled(n, d)'
  BY <1>1, <1>3 DEF Handled, SyncPointsTypeOK
<1>5. upcomingTime' <= upcomingTime /\ upcomingTime' <= nextSyncPoint'[m]
  <2>1. nextSyncPoint'[m] \in Nat
    BY <1>2, <1>3 DEF SyncPointsTypeOK
  <2> QED BY <1>1, <1>2, <2>1 DEF Smaller
<1>6. (phase' = "loop" => todo' = {}) /\ phase' \in {"loop", "hooks"}
  BY <1>1
<1> SUFFICES ASSUME NEW n \in StartHook
             PROVE  /\ \A d \in Multiples(n) : d < nextSyncPoint'[n] => Handled(n, d)'
                    /\ nextSyncPoint'[n] >= currentTime
                    /\ n \in todo' => lastSyncPoint'[n] + TimeTolerance <= currentTime
                    /\ n \notin todo' => /\ nextSyncPoint'[n] > currentTime
                                         /\ upcomingTime' <= nextSyncPoint'[n]
                                         /\ lastSyncPoint'[n] <= currentTime
  BY <1>1, <1>6 DEF DueInv
<1>7. n \in Outputs /\ \A d \in Multiples(n) : d \in Nat
  BY MultiplesType
<1>8. /\ \A d \in Multiples(n) : d < nextSyncPoint[n] => Handled(n, d)
      /\ nextSyncPoint[n] >= currentTime
      /\ n \in todo => lastSyncPoint[n] + TimeTolerance <= currentTime
      /\ n \notin todo => /\ nextSyncPoint[n] > currentTime
                          /\ upcomingTime <= nextSyncPoint[n]
                          /\ lastSyncPoint[n] <= currentTime
  BY <1>1 DEF DueInv
<1>9. CASE n # m
  <2>1. nextSyncPoint'[n] = nextSyncPoint[n] /\ lastSyncPoint'[n] = lastSyncPoint[n]
    BY <1>3, <1>7, <1>9 DEF SyncPointsTypeOK
  <2>2. (n \in todo' <=> n \in todo) /\ upcomingTime' \in Int
    BY <1>1, <1>2, <1>3, <1>9 DEF Smaller, SyncPointsTypeOK
  <2>3. \A d \in Multiples(n) : d < nextSyncPoint'[n] => Handled(n, d)'
    BY <1>4, <1>7, <1>8, <2>1
  <2>4. upcomingTime <= nextSyncPoint[n] => upcomingTime' <= nextSyncPoint[n]
    BY <1>2, <1>5, <1>7, <2>2
  <2> QED BY <1>8, <2>1, <2>2, <2>3, <2>4
<1>10. CASE n = m
  <2>1. ~Duplicate(m) /\ m \notin todo'
    BY <1>1, <1>2, <1>8, <1>10 DEF Duplicate, Within
  <2>2. CASE Due(m)
    <3>1. /\ nextSyncPoint'[m] = nextSyncPoint[m] + Interval[m]
          /\ lastSyncPoint'[m] = currentTime /\ currentTime \in served'[m]
      BY <1>3, <2>1, <2>2 DEF SyncPointsTypeOK
    <3>2. ASSUME NEW d \in Multiples(m), d < nextSyncPoint'[m] PROVE Handled(m, d)'
      <4>1. CASE d < nextSyncPoint[m]
        BY <1>4, <1>7, <1>8, <1>10, <4>1
      <4>2. CASE d >= nextSyncPoint[m]
        <5>1. nextSyncPoint[m] \in Multiples(m)
          BY <1>1, <1>10 DEF PastInv, Multiples
        <5>2. d = nextSyncPoint[m]
          BY <3>1, <3>2, <4>2, <5>1, NoneBetween
        <5>3. Within(currentTime, d, TimeTolerance)
          BY <1>2, <2>2, <5>2 DEF Due, Within, Never
        <5> QED BY <3>1, <5>3 DEF Handled
      <4> QED BY <1>2, <1>7, <1>10, <4>1, <4>2
    <3>3. nextSyncPoint'[m] > currentTime
      BY <1>2, <1>8, <1>10, <3>1
    <3> QED BY <1>2, <1>5, <1>10, <2>1, <3>1, <3>2, <3>3
  <2>3. CASE ~Due(m)
    <3>1. nextSyncPoint'[m] = nextSyncPoint[m] /\ lastSyncPoint'[m] = lastSyncPoint[m]
      BY <1>3, <2>3
    <3>2. nextSyncPoint[m] > currentTime
      BY <1>2, <1>8, <1>10, <2>3 DEF Due, Within, Never
    <3>3. lastSyncPoint[m] <= currentTime
      BY <1>1, <1>2, <1>8, <1>10
    <3> QED BY <1>4, <1>5, <1>7, <1>8, <1>10, <2>1, <3>1, <3>2, <3>3
  <2> QED BY <2>2, <2>3
<1> QED
  BY <1>9, <1>10

\* The end of a run, a crash and the writer threads leave alone what was handled.
LEMMA OthersServe ==
    ASSUME SyncPointsTypeOK, DueInv,
           \/ Leave \/ End \/ Crash \/ Over \/ UNCHANGED vars
           \/ \E m \in Outputs : FinalHook(m) \/ WriteDone(m)
    PROVE  DueInv'
<1>1. \A n \in StartHook : \A d \in Multiples(n) : d \in Nat
  BY MultiplesType
<1>2. /\ currentTime \in Nat /\ TimeTolerance \in Nat \ {0}
      /\ \A n \in Outputs : nextSyncPoint[n] \in Nat
  BY DEF SyncPointsTypeOK
<1>3. CASE Leave
  <2>1. /\ phase = "loop" /\ todo = {} /\ phase' \in {"failed", "final"}
        /\ UNCHANGED <<served, resumedAt, currentTime>>
    BY <1>3 DEF Leave, DueInv, diskVars, runVars
  <2>2. \A n \in StartHook : \A d \in Multiples(n) : d <= currentTime => Handled(n, d)
    BY <1>1, <1>2, <2>1 DEF DueInv
  <2> QED BY <2>1, <2>2 DEF DueInv, Handled
<1>4. CASE End
  <2>1. phase = "end" /\ phase' = "done" /\ UNCHANGED <<served, resumedAt, currentTime>>
    BY <1>4 DEF End, runVars
  <2> QED BY <2>1 DEF DueInv, Handled
<1>5. CASE Crash
  <2>1. /\ phase \in {"loop", "hooks", "final", "end"} /\ phase' = "down"
        /\ UNCHANGED <<served, resumedAt, currentTime>>
    BY <1>5 DEF Crash
  <2>2. ASSUME NEW n \in StartHook, NEW d \in Multiples(n), d + TimeTolerance <= currentTime
        PROVE  Handled(n, d)
    <3>1. d \in Nat /\ d < currentTime
      BY <1>1, <1>2, <2>2
    <3>2. CASE phase \in {"loop", "hooks"}
      <4>1. nextSyncPoint[n] >= currentTime /\ nextSyncPoint[n] \in Nat
        BY <1>2, <3>2 DEF DueInv
      <4> QED BY <1>2, <3>1, <3>2, <4>1 DEF DueInv
    <3>3. CASE phase \in {"final", "end"}
      BY <1>2, <3>1, <3>3 DEF DueInv
    <3> QED BY <2>1, <3>2, <3>3
  <2> QED BY <2>1, <2>2 DEF DueInv, Handled
<1>6. ASSUME NEW m \in Outputs, FinalHook(m) PROVE DueInv'
  <2>1. /\ phase = "final" /\ phase' \in {"final", "end"}
        /\ UNCHANGED <<resumedAt, currentTime>>
        /\ PotentialSyncPoint(m, TRUE)
    BY <1>6 DEF FinalHook, CallSyncHook, runVars
  <2>2. \A n \in Outputs : served[n] \subseteq served'[n]
    <3>1. \/ served' = served
          \/ served' = [served EXCEPT ![m] = @ \cup {currentTime}]
      BY <2>1, HookOutcome DEF SyncPoint
    <3> QED BY <3>1 DEF SyncPointsTypeOK
  <2>3. \A n \in Outputs, d \in Nat : Handled(n, d) => Handled(n, d)'
    BY <2>1, <2>2 DEF Handled
  <2> QED BY <1>1, <2>1, <2>3 DEF DueInv
<1>7. ASSUME NEW m \in Outputs, WriteDone(m) PROVE DueInv'
  BY <1>7 DEF WriteDone, DueInv, Handled, moduleVars, runVars
<1>8. CASE Over \/ UNCHANGED vars
  BY <1>8 DEF Over, vars, DueInv, Handled, moduleVars, diskVars, runVars
<1> QED
  BY <1>3, <1>4, <1>5, <1>6, <1>7, <1>8

\* For any modules, intervals, crashes and restarts no multiple of an interval
\* is passed over, provided that no two points of time are so close that a start
\* at the one takes the other for itself, but a running module does not
\* (Module.cpp:20-49, Modules.cpp:71-80, Simulator.cpp:93-119).
THEOREM DuePointsAreServed ==
    ASSUME PointsApart
    PROVE  Spec => []EveryDuePointIsServed
<1>1. Init => DueInv
  <2>1. ASSUME NEW m \in StartHook, NEW d \in Multiples(m)
        PROVE  ~(d + TimeTolerance <= 0)
    <3>1. d \in Nat \ {0} /\ TimeTolerance \in Nat
      BY MultiplesType
    <3> QED BY <3>1
  <2> QED BY <2>1 DEF Init, DueInv
<1>2. Init => PastInv
  BY DEF Init, PastInv, Never
<1>3. SyncPointsTypeOK /\ PastInv /\ [Next]_vars => PastInv'
  BY PastStep
<1>4. SyncPointsTypeOK /\ PastInv /\ PointsInv /\ DueInv /\ [Next]_vars => DueInv'
  <2> SUFFICES ASSUME SyncPointsTypeOK, PastInv, PointsInv, DueInv, [Next]_vars PROVE DueInv'
    OBVIOUS
  <2>1. ASSUME NEW t \in Checkpoints \cup {0}, Start(t) PROVE DueInv'
    <3>1. t \in 0..currentTime /\ t \in Points
      BY DEF Checkpoints, PastInv, PointsInv, Points, SyncPointsTypeOK
    <3> QED BY <2>1, <3>1, StartServes
  <2>2. CASE AdvanceInTime
    BY <2>2, AdvanceInTimeServes
  <2>3. ASSUME NEW m \in Outputs, Hook(m) PROVE DueInv'
    BY <2>3, HookServes
  <2> QED
    BY <2>1, <2>2, <2>3, OthersServe DEF Next, Run, Restart
<1>5. SyncPointsTypeOK /\ DueInv => EveryDuePointIsServed
  <2> SUFFICES ASSUME SyncPointsTypeOK, DueInv, HooksComplete,
                      NEW m \in StartHook, NEW d \in DueTimes(m, currentTime)
               PROVE  Handled(m, d)
    BY DEF EveryDuePointIsServed, Handled
  <2>1. currentTime \in Nat /\ nextSyncPoint[m] \in Nat
    BY DEF SyncPointsTypeOK
  <2>2. d \in Multiples(m) /\ d <= currentTime /\ d \in Nat
    BY <2>1, DueTimesAreMultiples, MultiplesType
  <2>3. CASE phase = "loop"
    <3>1. nextSyncPoint[m] > currentTime
      BY <2>3 DEF DueInv
    <3> QED BY <2>1, <2>2, <2>3, <3>1 DEF DueInv
  <2>4. CASE phase \in {"end", "done"}
    BY <2>2, <2>4 DEF DueInv
  <2> QED BY <2>3, <2>4 DEF HooksComplete
<1>6. Init => PointsInv
  BY DEF Init, PointsInv, Points, Never
<1>7. SyncPointsTypeOK /\ PointsInv /\ [Next]_vars => PointsInv'
  BY PointsStep
<1> QED
  BY <1>1, <1>2, <1>3, <1>4, <1>5, <1>6, <1>7, SyncPointsTypesHold, PTL DEF Spec

----------------------------------------------------------------------------
(* The outputs of a run are complete *)

\* The tolerance is far below the intervals: 1e-5 of the smallest time step
\* (TimeManager.cpp:362), while an interval spans several of them.
IntervalsAboveTolerance ==
    \A m \in Outputs : 2 * TimeTolerance <= Interval[m]

\* An output of this run is on the disk or being written, its number is that
\* of an earlier point of time, and no other one has the number of the file
\* that is being written.
Kept(m) ==
    \A w \in OutputsOfThisRun(m) :
        /\ w \in files[m] \/ w = pending[m]
        /\ WriteCount(m, w) * Interval[m] < nextSyncPoint[m]
        /\ pending[m] \notin {Never, w} => WriteCount(m, w) # WriteCount(m, pending[m])

\* The same at the end of a run, but for the output whose number the last one takes.
KeptToTheEnd(m) ==
    \A w \in OutputsOfThisRun(m) :
        \/ TakenAtTheEnd(m, w)
        \/ /\ w \in files[m] \/ w = pending[m]
           /\ pending[m] \notin {Never, w} => WriteCount(m, w) # WriteCount(m, pending[m])

\* A module that was not given its start time lets no epoch begin.
FilesInv ==
    /\ phase \in {"loop", "hooks"} => \A m \in Outputs : Kept(m)
    /\ phase = "final" => /\ \A m \in todo : Kept(m)
                          /\ \A m \in Outputs \ todo : KeptToTheEnd(m)
    /\ phase \in {"end", "done"} => \A m \in Outputs : KeptToTheEnd(m)
    /\ phase = "done" => \A m \in Outputs : pending[m] = Never
    /\ \A m \in Outputs \ StartHook :
           phase # "hooks" /\ (phase = "loop" => upcomingTime <= 0)

\* An output within the tolerance of the k-th point has the number k.
LEMMA CountOfPoint ==
    ASSUME NEW m \in Outputs, NEW k \in Nat, NEW w \in Nat,
           2 * TimeTolerance <= Interval[m], Within(k * Interval[m], w, TimeTolerance)
    PROVE  WriteCount(m, w) = k
<1> DEFINE i == Interval[m]
           q == (2 * w + i) \div (2 * i)
           r == (2 * w + i) % (2 * i)
<1>1. i \in Nat \ {0} /\ 2 * i \in Nat \ {0} /\ 2 * w + i \in Int
  OBVIOUS
<1>2. q \in Int /\ r \in 0..(2 * i - 1) /\ 2 * w + i = (2 * i) * q + r
  <2> HIDE DEF i
  <2> QED BY <1>1, DivisionFacts
<1>3. k * i - w < TimeTolerance /\ w - k * i < TimeTolerance /\ 2 * TimeTolerance <= i
  BY DEF Within
<1>4. TimeTolerance \in Nat
  OBVIOUS
<1>5. WriteCount(m, w) = q
  BY DEF WriteCount
<1> HIDE DEF i, q, r
<1>6. k * i \in Int /\ i * q \in Int /\ (2 * i) * q = 2 * (i * q) /\ i * (q - k) = i * q - k * i
  BY <1>1, <1>2
<1>7. 2 * (i * (q - k)) < 2 * i /\ 2 * (i * (q - k)) > -(2 * i)
  BY <1>1, <1>2, <1>3, <1>4, <1>6
<1>8. ~(q - k >= 1)
  <2>1. SUFFICES ASSUME q - k >= 1 PROVE FALSE
    OBVIOUS
  <2>2. i * (q - k - 1) >= 0
    BY <1>1, <1>2, <2>1
  <2>3. i * (q - k - 1) = i * (q - k) - i
    BY <1>1, <1>2
  <2> QED BY <1>1, <1>2, <1>6, <1>7, <2>2, <2>3
<1>9. ~(q - k <= -1)
  <2>1. SUFFICES ASSUME q - k <= -1 PROVE FALSE
    OBVIOUS
  <2>2. i * (k - q - 1) >= 0
    BY <1>1, <1>2, <2>1
  <2>3. i * (k - q - 1) = -(i * (q - k)) - i
    BY <1>1, <1>2
  <2> QED BY <1>1, <1>2, <1>6, <1>7, <2>2, <2>3
<1> QED
  BY <1>2, <1>5, <1>8, <1>9

\* A call that starts an output: the one before is complete, and the others of
\* this run keep their files.
LEMMA CallKeeps ==
    ASSUME SyncPointsTypeOK, NEW m \in Outputs, Kept(m), SyncPoint(m),
           UNCHANGED <<currentTime, resumedAt>>
    PROVE  /\ pending'[m] = currentTime
           /\ \A w \in OutputsOfThisRun(m)' :
                  \/ w = currentTime
                  \/ w \in OutputsOfThisRun(m) /\ w \in files'[m]
<1>1. /\ pending' = [pending EXCEPT ![m] = currentTime]
      /\ files' = [files EXCEPT ![m] = Finished(m)]
      /\ served' = [served EXCEPT ![m] = @ \cup {currentTime}]
  BY DEF SyncPoint
<1>2. /\ pending'[m] = currentTime /\ files'[m] = Finished(m)
      /\ served'[m] = served[m] \cup {currentTime}
  BY <1>1 DEF SyncPointsTypeOK
<1>3. ASSUME NEW w \in OutputsOfThisRun(m) PROVE w \in Finished(m)
  <2>1. w \in Nat
    BY DEF OutputsOfThisRun, SyncPointsTypeOK
  <2> QED BY <2>1 DEF Kept, Finished, Truncated, Never
<1>4. ASSUME NEW w \in OutputsOfThisRun(m)', w # currentTime PROVE w \in OutputsOfThisRun(m)
  BY <1>2, <1>4 DEF OutputsOfThisRun
<1> QED
  BY <1>2, <1>3, <1>4

\* What is not touched stays complete.
LEMMA KeptStays ==
    ASSUME SyncPointsTypeOK, NEW m \in Outputs,
           served'[m] = served[m], files'[m] = files[m], pending'[m] = pending[m],
           resumedAt' = resumedAt
    PROVE  /\ Kept(m) /\ nextSyncPoint'[m] = nextSyncPoint[m] => Kept(m)'
           /\ KeptToTheEnd(m) /\ currentTime' = currentTime => KeptToTheEnd(m)'
BY DEF Kept, KeptToTheEnd, TakenAtTheEnd, OutputsOfThisRun, WriteCount

\* A finished writer thread only adds a file of a number of its own.
LEMMA FinishKeeps ==
    ASSUME SyncPointsTypeOK, NEW m \in Outputs,
           served'[m] = served[m], files'[m] = Finished(m), pending'[m] = Never,
           resumedAt' = resumedAt
    PROVE  /\ Kept(m) /\ nextSyncPoint'[m] = nextSyncPoint[m] => Kept(m)'
           /\ KeptToTheEnd(m) /\ currentTime' = currentTime => KeptToTheEnd(m)'
<1>1. OutputsOfThisRun(m)' = OutputsOfThisRun(m)
  BY DEF OutputsOfThisRun
<1>2. Finished(m) = IF pending[m] = Never THEN files[m]
                    ELSE {f \in files[m] : WriteCount(m, f) # WriteCount(m, pending[m])}
                             \cup {pending[m]}
  BY DEF Finished, Truncated
<1>3. \A w \in OutputsOfThisRun(m) : w \in Nat
  BY DEF OutputsOfThisRun, SyncPointsTypeOK
<1>4. ASSUME NEW w \in OutputsOfThisRun(m), w \in files[m] \/ w = pending[m],
             pending[m] \notin {Never, w} => WriteCount(m, w) # WriteCount(m, pending[m])
      PROVE  w \in Finished(m)
  BY <1>2, <1>3, <1>4 DEF Never
<1>5. \A w : WriteCount(m, w)' = WriteCount(m, w)
  BY DEF WriteCount
<1> QED
  BY <1>1, <1>4, <1>5 DEF Kept, KeptToTheEnd, TakenAtTheEnd

\* A start has no outputs of its own yet.
LEMMA StartKeeps ==
    ASSUME SyncPointsTypeOK, NEW t \in Nat, Start(t)
    PROVE  FilesInv'
<1>1. phase' = "loop" /\ t \in resumedAt'
  BY DEF Start
<1>2. ASSUME NEW m \in Outputs, NEW w \in OutputsOfThisRun(m)' PROVE FALSE
  <2>1. w \in served'[m] /\ w > t
    BY <1>1, <1>2 DEF OutputsOfThisRun
  <2>2. served'[m] \subseteq {v \in served[m] : v <= t} \cup {0}
    BY DEF Start
  <2>3. served[m] \subseteq Nat
    BY DEF SyncPointsTypeOK
  <2> QED BY <2>1, <2>2, <2>3
<1>3. ASSUME NEW m \in Outputs \ StartHook PROVE upcomingTime' <= 0
  <2>1. nextSyncPoint' = [n \in Outputs |-> IF n \in Started THEN FirstSyncPoint(n, t) ELSE 0]
    BY DEF Start
  <2>2. nextSyncPoint'[m] = 0
    BY <2>1 DEF Started
  <2> QED BY <2>2, StartFacts
<1> QED
  BY <1>1, <1>2, <1>3 DEF FilesInv, Kept

\* The call of a module at its point of time.
LEMMA HookKeeps ==
    ASSUME IntervalsAboveTolerance, SyncPointsTypeOK, PastInv, FilesInv,
           NEW m \in Outputs, Hook(m)
    PROVE  FilesInv'
<1>1. /\ phase = "hooks" /\ phase' \in {"hooks", "loop"}
      /\ currentTime' = currentTime /\ resumedAt' = resumedAt
      /\ PotentialSyncPoint(m, FALSE)
  BY DEF Hook, CallSyncHook, runVars
<1>2. Outputs \ StartHook = {} /\ \A n \in Outputs : Kept(n)
  BY <1>1 DEF FilesInv
<1> SUFFICES ASSUME NEW n \in Outputs PROVE Kept(n)'
  BY <1>1, <1>2 DEF FilesInv
<1>3. CASE UNCHANGED <<nextSyncPoint, lastSyncPoint, served, files, pending>>
  BY <1>1, <1>2, <1>3, KeptStays
<1>4. CASE /\ Due(m) /\ SyncPoint(m)
           /\ nextSyncPoint' = [nextSyncPoint EXCEPT ![m] = @ + Interval[m]]
  <2>1. CASE n # m
    <3>1. /\ served'[n] = served[n] /\ files'[n] = files[n] /\ pending'[n] = pending[n]
          /\ nextSyncPoint'[n] = nextSyncPoint[n]
      BY <1>4, <2>1 DEF SyncPoint, SyncPointsTypeOK
    <3> QED BY <1>1, <1>2, <3>1, KeptStays
  <2>2. CASE n = m
    <3>1. PICK k \in Nat \ {0} : nextSyncPoint[m] = k * Interval[m]
      BY <1>1, <1>2 DEF PastInv
    <3>2. k \in Nat /\ currentTime \in Nat /\ Interval[m] \in Nat \ {0}
      BY DEF SyncPointsTypeOK
    <3>3. WriteCount(m, currentTime) = k
      BY <1>4, <3>1, <3>2, CountOfPoint DEF Due, IntervalsAboveTolerance
    <3>4. nextSyncPoint'[m] = nextSyncPoint[m] + Interval[m]
      BY <1>4 DEF SyncPointsTypeOK
    <3>5. WriteCount(m, currentTime) * Interval[m] < nextSyncPoint'[m]
      BY <3>1, <3>2, <3>3, <3>4
    <3>6. /\ pending'[m] = currentTime
          /\ \A w \in OutputsOfThisRun(m)' :
                 w = currentTime \/ (w \in OutputsOfThisRun(m) /\ w \in files'[m])
      BY <1>1, <1>2, <1>4, CallKeeps
    <3>7. ASSUME NEW w \in OutputsOfThisRun(m)
          PROVE  /\ WriteCount(m, w) * Interval[m] < nextSyncPoint'[m]
                 /\ WriteCount(m, w) # WriteCount(m, currentTime)
      <4>1. w \in Nat /\ nextSyncPoint[m] \in Nat
        BY DEF OutputsOfThisRun, SyncPointsTypeOK
      <4>2. 2 * w + Interval[m] \in Int /\ 2 * Interval[m] \in Nat \ {0}
        BY <3>2, <4>1
      <4>3. WriteCount(m, w) \in Int
        BY <4>2, DivisionFacts DEF WriteCount
      <4>4. WriteCount(m, w) * Interval[m] < nextSyncPoint[m]
        BY <1>2 DEF Kept
      <4>5. WriteCount(m, w) * Interval[m] \in Int
        BY <3>2, <4>3
      <4> QED BY <3>1, <3>2, <3>3, <3>4, <4>1, <4>4, <4>5
    <3>8. \A w : WriteCount(m, w)' = WriteCount(m, w)
      BY DEF WriteCount
    <3> QED BY <2>2, <3>5, <3>6, <3>7, <3>8 DEF Kept
  <2> QED BY <2>1, <2>2
<1> QED
  BY <1>1, <1>3, <1>4, HookOutcome

\* The last, forced call of a module may take the number of the output before.
LEMMA FinalHookKeeps ==
    ASSUME SyncPointsTypeOK, FilesInv, NEW m \in Outputs, FinalHook(m)
    PROVE  FilesInv'
<1>1. /\ phase = "final" /\ m \in todo /\ todo' = todo \ {m}
      /\ phase' = IF todo = {m} THEN "end" ELSE "final"
      /\ currentTime' = currentTime /\ resumedAt' = resumedAt
      /\ PotentialSyncPoint(m, TRUE)
  BY DEF FinalHook, CallSyncHook, runVars
<1>2. /\ \A n \in todo : n \in Outputs /\ Kept(n)
      /\ \A n \in Outputs \ todo : KeptToTheEnd(n)
  BY <1>1 DEF FilesInv, SyncPointsTypeOK
<1>3. ASSUME NEW n \in Outputs, n # m
      PROVE  /\ served'[n] = served[n] /\ files'[n] = files[n] /\ pending'[n] = pending[n]
             /\ nextSyncPoint'[n] = nextSyncPoint[n]
  <2>1. \/ UNCHANGED <<nextSyncPoint, served, files, pending>>
        \/ SyncPoint(m) /\ nextSyncPoint' = [nextSyncPoint EXCEPT ![m] = @ + Interval[m]]
    BY <1>1, HookOutcome
  <2> QED BY <1>3, <2>1 DEF SyncPoint, SyncPointsTypeOK
<1>4. KeptToTheEnd(m)'
  <2>1. CASE UNCHANGED <<nextSyncPoint, lastSyncPoint, served, files, pending>>
    <3>1. KeptToTheEnd(m)
      BY <1>1, <1>2 DEF Kept, KeptToTheEnd
    <3> QED BY <1>1, <2>1, <3>1, KeptStays
  <2>2. CASE SyncPoint(m)
    <3>1. /\ pending'[m] = currentTime
          /\ \A w \in OutputsOfThisRun(m)' :
                 w = currentTime \/ (w \in OutputsOfThisRun(m) /\ w \in files'[m])
      BY <1>1, <1>2, <2>2, CallKeeps
    <3>2. currentTime \in served'[m]
      BY <2>2 DEF SyncPoint, SyncPointsTypeOK
    <3> QED BY <1>1, <3>1, <3>2 DEF KeptToTheEnd, TakenAtTheEnd, WriteCount
  <2> QED BY <1>1, <2>1, <2>2, HookOutcome
<1>5. ASSUME NEW n \in todo' PROVE Kept(n)'
  <2>1. n \in Outputs /\ n # m /\ Kept(n)
    BY <1>1, <1>2, <1>5
  <2> QED BY <1>1, <1>3, <2>1, KeptStays
<1>6. ASSUME NEW n \in Outputs \ todo' PROVE KeptToTheEnd(n)'
  <2>1. CASE n # m
    <3>1. KeptToTheEnd(n)
      BY <1>1, <1>2, <1>6, <2>1
    <3> QED BY <1>1, <1>3, <1>6, <2>1, <3>1, KeptStays
  <2> QED BY <1>4, <2>1
<1>7. phase' = "end" => todo' = {}
  BY <1>1
<1> QED
  BY <1>1, <1>5, <1>6, <1>7 DEF FilesInv

\* Every step keeps the outputs of the run.
LEMMA FilesStep ==
    ASSUME IntervalsAboveTolerance, SyncPointsTypeOK, PastInv, FilesInv, [Next]_vars
    PROVE  FilesInv'
<1>1. ASSUME NEW t \in Checkpoints \cup {0}, Start(t) PROVE FilesInv'
  <2>1. t \in Nat
    BY DEF Checkpoints, SyncPointsTypeOK
  <2> QED BY <1>1, <2>1, StartKeeps
<1>2. CASE AdvanceInTime
  <2>1. /\ phase = "loop" /\ phase' = "hooks" /\ upcomingTime >= currentTime + TimeTolerance
        /\ UNCHANGED <<nextSyncPoint, served, files, pending, resumedAt>>
    BY <1>2 DEF AdvanceInTime, Advances, moduleVars, diskVars, runVars
  <2>2. upcomingTime > 0
    BY <2>1 DEF SyncPointsTypeOK
  <2>3. upcomingTime \in Nat
    BY DEF SyncPointsTypeOK
  <2>4. Outputs \ StartHook = {}
    BY <2>1, <2>2, <2>3 DEF FilesInv
  <2>5. \A n \in Outputs : Kept(n)'
    BY <2>1, KeptStays DEF FilesInv
  <2> QED BY <2>1, <2>4, <2>5 DEF FilesInv
<1>3. CASE Leave
  <2>1. /\ phase = "loop" /\ phase' \in {"failed", "final"} /\ todo' = Outputs
        /\ UNCHANGED <<currentTime, nextSyncPoint, served, files, pending, resumedAt>>
    BY <1>3 DEF Leave, moduleVars, diskVars, runVars
  <2>2. \A n \in Outputs : Kept(n)'
    BY <2>1, KeptStays DEF FilesInv
  <2> QED BY <2>1, <2>2 DEF FilesInv
<1>4. ASSUME NEW m \in Outputs, WriteDone(m) PROVE FilesInv'
  <2>1. /\ UNCHANGED <<phase, currentTime, upcomingTime, todo, nextSyncPoint, served, resumedAt>>
        /\ pending[m] # Never
        /\ files' = [files EXCEPT ![m] = Finished(m)]
        /\ pending' = [pending EXCEPT ![m] = Never]
    BY <1>4 DEF WriteDone, moduleVars, runVars
  <2>2. ASSUME NEW n \in Outputs
        PROVE  (Kept(n) => Kept(n)') /\ (KeptToTheEnd(n) => KeptToTheEnd(n)')
    <3>1. CASE n = m
      BY <2>1, <3>1, FinishKeeps DEF SyncPointsTypeOK
    <3>2. CASE n # m
      BY <2>1, <3>2, KeptStays DEF SyncPointsTypeOK
    <3> QED BY <3>1, <3>2
  <2>3. ASSUME NEW n \in Outputs, pending[n] = Never PROVE pending'[n] = Never
    BY <2>1, <2>3 DEF SyncPointsTypeOK
  <2>4. todo \subseteq Outputs
    BY DEF SyncPointsTypeOK
  <2> QED BY <2>1, <2>2, <2>3, <2>4 DEF FilesInv
<1>5. CASE End
  <2>1. /\ phase = "end" /\ phase' = "done"
        /\ UNCHANGED <<currentTime, nextSyncPoint, served, resumedAt>>
        /\ \A n \in Outputs : files'[n] = Finished(n) /\ pending'[n] = Never
    BY <1>5 DEF End, moduleVars, runVars
  <2>2. \A n \in Outputs : KeptToTheEnd(n)'
    BY <2>1, FinishKeeps DEF FilesInv
  <2> QED BY <2>1, <2>2 DEF FilesInv
<1>6. CASE Crash
  BY <1>6 DEF Crash, FilesInv
<1>7. CASE Over \/ UNCHANGED vars
  <2>1. UNCHANGED vars
    BY <1>7 DEF Over
  <2> QED
    BY <2>1 DEF vars, moduleVars, diskVars, runVars, FilesInv, Kept, KeptToTheEnd,
                TakenAtTheEnd, OutputsOfThisRun, WriteCount
<1> QED
  BY <1>1, <1>2, <1>3, <1>4, <1>5, <1>6, <1>7, HookKeeps, FinalHookKeeps
     DEF Next, Run, Restart

\* For any modules, intervals, crashes and restarts, a run that ends has every
\* output since its start in a complete file, that at its last time too, except
\* one whose number the output at the last time has taken (WriterModule.cpp:79-87
\* and 183-186).
THEOREM RunsKeepTheirOutputs ==
    ASSUME IntervalsAboveTolerance
    PROVE  Spec => []OutputsAreComplete
<1>1. Init => FilesInv
  <2>1. Init => phase = "down"
    BY DEF Init
  <2> QED BY <2>1 DEF FilesInv
<1>2. Init => PastInv
  BY DEF Init, PastInv, Never
<1>3. SyncPointsTypeOK /\ PastInv /\ [Next]_vars => PastInv'
  BY PastStep
<1>4. SyncPointsTypeOK /\ PastInv /\ FilesInv /\ [Next]_vars => FilesInv'
  BY FilesStep
<1>5. SyncPointsTypeOK /\ FilesInv => OutputsAreComplete
  <2>1. ASSUME SyncPointsTypeOK, NEW m \in Outputs, NEW w \in OutputsOfThisRun(m)
        PROVE  w # Never
    <3>1. w \in Nat
      BY <2>1 DEF SyncPointsTypeOK, OutputsOfThisRun
    <3> QED BY <3>1 DEF Never
  <2> QED BY <2>1 DEF FilesInv, KeptToTheEnd, OutputsAreComplete
<1> QED
  BY <1>1, <1>2, <1>3, <1>4, <1>5, SyncPointsTypesHold, PTL DEF Spec

=============================================================================
