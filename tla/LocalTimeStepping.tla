------------------------- MODULE LocalTimeStepping -------------------------
(***************************************************************************)
(* What the message-passing clusters promise: clustered local time          *)
(* stepping in which a cluster sees the counters of its neighbours          *)
(* directly.  A cluster predicts an interval of Rate[c] unit steps, then    *)
(* corrects it; it may correct only what its neighbours have predicted and  *)
(* may predict again only when its neighbours no longer need what it would  *)
(* overwrite.  A phase ends when every cluster has corrected all its steps. *)
(***************************************************************************)
EXTENDS Integers, Sequences

CONSTANTS
    Clusters, Links, Rate,
    StepCounts     \* unit steps of each phase, rounded up

ASSUME StepCountsAssumption ==
    /\ StepCounts \in Seq(Nat \ {0})
    /\ Rate \in [Clusters -> Nat \ {0}]
    /\ \A l \in Links : l[1] # l[2]

VARIABLES
    round,         \* number of the current phase, 0 before the first
    predicted,     \* steps of this phase each cluster has predicted
    corrected      \* steps of this phase each cluster has corrected

ltsVars == <<round, predicted, corrected>>

Near(c) == {n \in Clusters : <<c, n>> \in Links}

Until == IF round = 0 THEN 0 ELSE StepCounts[round]

Done(c) == corrected[c] >= Until

LTSInit ==
    /\ round = 0
    /\ predicted = [c \in Clusters |-> 0]
    /\ corrected = [c \in Clusters |-> 0]

BeginPhase ==
    /\ round < Len(StepCounts)
    /\ \A c \in Clusters : Done(c)
    /\ round' = round + 1
    /\ predicted' = [c \in Clusters |-> 0]
    /\ corrected' = [c \in Clusters |-> 0]

\* Mutants of MayPredictNow: one comparison too weak, and one unit too strict.
OverwriteNeeded(c) == \A n \in Near(c) : predicted[c] <= corrected[n] + Rate[n]

WaitForCorrection(c) == \A n \in Near(c) : predicted[c] < corrected[n]

\* No neighbour still has to correct with the last interval of c.
MayPredictNow(c) == \A n \in Near(c) : predicted[c] < corrected[n] + Rate[n]

PredictStep(c) ==
    /\ predicted[c] = corrected[c]
    /\ ~Done(c)
    /\ MayPredictNow(c)
    /\ predicted' = [predicted EXCEPT ![c] = @ + Rate[c]]
    /\ UNCHANGED <<round, corrected>>

\* Mutant of MayCorrectNow: one interval of the neighbour too early.
CorrectUnpredicted(c) ==
    \A n \in Near(c) : predicted[n] >= Until \/ corrected[c] <= predicted[n]

\* Every neighbour has predicted as far as c, or to the end of the phase.
MayCorrectNow(c) ==
    \A n \in Near(c) : predicted[n] >= Until \/ predicted[c] <= predicted[n]

CorrectStep(c) ==
    /\ predicted[c] # corrected[c]
    /\ MayCorrectNow(c)
    /\ corrected' = [corrected EXCEPT ![c] = @ + Rate[c]]
    /\ UNCHANGED <<round, predicted>>

LTSNext == BeginPhase \/ \E c \in Clusters : PredictStep(c) \/ CorrectStep(c)

LTSSpec == LTSInit /\ [][LTSNext]_ltsVars

LTSFairSpec == LTSSpec /\ WF_ltsVars(LTSNext)

----------------------------------------------------------------------------

\* Types of the shared counters.
LTSTypeOK ==
    /\ round \in 0..Len(StepCounts)
    /\ predicted \in [Clusters -> Nat]
    /\ corrected \in [Clusters -> Nat]

\* No cluster has corrected an interval a neighbour has not predicted, unless
\* that neighbour has predicted to the end of the phase.
CorrectedWhatWasPredicted ==
    \A c \in Clusters : \A n \in Near(c) :
        corrected[c] <= predicted[n] \/ predicted[n] >= Until

\* No cluster predicts, and so overwrites the buffers of its last interval,
\* while a neighbour still has to correct with them.
NoPredictionOverwritten ==
    \A c \in Clusters : \A n \in Near(c) :
        predicted[c] # corrected[c] => corrected[c] < corrected[n] + Rate[n]

\* Every phase that begins ends with all clusters done.
EveryPhaseEnds ==
    \A r \in 1..Len(StepCounts) : (round = r) ~> (round = r /\ \A c \in Clusters : Done(c))

=============================================================================
