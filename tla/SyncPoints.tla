----------------------------- MODULE SyncPoints -----------------------------
(***************************************************************************)
(* The simulation loop (Simulator::simulate) and the synchronization points *)
(* of the modules: every output module wants to be called at the multiples  *)
(* of its interval, one advanceInTime leads from each synchronization point *)
(* to the next, and a run may crash and start again from a checkpoint.      *)
(*                                                                         *)
(* The modules are writers like WriterModule.  Times are integer ticks.     *)
(* The hooks of one synchronization point run in any order; the code runs   *)
(* them by priority.                                                       *)
(***************************************************************************)
EXTENDS Integers, FiniteSets

CONSTANTS
    Outputs,          \* modules registered for SynchronizationPoint
    StartHook,        \* those registered for SimulationStart as well
    Checkpoint,       \* the module that writes the checkpoints
    Aborter,          \* the module that may call Simulator::abort
    Interval,         \* isyncInterval of each module
    FinalTime,
    TimeTolerance,    \* getTimeTolerance()
    StartTolerance,   \* the 1e-6 of setSimulationStartTime
    MaxRestarts       \* bound on the number of crashes

ASSUME SyncPointsAssumption ==
    /\ Outputs # {} /\ StartHook \subseteq Outputs
    /\ Interval \in [Outputs -> Nat \ {0}]
    /\ {FinalTime, TimeTolerance, StartTolerance} \subseteq Nat \ {0}
    /\ MaxRestarts \in Nat

Never == -1

VARIABLES
    phase,                          \* where Simulator::simulate is
    currentTime, upcomingTime, aborted,
    nextSyncPoint, lastSyncPoint,   \* of each module; Never stands for -infinity
    todo,                           \* modules _callSyncHook has not reached yet
    served,                         \* per module: the times syncPoint was called at
    files,                          \* per module: the outputs that are complete
    pending,                        \* per module: the output being written, or Never
    resumedAt,                      \* start times of the runs, the present one included
    restarts

moduleVars == <<nextSyncPoint, lastSyncPoint>>
diskVars == <<served, files, pending>>
runVars == <<resumedAt, restarts>>
vars == <<phase, currentTime, upcomingTime, aborted, moduleVars, todo, diskVars, runVars>>

Smaller(a, b) == IF a < b THEN a ELSE b

Within(a, b, tolerance) == a # Never /\ a - b < tolerance /\ b - a < tolerance

----------------------------------------------------------------------------
(* Starting *)

\* Mutant of FirstSyncPoint: the start time of a restarted run is ignored.
FirstSyncPointOfFreshRun(m, t) == Interval[m]

\* setSimulationStartTime: the first multiple of the interval that lies at
\* least StartTolerance after t.
FirstSyncPoint(m, t) ==
    Interval[m] * ((t + StartTolerance + Interval[m] - 1) \div Interval[m])

\* callSimulationStartHook calls the modules registered for SimulationStart.
Started == StartHook

\* From the start of the program, at a checkpoint or at time 0, to the first
\* epoch.  Writers write their initial state at time 0 only, and the first
\* callSyncHook, with tolerance 0, calls none of them.  What earlier runs wrote
\* after t is written anew, and their checkpoints after t are not used again.
Start(t) ==
    LET next(m) == IF m \in Started THEN FirstSyncPoint(m, t) ELSE 0
        earliest == CHOOSE n \in {next(m) : m \in Outputs} :
                        \A m \in Outputs : n <= next(m)
        initial(m) == m \in Started /\ t = 0
    IN  /\ phase = "down"
        /\ currentTime' = t
        /\ aborted' = FALSE
        /\ nextSyncPoint' = [m \in Outputs |-> next(m)]
        /\ lastSyncPoint' = [m \in Outputs |-> IF m \in Started THEN t ELSE Never]
        /\ upcomingTime' = Smaller(FinalTime, earliest)
        /\ served' = [m \in Outputs |->
               {w \in served[m] : w <= t} \cup IF initial(m) THEN {0} ELSE {}]
        /\ files' = [m \in Outputs |-> {f \in files[m] : f <= t}]
        /\ pending' = [m \in Outputs |-> IF initial(m) THEN 0 ELSE Never]
        /\ resumedAt' = {r \in resumedAt : r <= t} \cup {t}
        /\ phase' = "loop"
        /\ todo' = {}
        /\ UNCHANGED restarts

----------------------------------------------------------------------------
(* Writing *)

\* writeCount: the output of m at time t is a file with this number.
WriteCount(m, t) == (2 * t + Interval[m]) \div (2 * Interval[m])

\* The outputs of m left when that at time t truncates the file of its number.
Truncated(m, t) == {f \in files[m] : WriteCount(m, f) # WriteCount(m, t)}

\* The outputs of m once its writer thread has finished.
Finished(m) ==
    IF pending[m] = Never THEN files[m] ELSE Truncated(m, pending[m]) \cup {pending[m]}

\* syncPoint of module m: it waits for its last output and starts the next.
SyncPoint(m) ==
    /\ served' = [served EXCEPT ![m] = @ \cup {currentTime}]
    /\ files' = [files EXCEPT ![m] = Finished(m)]
    /\ pending' = [pending EXCEPT ![m] = currentTime]

----------------------------------------------------------------------------
(* The synchronization points *)

Duplicate(m) == Within(lastSyncPoint[m], currentTime, TimeTolerance)

\* Mutant of Due: no tolerance.
DueExactly(m) == currentTime = nextSyncPoint[m]

Due(m) == Within(nextSyncPoint[m], currentTime, TimeTolerance)

\* Mutant of Following: the interval counted from an early call.
NextFromNow(m) == currentTime + Interval[m]

Following(m) == nextSyncPoint[m] + Interval[m]

\* potentialSyncPoint
PotentialSyncPoint(m, force) ==
    IF ~Duplicate(m) /\ (force \/ Due(m))
    THEN /\ SyncPoint(m)
         /\ lastSyncPoint' = [lastSyncPoint EXCEPT ![m] = currentTime]
         /\ nextSyncPoint' = [nextSyncPoint EXCEPT ![m] = Following(m)]
    ELSE UNCHANGED <<moduleVars, diskVars>>

\* One module of _callSyncHook; after the last one the loop is at phase after.
CallSyncHook(m, force, after) ==
    /\ m \in todo
    /\ PotentialSyncPoint(m, force)
    /\ upcomingTime' = Smaller(upcomingTime, nextSyncPoint'[m])
    /\ \/ UNCHANGED aborted
       \/ m = Aborter /\ lastSyncPoint'[m] # lastSyncPoint[m] /\ aborted' = TRUE
    /\ todo' = todo \ {m}
    /\ phase' = IF todo = {m} THEN after ELSE phase
    /\ UNCHANGED <<currentTime, runVars>>

----------------------------------------------------------------------------
(* Simulator::simulate *)

Continues == FinalTime > currentTime + TimeTolerance

Advances == upcomingTime >= currentTime + TimeTolerance

\* One epoch: advanceInTime to the upcoming time, then the hooks.
AdvanceInTime ==
    /\ phase = "loop" /\ Continues /\ Advances /\ ~aborted
    /\ currentTime' = upcomingTime
    /\ upcomingTime' = FinalTime
    /\ todo' = Outputs
    /\ phase' = "hooks"
    /\ UNCHANGED <<aborted, moduleVars, diskVars, runVars>>

Hook(m) == phase = "hooks" /\ CallSyncHook(m, FALSE, "loop")

\* The loop ends; "Simulator did not advance in time" ends the program.
Leave ==
    /\ phase = "loop"
    /\ ~(Continues /\ Advances /\ ~aborted)
    /\ phase' = IF Continues /\ ~Advances THEN "failed" ELSE "final"
    /\ todo' = Outputs
    /\ UNCHANGED <<currentTime, upcomingTime, aborted, moduleVars, diskVars, runVars>>

FinalHook(m) == phase = "final" /\ CallSyncHook(m, TRUE, "end")

\* The writer thread of m finishes.
WriteDone(m) ==
    /\ pending[m] # Never
    /\ phase # "down"
    /\ files' = [files EXCEPT ![m] = Finished(m)]
    /\ pending' = [pending EXCEPT ![m] = Never]
    /\ UNCHANGED <<phase, currentTime, upcomingTime, aborted, moduleVars, todo, served, runVars>>

\* Mutant of End: the last outputs are not waited for.
EndWithoutWaiting ==
    /\ phase = "end"
    /\ phase' = "done"
    /\ pending' = [m \in Outputs |-> Never]
    /\ UNCHANGED <<currentTime, upcomingTime, aborted, moduleVars, todo, served, files, runVars>>

\* simulationEnd of every module waits for its last output.
End ==
    /\ phase = "end"
    /\ phase' = "done"
    /\ files' = [m \in Outputs |-> Finished(m)]
    /\ pending' = [m \in Outputs |-> Never]
    /\ UNCHANGED <<currentTime, upcomingTime, aborted, moduleVars, todo, served, runVars>>

\* The program dies; an output that was being written is lost, and with it the
\* file of the same number if that was truncated already.
Crash ==
    /\ phase \in {"loop", "hooks", "final", "end"}
    /\ restarts < MaxRestarts
    /\ restarts' = restarts + 1
    /\ \E begun \in SUBSET {m \in Outputs : pending[m] # Never} :
           files' = [m \in Outputs |-> IF m \in begun THEN Truncated(m, pending[m])
                                        ELSE files[m]]
    /\ pending' = [m \in Outputs |-> Never]
    /\ phase' = "down"
    /\ todo' = {}
    /\ UNCHANGED <<currentTime, upcomingTime, aborted, moduleVars, served, resumedAt>>

Over == phase \in {"done", "failed"} /\ UNCHANGED vars

Checkpoints == IF Checkpoint \in Outputs THEN files[Checkpoint] ELSE {}

Restart == \E t \in Checkpoints \cup {0} : Start(t)

Init ==
    /\ phase = "down"
    /\ currentTime = 0 /\ upcomingTime = 0 /\ aborted = FALSE
    /\ nextSyncPoint = [m \in Outputs |-> 0]
    /\ lastSyncPoint = [m \in Outputs |-> Never]
    /\ todo = {}
    /\ served = [m \in Outputs |-> {}]
    /\ files = [m \in Outputs |-> {}]
    /\ pending = [m \in Outputs |-> Never]
    /\ resumedAt = {} /\ restarts = 0

Run ==
    \/ Restart \/ AdvanceInTime \/ Leave \/ End
    \/ \E m \in Outputs : Hook(m) \/ FinalHook(m)

Next == Run \/ Crash \/ Over \/ \E m \in Outputs : WriteDone(m)

Spec == Init /\ [][Next]_vars

\* A crashed run is started again and a running one keeps running; that the
\* writer thread finishes on its own is not assumed.
FairSpec == Spec /\ WF_vars(Run)

----------------------------------------------------------------------------

\* Types of the loop, the modules and the disk.
SyncPointsTypeOK ==
    /\ phase \in {"down", "loop", "hooks", "final", "end", "done", "failed"}
    /\ currentTime \in 0..FinalTime /\ upcomingTime \in 0..FinalTime
    /\ aborted \in BOOLEAN
    /\ nextSyncPoint \in [Outputs -> Nat]
    /\ lastSyncPoint \in [Outputs -> Nat \cup {Never}]
    /\ todo \subseteq Outputs
    /\ served \in [Outputs -> SUBSET (0..FinalTime)]
    /\ files \in [Outputs -> SUBSET (0..FinalTime)]
    /\ pending \in [Outputs -> (0..FinalTime) \cup {Never}]
    /\ resumedAt \subseteq 0..FinalTime
    /\ restarts \in 0..MaxRestarts

DueTimes(m, t) == {k * Interval[m] : k \in 1..(t \div Interval[m])}

HooksComplete == phase \in {"loop", "end", "done"}

\* Once the hooks of a synchronization point have run, every module has been
\* called at every multiple of its interval reached so far, by this run or by
\* those it continues.  A point at the time of the checkpoint a run started
\* from is left out: the earlier run may have crashed before that module was
\* called (Module.cpp:20-31 and 33-49, Modules.cpp:71-80).  The types come first.
EveryDuePointIsServed ==
    /\ SyncPointsTypeOK
    /\ HooksComplete =>
        \A m \in StartHook : \A d \in DueTimes(m, currentTime) :
            \/ \E w \in served[m] : Within(w, d, TimeTolerance)
            \/ \E r \in resumedAt : Within(r, d, TimeTolerance)

\* A module whose turn has not come yet is never called early: outputs stand at
\* a multiple of the interval, up to the tolerance, or at the end of a run
\* (Module.cpp:24-28).
OutputsOnSchedule ==
    \A m \in StartHook : \A w \in served[m] :
        \/ \E d \in DueTimes(m, w + TimeTolerance) \cup {0} : Within(w, d, TimeTolerance)
        \/ w = currentTime /\ phase \in {"final", "end", "done", "down"}
        \/ w \in resumedAt

\* The outputs this run has made since its start.
OutputsOfThisRun(m) == {w \in served[m] : \A r \in resumedAt : w > r}

\* The forced output at the end of the run truncates the file of w.
TakenAtTheEnd(m, w) ==
    /\ w # currentTime /\ currentTime \in served[m]
    /\ WriteCount(m, w) = WriteCount(m, currentTime)

\* When a run is over, each output since its start is a complete file, the one
\* at its last time included: the writer threads lose none of them.  Only the
\* output whose number that at the last time took is gone (WriterModule.cpp:79-87
\* and 183-186).
OutputsAreComplete ==
    phase = "done" =>
        \A m \in Outputs : \A w \in OutputsOfThisRun(m) :
            w \in files[m] \/ TakenAtTheEnd(m, w)

\* "Output is generated every printtimeinterval_sec" (docs/fault-output.rst:62):
\* all outputs of a run are there when it is over.
EveryOutputIsKept ==
    phase = "done" => \A m \in Outputs : OutputsOfThisRun(m) \subseteq files[m]

\* The simulation never comes to a standstill between two synchronization
\* points (Simulator.cpp:94-97).
AlwaysAdvances == phase # "failed"

\* Every simulation ends, with an output of each module at its last time
\* (Simulator.cpp:93-137).
EveryRunEnds ==
    <>(/\ phase = "done"
       /\ \A m \in StartHook : Within(lastSyncPoint[m], currentTime, TimeTolerance))

=============================================================================
