---------------------------- MODULE HelperThread ----------------------------
(***************************************************************************)
(* The helper thread of ThreadedCommunicationManager and the main thread    *)
(* that stops, resets and starts it at every call of advanceInTime.  Each   *)
(* load, store and call on an atomic flag or a ghost cluster is a step.     *)
(*                                                                         *)
(* A ghost cluster is here only what poll() sees of it: "fresh" after its   *)
(* reset, "running" after its first act, "synced" at the end; GhostClusters *)
(* has the rest.  Its first act makes a fresh one run.                      *)
(***************************************************************************)
EXTENDS Integers, Sequences

CONSTANTS
    Ghosts,      \* the ghost clusters of the rank, a sequence of names
    Advances     \* how often advanceInTime is called

ASSUME HelperAssumption == Advances \in Nat \ {0} /\ Len(Ghosts) \in Nat \ {0}

VARIABLES
    main,          \* what the main thread does next
    calls,         \* calls of advanceInTime so far
    helper,        \* what the helper thread does next, "none" when there is none
    shouldReset, isFinished,
    ghost,         \* state of each ghost cluster
    at,            \* the ghost cluster the loop of reset() or poll() has reached
    finished       \* the local variable of poll()

flags == <<shouldReset, isFinished>>
pollVars == <<helper, finished>>
helperVars == <<main, calls, pollVars, flags, ghost, at>>

Names == 1..Len(Ghosts)

joinable == helper # "none"

HelperInit ==
    /\ main = "idle" /\ calls = 0
    /\ helper = "none"
    /\ shouldReset = FALSE /\ isFinished = FALSE
    /\ ghost = [g \in Names |-> "synced"]
    /\ at = 1
    /\ finished = TRUE

----------------------------------------------------------------------------
(* The main thread *)

AdvanceInTime ==
    /\ main = "idle"
    /\ calls < Advances
    /\ calls' = calls + 1
    /\ main' = "stop"
    /\ UNCHANGED <<pollVars, flags, ghost, at>>

StoreShouldReset ==
    /\ main = "stop"
    /\ shouldReset' = TRUE
    /\ main' = "join"
    /\ UNCHANGED <<calls, pollVars, isFinished, ghost, at>>

\* Mutant of Join: the flag is set and the thread is not waited for.
DoNotJoin ==
    /\ main = "join"
    /\ main' = "reset"
    /\ at' = 1
    /\ UNCHANGED <<calls, helper, finished, flags, ghost>>

\* join() waits for the end of the thread; afterwards it is not joinable.
Join ==
    /\ main = "join"
    /\ helper \in {"none", "ended"}
    /\ helper' = "none"
    /\ main' = "reset"
    /\ at' = 1
    /\ UNCHANGED <<calls, finished, flags, ghost>>

\* AbstractCommunicationManager::reset, one ghost cluster at a time.
ResetGhost ==
    /\ main = "reset"
    /\ ghost' = [ghost EXCEPT ![at] = "fresh"]
    /\ at' = IF at = Len(Ghosts) THEN 1 ELSE at + 1
    /\ main' = IF at = Len(Ghosts) THEN "start" ELSE "reset"
    /\ UNCHANGED <<calls, pollVars, flags>>

\* Mutants of ClearFlags: isFinished keeps its value, shouldReset keeps its.
ClearShouldReset == shouldReset' = FALSE /\ UNCHANGED isFinished
ClearIsFinished == isFinished' = FALSE /\ UNCHANGED shouldReset

ClearFlags == shouldReset' = FALSE /\ isFinished' = FALSE

\* start(): no other thread runs, so both stores are one step.
Start ==
    /\ main = "start"
    /\ IF joinable THEN UNCHANGED <<helper, flags>>
       ELSE ClearFlags /\ helper' = "loadShouldReset"
    /\ main' = "loop"
    /\ UNCHANGED <<calls, finished, ghost, at>>

\* The main loop ends when the cell clusters, which do not appear here, are
\* synced and checkIfFinished() returns TRUE.
Return ==
    /\ main = "loop"
    /\ isFinished
    /\ main' = "idle"
    /\ UNCHANGED <<calls, pollVars, flags, ghost, at>>

\* The loop goes on; the helper thread does the work.
KeepPolling == main = "loop" /\ ~isFinished /\ UNCHANGED helperVars

\* freeDynamicResources() destroys the manager; the destructor joins.
Destroy ==
    /\ main = "idle" /\ calls = Advances
    /\ helper = "ended"
    /\ helper' = "none"
    /\ main' = "destroyed"
    /\ UNCHANGED <<calls, finished, flags, ghost, at>>

MainNext ==
    \/ AdvanceInTime \/ StoreShouldReset \/ Join \/ ResetGhost \/ Start
    \/ KeepPolling \/ Return \/ Destroy

----------------------------------------------------------------------------
(* The helper thread: while (!shouldReset && !isFinished) isFinished = poll() *)

LoadShouldReset ==
    /\ helper = "loadShouldReset"
    /\ helper' = IF shouldReset THEN "ended" ELSE "loadIsFinished"
    /\ UNCHANGED <<main, calls, finished, flags, ghost, at>>

LoadIsFinished ==
    /\ helper = "loadIsFinished"
    /\ helper' = IF isFinished THEN "ended" ELSE "poll"
    /\ at' = IF isFinished THEN at ELSE 1
    /\ finished' = TRUE
    /\ UNCHANGED <<main, calls, flags, ghost>>

\* A running ghost cluster may stay so for any number of acts.
AfterAct(g) ==
    (IF ghost[g] = "synced" THEN {} ELSE {"running"})
        \cup (IF ghost[g] = "fresh" THEN {} ELSE {"synced"})

Conjoin(before, synced) == before /\ synced

\* poll(): act() on one ghost cluster and the test of its state.
ActOnGhost ==
    /\ helper = "poll"
    /\ \E s \in AfterAct(at) :
           /\ ghost' = [ghost EXCEPT ![at] = s]
           /\ finished' = Conjoin(finished, s = "synced")
    /\ at' = IF at = Len(Ghosts) THEN 1 ELSE at + 1
    /\ helper' = IF at = Len(Ghosts) THEN "store" ELSE "poll"
    /\ UNCHANGED <<main, calls, flags>>

StoreIsFinished ==
    /\ helper = "store"
    /\ isFinished' = finished
    /\ helper' = "loadShouldReset"
    /\ UNCHANGED <<main, calls, finished, shouldReset, ghost, at>>

HelperThreadNext == LoadShouldReset \/ LoadIsFinished \/ ActOnGhost \/ StoreIsFinished

Over == main = "destroyed" /\ UNCHANGED helperVars

HelperNext == MainNext \/ HelperThreadNext \/ Over

HelperSpec == HelperInit /\ [][HelperNext]_helperVars

\* A ghost cluster that keeps being polled is synced at last.
BecomesSynced(g) == ghost[g] = "running" /\ ActOnGhost /\ ghost'[g] = "synced"

HelperFairSpec ==
    /\ HelperSpec
    /\ WF_helperVars(MainNext)
    /\ WF_helperVars(HelperThreadNext)
    /\ \A g \in Names : SF_helperVars(BecomesSynced(g))

----------------------------------------------------------------------------

\* Types of the two program counters and the flags.
HelperTypeOK ==
    /\ main \in {"idle", "stop", "join", "reset", "start", "loop", "destroyed"}
    /\ calls \in 0..Advances
    /\ helper \in {"none", "ended", "loadShouldReset", "loadIsFinished", "poll", "store"}
    /\ shouldReset \in BOOLEAN /\ isFinished \in BOOLEAN
    /\ ghost \in [Names -> {"fresh", "running", "synced"}]
    /\ at \in Names
    /\ finished \in BOOLEAN

\* Outside of advanceInTime's polling loop the ghost clusters belong to the main
\* thread: it resets and destroys them without a lock
\* (CommunicationManager.cpp:75-79), so the helper must not act on them then.
NoActDuringReset == main \in {"reset", "start", "destroyed"} => helper \in {"none", "ended"}

\* advanceInTime never returns before every ghost cluster has restarted and
\* been synced in this call (HelperThread.cpp:23, 50-52, TimeManager.cpp:345).
ReturnsWhenSynced == main = "idle" => \A g \in Names : ghost[g] = "synced"

\* Each call returns although a joined, stopped or finished thread is started
\* anew each time, and the destructor returns (HelperThread.cpp:25-66).
EveryCallEnds == <>(main = "destroyed")

=============================================================================
