SPECIFICATION FairSpec
CONSTANTS
    wavefield = wavefield
    energy = energy
    checkpoint = checkpoint
    mirror = mirror
    Outputs <- Writers
    StartHook <- Writers
    Checkpoint = checkpoint
    Aborter = energy
    Interval <- WriterInterval
    FinalTime = 104
    TimeTolerance = 5
    StartTolerance = 6
    MaxRestarts = 2
INVARIANTS
    EveryDuePointIsServed
    OutputsAreComplete
    OutputsOnSchedule
    AlwaysAdvances
PROPERTIES
    EveryRunEnds
