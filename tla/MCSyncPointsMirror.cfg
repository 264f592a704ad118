SPECIFICATION FairSpec
CONSTANTS
    wavefield = wavefield
    energy = energy
    checkpoint = checkpoint
    mirror = mirror
    Outputs <- WithMirror
    StartHook = {wavefield}
    Checkpoint = checkpoint
    Aborter = energy
    Interval <- MirrorInterval
    FinalTime = 104
    TimeTolerance = 5
    StartTolerance = 6
    MaxRestarts = 2
INVARIANT
    AlwaysAdvances
