---------------------------- MODULE MCSyncPoints ----------------------------
EXTENDS SyncPoints, TLC

CONSTANTS wavefield, energy, checkpoint, mirror

\* A wave field writer, an energy output and the checkpoints.  Points of time
\* of different modules fall together, within the tolerance and apart, none of
\* them between the two tolerances.
Writers == {wavefield, energy, checkpoint}
WriterInterval == (wavefield :> 20) @@ (energy :> 24) @@ (checkpoint :> 30)

\* The time mirror registers for the synchronization point only.
WithMirror == {wavefield, mirror}
MirrorInterval == (wavefield :> 20) @@ (mirror :> 50)

=============================================================================
