------------------------------ MODULE LtsSetup ------------------------------
(***************************************************************************)
(* deriveLtsSetups and bucketsAndCommunication: from the cluster ids of its *)
(* cells every rank derives which data each cell provides and which data    *)
(* its faces read, exchanges this with the neighbouring ranks, corrects it  *)
(* and lays out what the halo exchange of each time step transfers.         *)
(***************************************************************************)
EXTENDS Integers, Sequences, FiniteSets

CONSTANTS
    Cells, Ranks, RankOf,
    Faces, CellsAt,          \* one cell at a boundary face, two at others
    GlobalId, LocalId,       \* orders of the cells
    Clusters,
    FaultFaces, Boundaries   \* choices of the dynamic rupture faces and boundaries

ASSUME LtsSetupAssumption ==
    /\ IsFiniteSet(Cells) /\ RankOf \in [Cells -> Ranks]
    /\ CellsAt \in [Faces -> SUBSET Cells]
    /\ \A f \in Faces : Cardinality(CellsAt[f]) \in 1..2
    /\ GlobalId \in [Cells -> Nat] /\ LocalId \in [Cells -> Nat]
    /\ \A a, b \in Cells : a # b => GlobalId[a] # GlobalId[b] /\ LocalId[a] # LocalId[b]
    /\ Clusters \subseteq Nat

VARIABLES
    clusterId, faceTypes,    \* the mesh
    setup,                   \* of each rank: the setups of its cells and ghost cells
    halo,                    \* messages on their way, by region
    phase                    \* of each rank

ltsVars == <<clusterId, faceTypes, setup, halo, phase>>

----------------------------------------------------------------------------

FacesOf(c) == {f \in Faces : c \in CellsAt[f]}

Internal == {f \in Faces : Cardinality(CellsAt[f]) = 2}

Neighbor(c, f) == CHOOSE n \in CellsAt[f] : n # c

NeighborsOf(c) == {Neighbor(c, f) : f \in FacesOf(c) \cap Internal}

CellsOf(r) == {c \in Cells : RankOf[c] = r}

IsCopy(c) == \E n \in NeighborsOf(c) : RankOf[n] # RankOf[c]

GhostsOf(r) == {n \in Cells \ CellsOf(r) : \E c \in NeighborsOf(n) : RankOf[c] = r}

FacesOfType(c, types) == {f \in FacesOf(c) : faceTypes[f] \in types}

ExternalBoundary == {"freeSurface"}

----------------------------------------------------------------------------

InvalidInCopyLayer(c) == IsCopy(c)

DerivesForGTS(accumulate, gts) == accumulate /\ gts # {}

\* The setup of a cell by the clusters of its neighbours.
GetLtsSetup(c) ==
    LET external == FacesOfType(c, ExternalBoundary)
        fault == FacesOfType(c, {"dynamicRupture"})
        regular == FacesOfType(c, {"regular"})
        slower == {f \in regular : clusterId[c] < clusterId[Neighbor(c, f)]}
        equal == {f \in regular : clusterId[c] = clusterId[Neighbor(c, f)]}
        faster == regular \ (slower \cup equal)
        gts == external \cup fault \cup equal
        accumulate == slower # {} \/ (fault # {} /\ InvalidInCopyLayer(c))
        buffers == slower # {} \/ equal # {}
        special == IF accumulate \/ ~buffers THEN external ELSE {}
    IN [neighborDerivatives |-> fault \cup slower \cup special,
        neighborGTS |-> gts,
        buffers |-> buffers,
        derivatives |-> fault # {} \/ faster # {} \/ DerivesForGTS(accumulate, gts) \/ special # {},
        accumulate |-> accumulate]

\* Mutant of NormalizeLtsSetup: nothing is corrected.
KeepSetup(known, c) == known[c]

\* A neighbour of the same cluster that accumulates its buffer is read by its
\* derivatives.
NormalizeLtsSetup(known, c) ==
    [known[c] EXCEPT !.neighborDerivatives = @ \cup
        {f \in known[c].neighborGTS \cap Internal : known[Neighbor(c, f)].accumulate}]

----------------------------------------------------------------------------

\* The sequence of the cells of S, sorted by their numbers.
SortedBy(id, S) ==
    CHOOSE s \in [1..Cardinality(S) -> S] : \A i, j \in DOMAIN s : i < j => id[s[i]] < id[s[j]]

LayoutOrder(S) == SortedBy(GlobalId, S)

\* Cells of cluster a on rank r that are next to cells of cluster b on rank q.
Bordering(r, a, q, b) ==
    {c \in CellsOf(r) : clusterId[c] = a
        /\ \E n \in NeighborsOf(c) : RankOf[n] = q /\ clusterId[n] = b}

\* A region is known by the sending and receiving rank and its tag, the clusters
\* of the copy and the ghost cells.
Regions == {k \in [from : Ranks, to : Ranks, copy : Clusters, ghost : Clusters] : k.from # k.to}

\* Copy cells of the sender; a cell is in one region per rank and ghost cluster.
CopyRegion(k) == LayoutOrder(Bordering(k.from, k.copy, k.to, k.ghost))

\* Ghost cells of the receiver, by the clusters of its own cells next to them.
GhostCells(k) ==
    {n \in GhostsOf(k.to) : RankOf[n] = k.from /\ clusterId[n] = k.copy
        /\ \E c \in NeighborsOf(n) : RankOf[c] = k.to /\ clusterId[c] = k.ghost}

\* Mutant of GhostRegion: the cells stay in the order in which they were read.
UnsortedGhosts(k) == SortedBy(LocalId, GhostCells(k))

GhostRegion(k) == LayoutOrder(GhostCells(k))

Active == {k \in Regions : Bordering(k.from, k.copy, k.to, k.ghost) # {}}

\* haloCommunication: Isend of the setups of every copy region.
Sent(r, known) ==
    [k \in Regions |-> IF k.from = r /\ k \in Active
                       THEN Append(halo[k], [i \in DOMAIN CopyRegion(k) |-> known[CopyRegion(k)[i]]])
                       ELSE halo[k]]

\* Waitall: a message for every ghost region has arrived.
HasArrived(r) == \A k \in Active : k.to = r => halo[k] # <<>>

Received(r) ==
    [n \in CellsOf(r) \cup GhostsOf(r) |->
        IF n \in CellsOf(r) THEN setup[r][n]
        ELSE LET k == CHOOSE k \in Active : k.to = r /\ \E i \in DOMAIN GhostRegion(k) : GhostRegion(k)[i] = n
                 i == CHOOSE i \in DOMAIN GhostRegion(k) : GhostRegion(k)[i] = n
             IN Head(halo[k])[i]]

Taken(r) == [k \in Regions |-> IF k.to = r /\ k \in Active THEN Tail(halo[k]) ELSE halo[k]]

----------------------------------------------------------------------------

\* A clustering that LtsWeights may return, and faces of all kinds.
LtsInit ==
    /\ clusterId \in [Cells -> Clusters]
    /\ \E fault \in FaultFaces, open \in Boundaries :
           faceTypes = [f \in Faces |-> IF f \notin Internal
                                        THEN IF f \in open THEN "outflow" ELSE "freeSurface"
                                        ELSE IF f \in fault THEN "dynamicRupture" ELSE "regular"]
    /\ \A f \in Internal : \A c, n \in CellsAt[f] :
           clusterId[c] <= clusterId[n] + (IF faceTypes[f] = "dynamicRupture" THEN 0 ELSE 1)
    /\ setup = [r \in Ranks |-> <<>>]
    /\ halo = [k \in Regions |-> <<>>]
    /\ phase = [r \in Ranks |-> "layout"]

\* Derive the setups of the own cells and send those of the copy cells.
Derive(r) ==
    /\ phase[r] = "layout"
    /\ setup' = [setup EXCEPT ![r] = [c \in CellsOf(r) |-> GetLtsSetup(c)]]
    /\ halo' = Sent(r, setup'[r])
    /\ phase' = [phase EXCEPT ![r] = "derived"]
    /\ UNCHANGED <<clusterId, faceTypes>>

WaitForHalo(r) ==
    /\ phase[r] = "derived"
    /\ HasArrived(r)
    /\ setup' = [setup EXCEPT ![r] = Received(r)]
    /\ halo' = Taken(r)
    /\ phase' = [phase EXCEPT ![r] = "known"]
    /\ UNCHANGED <<clusterId, faceTypes>>

\* Mutant of Exchanged: the setups are sent as they were before.
AsDerived(r, normalized) == setup[r]

Exchanged(r, normalized) == normalized

Normalize(r) ==
    /\ phase[r] = "known"
    /\ LET normalized == [n \in CellsOf(r) \cup GhostsOf(r) |->
                IF n \in CellsOf(r) THEN NormalizeLtsSetup(setup[r], n) ELSE setup[r][n]]
       IN /\ setup' = [setup EXCEPT ![r] = normalized]
          /\ halo' = Sent(r, Exchanged(r, normalized))
    /\ phase' = [phase EXCEPT ![r] = "normalized"]
    /\ UNCHANGED <<clusterId, faceTypes>>

WaitForFinalHalo(r) ==
    /\ phase[r] = "normalized"
    /\ HasArrived(r)
    /\ setup' = [setup EXCEPT ![r] = Received(r)]
    /\ halo' = Taken(r)
    /\ phase' = [phase EXCEPT ![r] = "done"]
    /\ UNCHANGED <<clusterId, faceTypes>>

SetupsDone == (\A r \in Ranks : phase[r] = "done") /\ UNCHANGED ltsVars

LtsNext ==
    \/ \E r \in Ranks : Derive(r) \/ WaitForHalo(r) \/ Normalize(r) \/ WaitForFinalHalo(r)
    \/ SetupsDone

LtsSpec == LtsInit /\ [][LtsNext]_ltsVars

----------------------------------------------------------------------------

\* What the cells of rank q read from cell n, as rank r knows it, through the
\* faces between n and cells of cluster b.
Requested(r, n, q, b) ==
    {IF f \in setup[r][Neighbor(n, f)].neighborDerivatives THEN "derivatives" ELSE "buffers" :
        f \in {g \in FacesOf(n) \cap Internal :
                  RankOf[Neighbor(n, g)] = q /\ clusterId[Neighbor(n, g)] = b}}

Provided(r, n) ==
    {x \in {"buffers", "derivatives"} : IF x = "buffers" THEN setup[r][n].buffers
                                        ELSE setup[r][n].derivatives}

\* The transferred part of a region, in the order of its cells: of each what is
\* requested and provided.  The buffers come first, then the derivatives.
Transfer(r, cells, k) ==
    [i \in DOMAIN cells |->
        <<cells[i], Requested(r, cells[i], k.to, k.ghost) \cap Provided(r, cells[i])>>]

\* Mutant of GhostDuplicate: the copy of the ghost cell that was laid out first.
FirstDuplicate(n, r, b) ==
    CHOOSE d \in {clusterId[c] : c \in {m \in NeighborsOf(n) : RankOf[m] = r}} :
        \A c \in NeighborsOf(n) : RankOf[c] = r => d <= clusterId[c]

\* A ghost cell is stored once for each cluster of own cells next to it.
GhostDuplicate(n, r, b) == b

\* The data a face of cell c reads has storage: own cells provide it, of a ghost
\* cell only what is transferred for the region is allocated.
PointerIsSet(c, f) ==
    LET r == RankOf[c]
        x == IF f \in setup[r][c].neighborDerivatives THEN "derivatives" ELSE "buffers"
        n == IF f \in Internal THEN Neighbor(c, f) ELSE c
    IN IF n \in CellsOf(r) THEN x \in Provided(r, n)
       ELSE x \in Requested(r, n, r, GhostDuplicate(n, r, clusterId[c])) \cap Provided(r, n)

----------------------------------------------------------------------------

Setup == [neighborDerivatives : SUBSET Faces, neighborGTS : SUBSET Faces,
          buffers : BOOLEAN, derivatives : BOOLEAN, accumulate : BOOLEAN]

\* Types of the setups; a rank knows its own cells and, after the first exchange,
\* its ghost cells, and nothing is said of outflow faces.
LtsSetupTypeOK ==
    /\ phase \in [Ranks -> {"layout", "derived", "known", "normalized", "done"}]
    /\ \A r \in Ranks :
           /\ DOMAIN setup[r] = IF phase[r] = "layout" THEN {}
                                ELSE IF phase[r] = "derived" THEN CellsOf(r)
                                ELSE CellsOf(r) \cup GhostsOf(r)
           /\ \A n \in DOMAIN setup[r] :
                  /\ setup[r][n] \in Setup
                  /\ setup[r][n].neighborDerivatives \cup setup[r][n].neighborGTS
                         \subseteq FacesOf(n) \ FacesOfType(n, {"outflow"})
    /\ \A k \in Regions : Len(halo[k]) <= 2

\* What ghost cells of a rank receive is what the sender puts into the region, in
\* the same order (InitLayout.cpp:46-101).
HaloRegionsMatch == \A k \in Regions : CopyRegion(k) = GhostRegion(k)

Done(r) == phase[r] = "done"

\* The sender and the receiver of a region, each from the setups it knows, agree on
\* what every message of the time stepping holds (Buckets.cpp:76-125, 135-202).
\* The types come first.
TransfersMatch ==
    /\ LtsSetupTypeOK
    /\ \A k \in Active : Done(k.from) /\ Done(k.to) =>
        /\ Transfer(k.from, CopyRegion(k), k) = Transfer(k.to, GhostRegion(k), k)
        /\ \A i \in DOMAIN CopyRegion(k) :
               LET n == CopyRegion(k)[i]
               IN Requested(k.from, n, k.to, k.ghost) \subseteq Provided(k.from, n)

\* No face reads from storage that is not there (Buckets.cpp:262-309).
EveryPointerIsSet ==
    \A c \in Cells : Done(RankOf[c]) =>
        \A f \in FacesOf(c) : faceTypes[f] # "outflow" => PointerIsSet(c, f)

\* Every face reads data that holds the interval its cell needs: of a cell with
\* longer steps the derivatives, of one with shorter steps a buffer that
\* accumulates, of one with the same step the derivatives or a buffer that
\* does not; the coefficients are those of the own step only in the last case
\* (TimeCommon.cpp:67-83).
FacesReadWhatTheyNeed ==
    \A f \in Internal : (\A c \in CellsAt[f] : Done(RankOf[c])) =>
        \A c \in CellsAt[f] :
            LET n == Neighbor(c, f)
                mine == setup[RankOf[c]][c]
                theirs == setup[RankOf[n]][n]
            IN /\ f \in mine.neighborGTS <=> clusterId[c] = clusterId[n]
               /\ f \in mine.neighborDerivatives =>
                      theirs.derivatives /\ clusterId[c] <= clusterId[n]
               /\ f \notin mine.neighborDerivatives =>
                      /\ theirs.buffers /\ clusterId[c] >= clusterId[n]
                      /\ theirs.accumulate <=> clusterId[c] > clusterId[n]
               /\ faceTypes[f] = "dynamicRupture" => theirs.derivatives

=============================================================================
