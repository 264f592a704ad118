-------------------------- MODULE LtsSetup_proofs --------------------------
(***************************************************************************)
(* The setup of the cells for any mesh, distribution and clustering that    *)
(* obeys the rule, and any order in which ranks proceed: after the second   *)
(* exchange each rank knows of its cells and ghost cells the one setup that *)
(* follows from the mesh, and what the setups say fits together.           *)
(***************************************************************************)
EXTENDS LtsSetup, FiniteSetTheorems, SequenceTheorems, TLAPS

USE LtsSetupAssumption

----------------------------------------------------------------------------
(* Sorted sequences *)

IsSorted(id, S, s) ==
    /\ s \in [1..Cardinality(S) -> S]
    /\ \A i, j \in 1..Cardinality(S) : i < j => id[s[i]] < id[s[j]]

\* The numbers tell the cells of S apart.
Numbers(id, S) ==
    /\ \A a \in S : id[a] \in Nat
    /\ \A a, b \in S : a # b => id[a] # id[b]

\* A finite set of cells can be sorted: each cell has as its place the number of
\* those up to it.
LEMMA SortedExists ==
    ASSUME NEW S, IsFiniteSet(S), NEW id, Numbers(id, S)
    PROVE  \E s : IsSorted(id, S, s)
<1> DEFINE n == Cardinality(S)
           upTo(x) == {y \in S : id[y] <= id[x]}
           place == [x \in S |-> Cardinality(upTo(x))]
<1>1. n \in Nat
  BY FS_CardinalityType
<1>2. ASSUME NEW x \in S
      PROVE  IsFiniteSet(upTo(x)) /\ Cardinality(upTo(x)) \in 1..n
  <2>1. upTo(x) \in SUBSET S /\ x \in upTo(x)
    BY DEF Numbers
  <2>2. IsFiniteSet(upTo(x)) /\ Cardinality(upTo(x)) <= n
    BY <2>1, FS_Subset
  <2>3. Cardinality(upTo(x)) \in Nat /\ Cardinality(upTo(x)) # 0
    BY <2>1, <2>2, FS_CardinalityType, FS_EmptySet
  <2> QED BY <1>1, <2>2, <2>3
<1>3. ASSUME NEW x \in S, NEW z \in S, id[x] < id[z]
      PROVE  place[x] < place[z]
  <2>1. upTo(x) \in SUBSET upTo(z) /\ z \in upTo(z) /\ z \notin upTo(x)
    BY <1>3 DEF Numbers
  <2>2. IsFiniteSet(upTo(z)) /\ Cardinality(upTo(x)) \in 1..n /\ Cardinality(upTo(z)) \in 1..n
    BY <1>2
  <2>3. /\ Cardinality(upTo(x)) <= Cardinality(upTo(z))
        /\ Cardinality(upTo(z)) = Cardinality(upTo(x)) => upTo(z) = upTo(x)
    BY <2>1, <2>2, FS_Subset
  <2>4. Cardinality(upTo(x)) < Cardinality(upTo(z))
    BY <2>1, <2>2, <2>3
  <2> QED BY <2>4
<1>4. place \in [S -> 1..n]
  BY <1>2
<1> HIDE DEF place
<1>5. place \in Injection(S, 1..n)
  <2>1. ASSUME NEW x \in S, NEW z \in S, x # z PROVE place[x] # place[z]
    <3>1. id[x] < id[z] \/ id[z] < id[x]
      BY <2>1 DEF Numbers
    <3>2. place[x] \in Int /\ place[z] \in Int
      BY <1>4
    <3> QED BY <1>3, <3>1, <3>2
  <2> QED BY <1>4, <2>1 DEF Injection, IsInjective
<1>6. place \in Surjection(S, 1..n)
  <2>1. IsFiniteSet(1..n) /\ Cardinality(1..n) = n
    BY <1>1, FS_Interval
  <2> QED BY <1>5, <2>1, FS_Injection
<1>7. \A i \in 1..n : \E x \in S : place[x] = i
  BY <1>6 DEF Surjection
<1> DEFINE s == [i \in 1..n |-> CHOOSE x \in S : place[x] = i]
<1>8. \A i \in 1..n : s[i] \in S /\ place[s[i]] = i
  BY <1>7
<1>9. s \in [1..n -> S]
  BY <1>8
<1> HIDE DEF s
<1>10. ASSUME NEW i \in 1..n, NEW j \in 1..n, i < j PROVE id[s[i]] < id[s[j]]
  <2>1. s[i] \in S /\ s[j] \in S /\ place[s[i]] = i /\ place[s[j]] = j
    BY <1>8
  <2>2. ~(place[s[j]] < place[s[i]]) /\ s[i] # s[j]
    BY <1>10, <2>1
  <2>3. ~(id[s[j]] < id[s[i]])
    BY <1>3, <2>1, <2>2
  <2> QED BY <2>1, <2>2, <2>3 DEF Numbers
<1> QED
  BY <1>9, <1>10 DEF IsSorted

\* A sorted sequence lists all cells.
LEMMA SortedListsAll ==
    ASSUME NEW S, IsFiniteSet(S), NEW id, Numbers(id, S), NEW s, IsSorted(id, S, s)
    PROVE  \A x \in S : \E i \in 1..Cardinality(S) : s[i] = x
<1> DEFINE n == Cardinality(S)
<1>1. n \in Nat
  BY FS_CardinalityType
<1>2. IsFiniteSet(1..n) /\ Cardinality(1..n) = n
  BY <1>1, FS_Interval
<1>3. s \in [1..n -> S]
  BY DEF IsSorted
<1>4. ASSUME NEW i \in 1..n, NEW j \in 1..n, i # j PROVE s[i] # s[j]
  <2>1. id[s[i]] < id[s[j]] \/ id[s[j]] < id[s[i]]
    BY <1>1, <1>4 DEF IsSorted
  <2>2. id[s[i]] \in Nat /\ id[s[j]] \in Nat
    BY <1>3 DEF Numbers
  <2> QED BY <2>1, <2>2
<1>5. s \in Injection(1..n, S)
  BY <1>3, <1>4 DEF Injection, IsInjective
<1>6. s \in Surjection(1..n, S)
  BY <1>2, <1>5, FS_Injection
<1> QED
  BY <1>6 DEF Surjection

\* The layout lists each cell of a region.
LEMMA LayoutListsAll ==
    ASSUME NEW S, S \subseteq Cells
    PROVE  /\ LayoutOrder(S) \in [1..Cardinality(S) -> S]
           /\ \A x \in S : \E i \in DOMAIN LayoutOrder(S) : LayoutOrder(S)[i] = x
           /\ \A i \in DOMAIN LayoutOrder(S) : LayoutOrder(S)[i] \in S
<1>1. IsFiniteSet(S)
  BY FS_Subset
<1>2. Numbers(GlobalId, S)
  BY DEF Numbers
<1> DEFINE P(s) == \A i, j \in DOMAIN s : i < j => GlobalId[s[i]] < GlobalId[s[j]]
<1>3. PICK t : IsSorted(GlobalId, S, t)
  BY <1>1, <1>2, SortedExists
<1>4. t \in [1..Cardinality(S) -> S] /\ P(t)
  BY <1>3 DEF IsSorted
<1>5. LayoutOrder(S) = CHOOSE s \in [1..Cardinality(S) -> S] : P(s)
  BY DEF LayoutOrder, SortedBy
<1> HIDE DEF P
<1>6. LayoutOrder(S) \in [1..Cardinality(S) -> S] /\ P(LayoutOrder(S))
  BY <1>4, <1>5
<1>7. DOMAIN LayoutOrder(S) = 1..Cardinality(S)
  BY <1>6
<1>8. IsSorted(GlobalId, S, LayoutOrder(S))
  BY <1>6, <1>7 DEF IsSorted, P
<1>9. \A x \in S : \E i \in 1..Cardinality(S) : LayoutOrder(S)[i] = x
  BY <1>1, <1>2, <1>8, SortedListsAll
<1> QED
  BY <1>6, <1>7, <1>9

----------------------------------------------------------------------------
(* The mesh *)

\* A face between two cells.
LEMMA TwoCells ==
    ASSUME NEW f \in Internal
    PROVE  \E a, b \in Cells : a # b /\ CellsAt[f] = {a, b}
<1> DEFINE S == CellsAt[f]
<1>1. f \in Faces /\ Cardinality(S) = 2 /\ S \subseteq Cells
  BY DEF Internal
<1>2. IsFiniteSet(S)
  BY <1>1, FS_Subset
<1> HIDE DEF S
<1>3. S # {}
  BY <1>1, <1>2, FS_EmptySet
<1>4. PICK a \in S : TRUE
  BY <1>3
<1>5. IsFiniteSet(S \ {a}) /\ Cardinality(S \ {a}) = 1
  <2>1. /\ IsFiniteSet(S \ {a})
        /\ Cardinality(S \ {a}) = IF a \in S THEN Cardinality(S) - 1 ELSE Cardinality(S)
    BY <1>2, FS_RemoveElement
  <2> QED BY <1>1, <1>4, <2>1
<1>6. PICK b : S \ {a} = {b}
  BY <1>5, FS_Singleton
<1>7. S = {a, b} /\ a # b /\ a \in Cells /\ b \in Cells
  BY <1>1, <1>4, <1>6
<1> QED
  BY <1>7 DEF S

\* The two cells at a face are neighbours of each other.
LEMMA NeighborFacts ==
    ASSUME NEW c \in Cells, NEW f \in FacesOf(c) \cap Internal
    PROVE  /\ Neighbor(c, f) \in Cells /\ Neighbor(c, f) # c
           /\ CellsAt[f] = {c, Neighbor(c, f)}
           /\ f \in FacesOf(Neighbor(c, f)) /\ Neighbor(Neighbor(c, f), f) = c
           /\ Neighbor(c, f) \in NeighborsOf(c) /\ c \in NeighborsOf(Neighbor(c, f))
<1>1. f \in Faces /\ c \in CellsAt[f] /\ f \in Internal
  BY DEF FacesOf
<1>2. PICK a, b \in Cells : a # b /\ CellsAt[f] = {a, b}
  BY TwoCells
<1>3. PICK n \in Cells : n # c /\ CellsAt[f] = {c, n}
  BY <1>1, <1>2
<1>4. Neighbor(c, f) = n
  BY <1>3 DEF Neighbor
<1>5. Neighbor(n, f) = c
  BY <1>3 DEF Neighbor
<1>6. f \in FacesOf(n)
  BY <1>1, <1>3 DEF FacesOf
<1> QED
  BY <1>1, <1>3, <1>4, <1>5, <1>6 DEF NeighborsOf

\* Neighbourhood goes both ways.
LEMMA NeighborsAreMutual ==
    ASSUME NEW c \in Cells, NEW n \in NeighborsOf(c)
    PROVE  n \in Cells /\ c \in NeighborsOf(n)
<1>1. PICK f \in FacesOf(c) \cap Internal : n = Neighbor(c, f)
  BY DEF NeighborsOf
<1> QED
  BY <1>1, NeighborFacts

\* The cells that the sender puts into a region are those the receiver expects.
LEMMA GhostsAreCopies ==
    ASSUME NEW k \in Regions
    PROVE  Bordering(k.from, k.copy, k.to, k.ghost) = GhostCells(k)
BY DEF Regions, Bordering, GhostCells, GhostsOf, CellsOf

\* Every ghost cell is in a region that the receiver expects.
LEMMA GhostsAreListed ==
    ASSUME clusterId \in [Cells -> Clusters], NEW r \in Ranks, NEW n \in GhostsOf(r)
    PROVE  \E k \in Active : k.to = r /\ \E i \in DOMAIN GhostRegion(k) : GhostRegion(k)[i] = n
<1>1. n \in Cells /\ RankOf[n] # r
  BY DEF GhostsOf, CellsOf
<1>2. PICK c \in NeighborsOf(n) : RankOf[c] = r
  BY DEF GhostsOf
<1>3. c \in Cells
  BY <1>1, NeighborsAreMutual
<1> DEFINE k == [from |-> RankOf[n], to |-> r, copy |-> clusterId[n], ghost |-> clusterId[c]]
<1>4. k \in Regions
  BY <1>1, <1>3 DEF Regions
<1>5. n \in Bordering(k.from, k.copy, k.to, k.ghost)
  BY <1>1, <1>2 DEF Bordering, CellsOf
<1>6. k \in Active
  BY <1>4, <1>5 DEF Active
<1>7. n \in GhostCells(k) /\ GhostCells(k) \subseteq Cells
  BY <1>4, <1>5, GhostsAreCopies DEF GhostCells, GhostsOf
<1>8. k.to = r
  OBVIOUS
<1> HIDE DEF k
<1>9. \E i \in DOMAIN LayoutOrder(GhostCells(k)) : LayoutOrder(GhostCells(k))[i] = n
  BY <1>7, LayoutListsAll
<1> QED
  BY <1>6, <1>8, <1>9 DEF GhostRegion

\* What the ghost cells of a rank receive is what the sender puts into the
\* region, in the same order, whatever the ids of the cells
\* (InitLayout.cpp:46-101, MeshLayout.cpp:53-135).
THEOREM RegionsMatch == LtsSpec => []HaloRegionsMatch
<1>1. HaloRegionsMatch
  BY GhostsAreCopies DEF HaloRegionsMatch, CopyRegion, GhostRegion
<1> QED
  BY <1>1, PTL

----------------------------------------------------------------------------
(* The exchange *)

\* The mesh, of a clustering that obeys the rule.
MeshInv ==
    /\ clusterId \in [Cells -> Clusters]
    /\ \A f \in Internal : faceTypes[f] \in {"dynamicRupture", "regular"}
    /\ \A f \in Faces \ Internal : faceTypes[f] \in {"outflow", "freeSurface"}
    /\ \A f \in Internal : faceTypes[f] = "dynamicRupture" =>
           \A c, n \in CellsAt[f] : clusterId[c] = clusterId[n]

\* The setup of a cell before and after the correction, by the mesh alone.
First(n) == GetLtsSetup(n)

Last(n) == NormalizeLtsSetup([m \in Cells |-> First(m)], n)

KnownTo(r) == CellsOf(r) \cup GhostsOf(r)

\* What a rank knows.
SetupOf(r) ==
    CASE phase[r] = "layout" -> DOMAIN setup[r] = {}
      [] phase[r] = "derived" -> setup[r] = [n \in CellsOf(r) |-> First(n)]
      [] phase[r] = "known" -> setup[r] = [n \in KnownTo(r) |-> First(n)]
      [] phase[r] = "normalized" ->
             setup[r] = [n \in KnownTo(r) |-> IF n \in CellsOf(r) THEN Last(n) ELSE First(n)]
      [] OTHER -> setup[r] = [n \in KnownTo(r) |-> Last(n)]

\* The messages of a region.
FirstMessage(k) == [i \in DOMAIN CopyRegion(k) |-> First(CopyRegion(k)[i])]

LastMessage(k) == [i \in DOMAIN CopyRegion(k) |-> Last(CopyRegion(k)[i])]

\* The messages of a region that have been sent but not received, by the phases of
\* the two ranks.
HaloOf(k) ==
    LET from == phase[k.from]
        to == phase[k.to]
    IN  /\ from = "layout" => /\ halo[k] = <<>>
                              /\ to \in {"layout", "derived"}
        /\ from \in {"derived", "known"} =>
               /\ to # "done"
               /\ to \in {"layout", "derived"} => halo[k] = <<FirstMessage(k)>>
               /\ to \in {"known", "normalized"} => halo[k] = <<>>
        /\ from \in {"normalized", "done"} =>
               /\ to \in {"layout", "derived"} => halo[k] = <<FirstMessage(k), LastMessage(k)>>
               /\ to \in {"known", "normalized"} => halo[k] = <<LastMessage(k)>>
               /\ to = "done" => halo[k] = <<>>

ExchangeInv ==
    /\ MeshInv
    /\ phase \in [Ranks -> {"layout", "derived", "known", "normalized", "done"}]
    /\ DOMAIN setup = Ranks
    /\ \A r \in Ranks : SetupOf(r)
    /\ \A k \in Active : HaloOf(k)
    /\ \A k \in Regions \ Active : halo[k] = <<>>

\* The mesh stays, and so does what follows from it.
LEMMA MeshStays ==
    ASSUME UNCHANGED <<clusterId, faceTypes>>
    PROVE  /\ MeshInv => MeshInv'
           /\ \A n : First(n)' = First(n)
           /\ \A n : Last(n)' = Last(n)
           /\ Active' = Active
           /\ \A k : CopyRegion(k)' = CopyRegion(k) /\ GhostRegion(k)' = GhostRegion(k)
           /\ \A k : FirstMessage(k)' = FirstMessage(k) /\ LastMessage(k)' = LastMessage(k)
<1>1. clusterId' = clusterId /\ faceTypes' = faceTypes
  OBVIOUS
<1>2. \A n : First(n)' = First(n)
  BY <1>1 DEF First, GetLtsSetup, FacesOfType
<1>3. \A n : Last(n)' = Last(n)
  BY <1>2 DEF Last, NormalizeLtsSetup
<1>4. \A r, a, q, b : Bordering(r, a, q, b)' = Bordering(r, a, q, b)
  BY DEF Bordering
<1>5. \A k : GhostCells(k)' = GhostCells(k)
  BY DEF GhostCells
<1>6. Active' = Active
  BY <1>4 DEF Active
<1>7. \A k : CopyRegion(k)' = CopyRegion(k) /\ GhostRegion(k)' = GhostRegion(k)
  BY <1>4, <1>5 DEF CopyRegion, GhostRegion, LayoutOrder, SortedBy
<1>8. \A k : FirstMessage(k)' = FirstMessage(k) /\ LastMessage(k)' = LastMessage(k)
  BY <1>2, <1>3, <1>7 DEF FirstMessage, LastMessage
<1>9. MeshInv => MeshInv'
  BY DEF MeshInv
<1> QED
  BY <1>2, <1>3, <1>6, <1>7, <1>8, <1>9

\* The cells of a region are those of the sender.
LEMMA RegionCells ==
    ASSUME NEW k \in Active, NEW i \in DOMAIN CopyRegion(k)
    PROVE  /\ CopyRegion(k)[i] \in CellsOf(k.from)
           /\ CopyRegion(k)[i] \in GhostsOf(k.to)
           /\ CopyRegion(k) = GhostRegion(k)
           /\ k.from \in Ranks /\ k.to \in Ranks /\ k.from # k.to
<1>1. k \in Regions
  BY DEF Active
<1>2. k.from \in Ranks /\ k.to \in Ranks /\ k.from # k.to
  BY <1>1 DEF Regions
<1> DEFINE S == Bordering(k.from, k.copy, k.to, k.ghost)
<1>3. S = GhostCells(k) /\ S \subseteq CellsOf(k.from) /\ S \subseteq Cells
  BY <1>1, GhostsAreCopies DEF Bordering, CellsOf
<1> HIDE DEF S
<1>4. CopyRegion(k) = LayoutOrder(S) /\ CopyRegion(k) = GhostRegion(k)
  BY <1>3 DEF S, CopyRegion, GhostRegion
<1>5. CopyRegion(k)[i] \in S
  BY <1>3, <1>4, LayoutListsAll
<1> QED
  BY <1>2, <1>3, <1>4, <1>5 DEF GhostCells

\* What the ghost cells receive: the setups of the first message that is left.
LEMMA ReceivedFrom ==
    ASSUME MeshInv, NEW r \in Ranks, NEW value,
           \A k \in Active : k.to = r =>
               Head(halo[k]) = [i \in DOMAIN CopyRegion(k) |-> value[CopyRegion(k)[i]]]
    PROVE  Received(r) = [n \in KnownTo(r) |-> IF n \in CellsOf(r) THEN setup[r][n] ELSE value[n]]
<1> DEFINE P(k, n) == k.to = r /\ \E i \in DOMAIN GhostRegion(k) : GhostRegion(k)[i] = n
           region(n) == CHOOSE k \in Active : P(k, n)
           place(k, n) == CHOOSE i \in DOMAIN GhostRegion(k) : GhostRegion(k)[i] = n
           entry(n) == Head(halo[region(n)])[place(region(n), n)]
<1>1. Received(r) = [n \in KnownTo(r) |-> IF n \in CellsOf(r) THEN setup[r][n] ELSE entry(n)]
  BY Zenon DEF Received, KnownTo
<1>2. ASSUME NEW n \in KnownTo(r), n \notin CellsOf(r)
      PROVE  entry(n) = value[n]
  <2> DEFINE k == region(n)
             i == place(k, n)
  <2>1. \E k1 \in Active : P(k1, n)
    BY <1>2, GhostsAreListed DEF MeshInv, KnownTo
  <2>2. k \in Active /\ P(k, n)
    <3> HIDE DEF P
    <3> QED BY <2>1
  <2> HIDE DEF k
  <2>3. i \in DOMAIN GhostRegion(k) /\ GhostRegion(k)[i] = n
    BY <2>2
  <2> HIDE DEF i
  <2>4. CopyRegion(k) = GhostRegion(k)
    <3>1. k \in Regions
      BY <2>2 DEF Active
    <3> QED BY <3>1, GhostsAreCopies DEF CopyRegion, GhostRegion
  <2>5. Head(halo[k]) = [j \in DOMAIN CopyRegion(k) |-> value[CopyRegion(k)[j]]]
    BY <2>2
  <2>6. Head(halo[k])[i] = value[n]
    BY <2>3, <2>4, <2>5
  <2> QED
    BY <2>6 DEF k, i
<1> HIDE DEF entry
<1> QED
  BY <1>1, <1>2

\* The first setup of a cell, by the kinds of its faces.
FaultAt(c) == FacesOfType(c, {"dynamicRupture"})
SlowerAt(c) == {f \in FacesOfType(c, {"regular"}) : clusterId[c] < clusterId[Neighbor(c, f)]}
EqualAt(c) == {f \in FacesOfType(c, {"regular"}) : clusterId[c] = clusterId[Neighbor(c, f)]}
FasterAt(c) == FacesOfType(c, {"regular"}) \ (SlowerAt(c) \cup EqualAt(c))
OpenAt(c) == FacesOfType(c, {"freeSurface"})

LEMMA FirstFacts ==
    ASSUME NEW c
    PROVE  /\ First(c) \in Setup
           /\ First(c).neighborGTS = OpenAt(c) \cup FaultAt(c) \cup EqualAt(c)
           /\ First(c).buffers <=> SlowerAt(c) # {} \/ EqualAt(c) # {}
           /\ SlowerAt(c) # {} => First(c).accumulate
           /\ First(c).accumulate /\ First(c).neighborGTS # {} => First(c).derivatives
           /\ FaultAt(c) # {} \/ FasterAt(c) # {} => First(c).derivatives
           /\ FaultAt(c) \cup SlowerAt(c) \subseteq First(c).neighborDerivatives
           /\ First(c).neighborDerivatives \subseteq FaultAt(c) \cup SlowerAt(c) \cup OpenAt(c)
           /\ OpenAt(c) \cap First(c).neighborDerivatives # {} => First(c).derivatives
           /\ OpenAt(c) \subseteq First(c).neighborDerivatives \/ First(c).buffers
<1> DEFINE external == FacesOfType(c, ExternalBoundary)
           fault == FacesOfType(c, {"dynamicRupture"})
           regular == FacesOfType(c, {"regular"})
           slower == {f \in regular : clusterId[c] < clusterId[Neighbor(c, f)]}
           equal == {f \in regular : clusterId[c] = clusterId[Neighbor(c, f)]}
           faster == regular \ (slower \cup equal)
           gts == external \cup fault \cup equal
           accumulate == slower # {} \/ (fault # {} /\ InvalidInCopyLayer(c))
           buffers == slower # {} \/ equal # {}
           special == IF accumulate \/ ~buffers THEN external ELSE {}
           derivatives == fault # {} \/ faster # {} \/ DerivesForGTS(accumulate, gts) \/ special # {}
<1>1. First(c) = [neighborDerivatives |-> fault \cup slower \cup special,
                  neighborGTS |-> gts, buffers |-> buffers,
                  derivatives |-> derivatives, accumulate |-> accumulate]
  BY DEF First, GetLtsSetup
<1>2. /\ fault = FaultAt(c) /\ slower = SlowerAt(c) /\ equal = EqualAt(c)
      /\ faster = FasterAt(c) /\ external = OpenAt(c)
  BY DEF FaultAt, SlowerAt, EqualAt, FasterAt, OpenAt, ExternalBoundary
<1>3. fault \subseteq Faces /\ regular \subseteq Faces /\ external \subseteq Faces
  BY DEF FacesOfType, FacesOf
<1>4. accumulate \in BOOLEAN /\ buffers \in BOOLEAN /\ derivatives \in BOOLEAN
  BY DEF DerivesForGTS
<1>5. \A f \in Faces : f \in external => f \notin fault /\ f \notin regular
  BY DEF FacesOfType, ExternalBoundary
<1>6. First(c) \in Setup
  <2>1. /\ fault \cup slower \cup special \in SUBSET Faces /\ gts \in SUBSET Faces
    BY <1>3
  <2> HIDE DEF accumulate, buffers, derivatives, special, gts, slower, fault
  <2> QED BY <1>1, <1>4, <2>1 DEF Setup
<1>7. /\ First(c).neighborDerivatives = fault \cup slower \cup special
      /\ First(c).neighborGTS = gts
      /\ First(c).buffers <=> buffers
      /\ First(c).derivatives <=> derivatives
      /\ First(c).accumulate <=> accumulate
  <2> HIDE DEF accumulate, buffers, derivatives, special, gts, slower, fault
  <2> QED BY <1>1
<1>8. slower # {} => accumulate
  OBVIOUS
<1>9. accumulate /\ gts # {} => derivatives
  BY DEF DerivesForGTS
<1>10. (fault # {} \/ faster # {} => derivatives) /\ (special # {} => derivatives)
  OBVIOUS
<1>11. special \subseteq external /\ (special = external \/ buffers)
  OBVIOUS
<1>12. slower \subseteq regular /\ (buffers <=> slower # {} \/ equal # {})
  OBVIOUS
<1>13. gts = external \cup fault \cup equal
  OBVIOUS
<1> HIDE DEF accumulate, buffers, derivatives, special, gts, slower, fault, equal, faster, external, regular
<1>14. external \cap First(c).neighborDerivatives # {} => derivatives
  BY <1>3, <1>5, <1>7, <1>10, <1>12
<1>15. external \subseteq First(c).neighborDerivatives \/ buffers
  BY <1>7, <1>11
<1>16. First(c).neighborDerivatives \subseteq fault \cup slower \cup external
  BY <1>7, <1>11
<1> QED
  BY <1>2, <1>6, <1>7, <1>8, <1>9, <1>10, <1>12, <1>13, <1>14, <1>15, <1>16

\* The corrected setup of a cell: only what is read by derivatives grows.
LEMMA LastFacts ==
    ASSUME NEW c \in Cells
    PROVE  /\ Last(c) \in Setup
           /\ Last(c).neighborGTS = First(c).neighborGTS
           /\ Last(c).buffers = First(c).buffers
           /\ Last(c).derivatives = First(c).derivatives
           /\ Last(c).accumulate = First(c).accumulate
           /\ Last(c).neighborDerivatives = First(c).neighborDerivatives \cup
                  {f \in First(c).neighborGTS \cap Internal : First(Neighbor(c, f)).accumulate}
<1> DEFINE known == [m \in Cells |-> First(m)]
           more == {f \in First(c).neighborGTS \cap Internal : First(Neighbor(c, f)).accumulate}
<1>1. First(c) \in Setup
  BY FirstFacts
<1>2. First(c).neighborGTS \subseteq FacesOf(c)
  BY FirstFacts DEF OpenAt, FaultAt, EqualAt, FacesOfType
<1>3. \A f \in First(c).neighborGTS \cap Internal : Neighbor(c, f) \in Cells
  BY <1>2, NeighborFacts
<1>4. Last(c) = [First(c) EXCEPT !.neighborDerivatives = @ \cup more]
  BY <1>3 DEF Last, NormalizeLtsSetup
<1>5. more \subseteq Faces
  BY <1>1 DEF Setup
<1> HIDE DEF more
<1>6. First(c).neighborDerivatives \cup more \in SUBSET Faces
  BY <1>1, <1>5 DEF Setup
<1> QED
  BY <1>1, <1>4, <1>6 DEF Setup, more

\* A rank knows the neighbours of its cells.
LEMMA KnownCells ==
    ASSUME NEW r \in Ranks
    PROVE  /\ KnownTo(r) \subseteq Cells
           /\ \A c \in CellsOf(r) : \A f \in FacesOf(c) \cap Internal : Neighbor(c, f) \in KnownTo(r)
<1>1. KnownTo(r) \subseteq Cells
  BY DEF KnownTo, CellsOf, GhostsOf
<1>2. ASSUME NEW c \in CellsOf(r), NEW f \in FacesOf(c) \cap Internal
      PROVE  Neighbor(c, f) \in KnownTo(r)
  <2>1. c \in Cells /\ RankOf[c] = r
    BY DEF CellsOf
  <2>2. Neighbor(c, f) \in Cells /\ c \in NeighborsOf(Neighbor(c, f))
    BY <2>1, NeighborFacts
  <2> QED BY <2>1, <2>2 DEF KnownTo, GhostsOf
<1> QED
  BY <1>1, <1>2

\* Correcting with the neighbours a rank knows is correcting with the whole mesh.
LEMMA NormalizeIsLast ==
    ASSUME NEW r \in Ranks, setup[r] = [n \in KnownTo(r) |-> First(n)], NEW c \in CellsOf(r)
    PROVE  NormalizeLtsSetup(setup[r], c) = Last(c)
<1>1. c \in Cells /\ c \in KnownTo(r)
  BY DEF CellsOf, KnownTo
<1>2. First(c).neighborGTS \subseteq FacesOf(c)
  BY FirstFacts DEF OpenAt, FaultAt, EqualAt, FacesOfType
<1>3. \A f \in First(c).neighborGTS \cap Internal :
          Neighbor(c, f) \in KnownTo(r) /\ Neighbor(c, f) \in Cells
  BY <1>2, KnownCells
<1> DEFINE known == [m \in Cells |-> First(m)]
           more(s) == {f \in First(c).neighborGTS \cap Internal : s[Neighbor(c, f)].accumulate}
<1>4. setup[r][c] = First(c) /\ known[c] = First(c)
  BY <1>1
<1>5. more(setup[r]) = more(known)
  BY <1>3
<1>6. \A s : s[c] = First(c) =>
          NormalizeLtsSetup(s, c) = [First(c) EXCEPT !.neighborDerivatives = @ \cup more(s)]
  BY DEF NormalizeLtsSetup
<1> HIDE DEF more, known
<1> QED
  BY <1>4, <1>5, <1>6 DEF Last, known

\* Sending adds the message of every region of the sender.
LEMMA SentFacts ==
    ASSUME NEW r \in Ranks, NEW known, NEW value,
           \A c \in CellsOf(r) : known[c] = value[c]
    PROVE  /\ \A k \in Active : Sent(r, known)[k] =
                  IF k.from = r
                  THEN Append(halo[k], [i \in DOMAIN CopyRegion(k) |-> value[CopyRegion(k)[i]]])
                  ELSE halo[k]
           /\ \A k \in Regions \ Active : Sent(r, known)[k] = halo[k]
<1>1. Active \subseteq Regions
  BY DEF Active
<1>2. ASSUME NEW k \in Active, k.from = r
      PROVE  [i \in DOMAIN CopyRegion(k) |-> known[CopyRegion(k)[i]]]
                 = [i \in DOMAIN CopyRegion(k) |-> value[CopyRegion(k)[i]]]
  BY <1>2, RegionCells
<1> QED
  BY <1>1, <1>2 DEF Sent

\* The two messages of a region carry what the mesh says.
LEMMA MessageValues ==
    ASSUME NEW k \in Active
    PROVE  /\ FirstMessage(k) = [i \in DOMAIN CopyRegion(k) |-> [n \in Cells |-> First(n)][CopyRegion(k)[i]]]
           /\ LastMessage(k) = [i \in DOMAIN CopyRegion(k) |-> [n \in Cells |-> Last(n)][CopyRegion(k)[i]]]
<1>1. \A i \in DOMAIN CopyRegion(k) : CopyRegion(k)[i] \in Cells
  BY RegionCells DEF CellsOf
<1> QED
  BY <1>1 DEF FirstMessage, LastMessage

\* A step of a rank leaves alone what the others know.
LEMMA OthersStay ==
    ASSUME ExchangeInv, NEW r \in Ranks, UNCHANGED <<clusterId, faceTypes>>,
           \A q \in Ranks : q # r => phase'[q] = phase[q] /\ setup'[q] = setup[q]
    PROVE  \A q \in Ranks \ {r} : SetupOf(q)'
<1> SUFFICES ASSUME NEW q \in Ranks \ {r} PROVE SetupOf(q)'
  OBVIOUS
<1>1. phase'[q] = phase[q] /\ setup'[q] = setup[q]
  OBVIOUS
<1>2. SetupOf(q)
  BY DEF ExchangeInv
<1>3. (\A n : First(n)' = First(n)) /\ (\A n : Last(n)' = Last(n))
  BY MeshStays
<1> QED
  BY <1>1, <1>2, <1>3 DEF SetupOf

\* The first and the second of two messages.
LEMMA MessagesInOrder ==
    ASSUME NEW x, NEW y
    PROVE  /\ Append(<<>>, x) = <<x>> /\ Append(<<x>>, y) = <<x, y>>
           /\ Head(<<x>>) = x /\ Tail(<<x>>) = <<>>
           /\ Head(<<x, y>>) = x /\ Tail(<<x, y>>) = <<y>>
           /\ Len(<<x>>) = 1 /\ Len(<<x, y>>) = 2
<1>1. Append(<<>>, x) = <<x>> /\ Head(<<x>>) = x /\ Head(<<x, y>>) = x
  OBVIOUS
<1>2. Tail(<<x>>) = <<>>
  OBVIOUS
<1>3. Tail(<<x, y>>) = <<y>>
  OBVIOUS
<1>4. Len(<<x>>) = 1 /\ Len(<<x, y>>) = 2
  OBVIOUS
<1>5. Append(<<x>>, y) = <<x, y>>
  <2> DEFINE s == <<x>>
             w == Append(s, y)
  <2>1. s \in Seq({x, y}) /\ Len(s) = 1 /\ s[1] = x
    OBVIOUS
  <2> HIDE DEF s
  <2>2. s \in Seq({x, y}) /\ y \in {x, y}
    BY <2>1
  <2>3. w \in Seq({x, y}) /\ Len(w) = Len(s) + 1
    BY <2>2
  <2>4. \A i \in 1..Len(w) : w[i] = IF i <= Len(s) THEN s[i] ELSE y
    BY <2>2
  <2>5. w[1] = x /\ w[2] = y /\ Len(w) = 2
    BY <2>1, <2>3, <2>4
  <2> HIDE DEF w
  <2>6. w = <<x, y>>
    <3> DEFINE v == <<x, y>>
    <3>1. v \in Seq({x, y}) /\ v[1] = x /\ v[2] = y /\ Len(v) = 2
      OBVIOUS
    <3> HIDE DEF v
    <3>2. \A i \in 1..Len(w) : w[i] = v[i]
      BY <2>5, <3>1
    <3>3. w \in Seq({x, y}) /\ Len(w) = Len(v)
      BY <2>3, <2>5, <3>1
    <3>4. w = v
      BY <3>1, <3>2, <3>3, SeqEqual, Zenon
    <3> QED BY <3>4 DEF v
  <2> QED BY <2>6 DEF w, s
<1> QED
  BY <1>1, <1>2, <1>3, <1>4, <1>5

\* The setups of the own cells are derived and sent.
LEMMA DeriveKeeps ==
    ASSUME ExchangeInv, NEW r \in Ranks, Derive(r)
    PROVE  ExchangeInv'
<1> DEFINE s == [c \in CellsOf(r) |-> GetLtsSetup(c)]
<1>1. /\ phase[r] = "layout" /\ UNCHANGED <<clusterId, faceTypes>>
      /\ setup' = [setup EXCEPT ![r] = s] /\ phase' = [phase EXCEPT ![r] = "derived"]
      /\ halo' = Sent(r, setup'[r])
  BY DEF Derive
<1>2. /\ phase' \in [Ranks -> {"layout", "derived", "known", "normalized", "done"}]
      /\ phase'[r] = "derived" /\ \A q \in Ranks : q # r => phase'[q] = phase[q]
      /\ DOMAIN setup' = Ranks /\ setup'[r] = s
      /\ \A q \in Ranks \ {r} : SetupOf(q)'
  <2>1. DOMAIN setup = Ranks
        /\ phase \in [Ranks -> {"layout", "derived", "known", "normalized", "done"}]
    BY DEF ExchangeInv
  <2>2. \A q \in Ranks : q # r => phase'[q] = phase[q] /\ setup'[q] = setup[q]
    BY <1>1, <2>1
  <2> QED
    BY <1>1, <2>1, <2>2, OthersStay
<1>3. s = [c \in CellsOf(r) |-> First(c)]
  BY DEF First
<1> HIDE DEF s
<1>4. /\ MeshInv' /\ Active' = Active
      /\ \A n : First(n)' = First(n)
      /\ \A k : FirstMessage(k)' = FirstMessage(k) /\ LastMessage(k)' = LastMessage(k)
  BY <1>1, MeshStays DEF ExchangeInv
<1>5. SetupOf(r)'
  BY <1>2, <1>3, <1>4 DEF SetupOf
<1>6. /\ \A k \in Active : halo'[k] = IF k.from = r THEN Append(halo[k], FirstMessage(k)) ELSE halo[k]
      /\ \A k \in Regions \ Active : halo'[k] = halo[k]
  <2> DEFINE value == [n \in Cells |-> First(n)]
  <2>1. \A c \in CellsOf(r) : setup'[r][c] = value[c]
    BY <1>2, <1>3 DEF CellsOf
  <2> HIDE DEF value
  <2>2. /\ \A k \in Active : halo'[k] =
               IF k.from = r
               THEN Append(halo[k], [i \in DOMAIN CopyRegion(k) |-> value[CopyRegion(k)[i]]])
               ELSE halo[k]
        /\ \A k \in Regions \ Active : halo'[k] = halo[k]
    BY <1>1, <2>1, SentFacts
  <2> QED BY <2>2, MessageValues DEF value
<1>7. ASSUME NEW k \in Active PROVE HaloOf(k)'
  <2>1. k.from \in Ranks /\ k.to \in Ranks /\ k.from # k.to
    BY DEF Active, Regions
  <2>2. HaloOf(k)
    BY DEF ExchangeInv
  <2>3. CASE k.from = r
    <3>1. /\ halo[k] = <<>> /\ phase[k.to] \in {"layout", "derived"}
          /\ phase'[k.to] = phase[k.to] /\ phase'[k.from] = "derived"
      BY <1>1, <1>2, <2>1, <2>2, <2>3 DEF HaloOf
    <3>2. halo'[k] = <<FirstMessage(k)>>
      BY <1>6, <2>3, <3>1, MessagesInOrder
    <3> QED BY <1>4, <3>1, <3>2 DEF HaloOf
  <2>4. CASE k.from # r
    <3>1. halo'[k] = halo[k] /\ phase'[k.from] = phase[k.from]
      BY <1>2, <1>6, <2>1, <2>4
    <3>2. \/ phase'[k.to] = phase[k.to]
          \/ phase[k.to] = "layout" /\ phase'[k.to] = "derived"
      BY <1>1, <1>2, <2>1
    <3> QED BY <1>4, <2>2, <3>1, <3>2 DEF HaloOf
  <2> QED BY <2>3, <2>4
<1> QED
  BY <1>2, <1>4, <1>5, <1>6, <1>7 DEF ExchangeInv

\* A message is taken from every region of the receiver.
LEMMA TakenFacts ==
    ASSUME NEW r \in Ranks
    PROVE  /\ \A k \in Active : Taken(r)[k] = IF k.to = r THEN Tail(halo[k]) ELSE halo[k]
           /\ \A k \in Regions \ Active : Taken(r)[k] = halo[k]
<1>1. Active \subseteq Regions
  BY DEF Active
<1> QED
  BY <1>1 DEF Taken

\* The setups of the ghost cells arrive.
LEMMA WaitForHaloKeeps ==
    ASSUME ExchangeInv, NEW r \in Ranks, WaitForHalo(r)
    PROVE  ExchangeInv'
<1>1. /\ phase[r] = "derived" /\ UNCHANGED <<clusterId, faceTypes>> /\ HasArrived(r)
      /\ setup' = [setup EXCEPT ![r] = Received(r)] /\ phase' = [phase EXCEPT ![r] = "known"]
      /\ halo' = Taken(r)
  BY DEF WaitForHalo
<1>2. /\ phase' \in [Ranks -> {"layout", "derived", "known", "normalized", "done"}]
      /\ phase'[r] = "known" /\ \A q \in Ranks : q # r => phase'[q] = phase[q]
      /\ DOMAIN setup' = Ranks /\ setup'[r] = Received(r)
      /\ \A q \in Ranks \ {r} : SetupOf(q)'
  <2>1. DOMAIN setup = Ranks
        /\ phase \in [Ranks -> {"layout", "derived", "known", "normalized", "done"}]
    BY DEF ExchangeInv
  <2>2. \A q \in Ranks : q # r => phase'[q] = phase[q] /\ setup'[q] = setup[q]
    BY <1>1, <2>1
  <2> QED
    BY <1>1, <2>1, <2>2, OthersStay
<1>3. /\ MeshInv /\ MeshInv' /\ Active' = Active
      /\ \A n : First(n)' = First(n)
      /\ \A k : FirstMessage(k)' = FirstMessage(k) /\ LastMessage(k)' = LastMessage(k)
  BY <1>1, MeshStays DEF ExchangeInv
<1>4. ASSUME NEW k \in Active, k.to = r
      PROVE  \/ phase[k.from] \in {"derived", "known"} /\ halo[k] = <<FirstMessage(k)>>
             \/ phase[k.from] \in {"normalized", "done"} /\ halo[k] = <<FirstMessage(k), LastMessage(k)>>
  <2>1. k.from \in Ranks
    BY DEF Active, Regions
  <2>2. halo[k] # <<>> /\ HaloOf(k)
    BY <1>1, <1>4 DEF HasArrived, ExchangeInv
  <2>3. phase[k.from] \in {"layout", "derived", "known", "normalized", "done"}
    BY <2>1 DEF ExchangeInv
  <2> QED BY <1>1, <1>4, <2>2, <2>3 DEF HaloOf
<1>5. Received(r) = [n \in KnownTo(r) |-> First(n)]
  <2> DEFINE value == [n \in Cells |-> First(n)]
  <2>1. \A k \in Active : k.to = r =>
            Head(halo[k]) = [i \in DOMAIN CopyRegion(k) |-> value[CopyRegion(k)[i]]]
    <3> SUFFICES ASSUME NEW k \in Active, k.to = r PROVE Head(halo[k]) = FirstMessage(k)
      BY MessageValues
    <3> QED BY <1>4, MessagesInOrder
  <2>2. \A n \in CellsOf(r) : setup[r][n] = First(n)
    BY <1>1 DEF ExchangeInv, SetupOf
  <2>3. \A n \in KnownTo(r) : value[n] = First(n)
    BY KnownCells
  <2> HIDE DEF value
  <2>4. Received(r) = [n \in KnownTo(r) |-> IF n \in CellsOf(r) THEN setup[r][n] ELSE value[n]]
    BY <1>3, <2>1, ReceivedFrom
  <2> QED BY <2>2, <2>3, <2>4
<1>6. SetupOf(r)'
  BY <1>2, <1>3, <1>5 DEF SetupOf
<1>7. /\ \A k \in Active : halo'[k] = IF k.to = r THEN Tail(halo[k]) ELSE halo[k]
      /\ \A k \in Regions \ Active : halo'[k] = halo[k]
  BY <1>1, TakenFacts
<1>8. ASSUME NEW k \in Active PROVE HaloOf(k)'
  <2>1. k.from \in Ranks /\ k.to \in Ranks /\ k.from # k.to
    BY DEF Active, Regions
  <2>2. HaloOf(k)
    BY DEF ExchangeInv
  <2>3. CASE k.to = r
    <3>1. phase'[k.to] = "known" /\ phase'[k.from] = phase[k.from]
      BY <1>2, <2>1, <2>3
    <3>2. \/ phase[k.from] \in {"derived", "known"} /\ halo'[k] = <<>>
          \/ phase[k.from] \in {"normalized", "done"} /\ halo'[k] = <<LastMessage(k)>>
      <4>1. halo'[k] = Tail(halo[k])
        BY <1>7, <2>3
      <4>2. Tail(<<FirstMessage(k)>>) = <<>> /\ Tail(<<FirstMessage(k), LastMessage(k)>>) = <<LastMessage(k)>>
        BY MessagesInOrder
      <4> QED BY <1>4, <2>3, <4>1, <4>2
    <3> QED BY <1>3, <3>1, <3>2 DEF HaloOf
  <2>4. CASE k.to # r
    <3>1. halo'[k] = halo[k] /\ phase'[k.to] = phase[k.to]
      BY <1>2, <1>7, <2>1, <2>4
    <3>2. \/ phase'[k.from] = phase[k.from]
          \/ phase[k.from] = "derived" /\ phase'[k.from] = "known"
      BY <1>1, <1>2, <2>1
    <3> QED BY <1>3, <2>2, <3>1, <3>2 DEF HaloOf
  <2> QED BY <2>3, <2>4
<1> QED
  BY <1>2, <1>3, <1>6, <1>7, <1>8 DEF ExchangeInv

\* The setups of the own cells are corrected and sent again.
LEMMA NormalizeKeeps ==
    ASSUME ExchangeInv, NEW r \in Ranks, Normalize(r)
    PROVE  ExchangeInv'
<1> DEFINE s == [n \in CellsOf(r) \cup GhostsOf(r) |->
                   IF n \in CellsOf(r) THEN NormalizeLtsSetup(setup[r], n) ELSE setup[r][n]]
<1>1. /\ phase[r] = "known" /\ UNCHANGED <<clusterId, faceTypes>>
      /\ setup' = [setup EXCEPT ![r] = s] /\ phase' = [phase EXCEPT ![r] = "normalized"]
      /\ halo' = Sent(r, s)
  BY DEF Normalize, Exchanged
<1>2. setup[r] = [n \in KnownTo(r) |-> First(n)]
  BY <1>1 DEF ExchangeInv, SetupOf
<1>3. s = [n \in KnownTo(r) |-> IF n \in CellsOf(r) THEN Last(n) ELSE First(n)]
  <2>1. \A n \in CellsOf(r) : NormalizeLtsSetup(setup[r], n) = Last(n)
    BY <1>2, NormalizeIsLast
  <2> QED BY <1>2, <2>1 DEF KnownTo
<1> HIDE DEF s
<1>4. /\ phase' \in [Ranks -> {"layout", "derived", "known", "normalized", "done"}]
      /\ phase'[r] = "normalized" /\ \A q \in Ranks : q # r => phase'[q] = phase[q]
      /\ DOMAIN setup' = Ranks /\ setup'[r] = s
      /\ \A q \in Ranks \ {r} : SetupOf(q)'
  <2>1. DOMAIN setup = Ranks
        /\ phase \in [Ranks -> {"layout", "derived", "known", "normalized", "done"}]
    BY DEF ExchangeInv
  <2>2. \A q \in Ranks : q # r => phase'[q] = phase[q] /\ setup'[q] = setup[q]
    BY <1>1, <2>1
  <2> QED
    BY <1>1, <2>1, <2>2, OthersStay
<1>5. /\ MeshInv' /\ Active' = Active
      /\ \A n : First(n)' = First(n) /\ Last(n)' = Last(n)
      /\ \A k : FirstMessage(k)' = FirstMessage(k) /\ LastMessage(k)' = LastMessage(k)
  BY <1>1, MeshStays DEF ExchangeInv
<1>6. SetupOf(r)'
  BY <1>3, <1>4, <1>5 DEF SetupOf
<1>7. /\ \A k \in Active : halo'[k] = IF k.from = r THEN Append(halo[k], LastMessage(k)) ELSE halo[k]
      /\ \A k \in Regions \ Active : halo'[k] = halo[k]
  <2> DEFINE value == [n \in Cells |-> Last(n)]
  <2>1. \A c \in CellsOf(r) : s[c] = value[c]
    BY <1>3 DEF CellsOf, KnownTo
  <2> HIDE DEF value
  <2>2. /\ \A k \in Active : halo'[k] =
               IF k.from = r
               THEN Append(halo[k], [i \in DOMAIN CopyRegion(k) |-> value[CopyRegion(k)[i]]])
               ELSE halo[k]
        /\ \A k \in Regions \ Active : halo'[k] = halo[k]
    BY <1>1, <2>1, SentFacts
  <2> QED BY <2>2, MessageValues DEF value
<1>8. ASSUME NEW k \in Active PROVE HaloOf(k)'
  <2>1. k.from \in Ranks /\ k.to \in Ranks /\ k.from # k.to
    BY DEF Active, Regions
  <2>2. HaloOf(k)
    BY DEF ExchangeInv
  <2>3. CASE k.from = r
    <3>1. /\ phase'[k.to] = phase[k.to] /\ phase'[k.from] = "normalized"
          /\ phase[k.to] # "done"
          /\ phase[k.to] \in {"layout", "derived"} => halo[k] = <<FirstMessage(k)>>
          /\ phase[k.to] \in {"known", "normalized"} => halo[k] = <<>>
      BY <1>1, <1>4, <2>1, <2>2, <2>3 DEF HaloOf
    <3>2. halo'[k] = Append(halo[k], LastMessage(k))
      BY <1>7, <2>3
    <3>3. /\ phase[k.to] \in {"layout", "derived"} => halo'[k] = <<FirstMessage(k), LastMessage(k)>>
          /\ phase[k.to] \in {"known", "normalized"} => halo'[k] = <<LastMessage(k)>>
      BY <3>1, <3>2, MessagesInOrder
    <3> QED BY <1>5, <3>1, <3>3 DEF HaloOf
  <2>4. CASE k.from # r
    <3>1. halo'[k] = halo[k] /\ phase'[k.from] = phase[k.from]
      BY <1>4, <1>7, <2>1, <2>4
    <3>2. \/ phase'[k.to] = phase[k.to]
          \/ phase[k.to] = "known" /\ phase'[k.to] = "normalized"
      BY <1>1, <1>4, <2>1
    <3> QED BY <1>5, <2>2, <3>1, <3>2 DEF HaloOf
  <2> QED BY <2>3, <2>4
<1> QED
  BY <1>4, <1>5, <1>6, <1>7, <1>8 DEF ExchangeInv

\* The corrected setups of the ghost cells arrive.
LEMMA WaitForFinalHaloKeeps ==
    ASSUME ExchangeInv, NEW r \in Ranks, WaitForFinalHalo(r)
    PROVE  ExchangeInv'
<1>1. /\ phase[r] = "normalized" /\ UNCHANGED <<clusterId, faceTypes>> /\ HasArrived(r)
      /\ setup' = [setup EXCEPT ![r] = Received(r)] /\ phase' = [phase EXCEPT ![r] = "done"]
      /\ halo' = Taken(r)
  BY DEF WaitForFinalHalo
<1>2. /\ phase' \in [Ranks -> {"layout", "derived", "known", "normalized", "done"}]
      /\ phase'[r] = "done" /\ \A q \in Ranks : q # r => phase'[q] = phase[q]
      /\ DOMAIN setup' = Ranks /\ setup'[r] = Received(r)
      /\ \A q \in Ranks \ {r} : SetupOf(q)'
  <2>1. DOMAIN setup = Ranks
        /\ phase \in [Ranks -> {"layout", "derived", "known", "normalized", "done"}]
    BY DEF ExchangeInv
  <2>2. \A q \in Ranks : q # r => phase'[q] = phase[q] /\ setup'[q] = setup[q]
    BY <1>1, <2>1
  <2> QED
    BY <1>1, <2>1, <2>2, OthersStay
<1>3. /\ MeshInv /\ MeshInv' /\ Active' = Active
      /\ \A n : First(n)' = First(n) /\ Last(n)' = Last(n)
      /\ \A k : FirstMessage(k)' = FirstMessage(k) /\ LastMessage(k)' = LastMessage(k)
  BY <1>1, MeshStays DEF ExchangeInv
<1>4. ASSUME NEW k \in Active, k.to = r
      PROVE  phase[k.from] \in {"normalized", "done"} /\ halo[k] = <<LastMessage(k)>>
  <2>1. k.from \in Ranks
    BY DEF Active, Regions
  <2>2. halo[k] # <<>> /\ HaloOf(k)
    BY <1>1, <1>4 DEF HasArrived, ExchangeInv
  <2>3. phase[k.from] \in {"layout", "derived", "known", "normalized", "done"}
    BY <2>1 DEF ExchangeInv
  <2> QED BY <1>1, <1>4, <2>2, <2>3 DEF HaloOf
<1>5. Received(r) = [n \in KnownTo(r) |-> Last(n)]
  <2> DEFINE value == [n \in Cells |-> Last(n)]
  <2>1. \A k \in Active : k.to = r =>
            Head(halo[k]) = [i \in DOMAIN CopyRegion(k) |-> value[CopyRegion(k)[i]]]
    <3> SUFFICES ASSUME NEW k \in Active, k.to = r PROVE Head(halo[k]) = LastMessage(k)
      BY MessageValues
    <3> QED BY <1>4, MessagesInOrder
  <2>2. \A n \in CellsOf(r) : setup[r][n] = Last(n)
    BY <1>1 DEF ExchangeInv, SetupOf, KnownTo
  <2>3. \A n \in KnownTo(r) : value[n] = Last(n)
    BY KnownCells
  <2> HIDE DEF value
  <2>4. Received(r) = [n \in KnownTo(r) |-> IF n \in CellsOf(r) THEN setup[r][n] ELSE value[n]]
    BY <1>3, <2>1, ReceivedFrom
  <2> QED BY <2>2, <2>3, <2>4
<1>6. SetupOf(r)'
  BY <1>2, <1>3, <1>5 DEF SetupOf
<1>7. /\ \A k \in Active : halo'[k] = IF k.to = r THEN Tail(halo[k]) ELSE halo[k]
      /\ \A k \in Regions \ Active : halo'[k] = halo[k]
  BY <1>1, TakenFacts
<1>8. ASSUME NEW k \in Active PROVE HaloOf(k)'
  <2>1. k.from \in Ranks /\ k.to \in Ranks /\ k.from # k.to
    BY DEF Active, Regions
  <2>2. HaloOf(k)
    BY DEF ExchangeInv
  <2>3. CASE k.to = r
    <3>1. phase'[k.to] = "done" /\ phase'[k.from] = phase[k.from]
      BY <1>2, <2>1, <2>3
    <3>2. phase[k.from] \in {"normalized", "done"} /\ halo'[k] = <<>>
      <4>1. halo'[k] = Tail(halo[k])
        BY <1>7, <2>3
      <4>2. Tail(<<LastMessage(k)>>) = <<>>
        BY MessagesInOrder
      <4> QED BY <1>4, <2>3, <4>1, <4>2
    <3> QED BY <1>3, <3>1, <3>2 DEF HaloOf
  <2>4. CASE k.to # r
    <3>1. halo'[k] = halo[k] /\ phase'[k.to] = phase[k.to]
      BY <1>2, <1>7, <2>1, <2>4
    <3>2. \/ phase'[k.from] = phase[k.from]
          \/ phase[k.from] = "normalized" /\ phase'[k.from] = "done"
      BY <1>1, <1>2, <2>1
    <3> QED BY <1>3, <2>2, <3>1, <3>2 DEF HaloOf
  <2> QED BY <2>3, <2>4
<1> QED
  BY <1>2, <1>3, <1>6, <1>7, <1>8 DEF ExchangeInv

\* The exchange, from the start and by every step.
LEMMA ExchangeInvariant == LtsSpec => []ExchangeInv
<1>1. LtsInit => ExchangeInv
  <2> SUFFICES ASSUME LtsInit PROVE ExchangeInv
    OBVIOUS
  <2>1. MeshInv
    <3>1. \A f \in Internal : faceTypes[f] \in {"dynamicRupture", "regular"}
      BY DEF LtsInit, Internal
    <3>2. \A f \in Faces \ Internal : faceTypes[f] \in {"outflow", "freeSurface"}
      BY DEF LtsInit
    <3>3. ASSUME NEW f \in Internal, faceTypes[f] = "dynamicRupture",
                 NEW c \in CellsAt[f], NEW n \in CellsAt[f]
          PROVE  clusterId[c] = clusterId[n]
      <4>1. clusterId[c] <= clusterId[n] + 0 /\ clusterId[n] <= clusterId[c] + 0
        BY <3>3 DEF LtsInit
      <4>2. clusterId[c] \in Nat /\ clusterId[n] \in Nat
        BY DEF LtsInit, Internal
      <4> QED BY <4>1, <4>2
    <3> QED BY <3>1, <3>2, <3>3 DEF LtsInit, MeshInv
  <2>2. \A r \in Ranks : SetupOf(r)
    BY DEF LtsInit, SetupOf
  <2>3. \A k \in Regions : halo[k] = <<>> /\ phase[k.from] = "layout" /\ phase[k.to] = "layout"
    BY DEF LtsInit, Regions
  <2>4. \A k \in Active : HaloOf(k)
    BY <2>3 DEF HaloOf, Active
  <2> QED BY <2>1, <2>2, <2>3, <2>4 DEF LtsInit, ExchangeInv
<1>2. ExchangeInv /\ [LtsNext]_ltsVars => ExchangeInv'
  <2> SUFFICES ASSUME ExchangeInv, [LtsNext]_ltsVars PROVE ExchangeInv'
    OBVIOUS
  <2>1. CASE UNCHANGED ltsVars
    <3>1. UNCHANGED <<clusterId, faceTypes, setup, halo, phase>>
      BY <2>1 DEF ltsVars
    <3>2. /\ MeshInv' /\ Active' = Active /\ Regions' = Regions
          /\ \A n : First(n)' = First(n) /\ Last(n)' = Last(n)
          /\ \A k : FirstMessage(k)' = FirstMessage(k) /\ LastMessage(k)' = LastMessage(k)
      BY <3>1, MeshStays DEF ExchangeInv, Regions
    <3>3. \A r \in Ranks : SetupOf(r)'
      BY <3>1, <3>2 DEF ExchangeInv, SetupOf
    <3>4. \A k \in Active : HaloOf(k)'
      BY <3>1, <3>2 DEF ExchangeInv, HaloOf
    <3> QED BY <3>1, <3>2, <3>3, <3>4 DEF ExchangeInv
  <2>2. CASE LtsNext
    BY <2>1, <2>2, DeriveKeeps, WaitForHaloKeeps, NormalizeKeeps, WaitForFinalHaloKeeps
       DEF LtsNext, SetupsDone
  <2> QED BY <2>1, <2>2
<1> QED
  BY <1>1, <1>2, PTL DEF LtsSpec

----------------------------------------------------------------------------
(* What the setups say of each other *)

\* The two cells at a face, by their corrected setups.
LEMMA FaceFacts ==
    ASSUME MeshInv, NEW c \in Cells, NEW f \in FacesOf(c) \cap Internal
    PROVE  LET n == Neighbor(c, f)
           IN /\ f \in Last(c).neighborGTS <=> clusterId[c] = clusterId[n]
              /\ f \in Last(c).neighborDerivatives =>
                     Last(n).derivatives /\ clusterId[c] <= clusterId[n]
              /\ f \notin Last(c).neighborDerivatives =>
                     /\ Last(n).buffers /\ clusterId[c] >= clusterId[n]
                     /\ Last(n).accumulate <=> clusterId[c] > clusterId[n]
              /\ faceTypes[f] = "dynamicRupture" => Last(n).derivatives
<1> DEFINE n == Neighbor(c, f)
<1>1. n \in Cells /\ f \in FacesOf(n) /\ Neighbor(n, f) = c /\ CellsAt[f] = {c, n}
  BY NeighborFacts
<1> HIDE DEF n
<1>2. clusterId[c] \in Nat /\ clusterId[n] \in Nat /\ f \in FacesOf(c) /\ f \in Internal
  BY <1>1 DEF MeshInv
<1>3. /\ faceTypes[f] \in {"dynamicRupture", "regular"}
      /\ faceTypes[f] = "dynamicRupture" => clusterId[c] = clusterId[n]
  BY <1>1 DEF MeshInv
<1>4. /\ f \notin OpenAt(c) /\ f \notin OpenAt(n)
      /\ f \in FaultAt(c) <=> faceTypes[f] = "dynamicRupture"
      /\ f \in FaultAt(n) <=> faceTypes[f] = "dynamicRupture"
      /\ f \in SlowerAt(c) <=> faceTypes[f] = "regular" /\ clusterId[c] < clusterId[n]
      /\ f \in SlowerAt(n) <=> faceTypes[f] = "regular" /\ clusterId[n] < clusterId[c]
      /\ f \in EqualAt(c) <=> faceTypes[f] = "regular" /\ clusterId[c] = clusterId[n]
      /\ f \in EqualAt(n) <=> faceTypes[f] = "regular" /\ clusterId[c] = clusterId[n]
      /\ f \in FasterAt(n) <=> faceTypes[f] = "regular" /\ clusterId[c] < clusterId[n]
  BY <1>1, <1>2, <1>3
     DEF OpenAt, FaultAt, SlowerAt, EqualAt, FasterAt, FacesOfType, n
<1>5. /\ f \in Last(c).neighborGTS <=> f \in FaultAt(c) \/ f \in EqualAt(c)
      /\ f \in Last(c).neighborDerivatives <=>
             \/ f \in FaultAt(c) \/ f \in SlowerAt(c)
             \/ (f \in FaultAt(c) \/ f \in EqualAt(c)) /\ First(n).accumulate
  BY <1>2, <1>4, FirstFacts, LastFacts DEF n
<1>6. /\ Last(n).buffers = First(n).buffers /\ Last(n).derivatives = First(n).derivatives
      /\ Last(n).accumulate = First(n).accumulate
  BY <1>1, LastFacts
<1>7. /\ f \in FaultAt(n) \/ f \in FasterAt(n) => First(n).derivatives
      /\ (f \in FaultAt(n) \/ f \in EqualAt(n)) /\ First(n).accumulate => First(n).derivatives
      /\ f \in SlowerAt(n) \/ f \in EqualAt(n) => First(n).buffers
      /\ f \in SlowerAt(n) => First(n).accumulate
  BY FirstFacts
<1>8. f \in Last(c).neighborGTS <=> clusterId[c] = clusterId[n]
  BY <1>2, <1>3, <1>4, <1>5
<1>9. f \in Last(c).neighborDerivatives => Last(n).derivatives /\ clusterId[c] <= clusterId[n]
  BY <1>2, <1>3, <1>4, <1>5, <1>6, <1>7
<1>10. ASSUME f \notin Last(c).neighborDerivatives
       PROVE  /\ Last(n).buffers /\ clusterId[c] >= clusterId[n]
              /\ Last(n).accumulate <=> clusterId[c] > clusterId[n]
  <2>1. faceTypes[f] = "regular" /\ clusterId[c] >= clusterId[n]
    BY <1>2, <1>3, <1>4, <1>5, <1>10
  <2>2. CASE clusterId[c] = clusterId[n]
    <3>1. ~First(n).accumulate /\ First(n).buffers
      BY <1>4, <1>5, <1>7, <1>10, <2>1, <2>2
    <3> QED BY <1>2, <1>6, <2>1, <2>2, <3>1
  <2>3. CASE clusterId[c] > clusterId[n]
    <3>1. First(n).accumulate /\ First(n).buffers
      BY <1>2, <1>4, <1>7, <2>1, <2>3
    <3> QED BY <1>6, <2>1, <2>3, <3>1
  <2> QED BY <1>2, <2>1, <2>2, <2>3
<1>11. faceTypes[f] = "dynamicRupture" => Last(n).derivatives
  BY <1>4, <1>6, <1>7
<1> QED
  BY <1>8, <1>9, <1>10, <1>11 DEF n

\* At the end each rank knows the corrected setups of its cells and ghost cells.
LEMMA KnownAtTheEnd ==
    ASSUME ExchangeInv, NEW r \in Ranks, Done(r), NEW n \in KnownTo(r)
    PROVE  setup[r][n] = Last(n)
BY DEF ExchangeInv, SetupOf, Done

\* Every face reads data that holds the interval its cell needs, for all meshes,
\* clusterings that obey the rule, and orders of the ranks (TimeCommon.cpp:67-83).
THEOREM DataIsThereWhenRead == LtsSpec => []FacesReadWhatTheyNeed
<1>1. ExchangeInv => FacesReadWhatTheyNeed
  <2> SUFFICES ASSUME ExchangeInv, NEW f \in Internal,
                      \A c \in CellsAt[f] : Done(RankOf[c]), NEW c \in CellsAt[f]
               PROVE  LET n == Neighbor(c, f)
                          mine == setup[RankOf[c]][c]
                          theirs == setup[RankOf[n]][n]
                      IN /\ f \in mine.neighborGTS <=> clusterId[c] = clusterId[n]
                         /\ f \in mine.neighborDerivatives =>
                                theirs.derivatives /\ clusterId[c] <= clusterId[n]
                         /\ f \notin mine.neighborDerivatives =>
                                /\ theirs.buffers /\ clusterId[c] >= clusterId[n]
                                /\ theirs.accumulate <=> clusterId[c] > clusterId[n]
                         /\ faceTypes[f] = "dynamicRupture" => theirs.derivatives
    BY DEF FacesReadWhatTheyNeed
  <2>1. c \in Cells /\ f \in FacesOf(c) \cap Internal
    BY DEF FacesOf, Internal
  <2>2. Neighbor(c, f) \in CellsAt[f] /\ Neighbor(c, f) \in Cells
    BY <2>1, NeighborFacts
  <2>3. \A m \in CellsAt[f] : m \in Cells => setup[RankOf[m]][m] = Last(m)
    BY KnownAtTheEnd DEF KnownTo, CellsOf
  <2>4. MeshInv
    BY DEF ExchangeInv
  <2> QED BY <2>1, <2>2, <2>3, <2>4, FaceFacts
<1> QED
  BY <1>1, ExchangeInvariant, PTL

\* What is read from a cell through a face that others request it at.
LEMMA RequestedIsProvided ==
    ASSUME ExchangeInv, NEW r \in Ranks, Done(r), NEW n \in KnownTo(r), NEW q \in Ranks, NEW b,
           \A f \in FacesOf(n) \cap Internal : RankOf[Neighbor(n, f)] = q => Neighbor(n, f) \in KnownTo(r)
    PROVE  /\ Requested(r, n, q, b) =
                  {IF f \in Last(Neighbor(n, f)).neighborDerivatives THEN "derivatives" ELSE "buffers" :
                      f \in {g \in FacesOf(n) \cap Internal :
                                RankOf[Neighbor(n, g)] = q /\ clusterId[Neighbor(n, g)] = b}}
           /\ Provided(r, n) = {x \in {"buffers", "derivatives"} :
                                   IF x = "buffers" THEN Last(n).buffers ELSE Last(n).derivatives}
           /\ Requested(r, n, q, b) \subseteq Provided(r, n)
<1> DEFINE faces == {g \in FacesOf(n) \cap Internal :
                        RankOf[Neighbor(n, g)] = q /\ clusterId[Neighbor(n, g)] = b}
<1>1. \A f \in faces : setup[r][Neighbor(n, f)] = Last(Neighbor(n, f))
  BY KnownAtTheEnd
<1>2. Requested(r, n, q, b) =
          {IF f \in Last(Neighbor(n, f)).neighborDerivatives THEN "derivatives" ELSE "buffers" : f \in faces}
  BY <1>1 DEF Requested
<1>3. Provided(r, n) = {x \in {"buffers", "derivatives"} :
                           IF x = "buffers" THEN Last(n).buffers ELSE Last(n).derivatives}
  BY KnownAtTheEnd DEF Provided
<1>4. n \in Cells
  BY KnownCells
<1>5. ASSUME NEW f \in faces
      PROVE  IF f \in Last(Neighbor(n, f)).neighborDerivatives THEN Last(n).derivatives ELSE Last(n).buffers
  <2>1. /\ Neighbor(n, f) \in Cells /\ f \in FacesOf(Neighbor(n, f)) \cap Internal
        /\ Neighbor(Neighbor(n, f), f) = n
    BY <1>4, NeighborFacts
  <2>2. MeshInv
    BY DEF ExchangeInv
  <2> QED BY <2>1, <2>2, FaceFacts
<1> HIDE DEF faces
<1>6. Requested(r, n, q, b) \subseteq Provided(r, n)
  BY <1>2, <1>3, <1>5
<1> QED
  BY <1>2, <1>3, <1>6 DEF faces

\* No face reads from storage that is not there: what a ghost cell is asked for is
\* transferred, because the owner of that cell provides it (Buckets.cpp:262-309).
THEOREM PointersAreSet == LtsSpec => []EveryPointerIsSet
<1>1. ExchangeInv => EveryPointerIsSet
  <2> SUFFICES ASSUME ExchangeInv, NEW c \in Cells, Done(RankOf[c]),
                      NEW f \in FacesOf(c), faceTypes[f] # "outflow"
               PROVE  PointerIsSet(c, f)
    BY DEF EveryPointerIsSet
  <2> DEFINE r == RankOf[c]
             x == IF f \in Last(c).neighborDerivatives THEN "derivatives" ELSE "buffers"
  <2>1. r \in Ranks /\ c \in CellsOf(r) /\ c \in KnownTo(r) /\ MeshInv
    BY DEF CellsOf, KnownTo, ExchangeInv
  <2>2. setup[r][c] = Last(c)
    BY <2>1, KnownAtTheEnd
  <2>3. CASE f \notin Internal
    <3>1. f \in OpenAt(c) /\ f \notin FaultAt(c) /\ f \notin SlowerAt(c)
      BY <2>1, <2>3 DEF MeshInv, OpenAt, FaultAt, SlowerAt, FacesOfType, FacesOf
    <3>2. f \in Last(c).neighborDerivatives <=> f \in First(c).neighborDerivatives
      BY <2>3, LastFacts
    <3>3. /\ f \in First(c).neighborDerivatives => Last(c).derivatives
          /\ f \notin First(c).neighborDerivatives => Last(c).buffers
      BY <3>1, FirstFacts, LastFacts
    <3>4. x \in Provided(r, c)
      BY <2>2, <3>2, <3>3 DEF Provided
    <3> QED BY <2>1, <2>2, <2>3, <3>4 DEF PointerIsSet
  <2>4. CASE f \in Internal
    <3> DEFINE n == Neighbor(c, f)
    <3>1. /\ n \in Cells /\ n \in KnownTo(r) /\ f \in FacesOf(n) \cap Internal
          /\ Neighbor(n, f) = c
      BY <2>1, <2>4, NeighborFacts, KnownCells
    <3>2. setup[r][n] = Last(n)
      BY <2>1, <3>1, KnownAtTheEnd
    <3>3. IF f \in Last(c).neighborDerivatives THEN Last(n).derivatives ELSE Last(n).buffers
      BY <2>1, <2>4, FaceFacts
    <3> HIDE DEF n
    <3>4. x \in Provided(r, n)
      BY <3>2, <3>3 DEF Provided
    <3>5. x \in Requested(r, n, r, clusterId[c])
      BY <2>1, <2>2, <3>1 DEF Requested
    <3> QED BY <2>2, <2>4, <3>4, <3>5 DEF PointerIsSet, GhostDuplicate, n
  <2> QED BY <2>3, <2>4
<1> QED
  BY <1>1, ExchangeInvariant, PTL

\* Types of the setups in every phase.
LEMMA TypesFollow == ExchangeInv => LtsSetupTypeOK
<1> SUFFICES ASSUME ExchangeInv PROVE LtsSetupTypeOK
  OBVIOUS
<1>1. ASSUME NEW n \in Cells
      PROVE  /\ First(n) \in Setup /\ Last(n) \in Setup
             /\ First(n).neighborDerivatives \cup First(n).neighborGTS
                    \subseteq FacesOf(n) \ FacesOfType(n, {"outflow"})
             /\ Last(n).neighborDerivatives \cup Last(n).neighborGTS
                    \subseteq FacesOf(n) \ FacesOfType(n, {"outflow"})
  <2>1. FaultAt(n) \cup SlowerAt(n) \cup EqualAt(n) \cup OpenAt(n)
            \subseteq FacesOf(n) \ FacesOfType(n, {"outflow"})
    BY DEF FaultAt, SlowerAt, EqualAt, OpenAt, FacesOfType
  <2>2. First(n).neighborDerivatives \cup First(n).neighborGTS
            \subseteq FaultAt(n) \cup SlowerAt(n) \cup EqualAt(n) \cup OpenAt(n)
    BY FirstFacts
  <2>3. Last(n).neighborDerivatives \cup Last(n).neighborGTS
            \subseteq First(n).neighborDerivatives \cup First(n).neighborGTS
    BY LastFacts
  <2> QED BY <2>1, <2>2, <2>3, FirstFacts, LastFacts
<1>2. phase \in [Ranks -> {"layout", "derived", "known", "normalized", "done"}]
  BY DEF ExchangeInv
<1>3. ASSUME NEW r \in Ranks
      PROVE  /\ DOMAIN setup[r] = IF phase[r] = "layout" THEN {}
                                  ELSE IF phase[r] = "derived" THEN CellsOf(r)
                                  ELSE CellsOf(r) \cup GhostsOf(r)
             /\ \A n \in DOMAIN setup[r] : setup[r][n] \in {First(n), Last(n)}
  <2>1. SetupOf(r) /\ phase[r] \in {"layout", "derived", "known", "normalized", "done"}
    BY DEF ExchangeInv
  <2>2. CASE phase[r] = "layout"
    BY <2>1, <2>2 DEF SetupOf
  <2>3. CASE phase[r] = "derived"
    <3>1. setup[r] = [n \in CellsOf(r) |-> First(n)]
      BY <2>1, <2>3 DEF SetupOf
    <3> QED BY <2>3, <3>1
  <2>4. CASE phase[r] = "known"
    <3>1. setup[r] = [n \in KnownTo(r) |-> First(n)]
      BY <2>1, <2>4 DEF SetupOf
    <3> QED BY <2>4, <3>1 DEF KnownTo
  <2>5. CASE phase[r] = "normalized"
    <3>1. setup[r] = [n \in KnownTo(r) |-> IF n \in CellsOf(r) THEN Last(n) ELSE First(n)]
      BY <2>1, <2>5 DEF SetupOf
    <3> QED BY <2>5, <3>1 DEF KnownTo
  <2>6. CASE phase[r] = "done"
    <3>1. setup[r] = [n \in KnownTo(r) |-> Last(n)]
      BY <2>1, <2>6 DEF SetupOf
    <3> QED BY <2>6, <3>1 DEF KnownTo
  <2> QED BY <2>1, <2>2, <2>3, <2>4, <2>5, <2>6
<1>4. ASSUME NEW r \in Ranks, NEW n \in DOMAIN setup[r]
      PROVE  /\ setup[r][n] \in Setup
             /\ setup[r][n].neighborDerivatives \cup setup[r][n].neighborGTS
                    \subseteq FacesOf(n) \ FacesOfType(n, {"outflow"})
  <2>1. n \in Cells
    BY <1>3, KnownCells DEF KnownTo
  <2>2. setup[r][n] \in {First(n), Last(n)}
    BY <1>3
  <2> QED BY <1>1, <2>1, <2>2
<1>5. ASSUME NEW k \in Regions PROVE Len(halo[k]) <= 2
  <2>1. Len(<<>>) = 0
    OBVIOUS
  <2>2. CASE k \in Active
    <3>1. HaloOf(k) /\ k.from \in Ranks /\ k.to \in Ranks
      BY <2>2 DEF ExchangeInv, Regions
    <3>2. \/ halo[k] = <<>> \/ halo[k] = <<FirstMessage(k)>> \/ halo[k] = <<LastMessage(k)>>
          \/ halo[k] = <<FirstMessage(k), LastMessage(k)>>
      BY <1>2, <3>1 DEF HaloOf
    <3>3. Len(<<FirstMessage(k)>>) = 1 /\ Len(<<LastMessage(k)>>) = 1
          /\ Len(<<FirstMessage(k), LastMessage(k)>>) = 2
      BY MessagesInOrder
    <3>4. Len(halo[k]) \in {0, 1, 2}
      BY <2>1, <3>2, <3>3, Zenon
    <3>5. \A x \in {0, 1, 2} : x <= 2
      OBVIOUS
    <3> QED BY <3>4, <3>5, Zenon
  <2>3. CASE k \notin Active
    BY <2>1, <2>3 DEF ExchangeInv
  <2> QED BY <2>2, <2>3
<1> QED
  BY <1>2, <1>3, <1>4, <1>5 DEF LtsSetupTypeOK

\* The sender and the receiver of a region agree on what every message of the time
\* stepping holds, each from what it knows, and the sender has all of it
\* (Buckets.cpp:76-125, 135-202).
THEOREM TransfersFitTogether == LtsSpec => []TransfersMatch
<1>1. ExchangeInv => TransfersMatch
  <2> SUFFICES ASSUME ExchangeInv, NEW k \in Active, Done(k.from), Done(k.to)
               PROVE  /\ Transfer(k.from, CopyRegion(k), k) = Transfer(k.to, GhostRegion(k), k)
                      /\ \A i \in DOMAIN CopyRegion(k) :
                             Requested(k.from, CopyRegion(k)[i], k.to, k.ghost)
                                 \subseteq Provided(k.from, CopyRegion(k)[i])
    BY TypesFollow DEF TransfersMatch
  <2>1. k.from \in Ranks /\ k.to \in Ranks /\ k.from # k.to /\ k \in Regions
    BY DEF Active, Regions
  <2>2. CopyRegion(k) = GhostRegion(k)
    BY <2>1, GhostsAreCopies DEF CopyRegion, GhostRegion
  <2>3. ASSUME NEW i \in DOMAIN CopyRegion(k)
        PROVE  LET n == CopyRegion(k)[i]
               IN /\ Requested(k.from, n, k.to, k.ghost) = Requested(k.to, n, k.to, k.ghost)
                  /\ Provided(k.from, n) = Provided(k.to, n)
                  /\ Requested(k.from, n, k.to, k.ghost) \subseteq Provided(k.from, n)
    <3> DEFINE n == CopyRegion(k)[i]
    <3>1. n \in CellsOf(k.from) /\ n \in GhostsOf(k.to)
      BY RegionCells
    <3> HIDE DEF n
    <3>2. n \in KnownTo(k.from) /\ n \in KnownTo(k.to)
      BY <3>1 DEF KnownTo
    <3>3. \A f \in FacesOf(n) \cap Internal : Neighbor(n, f) \in KnownTo(k.from)
      BY <2>1, <3>1, KnownCells
    <3>4. \A f \in FacesOf(n) \cap Internal :
              RankOf[Neighbor(n, f)] = k.to => Neighbor(n, f) \in KnownTo(k.to)
      <4>1. \A f \in FacesOf(n) \cap Internal : Neighbor(n, f) \in Cells
        BY <3>1, NeighborFacts DEF CellsOf
      <4> QED BY <4>1 DEF KnownTo, CellsOf
    <3> DEFINE R == {IF f \in Last(Neighbor(n, f)).neighborDerivatives THEN "derivatives" ELSE "buffers" :
                        f \in {g \in FacesOf(n) \cap Internal :
                                  RankOf[Neighbor(n, g)] = k.to /\ clusterId[Neighbor(n, g)] = k.ghost}}
               P == {x \in {"buffers", "derivatives"} :
                        IF x = "buffers" THEN Last(n).buffers ELSE Last(n).derivatives}
    <3>5. /\ Requested(k.from, n, k.to, k.ghost) = R /\ Provided(k.from, n) = P
          /\ Requested(k.from, n, k.to, k.ghost) \subseteq Provided(k.from, n)
      BY <2>1, <3>2, <3>3, RequestedIsProvided
    <3>6. Requested(k.to, n, k.to, k.ghost) = R /\ Provided(k.to, n) = P
      <4>1. Done(k.to) /\ ExchangeInv /\ n \in KnownTo(k.to) /\ k.to \in Ranks
        BY <2>1, <3>2
      <4> DEFINE to == k.to
                 b == k.ghost
      <4>2. \A f \in FacesOf(n) \cap Internal : RankOf[Neighbor(n, f)] = to => Neighbor(n, f) \in KnownTo(to)
        BY <3>4
      <4>3. Done(to) /\ n \in KnownTo(to) /\ to \in Ranks
        BY <4>1
      <4> HIDE DEF R, P, to, b
      <4>4. /\ Requested(to, n, to, b) =
                  {IF f \in Last(Neighbor(n, f)).neighborDerivatives THEN "derivatives" ELSE "buffers" :
                      f \in {g \in FacesOf(n) \cap Internal :
                                RankOf[Neighbor(n, g)] = to /\ clusterId[Neighbor(n, g)] = b}}
            /\ Provided(to, n) = {x \in {"buffers", "derivatives"} :
                                   IF x = "buffers" THEN Last(n).buffers ELSE Last(n).derivatives}
        BY <4>1, <4>2, <4>3, RequestedIsProvided
      <4> QED BY <4>4 DEF R, P, to, b
    <3> QED BY <3>5, <3>6 DEF n
  <2>4. Transfer(k.from, CopyRegion(k), k) = Transfer(k.to, CopyRegion(k), k)
    BY <2>3 DEF Transfer
  <2> QED BY <2>2, <2>3, <2>4
<1> QED
  BY <1>1, ExchangeInvariant, PTL

=============================================================================
