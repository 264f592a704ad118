---------------------------- MODULE Clusterings ----------------------------
(***************************************************************************)
(* Cluster ids of the cells of a mesh, the rule that ids of neighbouring    *)
(* cells obey, and the greatest ids below given ones that obey it.         *)
(***************************************************************************)
EXTENDS Integers

CONSTANTS
    Cells,
    Faces,                    \* pairs <<c, n>> of neighbouring cells
    DynamicRupture,           \* those of them that are fault faces
    MaxClusterId              \* a bound of the ids computeClusterIds returns

ASSUME FacesAssumption ==
    /\ Faces \subseteq Cells \X Cells
    /\ \A f \in Faces : <<f[2], f[1]>> \in Faces /\ f[1] # f[2]
    /\ DynamicRupture \subseteq Faces
    /\ \A f \in DynamicRupture : <<f[2], f[1]>> \in DynamicRupture
    /\ MaxClusterId \in Nat

Ids == [Cells -> 0..MaxClusterId]

Below(a, b) == \A c \in Cells : a[c] <= b[c]

\* The rule, as a reference for the algorithms.
Admissible(ids) ==
    \A f \in Faces : ids[f[1]] <= ids[f[2]] + (IF f \in DynamicRupture THEN 0 ELSE 1)

AdmissibleIds == {ids \in Ids : Admissible(ids)}

\* Of each cell the largest id an admissible clustering below `ids' gives it.
GreatestBelow(ids) ==
    LET below == {a \in AdmissibleIds : Below(a, ids)}
    IN [c \in Cells |-> CHOOSE v \in 0..MaxClusterId :
            /\ \E a \in below : a[c] = v
            /\ \A a \in below : a[c] <= v]

Minimum(a, b) == IF a <= b THEN a ELSE b

EnforceMaxClusterId(ids, maxClusterId) == [c \in Cells |-> Minimum(ids[c], maxClusterId)]

=============================================================================
