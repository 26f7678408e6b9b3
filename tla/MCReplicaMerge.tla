--------------------------- MODULE MCReplicaMerge ---------------------------
(***************************************************************************)
(* Small instances of ReplicaMerge.                                        *)
(***************************************************************************)
EXTENDS ReplicaMerge
LOCAL INSTANCE TLC

\* Four replicas for B, which is enough for f = 1, and G on its own.
FourReplicas == {"B", "C", "D", "E"}
MCNode == FourReplicas \cup {"G"}
MCChildren == <<"B", "G">>
MCGroup == "B" :> FourReplicas

\* config/topology.json:103-140 gives each node a group of its own.
ShippedChildren == <<"B", "G", "H", "I">>
ShippedGroup ==
    [n \in {"A", "B", "C", "D", "E", "F", "G", "H", "I"} |-> {n}]
ShippedNode == DOMAIN ShippedGroup
=============================================================================
