-------------------------- MODULE MCKubeletMetrics --------------------------
(***************************************************************************)
(* A small instance of KubeletMetrics: a node that reports its capacity    *)
(* and one that reports no CPU; containers that use nothing, little or     *)
(* much; no limit, a CPU limit only, both.  The rules are those of         *)
(* config/rbac/profiler_sidecar_rbac.yaml, with and without nodes.         *)
(***************************************************************************)
EXTENDS KubeletMetrics

Amount(cpu, mem) == [r \in Resources |-> IF r = "cpu" THEN cpu ELSE mem]

MCCapacity == [n \in Nodes |-> IF n = "n1" THEN Amount(4, 8) ELSE Amount(0, 8)]
MCUsages == {Amount(0, 1), Amount(2, 6)}
MCLimits == {Amount(0, 0), Amount(2, 0), Amount(2, 4)}
MCThresholds == Amount(80, 80)

Shipped == {"pods", "nodes/proxy"}
MCRuleSets == {Shipped, Shipped \cup {"nodes"}}
ShippedOnly == {Shipped}
=============================================================================
