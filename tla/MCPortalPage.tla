----------------------------- MODULE MCPortalPage -----------------------------
(***************************************************************************)
(* Instances of PortalPage for TLC.                                        *)
(***************************************************************************)
EXTENDS PortalPage, TLC

CONSTANTS s1, s2

Ids2 == {1, 2}
Clusters2 == {1, 2}
Slots2 == {s1, s2}

(* The tabs come and go; statuses are polled; publications change.         *)
Workloads3 == {{"tab", "delete", "create", "leave"},
               {"tab", "refresh", "leave", "poll"},
               {"tab", "publish", "leave", "others"}}

(* One of each of the kinds whose records are equal.                       *)
DistinctKinds == {"deployment", "statefulset", "configmap", "service", "ingress", "autoscale"}

Symmetry == Permutations(Slots)
===============================================================================
