----------------------------- MODULE MCKubePage ------------------------------
(***************************************************************************)
(* Instances of KubePage for TLC.                                          *)
(***************************************************************************)
EXTENDS KubePage

(* Kinds that differ from one another; the other namespaced ones are as    *)
(* configmap, some of them without the migration.                          *)
DistinctKinds == {"configmap", "clusterrole", "namespace", "node", "persistentvolume"}

Workloads2 == {{"switch", "edit"}, {"edit", "others"}, {"switch", "delete", "create"},
               {"migrate", "switch"}, {"refresh", "scope", "switch"}}

Clusters2 == {"a", "b"}
===============================================================================
