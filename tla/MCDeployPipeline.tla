-------------------------- MODULE MCDeployPipeline --------------------------
(***************************************************************************)
(* Instances of DeployPipeline for TLC.                                    *)
(***************************************************************************)
EXTENDS DeployPipeline, TLC

CONSTANTS p1, p2, c1, c2, t1, t2

Procs2 == {p1, p2}
NoClusters == {}
Clusters1 == {c1}
Clusters2 == {c1, c2}
Tpls2 == {t1, t2}
Replicas1 == {1}

(* Goroutines and templates are interchangeable; so are the clusters.      *)
Symmetry == Permutations(Procs) \cup Permutations(Tpls) \cup Permutations(Clusters)

NoFaults == {}
AllFaults == {"begin", "select", "delete", "insert", "commit", "read", "remove", "crash",
              "row", "kube", "meta", "history"}
(* The failures that a request tells its client about.                     *)
ToldFaults == AllFaults \ {"commit"}
(* The API server stays up and the history table takes its rows.           *)
AuditFaults == AllFaults \ {"crash", "history"}

DeployOnly == {"deploy"}
=============================================================================
