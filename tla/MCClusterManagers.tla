-------------------------- MODULE MCClusterManagers --------------------------
(***************************************************************************)
(* Instances of ClusterManagers for TLC.                                   *)
(***************************************************************************)
EXTENDS ClusterManagers

CONSTANTS tick, r1, c1, good, good2, bad, m1, m2, m3, m4

Clusters1 == {c1}
Requests1 == {r1}
WithBad == {good, good2, bad}
Bad == {bad}
Managers4 == {m1, m2, m3, m4}
=============================================================================
