--------------------------- MODULE MCPublishStatus ---------------------------
(***************************************************************************)
(* Instances of PublishStatus for TLC.                                     *)
(***************************************************************************)
EXTENDS PublishStatus

CONSTANTS p1, p2, c1, c2, t1, t2

Procs2 == {p1, p2}
Clusters1 == {c1}
Clusters2 == {c1, c2}
Tpls2 == {t1, t2}

NoFaults == {}
=============================================================================
