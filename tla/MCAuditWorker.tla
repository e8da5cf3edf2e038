---------------------------- MODULE MCAuditWorker ----------------------------
(***************************************************************************)
(* Instances of AuditWorker for TLC.                                       *)
(***************************************************************************)
EXTENDS AuditWorker

CONSTANTS m1, m2

Messages2 == {m1, m2}
AllFaults == FaultKinds
CloseOnly == {"close"}
=============================================================================
