\* Requests for one cluster overlap, with every failure a running API server survives; each ends, audited.  MaxRequests ends the behaviour.
SPECIFICATION Spec
CONSTANTS
  p1 = p1
  p2 = p2
  c1 = c1
  c2 = c2
  t1 = t1
  t2 = t2
  None = None
  Procs <- Procs2
  Clusters <- Clusters1
  Tpls <- Tpls2
  Replicas <- Replicas1
  MaxConns = 2
  Faults <- AuditFaults
  Serial = FALSE
  MaxRequests = 2
  MaxId = 3
  Running <- Clusters1
  Offered <- Kinds
INVARIANTS RecordedWasApplied AppliedIsAudited
PROPERTIES OnlyPublishChangesTemplate RequestsEnd
CHECK_DEADLOCK FALSE
