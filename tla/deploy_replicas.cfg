\* The UI deploys to two clusters at once and nothing fails.
SPECIFICATION Spec
CONSTANTS
  p1 = p1
  p2 = p2
  c1 = c1
  c2 = c2
  t1 = t1
  t2 = t2
  None = None
  Procs <- Procs2
  Clusters <- Clusters2
  Tpls <- Tpls2
  Replicas <- Replicas1
  MaxConns = 2
  Faults <- NoFaults
  Serial = TRUE
  MaxRequests = 2
  MaxId = 2
  Running <- NoClusters
  Offered <- DeployOnly
INVARIANT ReplicasRecorded
CHECK_DEADLOCK FALSE
