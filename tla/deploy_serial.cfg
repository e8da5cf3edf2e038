\* One request at a time for each cluster, with every failure it can report.
SPECIFICATION Spec
CONSTANTS
  p1 = p1
  p2 = p2
  c1 = c1
  c2 = c2
  t1 = t1
  t2 = t2
  None = None
  Procs <- Procs2
  Clusters <- Clusters2
  Tpls <- Tpls2
  Replicas <- Replicas1
  MaxConns = 2
  Faults <- ToldFaults
  Serial = TRUE
  MaxRequests = 3
  MaxId = 3
  Running <- NoClusters
  Offered <- Kinds
INVARIANTS TypeOK InSyncUnlessUnsettled

SYMMETRY Symmetry
