\* Two publishes to one cluster overlap and nothing fails.
SPECIFICATION Spec
CONSTANTS
  p1 = p1
  p2 = p2
  c1 = c1
  c2 = c2
  t1 = t1
  t2 = t2
  None = None
  Procs <- Procs2
  Clusters <- Clusters1
  Tpls <- Tpls2
  MaxConns = 2
  Faults <- NoFaults
  Serial = FALSE
  MaxId = 3
INVARIANT OneRowPerCluster
