\* Publishes to a cluster come one at a time; everything else overlaps.
SPECIFICATION Spec
CONSTANTS
  p1 = p1
  p2 = p2
  c1 = c1
  c2 = c2
  t1 = t1
  t2 = t2
  None = None
  Procs <- Procs2
  Clusters <- Clusters2
  Tpls <- Tpls2
  MaxConns = 2
  Faults <- FaultKinds
  Serial = TRUE
  MaxId = 3
INVARIANTS TypeOK SerialOneRow NoOrphanLocks
PROPERTIES ImplementsBoard PublishedStaysPublished CallsReturn
