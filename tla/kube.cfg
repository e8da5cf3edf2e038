\* Every kind of page on objects in the clusters: switches, edits, deletions and migrations.
SPECIFICATION Spec
CONSTANTS
  Kinds <- DistinctKinds
  Workloads <- Workloads2
  Clusters <- Clusters2
  MaxNet = 2
  MaxActs = 3
INVARIANTS TypeOK ShownIsOfCluster TextIsItsOwn MigrationIsWhole
PROPERTY OthersAreKept
CHECK_DEADLOCK FALSE
