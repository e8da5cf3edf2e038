\* Every kind of page: tabs, deletion, creation, polling and publishing, answers in any order.
SPECIFICATION Spec
CONSTANTS
  s1 = s1
  s2 = s2
  Kinds <- DistinctKinds
  Workloads <- Workloads3
  Ids <- Ids2
  Clusters <- Clusters2
  Slots <- Slots2
  MaxPolls = 2
  MaxActs = 2
  MaxOthers = 1
INVARIANTS TypeOK SelectionIsAsked ShownIsTrue
PROPERTIES LeftPageIsSilent DeletesWhatWasAsked
SYMMETRY Symmetry
CHECK_DEADLOCK FALSE
