\* Every kind of administration page: dialog, confirmations, trash, answers in any order.
SPECIFICATION Spec
CONSTANTS
  r1 = r1
  r2 = r2
  s1 = s1
  s2 = s2
  Cases <- Cases2
  Ids <- Ids2
  Slots <- Slots2
  MaxActs = 3
INVARIANTS TypeOK DialogRecovers ListIsTrue
PROPERTIES DeletesAsAsked SavesWhatWasOpened
SYMMETRY Symmetry
CHECK_DEADLOCK FALSE
