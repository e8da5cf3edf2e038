\* Every form that writes a template: opened, changed, edited as text, saved, reopened.
SPECIFICATION Spec
CONSTANTS
  Kinds <- DistinctKinds
  MaxStored = 3
  MaxOpenings = 2
  MaxChanges = 1
INVARIANTS TypeOK UnchangedIsKept UnreadIsNotSaved BusyIsSaving
CHECK_DEADLOCK FALSE
