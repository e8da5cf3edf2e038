\* One consumer; the connection is lost once.
SPECIFICATION Spec
CONSTANTS
  m1 = m1
  m2 = m2
  Messages <- Messages2
  Concurrency = 1
  MaxConns = 2
  Faults <- CloseOnly
PROPERTY FailedIsRerun
CHECK_DEADLOCK FALSE
