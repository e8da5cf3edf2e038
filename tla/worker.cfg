\* Two consumers, two connections, every fault.  It stops when every message is settled.
SPECIFICATION Spec
CONSTANTS
  m1 = m1
  m2 = m2
  Messages <- Messages2
  Concurrency = 2
  MaxConns = 2
  Faults <- AllFaults
INVARIANTS TypeOK NothingIsLost OncePerConnection StaleAreStopped
PROPERTY QueueIsServed
CHECK_DEADLOCK FALSE
