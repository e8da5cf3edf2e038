\* The timer, and maybe a request, build at once; the cluster may be impossible to build.
SPECIFICATION Spec
CONSTANTS
  tick = tick
  r1 = r1
  c1 = c1
  good = good
  good2 = good2
  bad = bad
  m1 = m1
  m2 = m2
  m3 = m3
  m4 = m4
  None = None
  Timer = tick
  Clusters <- Clusters1
  Requests <- Requests1
  Confs <- WithBad
  BadConfs <- Bad
  Managers <- Managers4
  MaxChanges = 2
INVARIANTS TypeOK RegisteredIsOpen AloneIsClean
PROPERTY Converges
