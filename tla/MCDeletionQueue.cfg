SPECIFICATION Spec
CONSTANTS
  Producers = {p1, p2}
  Workers = {w1, w2}
  Stoppers = {s1, s2}
  Ids = {i1, i2, i3}
  Capacity = 1
  Null = Null
INVARIANTS
  TypeOK
  NoPanic
  ExactlyOnce
  GracefulDrain
  DoomedByTimeout
PROPERTIES
  ImplementsTasks
  PoolEnds
CHECK_DEADLOCK FALSE
