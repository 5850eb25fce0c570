SPECIFICATION MainSpec
CONSTANTS
  Producers = {p1, p2}
  Workers = {w1}
  Stoppers = {s1, s2}
  Main = s1
  Ids = {i1, i2}
  Capacity = 1
  Null = Null
INVARIANTS
  MainTypeOK
  HandlersFirst
  StorageLast
  SecretsLast
  ExitDrained
PROPERTIES
  OneReturns
  MainEnds
CHECK_DEADLOCK FALSE
