SPECIFICATION ServerSpec
CONSTANTS
  Producers = {p1}
  Workers = {w1}
  Stoppers = {s1, s2}
  Ids = {i1}
  Capacity = 1
  Null = Null
PROPERTY EveryCallReturns
CHECK_DEADLOCK FALSE
