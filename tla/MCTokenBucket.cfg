SPECIFICATION Spec
CONSTANTS
  c1 = c1  c2 = c2
  Null = Null
  Clients = {c1, c2}
  Keys = {k1}
  Limit = 2
  Period = 2
  Idle = 6
  MaxLag = 1
  MaxTime = 11
SYMMETRY Symmetry
INVARIANTS
  TypeOK
  WithinRate
PROPERTY
  RetryHonest
CHECK_DEADLOCK FALSE
