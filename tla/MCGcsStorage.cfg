SPECIFICATION Spec
CONSTANTS
  c1 = c1  c2 = c2
  i1 = i1  i2 = i2
  b1 = b1  b2 = b2
  Null = Null
  Clients = {c1, c2}
  Ids = {i1, i2}
  Blobs = {b1, b2}
  TTLs = {1}
  MaxTime = 2
  MaxFaults = 1
  MaxBans = 1
SYMMETRY Symmetry
INVARIANTS
  TypeOK
  ContentIntegrity
  BurnOnceOriginal
  BanChecked
CHECK_DEADLOCK FALSE
