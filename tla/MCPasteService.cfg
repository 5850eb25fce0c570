SPECIFICATION ServiceSpec
CONSTANTS
  h1 = h1  h2 = h2
  i1 = i1  i2 = i2
  envelope = envelope
  he = he  hp = hp
  Null = Null
  Clients = {h1, h2, w1}
  Handlers = {h1, h2}
  Workers = {w1}
  Ids = {i1, i2}
  Blobs = {envelope}
  Hashes = {he, hp}
  HashOf <- MCHashOf
  PlainHashOf <- MCPlainHashOf
  TTLs = {1}
  Remote = TRUE
  Skew = 2
  MaxTime = 4
  MaxBans = 1
  MaxCrashes = 1
SYMMETRY Symmetry
INVARIANTS
  ServiceTypeOK
  ServedOnce
  GoneStaysGone
  DoneIsErased
PROPERTIES
  ErasedForReason
CHECK_DEADLOCK FALSE
