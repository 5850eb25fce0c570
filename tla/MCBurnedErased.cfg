SPECIFICATION ServiceSpec
CONSTANTS
  h1 = h1  h2 = h2
  i1 = i1  i2 = i2
  envelope = envelope
  he = he  hp = hp
  Null = Null
  Clients = {h1, w1}
  Handlers = {h1}
  Workers = {w1}
  Ids = {i1}
  Blobs = {envelope}
  Hashes = {he, hp}
  HashOf <- MCHashOf
  PlainHashOf <- MCPlainHashOf
  TTLs = {1}
  Remote = FALSE
  Skew = 0
  MaxTime = 2
  MaxBans = 0
  MaxCrashes = 0
PROPERTY BurnedErased
CHECK_DEADLOCK FALSE
