SPECIFICATION Spec
CONSTANTS
  c1 = c1  c2 = c2
  i1 = i1  i2 = i2  i3 = i3
  cipher = cipher  envelope = envelope
  hc = hc  he = he
  Null = Null
  Clients = {c1, c2}
  Ids = {i1, i2, i3}
  Blobs = {cipher, envelope}
  Hashes = {hc, he}
  HashOf <- MCHashOf
  PlainHashOf <- MCPlainHashOf
  TTLs = {1}
  Remote = TRUE
  Skew = 0
  MaxTime = 2
  MaxBans = 1
SYMMETRY Symmetry
INVARIANTS
  TypeOK
  ReferentialIntegrity
  SingleCopy
  ContentIntegrity
  BurnOnce
  BanChecked
PROPERTY
  ImplementsStore
CHECK_DEADLOCK FALSE
