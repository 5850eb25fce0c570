SPECIFICATION Spec
CONSTANTS
  a = a  b = b  proxy = proxy
  Null = Null
  MaxRequests = 4
  Servers = {1, 2}
  Backends = {"redis", "firestore"}
  Addresses <- MCAddresses
  Enabled = TRUE
  TrustedCIDRs <- MCCIDRs
  TrustedHeaders <- MCHeaders
  HeaderNames = {"X-Forwarded-For", "X-Real-IP"}
  Loads <- MCLoads
  Offset <- MCOffset
  Window = 4
  MaxLag = 1
  MaxTries = 1
  MaxTime = 4
  GlobalLimit = 1
  ActionLimit = 1
INVARIANTS
  TypeOK
  WithinWindow
  RefusedForOwn
  ResetHonest
PROPERTY
  AllAnswered
CHECK_DEADLOCK FALSE
