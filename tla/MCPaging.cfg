\* Page by page through every list of every store, with rows that come and go.
SPECIFICATION Spec
CONSTANTS
  Ids = {1, 2, 3}
  alice = alice
  bob = bob
  Tags = {alice, bob}
  None = None
  MaxTime = 1
  MaxDepartures = 2
  DefaultLimit = 1
  MaxLimit = 2
  Limits <- Interesting
  Lists = {"clients", "users", "access_tokens", "refresh_tokens"}
  Backends = {"memory", "sql", "mongo"}
SYMMETRY Interchangeable
INVARIANTS TypeOK NoneMissed
CHECK_DEADLOCK FALSE
