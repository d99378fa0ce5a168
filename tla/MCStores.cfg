\* Calls in flight at once in every store and every table.
SPECIFICATION Spec
CONSTANTS
  Calls = {c1, c2, c3}
  i1 = i1
  i2 = i2
  i3 = i3
  k1 = k1
  k2 = k2
  o1 = o1
  Ids = {i1, i2}
  Keys = {k1, k2}
  Owners = {o1}
  None = None
  Times <- SomeTimes
  DBTime <- HalfTime
  Existing = {i1}
  SeedKey <- SomeKeys
  SeedOwner <- SomeOwners
  SeedExp <- SomeExps
  Tables = {"clients", "users", "access", "refresh", "codes", "links"}
  Kinds = {"get", "create", "update", "consume", "delete", "delete_many"}
  Exps = {3}
  Befores = {2}
  Backends = {"memory", "postgres", "mysql", "mongo"}
SYMMETRY Interchangeable
INVARIANTS UniqueKeys ConsumedOnce
PROPERTY ImplementsContract
CHECK_DEADLOCK FALSE
