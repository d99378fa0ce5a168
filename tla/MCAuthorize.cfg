\* The authorization code flow of two clients, of which one requires consent, against the
\* administration of the clients.
SPECIFICATION Spec
CONSTANTS
  k1 = k1
  k2 = k2
  n1 = n1
  n2 = n2
  u1 = u1
  u2 = u2
  s1 = s1
  s2 = s2
  v1 = v1
  r1 = r1
  r2 = r2
  r3 = r3
  Requests = {r1, r2, r3}
  Existing = {k1, k2}
  ExistingName <- SomeNames
  ExistingReg <- SomeRegs
  Names = {n1, n2}
  Uris = {u1, u2}
  Scopes = {s1, s2}
  None = None
  Registrations <- SomeRegistrations
  Toggles = {FALSE, None}
  Kinds <- SomeKinds
  Users = {a1}
  Verifiers = {v1}
  Params <- SomeParams
  Restarts = 1
INVARIANTS TypeOK ApprovedRequest ExchangedByOwner RetiredStayRetired
PROPERTIES NothingOutdated DeletedGone
CHECK_DEADLOCK FALSE
