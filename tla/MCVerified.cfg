\* A reset link is mailed, the address is changed, the link is used.  Requests may all be
\* answered.
SPECIFICATION Spec
CONSTANTS
  u1 = u1
  e1 = e1
  p1 = p1
  Requests = {r1, r2, r3}
  Existing = {u1}
  Emails = {e1, e2}
  Passwords = {p1, p2}
  None = None
  SeedEmail <- Alice
  SeedPassword <- AlicePassword
  RequireActivation = TRUE
  MaxFailedAttempts = 0
  LockoutDuration = 1
  LinkLifetime = 1
  SessionLifetime = 2
  MaxTime = 0
  NewAccounts <- Nobody
  Kinds = {"forgot", "reset", "update"}
SYMMETRY Interchangeable
INVARIANTS VerifiedByOwner
CHECK_DEADLOCK FALSE
