\* Sign-ins beside a change of the password: a sign-in that has read the user before the
\* change writes its copy back after it.  Requests may all be answered.
SPECIFICATION Spec
CONSTANTS
  u1 = u1
  e1 = e1
  p1 = p1
  Requests = {r1, r2, r3}
  Existing = {u1}
  Emails = {e1}
  Passwords = {p1, p2}
  None = None
  SeedEmail <- Alice
  SeedPassword <- AlicePassword
  RequireActivation = TRUE
  MaxFailedAttempts = 0
  LockoutDuration = 1
  LinkLifetime = 1
  SessionLifetime = 2
  MaxTime = 0
  NewAccounts <- Nobody
  Kinds = {"login", "set_password"}
SYMMETRY Interchangeable
INVARIANTS SessionsEnd
CHECK_DEADLOCK FALSE
