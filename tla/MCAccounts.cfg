\* Three concurrent requests of every kind on one registered user and one address to move
\* to or to register: the store keeps addresses unique, a deletion is final, links are used
\* up or replaced, and what ends sessions ends them for good.  Requests may all be answered,
\* so the system may stop.
SPECIFICATION Spec
CONSTANTS
  u1 = u1
  e1 = e1
  p1 = p1
  Requests = {r1, r2, r3}
  Existing = {u1}
  Emails = {e1, e2}
  Passwords = {p1, p2}
  None = None
  SeedEmail <- Alice
  SeedPassword <- AlicePassword
  RequireActivation = TRUE
  MaxFailedAttempts = 2
  LockoutDuration = 1
  LinkLifetime = 1
  SessionLifetime = 2
  MaxTime = 1
  NewAccounts <- Newcomers
  Kinds = {"register", "create", "invite", "resend", "send_activation", "forgot", "send_reset", "activate", "reset", "login", "set_password", "update", "unlock", "delete"}
SYMMETRY Interchangeable
INVARIANTS TypeOK UniqueEmails GoneForGood LinksDie EndedStayEnded
 
CHECK_DEADLOCK FALSE
