\* The cleanup against a token of a code or a password that is reused and slides, one that is rotated until an
\* absolute expiry, and a revocation, with store calls that fail.  No symmetry, for the
\* liveness.
SPECIFICATION FairSpec
CONSTANTS
  Requests = {r1, r2}
  Codes = {c1}
  Clients = {k1, k2}
  Users = {u1}
  Scopes = {}
  None = None
  GrantTypes <- OneTimeFromCodes
  OneTime = {k2}
  Sliding = {k1}
  CodeLifetime = 1
  AccessLifetime = 1
  RefreshLifetime = 2
  MaxTime = 2
  Kinds = {"authorization_code", "refresh_token", "revoke_refresh", "password"}
  Cleanup = TRUE
  Faults = TRUE

INVARIANTS TypeOK AbsoluteExpiryKept
PROPERTIES ExpiredRemoved ImplementsRefreshRight
CHECK_DEADLOCK FALSE
