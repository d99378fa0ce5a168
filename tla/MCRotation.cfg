\* Every grant of a browser or a client, refreshes of every scope, both revocations and disabling, on one
\* client with one-time refresh tokens.  The clock stands still: all races, no expiry.
SPECIFICATION Spec
CONSTANTS
  Requests = {r1, r2, r3, r4}
  Codes = {c1}
  Clients = {k1}
  Users = {u1}
  Scopes = {s1, s2}
  None = None
  GrantTypes <- AllGrants
  OneTime = {k1}
  Sliding = {}
  CodeLifetime = 1
  AccessLifetime = 1
  RefreshLifetime = 2
  MaxTime = 0
  Kinds = {"authorization_code", "implicit", "client_credentials", "refresh_token", "revoke_access", "revoke_refresh", "disable"}
  Cleanup = FALSE
  Faults = FALSE
SYMMETRY Interchangeable
INVARIANTS OneRefreshToken SingleUse RefusedLeavesNothing OneAccessToken ScopesKept
CHECK_DEADLOCK FALSE
