\* An exchange, a reuse and the revocation of the refresh token.
SPECIFICATION Spec
CONSTANTS
  Requests = {r1, r2, r3}
  Codes = {c1}
  Clients = {k1}
  Users = {u1}
  Scopes = {}
  None = None
  GrantTypes <- AllGrants
  OneTime = {}
  Sliding = {}
  CodeLifetime = 1
  AccessLifetime = 1
  RefreshLifetime = 2
  MaxTime = 0
  Kinds = {"authorization_code", "refresh_token", "revoke_refresh"}
  Cleanup = FALSE
  Faults = FALSE

INVARIANT RevokedWithAccessToken
CHECK_DEADLOCK FALSE
