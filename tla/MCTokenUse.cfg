\* Each use of a token against exchanges, rotated refreshes, revocations and the disabling of its user.
SPECIFICATION UseSpec
CONSTANTS
  k1 = k1
  u1 = u1
  Requests = {r1, r2, r3}
  Codes = {c1}
  Clients = {k1}
  Users = {u1}
  Scopes = {}
  None = None
  GrantTypes <- AllGrants
  OneTime = {k1}
  Sliding = {}
  CodeLifetime = 1
  AccessLifetime = 1
  RefreshLifetime = 2
  MaxTime = 1
  Kinds = {"authorization_code", "refresh_token", "disable", "client_credentials"}
  Cleanup = FALSE
  Faults = FALSE
  Calls = {v1}
  Uses = {"resource", "introspect", "delete_access", "delete_refresh", "delete_many", "revoke_user"}
  Filters <- SomeFilters
SYMMETRY Interchangeable
INVARIANTS UseTypeOK RevocationComplete  DeletedGrantEnds RevokedGrantsEnd
CHECK_DEADLOCK FALSE
