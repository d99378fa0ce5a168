\* Two exchanges of one code.
SPECIFICATION Spec
CONSTANTS
  Requests = {r1, r2}
  Codes = {c1}
  Clients = {k1}
  Users = {u1}
  Scopes = {}
  None = None
  GrantTypes <- AllGrants
  OneTime = {k1}
  Sliding = {}
  CodeLifetime = 1
  AccessLifetime = 1
  RefreshLifetime = 2
  MaxTime = 0
  Kinds = {"authorization_code"}
  Cleanup = FALSE
  Faults = FALSE

INVARIANT ReplayRevokesEverything
CHECK_DEADLOCK FALSE
