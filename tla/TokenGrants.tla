------------------------------ MODULE TokenGrants ------------------------------
(***************************************************************************)
(* The token lifecycle of pkg/oauth over the tables of pkg/store: how the  *)
(* grants of the token endpoint (grants.go, token.go), the revocation      *)
(* endpoint (revoke.go), the bulk revocation of a disabled user or client  *)
(* (pkg/account, pkg/api) and the cleanup (store.DeleteExpired) interleave.*)
(*                                                                         *)
(* A request is a process.  It starts idle, is accepted with an input (its *)
(* job), and makes one atomic store call per action, because a handler     *)
(* runs concurrently with every other one and nothing wraps its calls in a *)
(* transaction.  Its last pc is its response.                              *)
(*                                                                         *)
(* Every request inserts at most one access token and at most one refresh  *)
(* token, and security.NewId never repeats, so the id of a token is the    *)
(* request that created it: access[r] and refresh[r] are the rows of r.    *)
(* A deleted row keeps its columns and has st = "gone": the columns of     *)
(* gone rows are history, which only properties read.                      *)
(***************************************************************************)
EXTENDS Integers, FiniteSets

CONSTANTS
  Requests,         \* HTTP requests, and with them the ids of the tokens
  Codes,            \* ids of authorization codes
  Clients,          \* registered clients
  Users,            \* accounts
  Scopes,           \* scope names
  None,             \* the empty column, "" in the code
  GrantTypes,       \* client -> the grants its registration allows
  OneTime,          \* clients with RefreshTokenUsage "onetime", the others "reuse"
  Sliding,          \* clients with RefreshTokenExpiration "sliding", the others "absolute"
  CodeLifetime, AccessLifetime, RefreshLifetime,
  MaxTime,          \* bound: the clock stops here
  Kinds,            \* bound: the kinds of request of the instance
  Cleanup,          \* the instance runs server.RunCleanup
  Faults            \* a store call may fail

Grants == Codes \cup Requests

GrantKinds == {"authorization_code", "password", "implicit", "client_credentials", "refresh_token"}
AdminKinds == {"revoke_access", "revoke_refresh", "disable"}

ASSUME ConstantAssumption ==
  /\ Codes \cap Requests = {}
  /\ Users \cap Clients = {}
  /\ Grants \cap (Users \cup Clients) = {}
  /\ None \notin Grants \cup Users \cup Clients
  /\ GrantTypes \in [Clients -> SUBSET GrantKinds]
  /\ OneTime \subseteq Clients
  /\ Sliding \subseteq Clients
  /\ {CodeLifetime, AccessLifetime, RefreshLifetime} \subseteq Nat \ {0}
  /\ MaxTime \in Nat
  /\ Kinds \subseteq GrantKinds \cup AdminKinds
  /\ {Cleanup, Faults} \subseteq BOOLEAN

VARIABLES
  now,      \* the clock behind Options.Now
  enabled,  \* the users that can sign in and the clients that are enabled
  codes,    \* table of authorization codes
  access,   \* table of access tokens
  refresh,  \* table of refresh tokens
  pc,       \* request -> the store call or check it makes next, or its response
  job,      \* request -> its input
  row,      \* request -> the code or refresh token it has read
  at,       \* request -> the clock it read when it checked the refresh token
  sweep,    \* the next store call of DeleteExpired
  sweepAt,  \* the expiry limit of the DeleteExpired that runs
  quiet     \* history: request -> nobody was in flight when its bulk revocation began

tables == <<codes, access, refresh>>
request == <<pc, job, row, at>>
cleaner == <<sweep, sweepAt>>
vars == <<now, enabled, codes, access, refresh, pc, job, row, at, sweep, sweepAt, quiet>>

(***************************************************************************)
(* Rows and inputs.  A code is the grant of its tokens; tokens issued      *)
(* without a code have an empty AuthorizationCodeId in the code and their  *)
(* first request as grant here, which no filter of the code can name.      *)
(***************************************************************************)
Row == [st : {"none", "unused", "used", "live", "gone"},
        grant : Grants \cup {None},
        client : Clients \cup {None},
        user : Users \cup {None},
        scopes : SUBSET Scopes,
        exp : Nat,
        access : Requests \cup {None}]

NoRow == [st |-> "none", grant |-> None, client |-> None, user |-> None,
          scopes |-> {}, exp |-> 0, access |-> None]

\* `valid` stands for the checks on the request alone that this module abstracts:
\* redirect_uri and code_verifier of an exchange, the password, and for a refresh
\* whether the client's registration, which an administrator may edit at any time,
\* still allows the scopes.
Job == [kind : GrantKinds \cup AdminKinds \cup {"none"},
        target : Grants \cup Users \cup Clients \cup {None},
        client : Clients \cup {None},
        user : Users \cup {None},
        scopes : SUBSET Scopes,
        valid : BOOLEAN]

NoJob == [kind |-> "none", target |-> None, client |-> None, user |-> None,
          scopes |-> {}, valid |-> TRUE]

Responses == {"ok", "invalid_grant", "already_used", "error"}

\* The steps between acceptance and response: all are store calls but the two checks.
Checks == {"check_code", "check_refresh"}
StoreCalls ==
  {"get_code", "consume", "authenticate", "get_user", "create_access", "create_refresh",
   "get_refresh", "delete_previous", "rotate", "undo", "update",
   "revoke_first", "revoke_second", "get_access", "drop_refresh", "drop_access",
   "get_subject", "disable"}

TypeOK ==
  /\ now \in Nat
  /\ enabled \in SUBSET (Users \cup Clients)
  /\ codes \in [Codes -> Row]
  /\ access \in [Requests -> Row]
  /\ refresh \in [Requests -> Row]
  /\ pc \in [Requests -> {"idle"} \cup Checks \cup StoreCalls \cup Responses]
  /\ job \in [Requests -> Job]
  /\ row \in [Requests -> Row]
  /\ at \in [Requests -> Nat]
  /\ sweep \in {"access", "refresh", "codes"}
  /\ sweepAt \in Nat
  /\ quiet \in [Requests -> BOOLEAN]

Init ==
  /\ now = 0
  /\ enabled = Users \cup Clients
  /\ codes = [c \in Codes |-> NoRow]
  /\ access = [r \in Requests |-> NoRow]
  /\ refresh = [r \in Requests |-> NoRow]
  /\ pc = [r \in Requests |-> "idle"]
  /\ job = [r \in Requests |-> NoJob]
  /\ row = [r \in Requests |-> NoRow]
  /\ at = [r \in Requests |-> 0]
  /\ sweep = "access"
  /\ sweepAt = 0
  /\ quiet = [r \in Requests |-> FALSE]

--------------------------------------------------------------------------------
(***************************************************************************)
(* Store primitives                                                        *)
(***************************************************************************)

\* HasExpired of every row: the instant of expiry is expired.
HasExpired(x, time) == time >= x.exp

\* Bulk and single deletes: a row that is not there is not counted, or ErrNotFound.
Purge(table, ids) ==
  [i \in DOMAIN table |->
     IF i \in ids /\ table[i].st = "live" THEN [table[i] EXCEPT !.st = "gone"] ELSE table[i]]

Delete(table, id) == Purge(table, {id})

Goto(r, l) == pc' = [pc EXCEPT ![r] = l]

--------------------------------------------------------------------------------
(***************************************************************************)
(* The environment: the clock, the authorization endpoint handing out a    *)
(* code, and the requests that arrive.  A request presents a code or a     *)
(* token value only after the response that carried it.                    *)
(***************************************************************************)

Tick ==
  /\ now < MaxTime
  /\ now' = now + 1
  /\ UNCHANGED <<enabled, codes, access, refresh, pc, job, row, at, sweep, sweepAt, quiet>>

\* The endpoint has found the client enabled and the user able to sign in, but at any time
\* before: either may have been disabled meanwhile.
IssueCode(c, k, u, S) ==
  /\ codes[c].st = "none"
  /\ "authorization_code" \in GrantTypes[k]
  /\ codes' = [codes EXCEPT ![c] =
                 [st |-> "unused", grant |-> c, client |-> k, user |-> u,
                  scopes |-> S, exp |-> now + CodeLifetime, access |-> None]]
  /\ UNCHANGED <<now, enabled, access, refresh, pc, job, row, at, sweep, sweepAt, quiet>>

\* AuthenticateClient has found the client enabled, and the grant type is allowed for it.
Accept(r, j, l) ==
  /\ pc[r] = "idle"
  /\ j.kind \in Kinds
  /\ job' = [job EXCEPT ![r] = j]
  /\ Goto(r, l)
  /\ UNCHANGED <<now, enabled, codes, access, refresh, row, at, sweep, sweepAt, quiet>>

AcceptExchange(r, c, k, valid) ==
  /\ codes[c].st # "none"
  /\ k \in enabled /\ "authorization_code" \in GrantTypes[k]
  /\ Accept(r, [NoJob EXCEPT !.kind = "authorization_code", !.target = c, !.client = k,
                             !.valid = valid], "get_code")

AcceptPassword(r, k, u, S, valid) ==
  /\ k \in enabled /\ "password" \in GrantTypes[k]
  /\ Accept(r, [NoJob EXCEPT !.kind = "password", !.client = k, !.user = u,
                             !.scopes = S, !.valid = valid], "authenticate")

AcceptImplicit(r, k, u, S) ==
  /\ k \in enabled /\ "implicit" \in GrantTypes[k]
  /\ Accept(r, [NoJob EXCEPT !.kind = "implicit", !.client = k, !.user = u,
                             !.scopes = S], "authenticate")

AcceptClientCredentials(r, k, S) ==
  /\ k \in enabled /\ "client_credentials" \in GrantTypes[k]
  /\ Accept(r, [NoJob EXCEPT !.kind = "client_credentials", !.client = k, !.scopes = S],
            "create_access")

AcceptRefresh(r, t, k, S, valid) ==
  /\ refresh[t].st # "none" /\ pc[t] = "ok"
  /\ k \in enabled /\ "refresh_token" \in GrantTypes[k]
  /\ Accept(r, [NoJob EXCEPT !.kind = "refresh_token", !.target = t, !.client = k,
                             !.scopes = S, !.valid = valid], "get_refresh")

AcceptRevokeAccess(r, a, k) ==
  /\ access[a].st # "none" /\ pc[a] = "ok"
  /\ k \in enabled
  /\ Accept(r, [NoJob EXCEPT !.kind = "revoke_access", !.target = a, !.client = k], "get_access")

AcceptRevokeRefresh(r, t, k) ==
  /\ refresh[t].st # "none" /\ pc[t] = "ok"
  /\ k \in enabled
  /\ Accept(r, [NoJob EXCEPT !.kind = "revoke_refresh", !.target = t, !.client = k], "get_refresh")

AcceptDisable(r, x) ==
  Accept(r, [NoJob EXCEPT !.kind = "disable", !.target = x], "get_subject")

--------------------------------------------------------------------------------
(***************************************************************************)
(* authorizationCodeGrant, passwordGrant, clientCredentialsGrant and the   *)
(* implicit grant up to IssueTokens                                        *)
(***************************************************************************)

GetCode(r) ==
  /\ pc[r] = "get_code"
  /\ LET code == codes[job[r].target] IN
       \/ /\ code.st \in {"unused", "used"}
          /\ row' = [row EXCEPT ![r] = code]
          /\ Goto(r, "check_code")
       \/ /\ code.st = "gone"
          /\ Goto(r, "invalid_grant")
          /\ UNCHANGED row
  /\ UNCHANGED <<now, enabled, codes, access, refresh, job, at, sweep, sweepAt, quiet>>

ExchangeVerdict(code, j, time) ==
  IF code.client # j.client THEN "invalid_grant"
  ELSE IF code.st = "used" THEN "revoke_first"
  ELSE IF HasExpired(code, time) \/ ~j.valid THEN "invalid_grant"
  ELSE "consume"

CheckCode(r) ==
  /\ pc[r] = "check_code"
  /\ Goto(r, ExchangeVerdict(row[r], job[r], now))
  /\ UNCHANGED <<now, enabled, codes, access, refresh, job, row, at, sweep, sweepAt, quiet>>

\* Deviation: the stored consumed_at is not tested, only the copy that was read.
ConsumableUnchecked(code) == code.st \in {"unused", "used"}

\* The compare-and-set of ConsumeAuthorizationCode: only an unconsumed row changes.
Consumable(code) == code.st = "unused"

\* ErrConflict leads to RevokeGrant, ErrNotFound (the cleanup was faster) to invalid_grant.
ConsumeCode(r) ==
  /\ pc[r] = "consume"
  /\ LET c == job[r].target IN
       \/ /\ Consumable(codes[c])
          /\ codes' = [codes EXCEPT ![c].st = "used"]
          /\ Goto(r, "get_user")
       \/ /\ ~Consumable(codes[c]) /\ codes[c].st = "used"
          /\ Goto(r, "revoke_first")
          /\ UNCHANGED codes
       \/ /\ codes[c].st = "gone"
          /\ Goto(r, "invalid_grant")
          /\ UNCHANGED codes
  /\ UNCHANGED <<now, enabled, access, refresh, job, row, at, sweep, sweepAt, quiet>>

CanSignIn(u) == u = None \/ u \in enabled

\* lookupUser of the exchange and of the refresh.
GetUser(r) ==
  /\ pc[r] = "get_user"
  /\ IF CanSignIn(row[r].user)
       THEN Goto(r, IF job[r].kind = "refresh_token" THEN "delete_previous" ELSE "create_access")
       ELSE Goto(r, "invalid_grant")
  /\ UNCHANGED <<now, enabled, codes, access, refresh, job, row, at, sweep, sweepAt, quiet>>

\* Accounts.Authenticate of the password grant; the session user and its CanSignIn in
\* HandleAuthorize for the implicit grant.
Authenticate(r) ==
  /\ pc[r] = "authenticate"
  /\ Goto(r, IF job[r].valid /\ CanSignIn(job[r].user) THEN "create_access" ELSE "invalid_grant")
  /\ UNCHANGED <<now, enabled, codes, access, refresh, job, row, at, sweep, sweepAt, quiet>>

--------------------------------------------------------------------------------
(***************************************************************************)
(* IssueTokens and the second half of refreshTokenGrant                    *)
(***************************************************************************)

GrantOf(r) ==
  CASE job[r].kind = "authorization_code" -> job[r].target
    [] job[r].kind = "refresh_token" -> row[r].grant
    [] OTHER -> r

\* Deviation: the two columns are swapped.
UserOfSwapped(r) == job[r].client

UserOf(r) ==
  IF job[r].kind \in {"authorization_code", "refresh_token"} THEN row[r].user ELSE job[r].user

\* An omitted scope parameter of a refresh stands for the scope of the token.
ScopesOf(r) ==
  CASE job[r].kind = "authorization_code" -> row[r].scopes
    [] job[r].kind = "refresh_token" /\ job[r].scopes = {} -> row[r].scopes
    [] OTHER -> job[r].scopes

AfterCreateAccess(r) ==
  CASE job[r].kind = "refresh_token" ->
         IF row[r].client \in OneTime THEN "rotate" ELSE "update"
    [] job[r].kind \in {"authorization_code", "password"}
         /\ "refresh_token" \in GrantTypes[job[r].client] -> "create_refresh"
    [] OTHER -> "ok"

CreateAccess(r) ==
  /\ pc[r] = "create_access"
  /\ access' = [access EXCEPT ![r] =
                  [st |-> "live", grant |-> GrantOf(r), client |-> job[r].client,
                   user |-> UserOf(r), scopes |-> ScopesOf(r),
                   exp |-> now + AccessLifetime, access |-> None]]
  /\ Goto(r, AfterCreateAccess(r))
  /\ UNCHANGED <<now, enabled, codes, refresh, job, row, at, sweep, sweepAt, quiet>>

\* Deviation: a rotation restarts every lifetime.
RotatedExpiryRestarted(old, time) == time + RefreshLifetime

\* rotatedExpiresAt, and Touch for a token that is reused.
RotatedExpiry(old, time) ==
  IF old.client \in Sliding THEN time + RefreshLifetime ELSE old.exp

\* Deviation: the rotated token takes the scope of the new access token.
RefreshScopesNarrowed(r) == access[r].scopes

RefreshScopes(r) ==
  IF job[r].kind = "refresh_token" THEN row[r].scopes ELSE access[r].scopes

\* newRefreshToken for a first token, the rotated record for the others.
CreateRefresh(r) ==
  /\ pc[r] = "create_refresh"
  /\ refresh' = [refresh EXCEPT ![r] =
                   [st |-> "live", grant |-> GrantOf(r), client |-> job[r].client,
                    user |-> UserOf(r), scopes |-> RefreshScopes(r),
                    exp |-> IF job[r].kind = "refresh_token" THEN RotatedExpiry(row[r], at[r])
                                                             ELSE now + RefreshLifetime,
                    access |-> r]]
  /\ Goto(r, "ok")
  /\ UNCHANGED <<now, enabled, codes, access, job, row, at, sweep, sweepAt, quiet>>

--------------------------------------------------------------------------------
(***************************************************************************)
(* refreshTokenGrant, and the lookup it shares with the revocation         *)
(***************************************************************************)

GetRefresh(r) ==
  /\ pc[r] = "get_refresh"
  /\ LET token == refresh[job[r].target] IN
       \/ /\ token.st = "live"
          /\ row' = [row EXCEPT ![r] = token]
          /\ IF job[r].kind = "refresh_token" THEN Goto(r, "check_refresh")
             ELSE Goto(r, IF token.client = job[r].client THEN "drop_refresh" ELSE "ok")
       \/ /\ token.st = "gone"
          /\ Goto(r, IF job[r].kind = "refresh_token" THEN "invalid_grant" ELSE "ok")
          /\ UNCHANGED row
  /\ UNCHANGED <<now, enabled, codes, access, refresh, job, at, sweep, sweepAt, quiet>>

\* Deviation: the requested scope is not compared with the scope of the token.
RefreshAllowedAnyScope(token, j, time) ==
  token.client = j.client /\ ~HasExpired(token, time) /\ j.valid

\* An invalid_scope refusal is answered like the others here: nothing was changed.
RefreshAllowed(token, j, time) ==
  token.client = j.client /\ ~HasExpired(token, time) /\ j.scopes \subseteq token.scopes /\ j.valid

CheckRefresh(r) ==
  /\ pc[r] = "check_refresh"
  /\ at' = [at EXCEPT ![r] = now]
  /\ Goto(r, IF RefreshAllowed(row[r], job[r], now) THEN "get_user" ELSE "invalid_grant")
  /\ UNCHANGED <<now, enabled, codes, access, refresh, job, row, sweep, sweepAt, quiet>>

\* Deviation: the previous access token is left to expire.
PreviousKept(r) == None

Previous(r) == row[r].access

DeletePrevious(r) ==
  /\ pc[r] = "delete_previous"
  /\ access' = Delete(access, Previous(r))
  /\ Goto(r, "create_access")
  /\ UNCHANGED <<now, enabled, codes, refresh, job, row, at, sweep, sweepAt, quiet>>

\* Deviation: a rotation does not mind that the row is already gone.
AfterRotateAlways(token) == "create_refresh"

\* ErrNotFound: another request has used the token.
AfterRotate(token) == IF token.st = "live" THEN "create_refresh" ELSE "undo"

Rotate(r) ==
  /\ pc[r] = "rotate"
  /\ refresh' = Delete(refresh, job[r].target)
  /\ Goto(r, AfterRotate(refresh[job[r].target]))
  /\ UNCHANGED <<now, enabled, codes, access, job, row, at, sweep, sweepAt, quiet>>

\* Deviation: the access token of the slower rotation stays.
UndoneNothing(r) == None

Undone(r) == r

\* The error of this delete is ignored.
Undo(r) ==
  /\ pc[r] = "undo"
  /\ access' = Delete(access, Undone(r))
  /\ Goto(r, "invalid_grant")
  /\ UNCHANGED <<now, enabled, codes, refresh, job, row, at, sweep, sweepAt, quiet>>

\* Deviation: the update inserts the row when it is gone.
UpdatableUpsert(token) == token.st \in {"live", "gone"}

Updatable(token) == token.st = "live"

\* UpdateRefreshToken writes the copy that was read.  ErrNotFound answers server_error,
\* and the new access token stays.
UpdateRefresh(r) ==
  /\ pc[r] = "update"
  /\ LET t == job[r].target IN
       \/ /\ Updatable(refresh[t])
          /\ refresh' = [refresh EXCEPT ![t] =
                           [row[r] EXCEPT !.access = r, !.exp = RotatedExpiry(row[r], at[r])]]
          /\ Goto(r, "ok")
       \/ /\ ~Updatable(refresh[t])
          /\ Goto(r, "error")
          /\ UNCHANGED refresh
  /\ UNCHANGED <<now, enabled, codes, access, job, row, at, sweep, sweepAt, quiet>>

--------------------------------------------------------------------------------
(***************************************************************************)
(* Bulk revocation: RevokeGrant of a replayed code, and RevokeTokens of a  *)
(* user or client that is disabled                                         *)
(***************************************************************************)

GetSubject(r) ==
  /\ pc[r] = "get_subject"
  /\ Goto(r, IF job[r].target \in enabled THEN "disable" ELSE "ok")
  /\ UNCHANGED <<now, enabled, codes, access, refresh, job, row, at, sweep, sweepAt, quiet>>

Disable(r) ==
  /\ pc[r] = "disable"
  /\ enabled' = enabled \ {job[r].target}
  /\ Goto(r, "revoke_first")
  /\ UNCHANGED <<now, codes, access, refresh, job, row, at, sweep, sweepAt, quiet>>

\* matchToken for the one column a bulk revocation names: the code of a replay, the user
\* or the client otherwise.
Matches(x, target) == target \in {x.grant, x.client, x.user}

\* Deviation: the access tokens first, as the cleanup does it.
RevocationOrderSwapped == <<"access", "refresh">>

RevocationOrder == <<"refresh", "access">>

DeleteMatching(table, target) ==
  LET Hits(rows) == {i \in Requests : Matches(rows[i], target)} IN
  /\ refresh' = IF table = "refresh" THEN Purge(refresh, Hits(refresh)) ELSE refresh
  /\ access' = IF table = "access" THEN Purge(access, Hits(access)) ELSE access

\* The steps in which a request can still insert a token: past its last check of what r
\* revokes.  A request of a client is past that check from its start.
Entering == {"get_code", "check_code", "consume", "authenticate", "get_refresh"}
Issuing == {"check_refresh", "get_user", "delete_previous", "create_access", "rotate",
            "create_refresh", "update"}

InFlight(q, target) ==
  \/ /\ pc[q] \in Issuing
     /\ target \in {GrantOf(q), UserOf(q), job[q].client}
  \/ pc[q] \in Entering /\ target = job[q].client

RevokeFirst(r) ==
  /\ pc[r] = "revoke_first"
  /\ DeleteMatching(RevocationOrder[1], job[r].target)
  /\ quiet' = [quiet EXCEPT ![r] = \A q \in Requests : ~InFlight(q, job[r].target)]
  /\ Goto(r, "revoke_second")
  /\ UNCHANGED <<now, enabled, codes, job, row, at, sweep, sweepAt>>

RevokeSecond(r) ==
  /\ pc[r] = "revoke_second"
  /\ DeleteMatching(RevocationOrder[2], job[r].target)
  /\ Goto(r, IF job[r].kind = "disable" THEN "ok" ELSE "already_used")
  /\ UNCHANGED <<now, enabled, codes, job, row, at, sweep, sweepAt, quiet>>

--------------------------------------------------------------------------------
(***************************************************************************)
(* revoke: the token endpoint of RFC 7009.  The lookup in the table of the *)
(* other kind finds nothing and is left out.                               *)
(***************************************************************************)

GetAccess(r) ==
  /\ pc[r] = "get_access"
  /\ LET token == access[job[r].target] IN
       Goto(r, IF token.st = "live" /\ token.client = job[r].client THEN "drop_access" ELSE "ok")
  /\ UNCHANGED <<now, enabled, codes, access, refresh, job, row, at, sweep, sweepAt, quiet>>

DropRefresh(r) ==
  /\ pc[r] = "drop_refresh"
  /\ refresh' = Delete(refresh, job[r].target)
  /\ Goto(r, "drop_access")
  /\ UNCHANGED <<now, enabled, codes, access, job, row, at, sweep, sweepAt, quiet>>

DropAccess(r) ==
  /\ pc[r] = "drop_access"
  /\ access' = Delete(access, IF job[r].kind = "revoke_access" THEN job[r].target ELSE row[r].access)
  /\ Goto(r, "ok")
  /\ UNCHANGED <<now, enabled, codes, refresh, job, row, at, sweep, sweepAt, quiet>>

--------------------------------------------------------------------------------
(***************************************************************************)
(* DeleteExpired, called at every interval by RunCleanup.  Its limit is    *)
(* read once, before the first delete.                                     *)
(***************************************************************************)

\* Deviation: only rows that expire before the limit.
ExpiredBeforeStrict(x, limit) == x.exp < limit

ExpiredBefore(x, limit) == x.exp <= limit

SweepAccess ==
  /\ Cleanup /\ sweep = "access"
  /\ sweepAt' = now
  /\ access' = Purge(access, {a \in Requests : ExpiredBefore(access[a], now)})
  /\ sweep' = "refresh"
  /\ UNCHANGED <<now, enabled, codes, refresh, pc, job, row, at, quiet>>

SweepRefresh ==
  /\ sweep = "refresh"
  /\ refresh' = Purge(refresh, {t \in Requests : ExpiredBefore(refresh[t], sweepAt)})
  /\ sweep' = "codes"
  /\ UNCHANGED <<now, enabled, codes, access, pc, job, row, at, sweepAt, quiet>>

SweepCodes ==
  /\ sweep = "codes"
  /\ codes' = [c \in Codes |->
                 IF codes[c].st \in {"unused", "used"} /\ ExpiredBefore(codes[c], sweepAt)
                   THEN [codes[c] EXCEPT !.st = "gone"] ELSE codes[c]]
  /\ sweep' = "access"
  /\ sweepAt' = 0
  /\ UNCHANGED <<now, enabled, access, refresh, pc, job, row, at, quiet>>

--------------------------------------------------------------------------------
(***************************************************************************)
(* A store call that fails, or a handler that dies before it: what the     *)
(* earlier calls did stays done.  Only the undo ignores its error.         *)
(***************************************************************************)

Fail(r) ==
  /\ Faults
  /\ pc[r] \in StoreCalls
  /\ Goto(r, IF pc[r] = "undo" THEN "invalid_grant" ELSE "error")
  /\ UNCHANGED <<now, enabled, codes, access, refresh, job, row, at, sweep, sweepAt, quiet>>

SweepFail ==
  /\ Faults
  /\ sweep # "access"
  /\ sweep' = "access"
  /\ sweepAt' = 0
  /\ UNCHANGED <<now, enabled, codes, access, refresh, pc, job, row, at, quiet>>

--------------------------------------------------------------------------------
Arrive(r) ==
  \/ \E c \in Codes, k \in Clients, valid \in BOOLEAN : AcceptExchange(r, c, k, valid)
  \/ \E k \in Clients, u \in Users, S \in SUBSET Scopes, valid \in BOOLEAN :
       AcceptPassword(r, k, u, S, valid)
  \/ \E k \in Clients, u \in Users, S \in SUBSET Scopes : AcceptImplicit(r, k, u, S)
  \/ \E k \in Clients, S \in SUBSET Scopes : AcceptClientCredentials(r, k, S)
  \/ \E t \in Requests, k \in Clients, S \in SUBSET Scopes, valid \in BOOLEAN :
       AcceptRefresh(r, t, k, S, valid)
  \/ \E a \in Requests, k \in Clients : AcceptRevokeAccess(r, a, k)
  \/ \E t \in Requests, k \in Clients : AcceptRevokeRefresh(r, t, k)
  \/ \E x \in Users \cup Clients : AcceptDisable(r, x)

Advance(r) ==
  \/ GetCode(r) \/ CheckCode(r) \/ ConsumeCode(r) \/ GetUser(r) \/ Authenticate(r)
  \/ CreateAccess(r) \/ CreateRefresh(r)
  \/ GetRefresh(r) \/ CheckRefresh(r) \/ DeletePrevious(r)
  \/ Rotate(r) \/ Undo(r) \/ UpdateRefresh(r)
  \/ GetSubject(r) \/ Disable(r) \/ RevokeFirst(r) \/ RevokeSecond(r)
  \/ GetAccess(r) \/ DropRefresh(r) \/ DropAccess(r)

Sweep == SweepAccess \/ SweepRefresh \/ SweepCodes

Next ==
  \/ Tick
  \/ \E c \in Codes, k \in Clients, u \in Users, S \in SUBSET Scopes : IssueCode(c, k, u, S)
  \/ \E r \in Requests : Arrive(r) \/ Advance(r) \/ Fail(r)
  \/ Sweep \/ SweepFail

Spec == Init /\ [][Next]_vars

\* A handler that was accepted runs on, and the ticker of RunCleanup keeps ticking: a sweep
\* that fails is tried again at the next interval, and its deletes do not fail forever.
FairSpec ==
  /\ Spec
  /\ \A r \in Requests : WF_vars(Advance(r))
  /\ WF_vars(Sweep)
  /\ SF_vars(SweepRefresh)

--------------------------------------------------------------------------------
(***************************************************************************)
(* Safety properties                                                       *)
(***************************************************************************)

Live(table) == {i \in Requests : table[i].st = "live"}
Stored(table) == {i \in Requests : table[i].st # "none"}
Answered(r) == pc[r] \in Responses
Quiescent == \A r \in Requests : pc[r] \in Responses \cup {"idle"}

\* However exchanges, rotations, revocations and the cleanup interleave, a grant never has
\* two refresh tokens that work (the compare-and-set of ConsumeAuthorizationCode, and the
\* delete before the insert of a rotation).
OneRefreshToken ==
  \A t, u \in Live(refresh) : refresh[t].grant = refresh[u].grant => t = u

\* An authorization code, and a refresh token of usage "onetime", is answered with tokens
\* at most once, for any number of concurrent requests that present it.
SingleUse ==
  \A q, r \in Requests :
    /\ pc[q] = "ok" /\ pc[r] = "ok"
    /\ job[q].kind = job[r].kind /\ job[q].target = job[r].target
    /\ \/ job[r].kind = "authorization_code"
       \/ job[r].kind = "refresh_token" /\ job[r].client \in OneTime
    => q = r

\* A request that is refused leaves no access token behind, though the slower of two
\* rotations stored one before it learned that it is refused (grants.go:213-217).
RefusedLeavesNothing ==
  \A r \in Requests : pc[r] \in {"invalid_grant", "already_used"} => access[r].st # "live"

\* With rotated refresh tokens every refresh replaces the access token of the grant: once
\* their requests are answered, no two access tokens of one grant are alive together.
OneAccessToken ==
  \A a, b \in Live(access) :
    /\ access[a].grant = access[b].grant /\ access[a].client \in OneTime
    /\ Answered(a) /\ Answered(b)
    => a = b

\* The scope of a grant is fixed when it begins: every refresh token of the grant has it,
\* whatever narrower scopes the refreshes before it asked for, and no access token has more.
ScopesKept ==
  \A t \in Stored(refresh) :
    /\ \A u \in Stored(refresh) :
         refresh[u].grant = refresh[t].grant => refresh[u].scopes = refresh[t].scopes
    /\ \A a \in Stored(access) :
         access[a].grant = refresh[t].grant => access[a].scopes \subseteq refresh[t].scopes
    /\ refresh[t].grant \in Codes => refresh[t].scopes = codes[refresh[t].grant].scopes

\* An absolute lifetime counts from the first refresh token of the grant: no chain of
\* rotations or reuses moves it.
AbsoluteExpiryKept ==
  \A t, u \in Stored(refresh) :
    refresh[t].grant = refresh[u].grant /\ refresh[t].client \notin Sliding
    => refresh[t].exp = refresh[u].exp

\* Revoking a grant, a user or a client leaves nothing of it, although it is two deletes:
\* if no request past its checks was in flight when the first one ran, then once the
\* revocation is answered no token it covers is alive again, whoever arrives later.
RevocationComplete ==
  \A r \in Requests :
    quiet[r] /\ pc[r] \in {"ok", "already_used"} =>
      /\ \A t \in Live(refresh) : ~Matches(refresh[t], job[r].target)
      /\ \A a \in Live(access) : ~Matches(access[a], job[r].target)

\* What the README says of a code that is used a second time: every token issued for it is
\* revoked, so none is alive when every request is answered.
ReplayRevokesEverything ==
  Quiescent => \A r \in Requests :
    pc[r] = "already_used" =>
      /\ \A t \in Live(refresh) : refresh[t].grant # job[r].target
      /\ \A a \in Live(access) : access[a].grant # job[r].target

\* What HandleRevoke says: revoking a refresh token also revokes its access token, the one
\* the deleted row names.
RevokedWithAccessToken ==
  Quiescent => \A r \in Requests :
    pc[r] = "ok" /\ job[r].kind = "revoke_refresh" /\ job[r].client = refresh[job[r].target].client
    => access[refresh[job[r].target].access].st # "live"

(***************************************************************************)
(* Liveness                                                                *)
(***************************************************************************)

\* The cleanup gets every expired token: it is deleted, or a refresh that was in flight
\* extends it past the clock.
ExpiredRemoved ==
  \A i \in Requests :
    /\ (access[i].st = "live" /\ HasExpired(access[i], now)) ~> access[i].st = "gone"
    /\ (refresh[i].st = "live" /\ HasExpired(refresh[i], now))
         ~> (refresh[i].st = "gone" \/ ~HasExpired(refresh[i], now))

(***************************************************************************)
(* The detailed model implements RefreshRight: a grant's right to refresh. *)
(***************************************************************************)

\* A request that will store a refresh token for g if nothing stops it.
Pending(r, g) ==
  \/ /\ job[r].kind = "authorization_code" /\ job[r].target = g
     /\ pc[r] \in {"get_user", "create_access", "create_refresh"}
  \/ /\ job[r].kind \in {"password", "implicit", "client_credentials"} /\ r = g
     /\ pc[r] \in {"authenticate", "create_access", "create_refresh"}
  \/ /\ job[r].kind = "refresh_token" /\ row[r].grant = g
     /\ pc[r] = "create_refresh"

Fresh(g) == IF g \in Codes THEN codes[g].st = "none" ELSE pc[g] = "idle"

RightOf(g) ==
  IF \E t \in Live(refresh) : refresh[t].grant = g THEN "token"
  ELSE IF \E r \in Requests : Pending(r, g) THEN "inflight"
  ELSE IF g \in Codes /\ codes[g].st = "unused" THEN "code"
  ELSE IF Fresh(g) THEN "unissued"
  ELSE "over"

Right == INSTANCE RefreshRight WITH right <- [g \in Grants |-> RightOf(g)]

\* Once a grant is over (revoked, expired, refused or failed) nothing brings it back: not
\* a rotation, an update or a replay that was in flight.
ImplementsRefreshRight == Right!Spec

================================================================================
